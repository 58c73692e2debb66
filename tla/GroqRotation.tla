---------------------------- MODULE GroqRotation ----------------------------
(***************************************************************************)
(* The Groq key pool of MIBO.LangChainService (agent/groq_provider.py):    *)
(* keys are handed out round robin to all requests of the process, and a   *)
(* request whose model call is rate limited tries again with the next key. *)
(*                                                                         *)
(* A request is one use of invoke_with_rotation or astream_with_rotation.  *)
(* Between two awaits a request runs alone (asyncio), so reacting to an    *)
(* error and drawing the next key is one step.                             *)
(***************************************************************************)
EXTENDS Integers, Sequences, FiniteSets

CONSTANTS
    Requests,   \* uses of the provider
    KeyCounts,  \* how many keys GROQ_API_KEYS may list
    MaxChunks   \* bound: how many chunks a model call yields

VARIABLES
    size,    \* how many keys the process found when it started
    index,   \* GroqKeyPool._index
    draws,   \* history: who drew each key so far, in order
    pc,      \* where a request is
    attempt, \* the loop variable of a request, from 0
    chunks   \* for each chunk a request has yielded, the attempt it is from

vars == <<size, index, draws, pc, attempt, chunks>>

Keys == 0 .. size - 1

\* A caught exception is re-raised: a rate limit, or anything else.
Ends == {"done", "rate_limited", "failed"}

\* No request rotates through more than three keys, or more than there are.
MaxAttempts == IF size > 1 THEN IF size < 3 THEN size ELSE 3 ELSE 1

\* The key handed out at the i-th draw, from 0.
KeyAt(i) == i % size

\* next_key, under the pool's lock.
NextKey(r) ==
    /\ index' = index + 1
    /\ UNCHANGED size
    /\ draws' = Append(draws, r)

\* An empty pool raises before anything is tried.
Start(r, kind) ==
    /\ pc[r] = "idle"
    /\ \/ /\ size > 0
          /\ NextKey(r)
          /\ pc' = [pc EXCEPT ![r] = kind]
       \/ /\ size = 0
          /\ pc' = [pc EXCEPT ![r] = "failed"]
          /\ UNCHANGED <<size, index, draws>>
    /\ UNCHANGED <<attempt, chunks>>

YieldChunk(r) ==
    /\ pc[r] = "astream"
    /\ Cardinality({i \in DOMAIN chunks[r] : chunks[r][i] = attempt[r]}) < MaxChunks
    /\ chunks' = [chunks EXCEPT ![r] = Append(@, attempt[r])]
    /\ UNCHANGED <<size, index, draws, pc, attempt>>

Complete(r) ==
    /\ pc[r] \in {"ainvoke", "astream"}
    /\ pc' = [pc EXCEPT ![r] = "done"]
    /\ UNCHANGED <<size, index, draws, attempt, chunks>>

\* Mutant of RateLimit: the key is looked up by the attempt, not drawn.
RateLimitSameKey(r) ==
    /\ pc[r] \in {"ainvoke", "astream"}
    /\ \/ /\ attempt[r] < MaxAttempts - 1
          /\ attempt' = [attempt EXCEPT ![r] = @ + 1]
          /\ UNCHANGED <<size, index, draws, pc>>
       \/ /\ attempt[r] >= MaxAttempts - 1
          /\ pc' = [pc EXCEPT ![r] = "rate_limited"]
          /\ UNCHANGED <<size, index, draws, attempt>>
    /\ UNCHANGED chunks

\* A rate-limit or authentication error: try the next key, or give up. Nothing
\* asks whether chunks were yielded already.
RateLimit(r) ==
    /\ pc[r] \in {"ainvoke", "astream"}
    /\ \/ /\ attempt[r] < MaxAttempts - 1
          /\ attempt' = [attempt EXCEPT ![r] = @ + 1]
          /\ NextKey(r)
          /\ UNCHANGED pc
       \/ /\ attempt[r] >= MaxAttempts - 1
          /\ pc' = [pc EXCEPT ![r] = "rate_limited"]
          /\ UNCHANGED <<size, index, draws, attempt>>
    /\ UNCHANGED chunks

OtherError(r) ==
    /\ pc[r] \in {"ainvoke", "astream"}
    /\ pc' = [pc EXCEPT ![r] = "failed"]
    /\ UNCHANGED <<size, index, draws, attempt, chunks>>

Init ==
    /\ size \in KeyCounts
    /\ index = 0
    /\ draws = <<>>
    /\ pc = [r \in Requests |-> "idle"]
    /\ attempt = [r \in Requests |-> 0]
    /\ chunks = [r \in Requests |-> <<>>]

Next ==
    \E r \in Requests :
        \/ \E kind \in {"ainvoke", "astream"} : Start(r, kind)
        \/ YieldChunk(r)
        \/ Complete(r)
        \/ RateLimit(r)
        \/ OtherError(r)

Spec == Init /\ [][Next]_vars

-----------------------------------------------------------------------------
(* What must hold                                                          *)

\* Every variable has its type, and every draw is known.
TypeOK ==
    /\ size \in KeyCounts
    /\ index = Len(draws)
    /\ draws \in Seq(Requests)
    /\ pc \in [Requests -> {"idle", "ainvoke", "astream"} \cup Ends]
    /\ attempt \in [Requests -> 0 .. MaxAttempts - 1]
    /\ \A r \in Requests : \A i \in DOMAIN chunks[r] : chunks[r][i] \in 0 .. attempt[r]

DrawsOf(r) == {i \in DOMAIN draws : draws[i] = r}
KeysTried(r) == {KeyAt(i - 1) : i \in DrawsOf(r)}

\* Draws of other requests between two of r's own.
Contended(r) ==
    \E i, j \in DrawsOf(r) : i < j /\ \E n \in i .. j : draws[n] # r

\* A request gives up on rate limits only after as many different keys as it is
\* allowed to try, unless other requests drew keys in between.
GivesUpAfterDistinctKeys ==
    \A r \in Requests :
        pc[r] = "rate_limited" =>
            \/ Cardinality(KeysTried(r)) = MaxAttempts
            \/ Contended(r)

\* A request is handed a key a second time only when every other key of the
\* pool was handed out in between.
NoKeyTwiceBeforeTheOthers ==
    \A r \in Requests : \A i, j \in DrawsOf(r) :
        i < j /\ KeyAt(i - 1) = KeyAt(j - 1) =>
            {KeyAt(n - 1) : n \in i .. j} = Keys

\* A request uses up the pool before it tries a key again or gives up.
RotationIsFair == TypeOK /\ GivesUpAfterDistinctKeys /\ NoKeyTwiceBeforeTheOthers

=============================================================================
