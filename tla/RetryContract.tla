---------------------------- MODULE RetryContract ----------------------------
(***************************************************************************)
(* What the retry pipeline promises about one failing call, without queues,*)
(* handlers or documents: the call is granted one further attempt at a     *)
(* time, and its chain of attempts ends at most once. The broker delivers  *)
(* at least once, and once it has delivered a message again the contract   *)
(* promises nothing more.                                                  *)
(***************************************************************************)
EXTENDS Naturals

CONSTANTS Calls,  \* correlation ids
          Limit   \* no attempt has a higher number

VARIABLES granted,  \* the last attempt granted to a call, 0 if none was
          fate,     \* what has become of a call's chain of retries
          repeated  \* the broker has delivered a message a second time

Settled == {"served", "dead", "lost"}

Init ==
    /\ granted = [c \in Calls |-> 0]
    /\ fate = [c \in Calls |-> "none"]
    /\ repeated = FALSE

\* The first retry is attempt 2; a later one follows the attempt before it. A
\* grant the broker never stored is lost at once.
Grant(c) ==
    /\ fate[c] \in {"none", "open"}
    /\ granted' = [granted EXCEPT ![c] = IF @ = 0 THEN 2 ELSE @ + 1]
    /\ granted'[c] <= Limit
    /\ \E f \in {"open", "lost"} : fate' = [fate EXCEPT ![c] = f]

\* An attempt succeeds, or the chain is given up.
Settle(c) ==
    /\ fate[c] = "open"
    /\ \E f \in Settled : fate' = [fate EXCEPT ![c] = f]
    /\ UNCHANGED granted

Next ==
    \/ /\ UNCHANGED repeated
       /\ \E c \in Calls : Grant(c) \/ Settle(c)
    \/ repeated'

Spec == Init /\ [][Next]_<<granted, fate, repeated>>

=============================================================================
