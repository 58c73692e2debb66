---------------------------- MODULE SpotifyTokens ----------------------------
(***************************************************************************)
(* The Spotify tokens of one user: RedisSpotifyTokenStore keeps them,      *)
(* SpotifyAuthController connects and disconnects the account, and the     *)
(* ActionService's calls get a valid access token from                     *)
(* SpotifyTokenRefresher, which refreshes it when it is about to expire.   *)
(* Two services use the store and nothing keeps their requests apart.      *)
(*                                                                         *)
(* A refresh token is a number, an access token the time Spotify ends it.  *)
(* Spotify either replaces a refresh token at every use or never does.     *)
(***************************************************************************)
EXTENDS Naturals, FiniteSets

CONSTANTS
    Calls,          \* calls for a token, and visits of the callback
    None,           \* no tokens in the store
    Life,           \* expires_in of an access token
    ExpiryBuffer,   \* the refresher's margin
    DefaultTtl,     \* how long the store keeps tokens
    MaxDelay,       \* bound: from Spotify's answer to the tokens being saved
    MaxClock,       \* bound: time
    MaxTokens       \* bound: refresh tokens Spotify issues

VARIABLES
    clock,
    store,      \* the key spotify:tokens:<user>
    rotates,    \* whether Spotify replaces refresh tokens
    issued,     \* refresh tokens Spotify has issued
    live,       \* refresh tokens it accepts
    pc,         \* where a call is
    job,        \* the refresh token a call read, and Spotify's answer
    \* history variables, read by no guard of the code
    lost,       \* refresh tokens replaced in an answer that was never saved
    disconnected \* the user disconnected the account after connecting it last

vars == <<clock, store, rotates, issued, live, pc, job, lost, disconnected>>

RefreshToken == 0..MaxTokens
Tokens == [access : Nat, refresh : RefreshToken, expires : Nat, until : Nat]
Job == [refresh : RefreshToken, access : Nat, newRefresh : RefreshToken, answered : Nat]
EmptyJob == [refresh |-> 0, access |-> 0, newRefresh |-> 0, answered |-> 0]

Goto(c, step) == pc' = [pc EXCEPT ![c] = step]

-----------------------------------------------------------------------------

\* Time passes, unless an answer of Spotify must have been handled by now. The
\* store forgets tokens at the end of their time to live.
Tick ==
    /\ clock < MaxClock
    /\ \A c \in Calls : pc[c] \in {"save", "connect"} => clock < job[c].answered + MaxDelay
    /\ clock' = clock + 1
    /\ store' = IF store # None /\ store.until <= clock' THEN None ELSE store
    /\ UNCHANGED <<rotates, issued, live, pc, job, lost, disconnected>>

\* Mutant of Fresh: the margin may be used up.
FreshAtMargin(tokens) == tokens.expires >= clock + ExpiryBuffer

Fresh(tokens) == tokens.expires > clock + ExpiryBuffer

\* GetValidAccessTokenAsync: nothing stored, the stored token, or a refresh.
GetValidAccessToken(c) ==
    /\ pc[c] = "idle"
    /\ \/ store = None /\ Goto(c, "none") /\ UNCHANGED job
       \/ /\ store # None
          /\ job' = [job EXCEPT ![c].refresh = store.refresh, ![c].access = store.access]
          /\ Goto(c, IF Fresh(store) THEN "cached" ELSE "refresh")
    /\ UNCHANGED <<clock, store, rotates, issued, live, lost, disconnected>>

\* Mutant of ReturnedRefresh: a new refresh token is not noticed.
ReturnedRefreshOld(old, new) == old

\* newRefreshToken: the answer's refresh token if it has one.
ReturnedRefresh(old, new) == IF rotates THEN new ELSE old

\* Spotify accepts a refresh token ...
AcceptRefresh(c) ==
    /\ pc[c] = "refresh"
    /\ job[c].refresh \in live
    /\ rotates => issued < MaxTokens
    /\ issued' = IF rotates THEN issued + 1 ELSE issued
    /\ live' = IF rotates THEN (live \ {job[c].refresh}) \cup {issued'} ELSE live
    /\ job' = [job EXCEPT ![c].access = clock + Life, ![c].answered = clock,
                          ![c].newRefresh = ReturnedRefresh(job[c].refresh, issued')]
    /\ Goto(c, "save")
    /\ UNCHANGED <<clock, store, rotates, lost, disconnected>>

\* ... or does not, or cannot be reached: there is no access token.
RefuseRefresh(c) ==
    /\ pc[c] = "refresh"
    /\ Goto(c, "none")
    /\ UNCHANGED <<clock, store, rotates, issued, live, job, lost, disconnected>>

\* SaveTokensAsync: the expiry is counted from now, not from Spotify's answer.
Saved(c) == [access |-> job[c].access, refresh |-> job[c].newRefresh,
             expires |-> clock + Life, until |-> clock + DefaultTtl]

\* RefreshAsync saves the tokens, whatever has become of the stored ones.
SaveRefreshed(c) ==
    /\ pc[c] = "save"
    /\ store' = Saved(c)
    /\ Goto(c, "refreshed")
    /\ UNCHANGED <<clock, rotates, issued, live, job, lost, disconnected>>

-----------------------------------------------------------------------------
(* SpotifyAuthController                                                   *)

\* Callback: Spotify exchanges the user's code for tokens ...
ExchangeCode(c) ==
    /\ pc[c] = "idle"
    /\ issued < MaxTokens
    /\ issued' = issued + 1
    /\ live' = live \cup {issued'}
    /\ job' = [job EXCEPT ![c] = [refresh |-> 0, access |-> clock + Life,
                                  newRefresh |-> issued', answered |-> clock]]
    /\ Goto(c, "connect")
    /\ UNCHANGED <<clock, store, rotates, lost, disconnected>>

\* ... and they are saved.
SaveConnected(c) ==
    /\ pc[c] = "connect"
    /\ store' = Saved(c)
    /\ disconnected' = FALSE
    /\ Goto(c, "none")
    /\ UNCHANGED <<clock, rotates, issued, live, job, lost>>

\* Disconnect removes the key. Spotify is not told.
Disconnect ==
    /\ store' = None
    /\ disconnected' = TRUE
    /\ UNCHANGED <<clock, rotates, issued, live, pc, job, lost>>

\* A call has ended, and another may begin.
Finish(c) ==
    /\ pc[c] \in {"none", "cached", "refreshed"}
    /\ Goto(c, "idle")
    /\ job' = [job EXCEPT ![c] = EmptyJob]
    /\ UNCHANGED <<clock, store, rotates, issued, live, lost, disconnected>>

\* A call is cancelled or its service stops before the tokens are saved.
Abort(c) ==
    /\ pc[c] \in {"refresh", "save", "connect"}
    /\ Goto(c, "idle")
    /\ job' = [job EXCEPT ![c] = EmptyJob]
    /\ lost' = IF pc[c] = "save" /\ rotates THEN lost \cup {job[c].refresh} ELSE lost
    /\ UNCHANGED <<clock, store, rotates, issued, live, disconnected>>

-----------------------------------------------------------------------------

Init ==
    /\ clock = 0
    /\ store = None
    /\ rotates \in BOOLEAN
    /\ issued = 0
    /\ live = {}
    /\ pc = [c \in Calls |-> "idle"]
    /\ job = [c \in Calls |-> EmptyJob]
    /\ lost = {}
    /\ disconnected = FALSE

Next ==
    \/ Tick
    \/ Disconnect
    \/ \E c \in Calls :
          \/ GetValidAccessToken(c)
          \/ AcceptRefresh(c) \/ RefuseRefresh(c) \/ SaveRefreshed(c)
          \/ ExchangeCode(c) \/ SaveConnected(c)
          \/ Finish(c) \/ Abort(c)

Spec == Init /\ [][Next]_vars

-----------------------------------------------------------------------------
(* What must hold                                                          *)

\* Every variable has its type.
TypeOK ==
    /\ clock \in 0..MaxClock
    /\ store \in Tokens \cup {None}
    /\ rotates \in BOOLEAN
    /\ issued \in RefreshToken
    /\ live \subseteq 1..issued
    /\ pc \in [Calls -> {"idle", "none", "cached", "refresh", "save", "refreshed", "connect"}]
    /\ job \in [Calls -> Job]
    /\ lost \subseteq RefreshToken
    /\ disconnected \in BOOLEAN

\* A token taken from the store without a refresh is one Spotify still accepts,
\* although its stored expiry is later than its own by the time its saving took:
\* the margin makes up for that, as long as the saving took no longer.
HandsOutValidToken ==
    MaxDelay <= ExpiryBuffer =>
        \A c \in Calls : pc'[c] = "cached" /\ pc[c] # "cached" => job'[c].access > clock
CachedTokenIsValid == [][HandsOutValidToken]_vars

\* The stored refresh token works, or its replacement is about to be saved, or
\* was lost with the call that was to save it: calls that refresh the same token
\* or reconnect the account meanwhile never leave a dead token behind.
StoredRefreshTokenWorks ==
    store # None =>
        \/ store.refresh \in live
        \/ store.refresh \in lost
        \/ \E c \in Calls : pc[c] = "save" /\ job[c].refresh = store.refresh

\* A connected account can be used again: what is stored of it is of its type, and
\* its refresh token works or is about to be replaced.
AccountStaysUsable == TypeOK /\ StoredRefreshTokenWorks

=============================================================================
