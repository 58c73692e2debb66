---------------------------- MODULE ClientSession ----------------------------
(***************************************************************************)
(* The browser side of a session (client/src/axios/axios-provider.tsx):    *)
(* the access token in localStorage, shared by the user's tabs, and in a   *)
(* ref and a React state of every tab; requests that answer a 401 with one *)
(* refresh per tab and are sent again; and the logout of those that cannot.*)
(*                                                                         *)
(* A callback of the event loop and the promise reactions that follow from *)
(* it are one step. A token is a number in the order of issue, 0 is no     *)
(* token; the API accepts the tokens after the last that has expired.      *)
(* What another application of the page does is left out.                  *)
(***************************************************************************)
EXTENDS Naturals, FiniteSets

CONSTANTS
    Tabs,
    Streams,     \* requests of fetchWithAuth, which the user may abort
    Calls,       \* requests of the axios instance
    Checks,      \* checkUserSession's calls of ensureValidJwt
    Placements,  \* bound: which tabs the requests may be made in
    MaxTokens    \* bound: tokens issued

Requests == Streams \cup Calls \cup Checks

ASSUME ConstantsAssumption ==
    /\ MaxTokens \in Nat \ {0}
    /\ Placements \subseteq [Requests -> Tabs]
    /\ Cardinality(Requests) = Cardinality(Streams) + Cardinality(Calls) + Cardinality(Checks)

VARIABLES
    storage,    \* localStorage
    jwtRef,     \* jwtRef.current of a tab
    jwt,        \* the React state of a tab
    rendered,   \* the state of a tab's last commit
    effect,     \* whether the effect of that commit is still to run
    notified,   \* whether a storage event is on its way to a tab
    refreshing, \* refreshPromiseRef.current of a tab
    inFlight,   \* refreshes of a tab under way
    issued,     \* the newest token
    expired,    \* the newest token the API does not accept
    pc,         \* where a request is
    tab,        \* its tab, which it keeps
    sentWith,   \* the token it was sent with
    aborted     \* requests the user aborted

tabVars == <<jwtRef, jwt, rendered, effect, notified>>
vars == <<storage, tabVars, refreshing, inFlight, issued, expired, pc, tab, sentWith, aborted>>

Token == 0..MaxTokens

Goto(r, step) == pc' = [pc EXCEPT ![r] = step]
Waiting(t) == {r \in Requests : pc[r] = "waiting" /\ tab[r] = t}
Settled == {"idle", "answered", "failed", "loggedOut"}

\* jwtRef.current || getJwt()
Current(t) == IF jwtRef[t] # 0 THEN jwtRef[t] ELSE storage

\* Mutant of SetJwt: the ref is left to the effect.
SetJwtState(t, token) ==
    /\ storage' = token
    /\ jwtRef' = jwtRef
    /\ jwt' = [jwt EXCEPT ![t] = token]
    /\ notified' = [u \in Tabs |-> notified[u] \/ (u # t /\ token # storage)]

\* setJwt; the browser tells the other tabs of a changed value.
SetJwt(t, token) ==
    /\ storage' = token
    /\ jwtRef' = [jwtRef EXCEPT ![t] = token]
    /\ jwt' = [jwt EXCEPT ![t] = token]
    /\ notified' = [u \in Tabs |-> notified[u] \/ (u # t /\ token # storage)]

LogoutAndRedirect(t) == SetJwt(t, 0)

-----------------------------------------------------------------------------
(* The token of a tab                                                      *)

\* React renders the state and commits; effects left from before run first.
Render(t) ==
    /\ jwt[t] # rendered[t]
    /\ ~effect[t]
    /\ rendered' = [rendered EXCEPT ![t] = jwt[t]]
    /\ effect' = [effect EXCEPT ![t] = TRUE]
    /\ UNCHANGED <<storage, jwtRef, jwt, notified, refreshing, inFlight, issued, expired,
                   pc, tab, sentWith, aborted>>

\* useEffect(() => { jwtRef.current = jwt }, [jwt])
RunEffect(t) ==
    /\ effect[t]
    /\ effect' = [effect EXCEPT ![t] = FALSE]
    /\ jwtRef' = [jwtRef EXCEPT ![t] = rendered[t]]
    /\ UNCHANGED <<storage, jwt, rendered, notified, refreshing, inFlight, issued, expired,
                   pc, tab, sentWith, aborted>>

\* syncJwtFromStorage
SyncJwtFromStorage(t) ==
    /\ notified[t]
    /\ notified' = [notified EXCEPT ![t] = FALSE]
    /\ IF storage = jwtRef[t] THEN UNCHANGED <<jwtRef, jwt>>
       ELSE /\ jwtRef' = [jwtRef EXCEPT ![t] = storage]
            /\ jwt' = [jwt EXCEPT ![t] = storage]
    /\ UNCHANGED <<storage, rendered, effect, refreshing, inFlight, issued, expired,
                   pc, tab, sentWith, aborted>>

\* The user logs in.
Login(t) ==
    /\ jwt[t] = 0
    /\ issued < MaxTokens
    /\ issued' = issued + 1
    /\ SetJwt(t, issued')
    /\ UNCHANGED <<rendered, effect, refreshing, inFlight, expired, pc, tab, sentWith, aborted>>

\* Tokens expire.
Expire ==
    /\ expired < issued
    /\ expired' = issued
    /\ UNCHANGED <<storage, tabVars, refreshing, inFlight, issued, pc, tab, sentWith, aborted>>

-----------------------------------------------------------------------------
(* Requests                                                                *)

Send(r) ==
    /\ pc[r] = "idle"
    /\ r \notin Checks
    /\ Goto(r, "sent")
    /\ sentWith' = [sentWith EXCEPT ![r] = Current(tab[r])]
    /\ UNCHANGED <<storage, tabVars, refreshing, inFlight, issued, expired, tab, aborted>>

\* Mutant of RefreshJwt: every caller starts a refresh.
RefreshJwtAlways(t) ==
    /\ refreshing' = [refreshing EXCEPT ![t] = TRUE]
    /\ inFlight' = [inFlight EXCEPT ![t] = @ + 1]

\* refreshJwt: join the refresh under way or start one.
RefreshJwt(t) ==
    IF refreshing[t] THEN UNCHANGED <<refreshing, inFlight>>
    ELSE /\ refreshing' = [refreshing EXCEPT ![t] = TRUE]
         /\ inFlight' = [inFlight EXCEPT ![t] = @ + 1]

\* The API accepts the token; a request sent again gets whatever answer comes.
Answer(r) ==
    /\ \/ pc[r] = "sent" /\ sentWith[r] > expired
       \/ pc[r] = "resent"
    /\ Goto(r, "answered")
    /\ UNCHANGED <<storage, tabVars, refreshing, inFlight, issued, expired, tab, sentWith, aborted>>

\* A 401 the first time.
Unauthorized(r) ==
    /\ pc[r] = "sent"
    /\ sentWith[r] <= expired
    /\ Goto(r, "waiting")
    /\ RefreshJwt(tab[r])
    /\ UNCHANGED <<storage, tabVars, issued, expired, tab, sentWith, aborted>>

\* ensureValidJwt: a token about to expire, or none, is refreshed.
EnsureValidJwt(r) ==
    /\ pc[r] = "idle"
    /\ r \in Checks
    /\ Current(tab[r]) <= expired
    /\ Goto(r, "waiting")
    /\ RefreshJwt(tab[r])
    /\ UNCHANGED <<storage, tabVars, issued, expired, tab, sentWith, aborted>>

\* No answer at all: after a refresh fetchWithAuth logs the user out, axios does not.
NetworkError(r) ==
    /\ pc[r] \in {"sent", "resent"}
    /\ IF pc[r] = "resent" /\ r \in Streams
       THEN Goto(r, "loggedOut") /\ LogoutAndRedirect(tab[r])
       ELSE Goto(r, "failed") /\ UNCHANGED <<storage, jwtRef, jwt, notified>>
    /\ UNCHANGED <<rendered, effect, refreshing, inFlight, issued, expired, tab, sentWith, aborted>>

\* The user aborts a stream: a fetch under way is rejected, and later a fetch
\* that follows the refresh.
Abort(r) ==
    /\ r \in Streams \ aborted
    /\ pc[r] \in {"sent", "waiting", "resent"}
    /\ aborted' = aborted \cup {r}
    /\ CASE pc[r] = "sent" -> Goto(r, "failed") /\ UNCHANGED <<storage, jwtRef, jwt, notified>>
         [] pc[r] = "waiting" -> UNCHANGED <<pc, storage, jwtRef, jwt, notified>>
         [] OTHER -> Goto(r, "loggedOut") /\ LogoutAndRedirect(tab[r])
    /\ UNCHANGED <<rendered, effect, refreshing, inFlight, issued, expired, tab, sentWith>>

\* What a request that waited does after a refresh with the new token.
AfterRefresh(r) == IF r \in Checks THEN "answered"
                   ELSE IF r \in aborted THEN "loggedOut" ELSE "resent"

\* The refresh answers with a token: it is set, and every request that waited
\* goes on with it.
RefreshSucceeds(t) ==
    /\ inFlight[t] > 0
    /\ issued < MaxTokens
    /\ issued' = issued + 1
    /\ inFlight' = [inFlight EXCEPT ![t] = @ - 1]
    /\ refreshing' = [refreshing EXCEPT ![t] = FALSE]
    /\ pc' = [r \in Requests |-> IF r \in Waiting(t) THEN AfterRefresh(r) ELSE pc[r]]
    /\ IF \E r \in Waiting(t) : AfterRefresh(r) = "loggedOut"
       THEN LogoutAndRedirect(t) ELSE SetJwt(t, issued')
    /\ sentWith' = [r \in Requests |->
                      IF r \in Waiting(t) /\ AfterRefresh(r) = "resent"
                      THEN IF r \in Calls /\ jwtRef'[t] # 0 THEN jwtRef'[t] ELSE issued'
                      ELSE sentWith[r]]
    /\ UNCHANGED <<rendered, effect, expired, tab, aborted>>

\* Mutant of RefreshFails: only one of those who waited hears of it.
RefreshFailsForOne(t) ==
    /\ inFlight[t] > 0
    /\ inFlight' = [inFlight EXCEPT ![t] = @ - 1]
    /\ refreshing' = [refreshing EXCEPT ![t] = FALSE]
    /\ \E r \in Waiting(t) : Goto(r, IF r \in Checks THEN "failed" ELSE "loggedOut")
    /\ LogoutAndRedirect(t)
    /\ UNCHANGED <<rendered, effect, issued, expired, tab, sentWith, aborted>>

\* The refresh is refused or gets no answer: the tab is logged out.
RefreshFails(t) ==
    /\ inFlight[t] > 0
    /\ inFlight' = [inFlight EXCEPT ![t] = @ - 1]
    /\ refreshing' = [refreshing EXCEPT ![t] = FALSE]
    /\ pc' = [r \in Requests |-> IF r \notin Waiting(t) THEN pc[r]
                                 ELSE IF r \in Checks THEN "failed" ELSE "loggedOut"]
    /\ LogoutAndRedirect(t)
    /\ UNCHANGED <<rendered, effect, issued, expired, tab, sentWith, aborted>>

-----------------------------------------------------------------------------

Init ==
    /\ storage \in {0, 1}
    /\ jwtRef = [t \in Tabs |-> storage]
    /\ jwt = jwtRef
    /\ rendered = jwtRef
    /\ effect = [t \in Tabs |-> FALSE]
    /\ notified = [t \in Tabs |-> FALSE]
    /\ refreshing = [t \in Tabs |-> FALSE]
    /\ inFlight = [t \in Tabs |-> 0]
    /\ issued = 1
    /\ expired \in {0, 1}
    /\ pc = [r \in Requests |-> "idle"]
    /\ tab \in Placements
    /\ sentWith = [r \in Requests |-> 0]
    /\ aborted = {}

Arrive(r) == Answer(r) \/ Unauthorized(r) \/ NetworkError(r)
Refreshed(t) == RefreshSucceeds(t) \/ RefreshFails(t)

Next ==
    \/ Expire
    \/ \E t \in Tabs :
          \/ Render(t) \/ RunEffect(t) \/ SyncJwtFromStorage(t)
          \/ Login(t)
          \/ Refreshed(t)
    \/ \E r \in Requests : Send(r) \/ EnsureValidJwt(r) \/ Arrive(r) \/ Abort(r)

\* The browser ends every request in time, with an answer or an error.
Fairness ==
    /\ \A r \in Requests : WF_vars(Arrive(r))
    /\ \A t \in Tabs : WF_vars(Refreshed(t))

Spec == Init /\ [][Next]_vars /\ Fairness

-----------------------------------------------------------------------------
(* What must hold                                                          *)

\* Every variable has its type.
TypeOK ==
    /\ storage \in Token /\ issued \in Token /\ expired \in Token
    /\ \A v \in {jwtRef, jwt, rendered} : v \in [Tabs -> Token]
    /\ \A v \in {effect, notified, refreshing} : v \in [Tabs -> BOOLEAN]
    /\ inFlight \in [Tabs -> Nat]
    /\ pc \in [Requests -> Settled \cup {"sent", "waiting", "resent"}]
    /\ \A r \in Checks : pc[r] \notin {"sent", "resent"}
    /\ tab \in [Requests -> Tabs]
    /\ sentWith \in [Requests -> Token]
    /\ aborted \subseteq Streams

\* However many requests of a tab get a 401, and whenever, one refresh answers
\* them: there is never a second one under way.
OneRefreshPerTab == \A t \in Tabs : inFlight[t] <= 1 /\ (Waiting(t) # {} => inFlight[t] = 1)

\* A request is sent again with a newer token than the one it was refused with,
\* though other requests and tabs set and remove tokens meanwhile.
ResentWithNewerToken ==
    [][\A r \in Requests : pc[r] = "waiting" /\ pc'[r] = "resent" =>
           sentWith'[r] > sentWith[r]]_vars

\* An abort is a normal cancel: it takes no tab's token away.
AbortIsNormalCancel == [][aborted' # aborted => storage' = storage]_vars

\* Every request settles: no waiting request is left behind by its refresh.
RequestsSettle == \A r \in Requests : pc[r] # "idle" ~> pc[r] \in Settled

=============================================================================
