--------------------------- MODULE ClientSessionProofs ---------------------------
(***************************************************************************)
(* Proofs about ClientSession, for any number of tabs, requests and        *)
(* tokens: a tab never has a second refresh under way, and no request is   *)
(* sent again with a token that was refused.                               *)
(***************************************************************************)
EXTENDS ClientSession, TLAPS

Steps == Settled \cup {"sent", "waiting", "resent"}

\* Who holds a token holds one that was issued.
TokenTypes ==
    /\ issued \in Token
    /\ storage \in 0..issued /\ expired \in 0..issued
    /\ jwtRef \in [Tabs -> 0..issued] /\ jwt \in [Tabs -> 0..issued]
    /\ rendered \in [Tabs -> 0..issued]
    /\ sentWith \in [Requests -> 0..issued]

TabTypes ==
    /\ effect \in [Tabs -> BOOLEAN] /\ notified \in [Tabs -> BOOLEAN]
    /\ refreshing \in [Tabs -> BOOLEAN] /\ inFlight \in [Tabs -> Nat]

RequestTypes ==
    /\ pc \in [Requests -> Steps]
    /\ \A r \in Checks : pc[r] \notin {"sent", "resent"}
    /\ tab \in [Requests -> Tabs]
    /\ aborted \subseteq Streams

\* The promise a tab remembers is the one refresh that is under way, and who waits
\* waits for it.
OnePromise ==
    /\ \A t \in Tabs : inFlight[t] = IF refreshing[t] THEN 1 ELSE 0
    /\ \A r \in Requests : pc[r] = "waiting" => refreshing[tab[r]]

IInv == TokenTypes /\ TabTypes /\ RequestTypes /\ OnePromise

-----------------------------------------------------------------------------

LEMMA IInvInit == Init => IInv
<1> SUFFICES ASSUME Init PROVE IInv
  OBVIOUS
<1>1. tab \in [Requests -> Tabs]
  BY ConstantsAssumption DEF Init
<1>2. TokenTypes
  BY ConstantsAssumption DEF Init, TokenTypes, Token
<1>3. TabTypes
  BY DEF Init, TabTypes
<1>4. RequestTypes
  BY <1>1 DEF Init, RequestTypes, Steps, Settled, Requests
<1>5. OnePromise
  BY DEF Init, OnePromise
<1>6. QED
  BY <1>2, <1>3, <1>4, <1>5 DEF IInv

\* A token that is set, or taken away, in a tab.
LEMMA SetJwtTypes ==
    ASSUME TokenTypes, TabTypes, NEW t \in Tabs, issued' \in Token, issued <= issued',
           NEW token \in 0..issued', SetJwt(t, token)
    PROVE  /\ storage' \in 0..issued' /\ jwtRef' \in [Tabs -> 0..issued'] /\ jwt' \in [Tabs -> 0..issued']
           /\ notified' \in [Tabs -> BOOLEAN]
<1>1. /\ storage' = token
      /\ jwtRef' = [jwtRef EXCEPT ![t] = token] /\ jwt' = [jwt EXCEPT ![t] = token]
      /\ notified' = [u \in Tabs |-> notified[u] \/ (u # t /\ token # storage)]
  BY DEF SetJwt
<1>2. issued \in Nat /\ issued' \in Nat /\ 0..issued \subseteq 0..issued'
  BY ConstantsAssumption DEF TokenTypes, Token
<1>3. jwtRef \in [Tabs -> 0..issued'] /\ jwt \in [Tabs -> 0..issued']
  BY <1>2 DEF TokenTypes
<1>4. notified' \in [Tabs -> BOOLEAN]
  <2>1. \A u \in Tabs : (notified[u] \/ (u # t /\ token # storage)) \in BOOLEAN
    OBVIOUS
  <2>2. QED
    BY <1>1, <2>1
<1>5. QED
  BY <1>1, <1>3, <1>4

\* A later token makes no type smaller.
LEMMA MoreTokens ==
    ASSUME TokenTypes, issued' \in Token, issued <= issued'
    PROVE  /\ 0..issued \subseteq 0..issued' /\ issued \in Nat /\ issued' \in Nat
           /\ rendered \in [Tabs -> 0..issued'] /\ sentWith \in [Requests -> 0..issued']
           /\ jwtRef \in [Tabs -> 0..issued'] /\ jwt \in [Tabs -> 0..issued']
           /\ storage \in 0..issued' /\ expired \in 0..issued'
<1>1. 0..issued \subseteq 0..issued' /\ issued \in Nat /\ issued' \in Nat
  BY ConstantsAssumption DEF TokenTypes, Token
<1>2. QED
  BY <1>1 DEF TokenTypes

LEMMA RefreshJwtPromise ==
    ASSUME IInv, NEW r \in Requests, RefreshJwt(tab[r]), pc' = [pc EXCEPT ![r] = "waiting"],
           UNCHANGED tab
    PROVE  OnePromise' /\ refreshing' \in [Tabs -> BOOLEAN] /\ inFlight' \in [Tabs -> Nat]
<1>1. /\ tab[r] \in Tabs /\ refreshing \in [Tabs -> BOOLEAN] /\ inFlight \in [Tabs -> Nat]
      /\ pc \in [Requests -> Steps]
  BY DEF IInv, TabTypes, RequestTypes
<1>2. CASE refreshing[tab[r]]
  BY <1>1, <1>2 DEF RefreshJwt, IInv, OnePromise
<1>3. CASE ~refreshing[tab[r]]
  <2>1. /\ refreshing' = [refreshing EXCEPT ![tab[r]] = TRUE]
        /\ inFlight' = [inFlight EXCEPT ![tab[r]] = @ + 1]
        /\ inFlight[tab[r]] = 0
    BY <1>1, <1>3 DEF RefreshJwt, IInv, OnePromise
  <2>2. refreshing' \in [Tabs -> BOOLEAN] /\ inFlight' \in [Tabs -> Nat]
    BY <1>1, <2>1
  <2>3. \A t \in Tabs : inFlight'[t] = IF refreshing'[t] THEN 1 ELSE 0
    BY <1>1, <2>1 DEF IInv, OnePromise
  <2>4. \A q \in Requests : pc'[q] = "waiting" => refreshing'[tab'[q]]
    BY <1>1, <2>1 DEF IInv, OnePromise
  <2>5. QED
    BY <2>2, <2>3, <2>4 DEF OnePromise
<1>4. QED
  BY <1>2, <1>3

\* The end of the refresh: nobody of the tab waits any more.
LEMMA RefreshEnds ==
    ASSUME IInv, NEW t \in Tabs, inFlight[t] > 0,
           inFlight' = [inFlight EXCEPT ![t] = @ - 1], refreshing' = [refreshing EXCEPT ![t] = FALSE],
           UNCHANGED tab,
           \A r \in Requests : pc'[r] = "waiting" => pc[r] = "waiting" /\ tab[r] # t
    PROVE  OnePromise' /\ refreshing' \in [Tabs -> BOOLEAN] /\ inFlight' \in [Tabs -> Nat]
<1>1. /\ refreshing \in [Tabs -> BOOLEAN] /\ inFlight \in [Tabs -> Nat]
      /\ tab \in [Requests -> Tabs]
      /\ inFlight[t] = 1
  BY DEF IInv, TabTypes, RequestTypes, OnePromise
<1>2. refreshing' \in [Tabs -> BOOLEAN] /\ inFlight' \in [Tabs -> Nat]
  BY <1>1
<1>3. \A u \in Tabs : inFlight'[u] = IF refreshing'[u] THEN 1 ELSE 0
  BY <1>1 DEF IInv, OnePromise
<1>4. \A r \in Requests : pc'[r] = "waiting" => refreshing'[tab'[r]]
  BY <1>1 DEF IInv, OnePromise
<1>5. QED
  BY <1>2, <1>3, <1>4 DEF OnePromise

\* The request that changes a step, without waiting, leaves the promises alone.
LEMMA OtherSteps ==
    ASSUME RequestTypes, NEW r \in Requests, NEW step \in Steps \ {"waiting"},
           r \in Checks => step \notin {"sent", "resent"},
           pc' = [pc EXCEPT ![r] = step], UNCHANGED <<refreshing, inFlight, tab>>
    PROVE  /\ OnePromise => OnePromise'
           /\ pc' \in [Requests -> Steps] /\ \A q \in Checks : pc'[q] \notin {"sent", "resent"}
BY DEF RequestTypes, OnePromise, Requests

LEMMA IInvStep == IInv /\ [Next]_vars => IInv'
<1> SUFFICES ASSUME IInv, [Next]_vars PROVE IInv'
  OBVIOUS
<1>i. TokenTypes /\ TabTypes /\ RequestTypes /\ OnePromise
  BY DEF IInv
<1>1. CASE Expire
  BY <1>i, <1>1, ConstantsAssumption
     DEF Expire, tabVars, IInv, TokenTypes, TabTypes, RequestTypes, OnePromise, Token
<1>2. ASSUME NEW t \in Tabs, Render(t) PROVE IInv'
  BY <1>i, <1>2 DEF Render, IInv, TokenTypes, TabTypes, RequestTypes, OnePromise
<1>3. ASSUME NEW t \in Tabs, RunEffect(t) PROVE IInv'
  BY <1>i, <1>3 DEF RunEffect, IInv, TokenTypes, TabTypes, RequestTypes, OnePromise
<1>4. ASSUME NEW t \in Tabs, SyncJwtFromStorage(t) PROVE IInv'
  BY <1>i, <1>4 DEF SyncJwtFromStorage, IInv, TokenTypes, TabTypes, RequestTypes, OnePromise
<1>5. ASSUME NEW t \in Tabs, Login(t) PROVE IInv'
  <2>1. /\ issued' = issued + 1 /\ issued < MaxTokens /\ SetJwt(t, issued')
        /\ UNCHANGED <<rendered, effect, refreshing, inFlight, expired, pc, tab, sentWith, aborted>>
    BY <1>5 DEF Login
  <2>2. issued' \in Token /\ issued <= issued' /\ issued' \in 0..issued'
    BY <1>i, <2>1, ConstantsAssumption DEF TokenTypes, Token
  <2>3. TokenTypes'
    BY <1>i, <2>1, <2>2, SetJwtTypes, MoreTokens DEF TokenTypes
  <2>4. TabTypes'
    BY <1>i, <2>1, <2>2, SetJwtTypes DEF TabTypes
  <2>5. QED
    BY <1>i, <2>1, <2>3, <2>4 DEF IInv, RequestTypes, OnePromise
<1>6. ASSUME NEW t \in Tabs, RefreshSucceeds(t) PROVE IInv'
  <2>1. /\ issued' = issued + 1 /\ issued < MaxTokens /\ inFlight[t] > 0
        /\ inFlight' = [inFlight EXCEPT ![t] = @ - 1]
        /\ refreshing' = [refreshing EXCEPT ![t] = FALSE]
        /\ pc' = [r \in Requests |-> IF r \in Waiting(t) THEN AfterRefresh(r) ELSE pc[r]]
        /\ SetJwt(t, 0) \/ SetJwt(t, issued')
        /\ sentWith' = [r \in Requests |->
                          IF r \in Waiting(t) /\ AfterRefresh(r) = "resent"
                          THEN IF r \in Calls /\ jwtRef'[t] # 0 THEN jwtRef'[t] ELSE issued'
                          ELSE sentWith[r]]
        /\ UNCHANGED <<rendered, effect, expired, tab, aborted>>
    BY <1>6 DEF RefreshSucceeds, LogoutAndRedirect
  <2>2. issued' \in Token /\ issued <= issued' /\ issued' \in 0..issued' /\ 0 \in 0..issued'
    BY <1>i, <2>1, ConstantsAssumption DEF TokenTypes, Token
  <2>3. /\ storage' \in 0..issued' /\ jwtRef' \in [Tabs -> 0..issued'] /\ jwt' \in [Tabs -> 0..issued']
        /\ notified' \in [Tabs -> BOOLEAN]
    BY <1>i, <2>1, <2>2, SetJwtTypes
  <2>4. sentWith' \in [Requests -> 0..issued']
    <3>1. jwtRef'[t] \in 0..issued' /\ \A r \in Requests : sentWith[r] \in 0..issued'
      BY <1>i, <2>2, <2>3, MoreTokens
    <3>2. QED
      BY <2>1, <2>2, <3>1
  <2>5. TokenTypes'
    BY <1>i, <2>1, <2>2, <2>3, <2>4, MoreTokens DEF TokenTypes
  <2>6. \A r \in Waiting(t) : AfterRefresh(r) \in {"answered", "loggedOut", "resent"}
                              /\ (r \in Checks => AfterRefresh(r) = "answered")
    BY DEF AfterRefresh
  <2>7. RequestTypes'
    BY <1>i, <2>1, <2>6 DEF RequestTypes, Steps, Settled, Requests
  <2>8. \A r \in Requests : pc'[r] = "waiting" => pc[r] = "waiting" /\ tab[r] # t
    BY <2>1, <2>6 DEF Waiting
  <2>9. OnePromise' /\ refreshing' \in [Tabs -> BOOLEAN] /\ inFlight' \in [Tabs -> Nat]
    BY <2>1, <2>8, RefreshEnds
  <2>10. QED
    BY <1>i, <2>1, <2>3, <2>5, <2>7, <2>9 DEF IInv, TabTypes
<1>7. ASSUME NEW t \in Tabs, RefreshFails(t) PROVE IInv'
  <2>1. /\ inFlight[t] > 0 /\ inFlight' = [inFlight EXCEPT ![t] = @ - 1]
        /\ refreshing' = [refreshing EXCEPT ![t] = FALSE]
        /\ pc' = [r \in Requests |-> IF r \notin Waiting(t) THEN pc[r]
                                     ELSE IF r \in Checks THEN "failed" ELSE "loggedOut"]
        /\ SetJwt(t, 0)
        /\ UNCHANGED <<rendered, effect, issued, expired, tab, sentWith, aborted>>
    BY <1>7 DEF RefreshFails, LogoutAndRedirect
  <2>2. issued' \in Token /\ issued <= issued' /\ 0 \in 0..issued'
    BY <1>i, <2>1, ConstantsAssumption DEF TokenTypes, Token
  <2>3. /\ storage' \in 0..issued' /\ jwtRef' \in [Tabs -> 0..issued'] /\ jwt' \in [Tabs -> 0..issued']
        /\ notified' \in [Tabs -> BOOLEAN]
    BY <1>i, <2>1, <2>2, SetJwtTypes
  <2>4. TokenTypes'
    BY <1>i, <2>1, <2>3 DEF TokenTypes
  <2>5. RequestTypes'
    BY <1>i, <2>1 DEF RequestTypes, Steps, Settled, Requests
  <2>6. \A r \in Requests : pc'[r] = "waiting" => pc[r] = "waiting" /\ tab[r] # t
    BY <2>1 DEF Waiting
  <2>7. OnePromise' /\ refreshing' \in [Tabs -> BOOLEAN] /\ inFlight' \in [Tabs -> Nat]
    BY <2>1, <2>6, RefreshEnds
  <2>8. QED
    BY <1>i, <2>1, <2>3, <2>4, <2>5, <2>7 DEF IInv, TabTypes
<1>8. ASSUME NEW r \in Requests, Send(r) PROVE IInv'
  <2>1. /\ pc' = [pc EXCEPT ![r] = "sent"] /\ r \notin Checks
        /\ sentWith' = [sentWith EXCEPT ![r] = Current(tab[r])]
        /\ UNCHANGED <<storage, tabVars, refreshing, inFlight, issued, expired, tab, aborted>>
    BY <1>8 DEF Send, Goto
  <2>2. Current(tab[r]) \in 0..issued
    BY <1>i DEF Current, TokenTypes, RequestTypes
  <2>3. TokenTypes'
    BY <1>i, <2>1, <2>2 DEF TokenTypes, tabVars
  <2>4. OnePromise' /\ RequestTypes'
    BY <1>i, <2>1, OtherSteps DEF RequestTypes, Steps
  <2>5. QED
    BY <1>i, <2>1, <2>3, <2>4 DEF IInv, TabTypes, tabVars
<1>9. ASSUME NEW r \in Requests, Unauthorized(r) \/ EnsureValidJwt(r) PROVE IInv'
  <2>1. /\ pc' = [pc EXCEPT ![r] = "waiting"] /\ RefreshJwt(tab[r])
        /\ UNCHANGED <<storage, tabVars, issued, expired, tab, sentWith, aborted>>
    BY <1>9 DEF Unauthorized, EnsureValidJwt, Goto
  <2>2. OnePromise' /\ refreshing' \in [Tabs -> BOOLEAN] /\ inFlight' \in [Tabs -> Nat]
    BY <2>1, RefreshJwtPromise
  <2>3. RequestTypes'
    BY <1>i, <2>1 DEF RequestTypes, Steps
  <2>4. QED
    BY <1>i, <2>1, <2>2, <2>3 DEF IInv, TokenTypes, TabTypes, tabVars
<1>10. ASSUME NEW r \in Requests, Answer(r) PROVE IInv'
  <2>1. /\ pc' = [pc EXCEPT ![r] = "answered"]
        /\ UNCHANGED <<storage, tabVars, refreshing, inFlight, issued, expired, tab, sentWith, aborted>>
    BY <1>10 DEF Answer, Goto
  <2>2. OnePromise' /\ RequestTypes'
    BY <1>i, <2>1, OtherSteps DEF RequestTypes, Steps, Settled
  <2>3. QED
    BY <1>i, <2>1, <2>2 DEF IInv, TokenTypes, TabTypes, tabVars
<1>11. ASSUME NEW r \in Requests, NetworkError(r) \/ Abort(r) PROVE IInv'
  <2>1. /\ UNCHANGED <<rendered, effect, refreshing, inFlight, issued, expired, tab, sentWith>>
        /\ aborted' \subseteq Streams
        /\ pc' \in {pc, [pc EXCEPT ![r] = "failed"], [pc EXCEPT ![r] = "loggedOut"]}
        /\ UNCHANGED <<storage, jwtRef, jwt, notified>> \/ SetJwt(tab[r], 0)
    BY <1>i, <1>11 DEF NetworkError, Abort, LogoutAndRedirect, Goto, RequestTypes
  <2>2. OnePromise' /\ RequestTypes'
    <3>1. CASE pc' = pc
      BY <1>i, <2>1, <3>1 DEF OnePromise, RequestTypes
    <3>2. CASE pc' # pc
      <4>1. PICK step \in {"failed", "loggedOut"} : pc' = [pc EXCEPT ![r] = step]
        BY <2>1, <3>2
      <4>2. QED
        BY <1>i, <2>1, <4>1, OtherSteps DEF RequestTypes, Steps, Settled
    <3>3. QED
      BY <3>1, <3>2
  <2>3. TokenTypes' /\ TabTypes'
    <3>1. CASE UNCHANGED <<storage, jwtRef, jwt, notified>>
      BY <1>i, <2>1, <3>1 DEF TokenTypes, TabTypes
    <3>2. CASE SetJwt(tab[r], 0)
      <4>1. issued' \in Token /\ issued <= issued' /\ 0 \in 0..issued' /\ tab[r] \in Tabs
        BY <1>i, <2>1, ConstantsAssumption DEF TokenTypes, RequestTypes, Token
      <4>2. /\ storage' \in 0..issued' /\ jwtRef' \in [Tabs -> 0..issued'] /\ jwt' \in [Tabs -> 0..issued']
            /\ notified' \in [Tabs -> BOOLEAN]
        BY <1>i, <3>2, <4>1, SetJwtTypes
      <4>3. QED
        BY <1>i, <2>1, <4>2 DEF TokenTypes, TabTypes
    <3>3. QED
      BY <2>1, <3>1, <3>2
  <2>4. QED
    BY <2>2, <2>3 DEF IInv
<1>12. CASE UNCHANGED vars
  BY <1>i, <1>12 DEF vars, tabVars, IInv, TokenTypes, TabTypes, RequestTypes, OnePromise
<1>13. QED
  BY <1>1, <1>2, <1>3, <1>4, <1>5, <1>6, <1>7, <1>8, <1>9, <1>10, <1>11, <1>12
     DEF Next, Refreshed, Arrive

-----------------------------------------------------------------------------

LEMMA IInvAlways == Spec => []IInv
BY IInvInit, IInvStep, PTL DEF Spec

\* Every variable has its type, and no token exceeds the newest.
THEOREM TypesHold == Spec => []TypeOK
<1>1. IInv => TypeOK
  <2> SUFFICES ASSUME IInv PROVE TypeOK
    OBVIOUS
  <2>1. issued \in Nat /\ 0..issued \subseteq Token
    BY ConstantsAssumption DEF IInv, TokenTypes, Token
  <2>2. /\ jwtRef \in [Tabs -> Token] /\ jwt \in [Tabs -> Token] /\ rendered \in [Tabs -> Token]
        /\ sentWith \in [Requests -> Token] /\ storage \in Token /\ expired \in Token
    BY <2>1 DEF IInv, TokenTypes
  <2>3. QED
    BY <2>2 DEF IInv, TokenTypes, TabTypes, RequestTypes, TypeOK, Steps
<1>2. QED
  BY <1>1, IInvAlways, PTL

\* However many requests of a tab are refused, and whenever, one refresh answers
\* them all.
THEOREM NeverASecondRefresh == Spec => []OneRefreshPerTab
<1>1. IInv => OneRefreshPerTab
  BY DEF IInv, TabTypes, OnePromise, OneRefreshPerTab, Waiting
<1>2. QED
  BY <1>1, IInvAlways, PTL

\* Only the end of a refresh sends a request again, and its token is newer than any
\* there was.
THEOREM NewerTokenEveryTime == Spec => ResentWithNewerToken
<1> DEFINE A == \A r \in Requests : pc[r] = "waiting" /\ pc'[r] = "resent" => sentWith'[r] > sentWith[r]
<1>1. IInv /\ [Next]_vars => [A]_vars
  <2> SUFFICES ASSUME IInv, Next, NEW r \in Requests, pc[r] = "waiting", pc'[r] = "resent"
               PROVE  sentWith'[r] > sentWith[r]
    OBVIOUS
  <2>0. pc \in [Requests -> Steps] /\ tab \in [Requests -> Tabs]
    BY DEF IInv, RequestTypes
  <2>1. PICK t \in Tabs : RefreshSucceeds(t)
    BY <2>0 DEF Next, Refreshed, Arrive, Expire, tabVars, Render, RunEffect, SyncJwtFromStorage, Login,
                RefreshFails, Send, EnsureValidJwt, Answer, Unauthorized, NetworkError, Abort, Goto
  <2>2. r \in Waiting(t) /\ AfterRefresh(r) = "resent"
    BY <2>1 DEF RefreshSucceeds
  <2>3. /\ sentWith'[r] = IF r \in Calls /\ jwtRef'[t] # 0 THEN jwtRef'[t] ELSE issued'
        /\ issued' = issued + 1
        /\ SetJwt(t, 0) \/ SetJwt(t, issued')
    BY <2>1, <2>2 DEF RefreshSucceeds, LogoutAndRedirect
  <2>4. jwtRef'[t] \in {0, issued'}
    BY <2>3 DEF SetJwt, IInv, TokenTypes
  <2>5. sentWith'[r] = issued + 1 /\ sentWith[r] \in 0..issued /\ issued \in Nat
    BY <2>3, <2>4, ConstantsAssumption DEF IInv, TokenTypes, Token
  <2>6. QED
    BY <2>5
<1>2. QED
  BY <1>1, IInvAlways, PTL DEF Spec, ResentWithNewerToken

=============================================================================
