---------------------------- MODULE ServicesProofs ----------------------------
(***************************************************************************)
(* Proofs about the services, for any number of calls, requests and        *)
(* browsers and any lives and limits. A behaviour of MCServices is one     *)
(* component's, so a component has its own inductive invariant, and the    *)
(* theorems put them together: a step of MCServices is one of its          *)
(* component, whose invariant it keeps.                                    *)
(***************************************************************************)
EXTENDS MCServices, Sequences, FiniteSetTheorems, WellFoundedInduction, TLAPS

-----------------------------------------------------------------------------
(* AuthTokens                                                              *)

\* Lives and bounds are numbers.
LEMMA AuthNumbers ==
    /\ RefreshLife \in Nat /\ AuthClock \in Nat /\ AuthTokenBound \in Nat /\ MaxStamps \in Nat
    /\ None \notin Auth!Token
BY ConstantsAssumption, NoneAssumption

AnyToken == [id : Nat, expires : Nat] \cup {None}
AnyRow == [token : AnyToken, stamp : Nat]

AuthTypes ==
    /\ clock \in Nat /\ generated \in Nat
    /\ user \in AnyRow
    /\ cookie \in [Browsers -> [token : AnyToken, until : Nat]]
    /\ pc \in [Requests -> {"idle", "generate", "update", "respond", "done", "unauthorized"}]
    /\ request \in [Requests -> [browser : Browsers, read : AnyRow, token : AnyToken]]

\* A token that may still be used is the stored one, or was never stored.
AuthCurrent(token) == ~Auth!Expired(token) /\ token \notin refused => token = user.token

\* A row that has not changed since is the row that was read, and a new token is
\* made only for an expired one.
AuthReadsAreTrue ==
    \A r \in Requests :
        /\ pc[r] \in {"generate", "update"} =>
              /\ request[r].read.stamp <= user.stamp
              /\ request[r].read.stamp = user.stamp => request[r].read = user
        /\ pc[r] = "update" => \/ request[r].token = request[r].read.token
                               \/ Auth!Expired(request[r].read.token)

AuthAnswersAreCurrent == \A r \in Requests : pc[r] = "respond" => AuthCurrent(request[r].token)

AuthCookiesAreCurrent == \A b \in Browsers : AuthCurrent(cookie[b].token)

AuthIInv == AuthTypes /\ AuthReadsAreTrue /\ AuthAnswersAreCurrent /\ AuthCookiesAreCurrent

-----------------------------------------------------------------------------

LEMMA AuthIInvInit == Auth!Init => AuthIInv
<1> SUFFICES ASSUME Auth!Init PROVE AuthIInv
  OBVIOUS
<1>1. AuthTypes
  BY DEF Auth!Init, AuthTypes, AnyToken, AnyRow, Auth!NoCookie, Auth!NoRequest
<1>2. AuthCookiesAreCurrent
  BY DEF Auth!Init, AuthCookiesAreCurrent, AuthCurrent, Auth!Expired, Auth!NoCookie
<1>3. QED
  BY <1>1, <1>2 DEF Auth!Init, AuthIInv, AuthReadsAreTrue, AuthAnswersAreCurrent

LEMMA AuthIInvStep == AuthIInv /\ [Auth!Next]_Auth!vars => AuthIInv'
<1> SUFFICES ASSUME AuthIInv, [Auth!Next]_Auth!vars PROVE AuthIInv'
  OBVIOUS
<1>i. AuthTypes /\ AuthReadsAreTrue /\ AuthAnswersAreCurrent /\ AuthCookiesAreCurrent
  BY DEF AuthIInv
<1>1. CASE Auth!Tick
  <2>1. /\ clock' = clock + 1 /\ UNCHANGED <<user, generated, pc, request, refused>>
        /\ cookie' = [b \in Browsers |-> IF cookie[b].until <= clock' THEN Auth!NoCookie ELSE cookie[b]]
    BY <1>1 DEF Auth!Tick
  <2>2. clock' \in Nat /\ clock <= clock' /\ clock \in Nat
    BY <1>i, <2>1 DEF AuthTypes
  <2>3. Auth!NoCookie \in [token : AnyToken, until : Nat]
    BY DEF Auth!NoCookie, AnyToken
  <2>4. AuthTypes'
    BY <1>i, <2>1, <2>2, <2>3 DEF AuthTypes
  <2>6. AuthAnswersAreCurrent'
    <3>1. ASSUME NEW r \in Requests, AuthCurrent(request[r].token)
             PROVE AuthCurrent(request[r].token)'
      <4>1. request[r].token \in AnyToken /\ request' = request
        BY <1>i, <2>1 DEF AuthTypes
      <4>2. QED
        BY <2>1, <2>2, <3>1, <4>1 DEF AuthCurrent, Auth!Expired, AnyToken
    <3>2. QED
      BY <1>i, <2>1, <3>1 DEF AuthAnswersAreCurrent
  <2>7. AuthCookiesAreCurrent'
    <3>1. ASSUME NEW b \in Browsers PROVE AuthCurrent(cookie[b].token)'
      <4>1. CASE cookie'[b] = Auth!NoCookie
        BY <4>1 DEF AuthCurrent, Auth!Expired, Auth!NoCookie
      <4>2. CASE cookie'[b] = cookie[b]
        <5>1. AuthCurrent(cookie[b].token) /\ cookie[b].token \in AnyToken
          BY <1>i DEF AuthCookiesAreCurrent, AuthTypes
        <5>2. cookie[b].token # None => cookie[b].token.expires \in Nat
          BY <5>1 DEF AnyToken
        <5>3. QED
          BY <2>1, <2>2, <4>2, <5>1, <5>2 DEF AuthCurrent, Auth!Expired
      <4>3. QED
        BY <2>1, <4>1, <4>2
    <3>2. QED
      BY <3>1 DEF AuthCookiesAreCurrent, AuthCurrent
  <2>8. AuthReadsAreTrue'
    <3>1. ASSUME NEW r \in Requests, Auth!Expired(request[r].read.token)
             PROVE Auth!Expired(request[r].read.token)'
      <4>1. request[r].read.token \in AnyToken /\ request' = request
        BY <1>i, <2>1 DEF AuthTypes, AnyRow
      <4>2. QED
        BY <2>2, <3>1, <4>1 DEF Auth!Expired, AnyToken
    <3>2. QED
      BY <1>i, <2>1, <3>1 DEF AuthReadsAreTrue
  <2>9. QED
    BY <2>4, <2>6, <2>7, <2>8 DEF AuthIInv
<1>2. ASSUME NEW r \in Requests, NEW b \in Browsers,
             Auth!Login(r, b) \/ Auth!RefreshToken(r, b) PROVE AuthIInv'
  <2>1. /\ UNCHANGED <<clock, user, cookie, generated, refused>>
        /\ \/ /\ request' = [request EXCEPT ![r] = [Auth!NoRequest(b) EXCEPT !.read = user]]
              /\ pc' = [pc EXCEPT ![r] = "generate"]
           \/ /\ request' = [request EXCEPT ![r] = Auth!NoRequest(b)]
              /\ pc' = [pc EXCEPT ![r] = "unauthorized"]
    BY <1>2 DEF Auth!Login, Auth!RefreshToken, Auth!Goto
  <2>2. [Auth!NoRequest(b) EXCEPT !.read = user] = [browser |-> b, read |-> user, token |-> None]
    BY DEF Auth!NoRequest
  <2>3. /\ Auth!NoRequest(b) \in [browser : Browsers, read : AnyRow, token : AnyToken]
        /\ [browser |-> b, read |-> user, token |-> None]
              \in [browser : Browsers, read : AnyRow, token : AnyToken]
    BY <1>i DEF Auth!NoRequest, AnyRow, AnyToken, AuthTypes
  <2>4. AuthTypes'
    <3>1. PICK new \in [browser : Browsers, read : AnyRow, token : AnyToken] :
              request' = [request EXCEPT ![r] = new]
      BY <2>1, <2>2, <2>3
    <3>2. pc' \in [Requests -> {"idle", "generate", "update", "respond", "done", "unauthorized"}]
      BY <1>i, <2>1 DEF AuthTypes
    <3>3. request' \in [Requests -> [browser : Browsers, read : AnyRow, token : AnyToken]]
      BY <1>i, <3>1 DEF AuthTypes
    <3>4. QED
      BY <1>i, <2>1, <3>2, <3>3 DEF AuthTypes
  <2>5. /\ \A q \in Requests \ {r} : pc'[q] = pc[q] /\ request'[q] = request[q]
        /\ pc'[r] \in {"generate", "unauthorized"}
        /\ pc'[r] = "generate" => request'[r].read = user
    BY <1>i, <2>1, <2>2 DEF AuthTypes
  <2>6. AuthReadsAreTrue'
    <3>1. user.stamp \in Nat
      BY <1>i DEF AuthTypes, AnyRow
    <3>2. QED
      BY <1>i, <2>1, <2>5, <3>1 DEF AuthReadsAreTrue, Auth!Expired
  <2>7. AuthAnswersAreCurrent' /\ AuthCookiesAreCurrent'
    BY <1>i, <2>1, <2>5
       DEF AuthAnswersAreCurrent, AuthCookiesAreCurrent, AuthCurrent, Auth!Expired
  <2>8. QED
    BY <2>4, <2>6, <2>7 DEF AuthIInv
<1>3. ASSUME NEW r \in Requests, Auth!GenerateLoginResponse(r) PROVE AuthIInv'
  <2> DEFINE new == [id |-> generated + 1, expires |-> clock + RefreshLife]
  <2>1. /\ UNCHANGED <<clock, user, cookie, refused>> /\ pc[r] = "generate"
        /\ pc' = [pc EXCEPT ![r] = "update"]
        /\ \/ request' = [request EXCEPT ![r].token = request[r].read.token]
                    /\ generated' = generated
           \/ /\ Auth!Expired(request[r].read.token)
              /\ generated' = generated + 1
              /\ request' = [request EXCEPT ![r].token = new]
    BY <1>3 DEF Auth!GenerateLoginResponse, Auth!Reusable, Auth!Goto
  <2>2. new \in AnyToken /\ request[r].read.token \in AnyToken
    BY <1>i, AuthNumbers DEF AuthTypes, AnyToken, AnyRow
  <2>3. AuthTypes'
    <3>1. PICK token \in AnyToken : request' = [request EXCEPT ![r].token = token]
      BY <2>1, <2>2
    <3>2. request' \in [Requests -> [browser : Browsers, read : AnyRow, token : AnyToken]]
      BY <1>i, <3>1 DEF AuthTypes
    <3>3. QED
      BY <1>i, <2>1, <3>2 DEF AuthTypes
  <2>4. /\ \A q \in Requests \ {r} : pc'[q] = pc[q] /\ request'[q] = request[q]
        /\ pc'[r] = "update" /\ request'[r].read = request[r].read
        /\ request'[r].token = request[r].read.token \/ Auth!Expired(request[r].read.token)
    BY <1>i, <2>1 DEF AuthTypes
  <2>5. AuthReadsAreTrue'
    BY <1>i, <2>1, <2>4 DEF AuthReadsAreTrue, Auth!Expired
  <2>6. AuthAnswersAreCurrent' /\ AuthCookiesAreCurrent'
    BY <1>i, <2>1, <2>4
       DEF AuthAnswersAreCurrent, AuthCookiesAreCurrent, AuthCurrent, Auth!Expired
  <2>7. QED
    BY <2>3, <2>5, <2>6 DEF AuthIInv
<1>4. ASSUME NEW r \in Requests, Auth!UpdateUser(r) PROVE AuthIInv'
  <2>1. /\ pc[r] = "update" /\ pc' = [pc EXCEPT ![r] = "respond"]
        /\ UNCHANGED <<clock, cookie, generated, request>>
    BY <1>4 DEF Auth!UpdateUser, Auth!Goto
  <2>2. \A q \in Requests \ {r} : pc'[q] = pc[q]
    BY <1>i, <2>1 DEF AuthTypes
  <2>3. CASE Auth!StampMatches(r)
    <3>1. user' = [token |-> request[r].token, stamp |-> user.stamp + 1] /\ refused' = refused
      BY <1>4, <2>3 DEF Auth!UpdateUser
    <3>2. request[r].read = user
      BY <1>i, <2>1, <2>3 DEF AuthReadsAreTrue, Auth!StampMatches
    <3>3. user'.token = user.token \/ Auth!Expired(user.token)
      BY <1>i, <2>1, <3>1, <3>2 DEF AuthReadsAreTrue
    <3>4. AuthTypes'
      BY <1>i, <2>1, <3>1 DEF AuthTypes, AnyRow
    <3>5. ASSUME NEW token, AuthCurrent(token) PROVE AuthCurrent(token)'
      BY <2>1, <3>1, <3>3, <3>5 DEF AuthCurrent, Auth!Expired
    <3>6. AuthCookiesAreCurrent'
      BY <1>i, <2>1, <3>5 DEF AuthCookiesAreCurrent
    <3>7. AuthAnswersAreCurrent'
      <4>1. AuthCurrent(request[r].token)'
        BY <2>1, <3>1 DEF AuthCurrent
      <4>2. QED
        BY <1>i, <2>1, <2>2, <3>5, <4>1 DEF AuthAnswersAreCurrent
    <3>8. AuthReadsAreTrue'
      <4>1. \A q \in Requests : request[q].read.stamp \in Nat /\ user.stamp \in Nat
        BY <1>i DEF AuthTypes, AnyRow
      <4>2. QED
        BY <1>i, <2>1, <2>2, <3>1, <4>1 DEF AuthReadsAreTrue, Auth!Expired, AuthTypes
    <3>9. QED
      BY <3>4, <3>6, <3>7, <3>8 DEF AuthIInv
  <2>4. CASE ~Auth!StampMatches(r)
    <3>1. /\ user' = user /\ refused \subseteq refused'
          /\ request[r].token = user.token \/ request[r].token \in refused'
      BY <1>4, <2>4 DEF Auth!UpdateUser
    <3>2. ASSUME NEW token, AuthCurrent(token) PROVE AuthCurrent(token)'
      BY <2>1, <3>1, <3>2 DEF AuthCurrent, Auth!Expired
    <3>3. AuthTypes' /\ AuthCookiesAreCurrent'
      BY <1>i, <2>1, <3>1, <3>2 DEF AuthTypes, AuthCookiesAreCurrent
    <3>4. AuthAnswersAreCurrent'
      <4>1. AuthCurrent(request[r].token)'
        BY <2>1, <3>1 DEF AuthCurrent
      <4>2. QED
        BY <1>i, <2>1, <2>2, <3>2, <4>1 DEF AuthAnswersAreCurrent
    <3>5. AuthReadsAreTrue'
      BY <1>i, <2>1, <2>2, <3>1 DEF AuthReadsAreTrue, Auth!Expired, AuthTypes
    <3>6. QED
      BY <3>3, <3>4, <3>5 DEF AuthIInv
  <2>5. QED
    BY <2>3, <2>4
<1>5. ASSUME NEW r \in Requests, Auth!SetAuthCookies(r) PROVE AuthIInv'
  <2>1. /\ pc[r] = "respond" /\ pc' = [pc EXCEPT ![r] = "done"]
        /\ cookie' = [cookie EXCEPT ![request[r].browser] =
                          [token |-> request[r].token, until |-> clock + RefreshLife]]
        /\ UNCHANGED <<clock, user, generated, request, refused>>
    BY <1>5 DEF Auth!SetAuthCookies, Auth!Goto
  <2>2. AuthTypes'
    BY <1>i, <2>1, AuthNumbers DEF AuthTypes
  <2>3. AuthCookiesAreCurrent'
    BY <1>i, <2>1
       DEF AuthTypes, AuthCookiesAreCurrent, AuthAnswersAreCurrent, AuthCurrent, Auth!Expired
  <2>4. AuthAnswersAreCurrent' /\ AuthReadsAreTrue'
    BY <1>i, <2>1
       DEF AuthTypes, AuthAnswersAreCurrent, AuthReadsAreTrue, AuthCurrent, Auth!Expired
  <2>5. QED
    BY <2>2, <2>3, <2>4 DEF AuthIInv
<1>6. ASSUME NEW r \in Requests, Auth!Finish(r) PROVE AuthIInv'
  <2>1. /\ pc' = [pc EXCEPT ![r] = "idle"]
        /\ request' = [request EXCEPT ![r] = Auth!NoRequest(request[r].browser)]
        /\ UNCHANGED <<clock, user, cookie, generated, refused>>
    BY <1>6 DEF Auth!Finish, Auth!Goto
  <2>2. Auth!NoRequest(request[r].browser) \in [browser : Browsers, read : AnyRow,
              token : AnyToken]
    BY <1>i DEF Auth!NoRequest, AuthTypes, AnyRow, AnyToken
  <2>3. AuthTypes'
    BY <1>i, <2>1, <2>2 DEF AuthTypes
  <2>4. pc'[r] = "idle" /\ \A q \in Requests \ {r} : pc'[q] = pc[q] /\ request'[q] = request[q]
    BY <1>i, <2>1 DEF AuthTypes
  <2>5. AuthCookiesAreCurrent' /\ AuthAnswersAreCurrent' /\ AuthReadsAreTrue'
    BY <1>i, <2>1, <2>4
       DEF AuthCookiesAreCurrent, AuthAnswersAreCurrent, AuthReadsAreTrue, AuthCurrent,
           Auth!Expired
  <2>6. QED
    BY <2>3, <2>5 DEF AuthIInv
<1>7. CASE UNCHANGED Auth!vars
  BY <1>i, <1>7 DEF Auth!vars, AuthIInv, AuthTypes, AuthReadsAreTrue, AuthAnswersAreCurrent,
                    AuthCookiesAreCurrent, AuthCurrent, Auth!Expired
<1>8. QED
  BY <1>1, <1>2, <1>3, <1>4, <1>5, <1>6, <1>7 DEF Auth!Next

\* A request has chosen a token by the time it updates the row.
AuthTokenChosen == \A r \in Requests : pc[r] = "update" => request[r].token # None

LEMMA AuthTokenChosenStep ==
    AuthIInv /\ Auth!TypeOK /\ AuthTokenChosen /\ [Auth!Next]_Auth!vars => AuthTokenChosen'
<1> SUFFICES ASSUME AuthIInv, Auth!TypeOK, AuthTokenChosen, [Auth!Next]_Auth!vars,
                          NEW q \in Requests, pc'[q] = "update"
             PROVE  request'[q].token # None
  BY DEF AuthTokenChosen
<1> USE DEF AuthIInv, AuthTypes, AuthTokenChosen
<1>1. CASE Auth!Tick \/ UNCHANGED Auth!vars
  BY <1>1 DEF Auth!Tick, Auth!vars
<1>2. ASSUME NEW r \in Requests, NEW b \in Browsers, Auth!Login(r, b) \/ Auth!RefreshToken(r, b)
      PROVE  request'[q].token # None
  <2>1. pc'[r] # "update" /\ \A s \in Requests \ {r} : pc'[s] = pc[s] /\ request'[s] = request[s]
    BY <1>2 DEF Auth!Login, Auth!RefreshToken, Auth!Goto
  <2>2. QED
    BY <2>1
<1>3. ASSUME NEW r \in Requests, Auth!GenerateLoginResponse(r) PROVE request'[q].token # None
  <2>1. CASE Auth!Reusable(request[r].read.token)
    BY <1>3, <2>1 DEF Auth!GenerateLoginResponse, Auth!Goto, Auth!Reusable, Auth!Expired
  <2>2. CASE ~Auth!Reusable(request[r].read.token)
    <3>1. /\ request' = [request EXCEPT ![r].token = [id |-> generated + 1,
                   expires |-> clock + RefreshLife]]
          /\ pc' = [pc EXCEPT ![r] = "update"] /\ generated < AuthTokenBound
      BY <1>3, <2>2 DEF Auth!GenerateLoginResponse, Auth!Goto
    <3>2. [id |-> generated + 1, expires |-> clock + RefreshLife] \in Auth!Token
      BY <3>1, AuthNumbers DEF Auth!TypeOK, Auth!Token
    <3>3. QED
      BY <3>1, <3>2, AuthNumbers
  <2>3. QED
    BY <2>1, <2>2
<1>4. ASSUME NEW r \in Requests, Auth!UpdateUser(r) \/ Auth!SetAuthCookies(r) \/ Auth!Finish(r)
      PROVE  request'[q].token # None
  <2>1. pc'[r] # "update" /\ \A s \in Requests \ {r} : pc'[s] = pc[s] /\ request'[s] = request[s]
    BY <1>4 DEF Auth!UpdateUser, Auth!SetAuthCookies, Auth!Finish, Auth!Goto
  <2>2. QED
    BY <2>1
<1>5. QED
  BY <1>1, <1>2, <1>3, <1>4 DEF Auth!Next

\* An answer's token is the one that was read, or is new and within the bounds.
LEMMA AuthTypeStep == Auth!TypeOK /\ AuthTokenChosen /\ [Auth!Next]_Auth!vars => Auth!TypeOK'
<1> SUFFICES ASSUME Auth!TypeOK, AuthTokenChosen, [Auth!Next]_Auth!vars PROVE Auth!TypeOK'
  OBVIOUS
<1> USE AuthNumbers DEF Auth!TypeOK, Auth!Row
<1>1. CASE Auth!Tick
  BY <1>1 DEF Auth!Tick, Auth!NoCookie
<1>2. ASSUME NEW r \in Requests, NEW b \in Browsers,
             Auth!Login(r, b) \/ Auth!RefreshToken(r, b) PROVE Auth!TypeOK'
  <2>1. Auth!NoRequest(b) \in [browser : Browsers, read : Auth!Row,
              token : Auth!Token \cup {None}]
    BY DEF Auth!NoRequest
  <2>2. [Auth!NoRequest(b) EXCEPT !.read = user] \in [browser : Browsers, read : Auth!Row,
              token : Auth!Token \cup {None}]
    BY <2>1
  <2>3. /\ request' \in {[request EXCEPT ![r] = Auth!NoRequest(b)],
                         [request EXCEPT ![r] = [Auth!NoRequest(b) EXCEPT !.read = user]]}
        /\ pc' \in {[pc EXCEPT ![r] = "generate"], [pc EXCEPT ![r] = "unauthorized"]}
        /\ UNCHANGED <<clock, user, cookie, generated, refused>>
    BY <1>2 DEF Auth!Login, Auth!RefreshToken, Auth!Goto
  <2>4. request' \in [Requests -> [browser : Browsers, read : Auth!Row,
              token : Auth!Token \cup {None}]]
    BY <2>1, <2>2, <2>3
  <2>5. QED
    BY <2>3, <2>4
<1>3. ASSUME NEW r \in Requests, Auth!GenerateLoginResponse(r) PROVE Auth!TypeOK'
  <2>1. PICK token \in Auth!Token \cup {None}, n \in 0..AuthTokenBound :
           generated' = n /\ request' = [request EXCEPT ![r].token = token]
    <3>1. CASE Auth!Reusable(request[r].read.token)
      BY <1>3, <3>1 DEF Auth!GenerateLoginResponse
    <3>2. CASE ~Auth!Reusable(request[r].read.token)
      <4>1. /\ generated + 1 \in 1..AuthTokenBound /\ generated' = generated + 1
            /\ request' = [request EXCEPT ![r].token = [id |-> generated + 1,
                     expires |-> clock + RefreshLife]]
        BY <1>3, <3>2 DEF Auth!GenerateLoginResponse
      <4>2. [id |-> generated + 1, expires |-> clock + RefreshLife] \in Auth!Token
        BY <4>1 DEF Auth!Token
      <4>3. generated + 1 \in 0..AuthTokenBound
        BY <4>1
      <4>4. QED
        BY <4>1, <4>2, <4>3
    <3>3. QED
      BY <3>1, <3>2
  <2>2. QED
    BY SMTT(30), <1>3, <2>1 DEF Auth!GenerateLoginResponse, Auth!Goto
<1>4. ASSUME NEW r \in Requests, Auth!UpdateUser(r) PROVE Auth!TypeOK'
  <2>1. request[r].token \in Auth!Token
    BY <1>4 DEF Auth!UpdateUser, AuthTokenChosen
  <2>2. user' \in Auth!Row /\ refused' \subseteq Auth!Token
    BY <1>4, <2>1 DEF Auth!UpdateUser
  <2>3. QED
    BY <1>4, <2>2 DEF Auth!UpdateUser, Auth!Goto
<1>5. ASSUME NEW r \in Requests, Auth!SetAuthCookies(r) PROVE Auth!TypeOK'
  BY <1>5 DEF Auth!SetAuthCookies, Auth!Goto
<1>6. ASSUME NEW r \in Requests, Auth!Finish(r) PROVE Auth!TypeOK'
  BY <1>6 DEF Auth!Finish, Auth!NoRequest, Auth!Goto
<1>7. CASE UNCHANGED Auth!vars
  BY <1>7 DEF Auth!vars
<1>8. QED
  BY <1>1, <1>2, <1>3, <1>4, <1>5, <1>6, <1>7 DEF Auth!Next

LEMMA AuthStart == Auth!Init => AuthIInv /\ Auth!TypeOK /\ AuthTokenChosen
<1>1. Auth!Init => Auth!TypeOK /\ AuthTokenChosen
  BY AuthNumbers
     DEF Auth!Init, Auth!TypeOK, AuthTokenChosen, Auth!Row, Auth!NoCookie, Auth!NoRequest
<1>2. QED
  BY <1>1, AuthIInvInit

LEMMA AuthStep ==
    AuthIInv /\ Auth!TypeOK /\ AuthTokenChosen /\ [Auth!Next]_Auth!vars =>
        AuthIInv' /\ Auth!TypeOK' /\ AuthTokenChosen'
BY AuthIInvStep, AuthTypeStep, AuthTokenChosenStep

LEMMA AuthShows == AuthIInv /\ Auth!TypeOK => Auth!SessionsHold
BY DEF AuthIInv, AuthCookiesAreCurrent, AuthCurrent, Auth!SessionsCoexist, Auth!SessionsHold

-----------------------------------------------------------------------------
(* SpotifyTokens                                                           *)

\* Times and bounds are numbers.
LEMMA SpotifyNumbers ==
    /\ Life \in Nat /\ ExpiryBuffer \in Nat /\ DefaultTtl \in Nat /\ MaxDelay \in Nat
    /\ SpotifyClock \in Nat /\ SpotifyTokenBound \in Nat
BY ConstantsAssumption

SpotifySteps == {"idle", "none", "cached", "refresh", "save", "refreshed", "connect"}
SpotifySaving(c) == pc[c] \in {"save", "connect"}

SpotifyTypes ==
    /\ clock \in Nat /\ rotates \in BOOLEAN /\ issued \in Nat
    /\ live \subseteq 1..issued
    /\ pc \in [Calls -> SpotifySteps]
    /\ job \in [Calls -> [refresh : 0..issued, access : Nat, newRefresh : 0..issued,
             answered : Nat]]
    /\ store # None => store \in [access : Nat, refresh : 0..issued, expires : Nat, until : Nat]

\* A token that is about to be saved works. If Spotify replaces tokens, nobody
\* else has it, so that no other call can use it up before it is saved.
SpotifyNewTokensWork ==
    \A c \in Calls : SpotifySaving(c) =>
        /\ job[c].newRefresh \in live
        /\ rotates =>
              /\ store # None => store.refresh # job[c].newRefresh
              /\ \A d \in Calls :
                    /\ pc[d] = "refresh" => job[d].refresh # job[c].newRefresh
                    /\ d # c /\ SpotifySaving(d) => job[d].newRefresh # job[c].newRefresh

\* If Spotify never replaces tokens, those in the store and in use all work.
SpotifyKeptTokensWork == ~rotates => (store # None => store.refresh \in live)

\* What is saved was answered at most MaxDelay ago, so that the stored expiry
\* exceeds that of the access token by no more.
SpotifyExpiryNearTruth ==
    /\ \A c \in Calls : SpotifySaving(c) =>
          /\ job[c].answered <= clock /\ clock <= job[c].answered + MaxDelay
          /\ job[c].access = job[c].answered + Life
    /\ store # None => store.expires <= store.access + MaxDelay

SpotifyIInv == SpotifyTypes /\ SpotifyNewTokensWork /\ SpotifyKeptTokensWork
      /\ Spotify!StoredRefreshTokenWorks /\ SpotifyExpiryNearTruth

-----------------------------------------------------------------------------

LEMMA SpotifyIInvInit == Spotify!Init => SpotifyIInv
BY DEF Spotify!Init, SpotifyIInv, SpotifyTypes, SpotifyNewTokensWork, SpotifyKeptTokensWork,
       Spotify!StoredRefreshTokenWorks, SpotifyExpiryNearTruth,
       Spotify!EmptyJob, SpotifySteps, SpotifySaving

LEMMA SpotifyIInvStep ==
    SpotifyIInv /\ [Spotify!Next]_Spotify!vars => SpotifyIInv'
<1> SUFFICES ASSUME SpotifyIInv, [Spotify!Next]_Spotify!vars PROVE SpotifyIInv'
  OBVIOUS
<1> USE SpotifyNumbers
<1>1. CASE Spotify!Tick
  <2>1. /\ clock' = clock + 1 /\ UNCHANGED <<rotates, issued, live, pc, job, lost>>
        /\ store' # None => store' = store
        /\ \A c \in Calls : SpotifySaving(c) => clock < job[c].answered + MaxDelay
    BY <1>1 DEF Spotify!Tick, SpotifySaving
  <2>2. SpotifyTypes'
    BY <2>1 DEF SpotifyIInv, SpotifyTypes
  <2>3. SpotifyNewTokensWork' /\ SpotifyKeptTokensWork' /\ Spotify!StoredRefreshTokenWorks'
    BY <2>1 DEF SpotifyIInv, SpotifyNewTokensWork, SpotifyKeptTokensWork,
                Spotify!StoredRefreshTokenWorks, SpotifySaving
  <2>4. SpotifyExpiryNearTruth'
    <3>1. ASSUME NEW c \in Calls, SpotifySaving(c)'
          PROVE  job'[c].answered <= clock' /\ clock' <= job'[c].answered + MaxDelay
                 /\ job'[c].access = job'[c].answered + Life
      <4>1. SpotifySaving(c) /\ clock \in Nat /\ job[c].answered \in Nat
        BY <2>1, <3>1 DEF SpotifySaving, SpotifyIInv, SpotifyTypes
      <4>2. QED
        BY <2>1, <4>1 DEF SpotifyIInv, SpotifyExpiryNearTruth
    <3>2. QED
      BY <2>1, <3>1 DEF SpotifyIInv, SpotifyExpiryNearTruth
  <2>5. QED
    BY <2>2, <2>3, <2>4 DEF SpotifyIInv
<1>2. CASE Spotify!Disconnect
  BY <1>2 DEF Spotify!Disconnect, SpotifyIInv, SpotifyTypes, SpotifyNewTokensWork,
              SpotifyKeptTokensWork, Spotify!StoredRefreshTokenWorks,
              SpotifyExpiryNearTruth, SpotifySaving
<1>3. ASSUME NEW c \in Calls, Spotify!GetValidAccessToken(c) PROVE SpotifyIInv'
  <2>1. /\ UNCHANGED <<clock, store, rotates, issued, live, lost>> /\ pc[c] = "idle"
        /\ \/ store = None /\ pc' = [pc EXCEPT ![c] = "none"] /\ job' = job
           \/ /\ store # None
              /\ job' = [job EXCEPT ![c].refresh = store.refresh, ![c].access = store.access]
              /\ pc' \in {[pc EXCEPT ![c] = "cached"], [pc EXCEPT ![c] = "refresh"]}
    BY <1>3 DEF Spotify!GetValidAccessToken, Spotify!Goto
  <2>2. /\ pc' \in [Calls -> SpotifySteps] /\ pc'[c] \in {"none", "cached", "refresh"}
        /\ \A d \in Calls \ {c} : pc'[d] = pc[d] /\ job'[d] = job[d]
        /\ store = None => pc'[c] = "none"
        /\ store # None => job'[c].refresh = store.refresh
    BY <2>1 DEF SpotifyIInv, SpotifyTypes, SpotifySteps
  <2>3. SpotifyTypes'
    BY <2>1, <2>2 DEF SpotifyIInv, SpotifyTypes
  <2>4. SpotifyNewTokensWork'
    BY <2>1, <2>2 DEF SpotifyIInv, SpotifyNewTokensWork, SpotifySaving
  <2>5. SpotifyKeptTokensWork' /\ Spotify!StoredRefreshTokenWorks'
    BY <2>1, <2>2 DEF SpotifyIInv, SpotifyKeptTokensWork, Spotify!StoredRefreshTokenWorks
  <2>6. SpotifyExpiryNearTruth'
    BY <2>1, <2>2 DEF SpotifyIInv, SpotifyExpiryNearTruth, SpotifySaving
  <2>7. QED
    BY <2>3, <2>4, <2>5, <2>6 DEF SpotifyIInv
<1>4. ASSUME NEW c \in Calls, Spotify!AcceptRefresh(c) PROVE SpotifyIInv'
  <2> DEFINE new == IF rotates THEN issued' ELSE job[c].refresh
  <2>1. /\ UNCHANGED <<clock, store, rotates, lost>> /\ pc[c] = "refresh"
        /\ job[c].refresh \in live
        /\ issued' = IF rotates THEN issued + 1 ELSE issued
        /\ live' = IF rotates THEN (live \ {job[c].refresh}) \cup {issued'} ELSE live
        /\ pc' = [pc EXCEPT ![c] = "save"]
        /\ job' = [job EXCEPT ![c].access = clock + Life, ![c].answered = clock,
                 ![c].newRefresh = new]
    BY <1>4 DEF Spotify!AcceptRefresh, Spotify!Goto, Spotify!ReturnedRefresh
  <2>2. /\ pc' \in [Calls -> SpotifySteps] /\ pc'[c] = "save"
        /\ \A d \in Calls \ {c} : pc'[d] = pc[d] /\ job'[d] = job[d]
        /\ job'[c] = [refresh |-> job[c].refresh, access |-> clock + Life, newRefresh |-> new,
                      answered |-> clock]
    BY <2>1 DEF SpotifyIInv, SpotifyTypes, SpotifySteps
  <2>3. issued' \in Nat /\ issued <= issued' /\ new \in live' /\ live' \subseteq 1..issued'
    BY <2>1 DEF SpotifyIInv, SpotifyTypes
  <2>4. SpotifyTypes'
    <3>1. \A d \in Calls : job'[d] \in [refresh : 0..issued', access : Nat,
                newRefresh : 0..issued', answered : Nat]
      BY <2>1, <2>2, <2>3 DEF SpotifyIInv, SpotifyTypes
    <3>2. job' = [d \in Calls |-> job'[d]]
      BY <2>1 DEF SpotifyIInv, SpotifyTypes
    <3>3. job' \in [Calls -> [refresh : 0..issued', access : Nat, newRefresh : 0..issued',
                answered : Nat]]
      BY <3>1, <3>2
    <3>4. QED
      BY <2>1, <2>2, <2>3, <3>3 DEF SpotifyIInv, SpotifyTypes
  <2>5. SpotifyNewTokensWork'
    <3>1. CASE rotates
      <4>1. /\ issued' = issued + 1 /\ new = issued + 1 /\ job'[c].newRefresh = issued + 1
            /\ store # None => store.refresh \in 0..issued
            /\ \A d \in Calls : job[d].refresh \in 0..issued /\ job[d].newRefresh \in 0..issued
            /\ issued \in Nat /\ issued + 1 \notin 0..issued
        BY <2>1, <2>2, <3>1 DEF SpotifyIInv, SpotifyTypes
      <4>2. ASSUME NEW d \in Calls \ {c}, SpotifySaving(d) PROVE job[d].newRefresh \in live'
        BY <2>1, <3>1, <4>2 DEF SpotifyIInv, SpotifyNewTokensWork
      <4>3. ASSUME NEW d \in Calls, SpotifySaving(d)'
            PROVE  /\ job'[d].newRefresh \in live'
                   /\ store' # None => store'.refresh # job'[d].newRefresh
                   /\ \A e \in Calls :
                        /\ pc'[e] = "refresh" => job'[e].refresh # job'[d].newRefresh
                        /\ e # d /\ SpotifySaving(e)' => job'[e].newRefresh # job'[d].newRefresh
        <5>1. CASE d = c
          <6>1. ASSUME NEW e \in Calls
                PROVE  /\ pc'[e] = "refresh" => job'[e].refresh # issued + 1
                       /\ e # c /\ SpotifySaving(e)' => job'[e].newRefresh # issued + 1
            <7>1. CASE e = c
              BY <2>2, <7>1
            <7>2. CASE e # c
              BY <2>2, <4>1, <7>2
            <7>3. QED
              BY <7>1, <7>2
          <6>2. QED
            BY <2>1, <2>3, <4>1, <5>1, <6>1
        <5>2. CASE d # c
          <6>1. SpotifySaving(d) /\ job'[d] = job[d]
            BY <2>2, <4>3, <5>2 DEF SpotifySaving
          <6>2. job'[d].newRefresh \in live'
            BY <4>2, <5>2, <6>1
          <6>3. store' # None => store'.refresh # job'[d].newRefresh
            BY <2>1, <3>1, <6>1 DEF SpotifyIInv, SpotifyNewTokensWork
          <6>4. ASSUME NEW e \in Calls
                PROVE  /\ pc'[e] = "refresh" => job'[e].refresh # job'[d].newRefresh
                       /\ e # d /\ SpotifySaving(e)' => job'[e].newRefresh # job'[d].newRefresh
            <7>1. CASE e = c
              BY <2>2, <4>1, <6>1, <7>1
            <7>2. CASE e # c
              BY <2>2, <3>1, <6>1, <7>2 DEF SpotifyIInv, SpotifyNewTokensWork, SpotifySaving
            <7>3. QED
              BY <7>1, <7>2
          <6>5. QED
            BY <6>2, <6>3, <6>4
        <5>3. QED
          BY <5>1, <5>2
      <4>4. QED
        BY <4>3 DEF SpotifyNewTokensWork
    <3>2. CASE ~rotates
      <4>1. ASSUME NEW d \in Calls, SpotifySaving(d)' PROVE job'[d].newRefresh \in live'
        <5>1. CASE d = c
          BY <2>2, <2>3, <5>1
        <5>2. CASE d # c
          <6>1. SpotifySaving(d) /\ job'[d] = job[d]
            BY <2>2, <4>1, <5>2 DEF SpotifySaving
          <6>2. job[d].newRefresh \in live
            BY <6>1 DEF SpotifyIInv, SpotifyNewTokensWork
          <6>3. live' = live
            BY <2>1, <3>2
          <6>4. QED
            BY <6>1, <6>2, <6>3
        <5>3. QED
          BY <5>1, <5>2
      <4>2. QED
        BY <2>1, <3>2, <4>1 DEF SpotifyNewTokensWork
    <3>3. QED
      BY <3>1, <3>2 DEF SpotifyIInv, SpotifyTypes
  <2>6. SpotifyKeptTokensWork'
    BY <2>1 DEF SpotifyIInv, SpotifyKeptTokensWork
  <2>7. Spotify!StoredRefreshTokenWorks'
    <3>1. ASSUME store # None
          PROVE  \/ store.refresh \in live'
                 \/ store.refresh \in lost
                 \/ \E d \in Calls : pc'[d] = "save" /\ job'[d].refresh = store.refresh
      <4>1. CASE store.refresh \in live
        <5>1. CASE store.refresh = job[c].refresh
          BY <2>2, <5>1
        <5>2. CASE store.refresh # job[c].refresh
          BY <2>1, <4>1, <5>2
        <5>3. QED
          BY <5>1, <5>2
      <4>2. CASE store.refresh \in lost
        BY <4>2
      <4>3. ASSUME NEW d \in Calls, pc[d] = "save", job[d].refresh = store.refresh
            PROVE  pc'[d] = "save" /\ job'[d].refresh = store.refresh
        BY <2>1, <2>2, <4>3
      <4>4. QED
        BY <3>1, <4>1, <4>2, <4>3 DEF SpotifyIInv, Spotify!StoredRefreshTokenWorks
    <3>2. QED
      BY <2>1, <3>1 DEF Spotify!StoredRefreshTokenWorks
  <2>8. SpotifyExpiryNearTruth'
    BY <2>1, <2>2 DEF SpotifyIInv, SpotifyTypes, SpotifyExpiryNearTruth, SpotifySaving
  <2>9. QED
    BY <2>4, <2>5, <2>6, <2>7, <2>8 DEF SpotifyIInv
<1>5. ASSUME NEW c \in Calls, Spotify!RefuseRefresh(c) PROVE SpotifyIInv'
  <2>1. /\ UNCHANGED <<clock, store, rotates, issued, live, job, lost>> /\ pc[c] = "refresh"
        /\ pc' = [pc EXCEPT ![c] = "none"]
    BY <1>5 DEF Spotify!RefuseRefresh, Spotify!Goto
  <2>2. pc' \in [Calls -> SpotifySteps] /\ pc'[c] = "none"
              /\ \A d \in Calls \ {c} : pc'[d] = pc[d]
    BY <2>1 DEF SpotifyIInv, SpotifyTypes, SpotifySteps
  <2>3. QED
    BY <2>1, <2>2 DEF SpotifyIInv, SpotifyTypes, SpotifyNewTokensWork, SpotifyKeptTokensWork,
                      Spotify!StoredRefreshTokenWorks,
                      SpotifyExpiryNearTruth, SpotifySaving
<1>6. ASSUME NEW c \in Calls, Spotify!SaveRefreshed(c) \/ Spotify!SaveConnected(c)
                   PROVE SpotifyIInv'
  <2>1. /\ UNCHANGED <<clock, rotates, issued, live, job, lost>> /\ SpotifySaving(c)
        /\ store' = Spotify!Saved(c)
        /\ pc' \in {[pc EXCEPT ![c] = "refreshed"], [pc EXCEPT ![c] = "none"]}
    BY <1>6 DEF Spotify!SaveRefreshed, Spotify!SaveConnected, Spotify!Goto, SpotifySaving
  <2>2. /\ pc' \in [Calls -> SpotifySteps] /\ pc'[c] \in {"refreshed", "none"}
        /\ \A d \in Calls \ {c} : pc'[d] = pc[d]
    BY <2>1 DEF SpotifyIInv, SpotifyTypes, SpotifySteps
  <2>3. /\ store'.refresh = job[c].newRefresh /\ store'.refresh \in live
        /\ store'.access = job[c].access /\ store'.expires = clock + Life
        /\ store' \in [access : Nat, refresh : 0..issued, expires : Nat, until : Nat]
    BY <2>1 DEF SpotifyIInv, SpotifyTypes, SpotifyNewTokensWork, Spotify!Saved
  <2>4. SpotifyTypes' /\ SpotifyKeptTokensWork' /\ Spotify!StoredRefreshTokenWorks'
    BY <2>1, <2>2, <2>3
       DEF SpotifyIInv, SpotifyTypes, SpotifyKeptTokensWork, Spotify!StoredRefreshTokenWorks
  <2>5. SpotifyNewTokensWork'
    BY <2>1, <2>2, <2>3 DEF SpotifyIInv, SpotifyNewTokensWork, SpotifySaving
  <2>6. SpotifyExpiryNearTruth'
    <3>1. store'.expires <= store'.access + MaxDelay
      <4>1. /\ clock <= job[c].answered + MaxDelay /\ job[c].access = job[c].answered + Life
            /\ clock \in Nat /\ job[c].answered \in Nat
        BY <2>1 DEF SpotifyIInv, SpotifyTypes, SpotifyExpiryNearTruth
      <4>2. QED
        BY <2>3, <4>1
    <3>2. QED
      BY <2>1, <2>2, <3>1 DEF SpotifyIInv, SpotifyExpiryNearTruth, SpotifySaving
  <2>7. QED
    BY <2>4, <2>5, <2>6 DEF SpotifyIInv
<1>7. ASSUME NEW c \in Calls, Spotify!ExchangeCode(c) PROVE SpotifyIInv'
  <2>1. /\ UNCHANGED <<clock, store, rotates, lost>> /\ pc[c] = "idle"
        /\ issued' = issued + 1 /\ live' = live \cup {issued + 1}
        /\ pc' = [pc EXCEPT ![c] = "connect"]
        /\ job' = [job EXCEPT ![c] = [refresh |-> 0, access |-> clock + Life,
                                      newRefresh |-> issued + 1, answered |-> clock]]
    BY <1>7 DEF Spotify!ExchangeCode, Spotify!Goto
  <2>2. /\ pc' \in [Calls -> SpotifySteps] /\ pc'[c] = "connect"
        /\ \A d \in Calls \ {c} : pc'[d] = pc[d] /\ job'[d] = job[d]
        /\ job'[c] = [refresh |-> 0, access |-> clock + Life, newRefresh |-> issued + 1,
                      answered |-> clock]
        /\ issued \in Nat
    BY <2>1 DEF SpotifyIInv, SpotifyTypes, SpotifySteps
  <2>3. SpotifyTypes'
    <3>1. \A d \in Calls : job'[d] \in [refresh : 0..issued', access : Nat,
                newRefresh : 0..issued', answered : Nat]
      BY <2>1, <2>2 DEF SpotifyIInv, SpotifyTypes
    <3>2. job' = [d \in Calls |-> job'[d]]
      BY <2>1 DEF SpotifyIInv, SpotifyTypes
    <3>3. job' \in [Calls -> [refresh : 0..issued', access : Nat, newRefresh : 0..issued',
                answered : Nat]]
      BY <3>1, <3>2
    <3>4. QED
      BY <2>1, <2>2, <3>3 DEF SpotifyIInv, SpotifyTypes
  <2>4. SpotifyNewTokensWork'
    <3>1. /\ store # None => store.refresh <= issued
          /\ \A d \in Calls : job[d].refresh <= issued /\ job[d].newRefresh <= issued
      BY DEF SpotifyIInv, SpotifyTypes
    <3>2. QED
      BY <2>1, <2>2, <3>1 DEF SpotifyIInv, SpotifyNewTokensWork, SpotifySaving
  <2>5. SpotifyKeptTokensWork' /\ Spotify!StoredRefreshTokenWorks'
    BY <2>1, <2>2 DEF SpotifyIInv, SpotifyKeptTokensWork, Spotify!StoredRefreshTokenWorks
  <2>6. SpotifyExpiryNearTruth'
    BY <2>1, <2>2 DEF SpotifyIInv, SpotifyTypes, SpotifyExpiryNearTruth, SpotifySaving
  <2>7. QED
    BY <2>3, <2>4, <2>5, <2>6 DEF SpotifyIInv
<1>8. ASSUME NEW c \in Calls, Spotify!Finish(c) \/ Spotify!Abort(c) PROVE SpotifyIInv'
  <2>1. /\ UNCHANGED <<clock, store, rotates, issued, live>>
        /\ pc' = [pc EXCEPT ![c] = "idle"] /\ job' = [job EXCEPT ![c] = Spotify!EmptyJob]
        /\ lost \subseteq lost'
        /\ pc[c] = "save" /\ rotates => job[c].refresh \in lost'
    BY <1>8 DEF Spotify!Finish, Spotify!Abort, Spotify!Goto
  <2>2. /\ pc' \in [Calls -> SpotifySteps] /\ pc'[c] = "idle"
        /\ \A d \in Calls \ {c} : pc'[d] = pc[d] /\ job'[d] = job[d]
    BY <2>1 DEF SpotifyIInv, SpotifyTypes, SpotifySteps
  <2>3. SpotifyTypes'
    BY <2>1, <2>2 DEF SpotifyIInv, SpotifyTypes, Spotify!EmptyJob
  <2>4. SpotifyNewTokensWork'
    BY <2>1, <2>2 DEF SpotifyIInv, SpotifyNewTokensWork, SpotifySaving
  <2>5. SpotifyKeptTokensWork'
    BY <2>1 DEF SpotifyIInv, SpotifyKeptTokensWork
  <2>6. Spotify!StoredRefreshTokenWorks'
    <3>1. ASSUME store # None, store.refresh \notin live, store.refresh \notin lost
          PROVE  \/ store.refresh \in lost'
                 \/ \E d \in Calls : pc'[d] = "save" /\ job'[d].refresh = store.refresh
      <4>1. rotates
        BY <3>1 DEF SpotifyIInv, SpotifyKeptTokensWork
      <4>2. PICK d \in Calls : pc[d] = "save" /\ job[d].refresh = store.refresh
        BY <3>1 DEF SpotifyIInv, Spotify!StoredRefreshTokenWorks
      <4>3. QED
        BY <2>1, <2>2, <4>1, <4>2
    <3>2. QED
      BY <2>1, <3>1 DEF Spotify!StoredRefreshTokenWorks
  <2>7. SpotifyExpiryNearTruth'
    BY <2>1, <2>2 DEF SpotifyIInv, SpotifyExpiryNearTruth, SpotifySaving
  <2>8. QED
    BY <2>3, <2>4, <2>5, <2>6, <2>7 DEF SpotifyIInv
<1>9. CASE UNCHANGED Spotify!vars
  BY <1>9 DEF Spotify!vars, SpotifyIInv, SpotifyTypes, SpotifyNewTokensWork,
              SpotifyKeptTokensWork, Spotify!StoredRefreshTokenWorks,
              SpotifyExpiryNearTruth, SpotifySaving
<1>10. QED
  BY <1>1, <1>2, <1>3, <1>4, <1>5, <1>6, <1>7, <1>8, <1>9 DEF Spotify!Next

\* The store's expiry is late by the time a saving took; the margin covers it.
LEMMA SpotifyHandsOut ==
    ASSUME SpotifyIInv, Spotify!Next, MaxDelay <= ExpiryBuffer, NEW c \in Calls,
           pc'[c] = "cached", pc[c] # "cached"
    PROVE  job'[c].access > clock
<1>1. pc \in [Calls -> SpotifySteps]
  BY DEF SpotifyIInv, SpotifyTypes
<1>2. Spotify!GetValidAccessToken(c)
  BY <1>1 DEF Spotify!Next, Spotify!Tick, Spotify!Disconnect, Spotify!GetValidAccessToken,
              Spotify!AcceptRefresh, Spotify!RefuseRefresh,
              Spotify!SaveRefreshed, Spotify!ExchangeCode, Spotify!SaveConnected, Spotify!Finish,
              Spotify!Abort, Spotify!Goto
<1>3. /\ store # None /\ store.expires > clock + ExpiryBuffer
      /\ job' = [job EXCEPT ![c].refresh = store.refresh, ![c].access = store.access]
  BY <1>1, <1>2 DEF Spotify!GetValidAccessToken, Spotify!Goto, Spotify!Fresh
<1>4. /\ job'[c].access = store.access /\ store.access \in Nat /\ store.expires \in Nat
      /\ clock \in Nat /\ store.expires <= store.access + MaxDelay
  BY <1>3 DEF SpotifyIInv, SpotifyTypes, SpotifyExpiryNearTruth
<1>5. QED
  BY <1>3, <1>4, SpotifyNumbers

\* Time and the tokens issued stay within their bounds.
SpotifyInBounds ==
    /\ disconnected \in BOOLEAN
    /\ clock \in 0..SpotifyClock /\ issued \in 0..SpotifyTokenBound
    /\ lost \subseteq Spotify!RefreshToken

LEMMA SpotifyInBoundsStep ==
    SpotifyIInv /\ SpotifyInBounds /\ [Spotify!Next]_Spotify!vars => SpotifyInBounds'
<1> SUFFICES ASSUME SpotifyIInv, SpotifyInBounds, [Spotify!Next]_Spotify!vars
                          PROVE SpotifyInBounds'
  OBVIOUS
<1> USE SpotifyNumbers DEF SpotifyInBounds, Spotify!RefreshToken
<1>1. CASE Spotify!Tick \/ Spotify!Disconnect
  <2>1. clock' = clock \/ (clock < SpotifyClock /\ clock' = clock + 1)
    BY <1>1 DEF Spotify!Tick, Spotify!Disconnect
  <2>2. issued' = issued /\ lost' = lost
    BY <1>1 DEF Spotify!Tick, Spotify!Disconnect
  <2>3. disconnected' \in BOOLEAN
    BY <1>1 DEF Spotify!Tick, Spotify!Disconnect
  <2>4. QED
    BY <2>1, <2>2, <2>3
<1>2. ASSUME NEW c \in Calls, Spotify!AcceptRefresh(c) \/ Spotify!ExchangeCode(c)
                   PROVE SpotifyInBounds'
  BY <1>2 DEF Spotify!AcceptRefresh, Spotify!ExchangeCode
<1>3. ASSUME NEW c \in Calls,
             Spotify!GetValidAccessToken(c) \/ Spotify!RefuseRefresh(c)
                   \/ Spotify!SaveRefreshed(c) \/ Spotify!SaveConnected(c) \/ Spotify!Finish(c)
      PROVE  SpotifyInBounds'
  BY <1>3 DEF Spotify!GetValidAccessToken, Spotify!RefuseRefresh, Spotify!SaveRefreshed,
              Spotify!SaveConnected, Spotify!Finish
<1>4. ASSUME NEW c \in Calls, Spotify!Abort(c) PROVE SpotifyInBounds'
  <2>1. job[c].refresh \in 0..SpotifyTokenBound
    BY DEF SpotifyIInv, SpotifyTypes
  <2>2. QED
    BY <1>4, <2>1 DEF Spotify!Abort
<1>5. CASE UNCHANGED Spotify!vars
  BY <1>5 DEF Spotify!vars
<1>6. QED
  BY <1>1, <1>2, <1>3, <1>4, <1>5 DEF Spotify!Next

LEMMA SpotifyStart == Spotify!Init => SpotifyIInv /\ SpotifyInBounds
<1>1. Spotify!Init => SpotifyInBounds
  <2> SUFFICES ASSUME Spotify!Init PROVE SpotifyInBounds
    OBVIOUS
  <2>1. disconnected \in BOOLEAN
    BY DEF Spotify!Init
  <2>2. QED
    BY <2>1, SpotifyNumbers DEF Spotify!Init, SpotifyInBounds
<1>2. QED
  BY <1>1, SpotifyIInvInit

LEMMA SpotifyStep ==
    SpotifyIInv /\ SpotifyInBounds /\ [Spotify!Next]_Spotify!vars => SpotifyIInv'
          /\ SpotifyInBounds'
BY SpotifyIInvStep, SpotifyInBoundsStep

LEMMA SpotifyShows == ASSUME SpotifyIInv, SpotifyInBounds PROVE Spotify!AccountStaysUsable
<1>1. 0..issued \subseteq Spotify!RefreshToken
  BY SpotifyNumbers DEF SpotifyInBounds, Spotify!RefreshToken
<1>2. store \in Spotify!Tokens \cup {None}
  BY <1>1 DEF SpotifyIInv, SpotifyTypes, Spotify!Tokens
<1>3. job \in [Calls -> Spotify!Job]
  BY <1>1 DEF SpotifyIInv, SpotifyTypes, Spotify!Job
<1>4. Spotify!TypeOK
  BY <1>2, <1>3 DEF SpotifyIInv, SpotifyInBounds, SpotifyTypes, Spotify!TypeOK, SpotifySteps,
                    Spotify!RefreshToken
<1>5. QED
  BY <1>4 DEF SpotifyIInv, Spotify!AccountStaysUsable

-----------------------------------------------------------------------------
(* PlatformMonitor                                                         *)

\* Times of records; no time is None.
MonitorTimes == 0..MonitorClock

LEMMA MonitorTimesAreNumbers ==
    MonitorClock \in Nat /\ MonitorTimes \subseteq Nat /\ None \notin MonitorTimes
          /\ None \notin Monitor!Status
    /\ 0 \in MonitorTimes
BY ConstantsAssumption, NoneAssumption DEF MonitorTimes

MonitorRecord == [outcome : Monitor!Outcomes, at : MonitorTimes]


MonitorFailuresIn(s) == {i \in DOMAIN s : s[i].outcome = "failed"}
MonitorOne(outcome) == IF outcome = "failed" THEN 1 ELSE 0

\* A status counts no more than the records hold.
MonitorBacked(status) ==
    status.total <= Len(audits) /\ status.failed <= Cardinality(MonitorFailuresIn(audits))

MonitorTypes ==
    /\ clock \in MonitorTimes
    /\ pc \in [Calls -> {"idle", "read", "append", "upsert", "done"}]
    /\ job \in [Calls -> [outcome : Monitor!Outcomes, at : MonitorTimes,
             previous : Monitor!Status \cup {None}]]
    /\ audits \in Seq(MonitorRecord)
    /\ doc \in Monitor!Status \cup {None}

\* What a recording read was backed when it read it and is so for good, as records
\* are only added; once its own record is stored, one more request is.
MonitorIInv ==
    /\ MonitorTypes
    /\ doc # None => MonitorBacked(doc)
    /\ \A r \in Calls :
          /\ pc[r] = "read" => job[r].previous = None
          /\ pc[r] = "append" => MonitorBacked(Monitor!Previous(r))
          /\ pc[r] = "upsert" =>
                /\ Monitor!Previous(r).total + 1 <= Len(audits)
                /\ Monitor!Previous(r).failed + MonitorOne(job[r].outcome)
                      <= Cardinality(MonitorFailuresIn(audits))

-----------------------------------------------------------------------------

\* A record more is a failure more or none.
LEMMA MonitorFailuresAppend ==
    ASSUME NEW s \in Seq(MonitorRecord), NEW e \in MonitorRecord
    PROVE  /\ Cardinality(MonitorFailuresIn(s)) \in Nat
           /\ Cardinality(MonitorFailuresIn(Append(s, e)))
                 = Cardinality(MonitorFailuresIn(s)) + MonitorOne(e.outcome)
<1>1. IsFiniteSet(MonitorFailuresIn(s)) /\ Cardinality(MonitorFailuresIn(s)) \in Nat
  <2>1. IsFiniteSet(1..Len(s))
    BY FS_Interval
  <2>2. MonitorFailuresIn(s) \subseteq 1..Len(s)
    BY DEF MonitorFailuresIn
  <2>3. QED
    BY <2>1, <2>2, FS_Subset, FS_CardinalityType
<1>2. /\ DOMAIN Append(s, e) = DOMAIN s \cup {Len(s) + 1} /\ Len(s) + 1 \notin DOMAIN s
      /\ \A i \in DOMAIN s : Append(s, e)[i] = s[i]
      /\ Append(s, e)[Len(s) + 1] = e
  OBVIOUS
<1>3. CASE e.outcome = "failed"
  <2>1. MonitorFailuresIn(Append(s, e)) = MonitorFailuresIn(s) \cup {Len(s) + 1}
              /\ Len(s) + 1 \notin MonitorFailuresIn(s)
    BY <1>2, <1>3 DEF MonitorFailuresIn
  <2>2. QED
    BY <1>1, <1>3, <2>1, FS_AddElement DEF MonitorOne
<1>4. CASE e.outcome # "failed"
  <2>1. MonitorFailuresIn(Append(s, e)) = MonitorFailuresIn(s)
    BY <1>2, <1>4 DEF MonitorFailuresIn
  <2>2. QED
    BY <1>1, <1>4, <2>1 DEF MonitorOne
<1>5. QED
  BY <1>3, <1>4

LEMMA MonitorNextStatusType ==
    ASSUME MonitorTypes, NEW r \in Calls
    PROVE  /\ Monitor!Previous(r) \in Monitor!Status
           /\ Monitor!NextStatus(r) \in Monitor!Status
           /\ Monitor!NextStatus(r).total = Monitor!Previous(r).total + 1
           /\ Monitor!NextStatus(r).failed = Monitor!Previous(r).failed + MonitorOne(job[r].outcome)
<1>1. Monitor!Previous(r) \in Monitor!Status /\ job[r].outcome \in Monitor!Outcomes
            /\ job[r].at \in MonitorTimes
  BY DEF MonitorTypes, Monitor!Previous, Monitor!NoStatus, Monitor!Status
<1>2. QED
  BY <1>1 DEF Monitor!NextStatus, Monitor!Status, MonitorOne, Monitor!Outcomes, MonitorTimes

LEMMA MonitorIInvInit == Monitor!Init => MonitorIInv
<1> SUFFICES ASSUME Monitor!Init PROVE MonitorIInv
  OBVIOUS
<1>1. MonitorTypes
  BY MonitorTimesAreNumbers DEF Monitor!Init, MonitorTypes, Monitor!NoJob, Monitor!Outcomes
<1>2. QED
  BY <1>1 DEF Monitor!Init, MonitorIInv, Monitor!NoJob

\* A step of one recording leaves the invariant if the records, the status and the
\* recording's own part do; the other recordings only need that no record is lost.
LEMMA MonitorOwnStep ==
    ASSUME MonitorIInv, NEW r \in Calls, NEW step \in {"read", "append", "upsert", "done"},
           pc' = [pc EXCEPT ![r] = step], MonitorTypes',
           \A s \in Calls \ {r} : job'[s] = job[s],
           Len(audits) <= Len(audits'),
           Cardinality(MonitorFailuresIn(audits)) <= Cardinality(MonitorFailuresIn(audits')),
           doc' # None => MonitorBacked(doc)',
           step = "read" => job'[r].previous = None,
           step = "append" => MonitorBacked(Monitor!Previous(r))',
           step = "upsert" =>
                /\ Monitor!Previous(r)'.total + 1 <= Len(audits')
                /\ Monitor!Previous(r)'.failed + MonitorOne(job'[r].outcome)
                      <= Cardinality(MonitorFailuresIn(audits'))
    PROVE  MonitorIInv'
<1>1. /\ Len(audits) \in Nat /\ Len(audits') \in Nat
      /\ Cardinality(MonitorFailuresIn(audits)) \in Nat
      /\ Cardinality(MonitorFailuresIn(audits')) \in Nat
  <2>1. ASSUME NEW s \in Seq(MonitorRecord) PROVE IsFiniteSet(MonitorFailuresIn(s))
    BY FS_Interval, FS_Subset DEF MonitorFailuresIn
  <2>2. QED
    BY <2>1, FS_CardinalityType DEF MonitorIInv, MonitorTypes
<1>2. ASSUME NEW s \in Calls \ {r}
      PROVE  /\ pc'[s] = "read" => job'[s].previous = None
             /\ pc'[s] = "append" => MonitorBacked(Monitor!Previous(s))'
             /\ pc'[s] = "upsert" =>
                  /\ Monitor!Previous(s)'.total + 1 <= Len(audits')
                  /\ Monitor!Previous(s)'.failed + MonitorOne(job'[s].outcome)
                        <= Cardinality(MonitorFailuresIn(audits'))
  <2>1. pc'[s] = pc[s] /\ job'[s] = job[s] /\ Monitor!Previous(s)' = Monitor!Previous(s)
    BY DEF MonitorIInv, MonitorTypes, Monitor!Previous
  <2>2. Monitor!Previous(s).total \in Nat /\ Monitor!Previous(s).failed \in Nat
              /\ MonitorOne(job[s].outcome) \in Nat
    BY MonitorNextStatusType DEF MonitorIInv, Monitor!Status, MonitorOne
  <2>3. QED
    BY <1>1, <2>1, <2>2 DEF MonitorBacked, MonitorIInv
<1>3. pc'[r] = step
  BY DEF MonitorIInv, MonitorTypes
<1>4. QED
  BY <1>2, <1>3 DEF MonitorIInv

\* What a failure leaves behind is an idle job.
LEMMA MonitorJobTypes ==
    ASSUME MonitorTypes
    PROVE  \A r \in Calls : [job EXCEPT ![r] = Monitor!NoJob]
               \in [Calls -> [outcome : Monitor!Outcomes, at : MonitorTimes,
                     previous : Monitor!Status \cup {None}]]
BY MonitorTimesAreNumbers DEF MonitorTypes, Monitor!NoJob, Monitor!Outcomes

\* The records after an append, and what stays backed.
LEMMA MonitorAppendedFacts ==
    ASSUME MonitorIInv, NEW r \in Calls
    PROVE  /\ Monitor!Appended(r) \in Seq(MonitorRecord)
           /\ Len(Monitor!Appended(r)) = Len(audits) + 1 /\ Len(audits) \in Nat
           /\ Cardinality(MonitorFailuresIn(audits)) \in Nat
           /\ Cardinality(MonitorFailuresIn(Monitor!Appended(r)))
                 = Cardinality(MonitorFailuresIn(audits)) + MonitorOne(job[r].outcome)
           /\ MonitorOne(job[r].outcome) \in {0, 1}
<1>1. [outcome |-> job[r].outcome, at |-> job[r].at] \in MonitorRecord
            /\ audits \in Seq(MonitorRecord)
  BY DEF MonitorIInv, MonitorTypes, MonitorRecord
<1>2. QED
  BY <1>1, MonitorFailuresAppend DEF Monitor!Appended, MonitorOne

LEMMA MonitorDocStaysBacked ==
    ASSUME MonitorIInv, audits' \in Seq(MonitorRecord), doc' = doc, doc # None,
           Len(audits) <= Len(audits'), Len(audits) \in Nat, Len(audits') \in Nat,
           Cardinality(MonitorFailuresIn(audits)) \in Nat,
                 Cardinality(MonitorFailuresIn(audits')) \in Nat,
           Cardinality(MonitorFailuresIn(audits)) <= Cardinality(MonitorFailuresIn(audits'))
    PROVE  MonitorBacked(doc)'
<1>1. doc \in Monitor!Status /\ MonitorBacked(doc)
  BY DEF MonitorIInv, MonitorTypes
<1>2. doc.total \in Nat /\ doc.failed \in Nat
  BY <1>1 DEF Monitor!Status
<1>3. QED
  BY <1>1, <1>2 DEF MonitorBacked

LEMMA MonitorIInvStep == MonitorIInv /\ [Monitor!Next]_Monitor!vars => MonitorIInv'
<1> SUFFICES ASSUME MonitorIInv, [Monitor!Next]_Monitor!vars PROVE MonitorIInv'
  OBVIOUS
<1>t. MonitorTypes
  BY DEF MonitorIInv
<1>1. CASE Monitor!Tick
  <2>1. clock' \in MonitorTimes /\ UNCHANGED <<pc, job, audits, doc>>
    BY <1>1, <1>t, MonitorTimesAreNumbers DEF Monitor!Tick, MonitorTypes, MonitorTimes
  <2>2. QED
    BY <2>1 DEF MonitorIInv, MonitorTypes, MonitorBacked, Monitor!Previous
<1>2. ASSUME NEW r \in Calls, NEW outcome \in Monitor!Outcomes, Monitor!Begin(r, outcome)
                   PROVE MonitorIInv'
  <2>1. /\ pc' = [pc EXCEPT ![r] = "read"]
        /\ job' = [job EXCEPT ![r] = [outcome |-> outcome, at |-> clock, previous |-> None]]
        /\ UNCHANGED <<clock, audits, doc>>
    BY <1>2 DEF Monitor!Begin, Monitor!Goto
  <2>2. MonitorTypes'
    BY <1>t, <2>1 DEF MonitorTypes
  <2>3. job'[r].previous = None /\ \A s \in Calls \ {r} : job'[s] = job[s]
    BY <1>t, <2>1 DEF MonitorTypes
  <2>4. doc' # None => MonitorBacked(doc)'
    BY <2>1 DEF MonitorIInv, MonitorBacked
  <2>5. Len(audits) <= Len(audits')
              /\ Cardinality(MonitorFailuresIn(audits)) <= Cardinality(MonitorFailuresIn(audits'))
    BY <2>1, MonitorAppendedFacts
  <2>6. QED
    BY <2>1, <2>2, <2>3, <2>4, <2>5, MonitorOwnStep
<1>3. ASSUME NEW r \in Calls, Monitor!GetStatus(r) PROVE MonitorIInv'
  <2>1. /\ pc' = [pc EXCEPT ![r] = "append"] /\ job' = [job EXCEPT ![r].previous = doc]
        /\ UNCHANGED <<clock, audits, doc>>
    BY <1>3 DEF Monitor!GetStatus, Monitor!Goto
  <2>2. MonitorTypes'
    BY <1>t, <2>1 DEF MonitorTypes
  <2>3. job'[r].previous = doc /\ \A s \in Calls \ {r} : job'[s] = job[s]
    BY <1>t, <2>1 DEF MonitorTypes
  <2>4. doc' # None => MonitorBacked(doc)'
    BY <2>1 DEF MonitorIInv, MonitorBacked
  <2>5. Len(audits) <= Len(audits')
              /\ Cardinality(MonitorFailuresIn(audits)) <= Cardinality(MonitorFailuresIn(audits'))
        /\ Len(audits) \in Nat /\ Cardinality(MonitorFailuresIn(audits)) \in Nat
    BY <2>1, MonitorAppendedFacts
  <2>6. MonitorBacked(Monitor!Previous(r))'
    <3>1. Monitor!Previous(r)' = IF doc = None THEN Monitor!NoStatus ELSE doc
      BY <2>1, <2>3 DEF Monitor!Previous
    <3>2. doc # None => doc.total <= Len(audits')
                /\ doc.failed <= Cardinality(MonitorFailuresIn(audits'))
      BY <2>1 DEF MonitorIInv, MonitorBacked
    <3>3. QED
      BY <2>1, <2>5, <3>1, <3>2 DEF MonitorBacked, Monitor!NoStatus
  <2>7. QED
    BY <2>1, <2>2, <2>3, <2>4, <2>5, <2>6, MonitorOwnStep
<1>4. ASSUME NEW r \in Calls, Monitor!AppendAudit(r) PROVE MonitorIInv'
  <2>1. /\ pc[r] = "append" /\ pc' = [pc EXCEPT ![r] = "upsert"] /\ audits' = Monitor!Appended(r)
        /\ UNCHANGED <<clock, job, doc>>
    BY <1>4 DEF Monitor!AppendAudit, Monitor!Goto
  <2>2. MonitorTypes'
    BY <1>t, <2>1, MonitorAppendedFacts DEF MonitorTypes
  <2>3. Len(audits) <= Len(audits')
              /\ Cardinality(MonitorFailuresIn(audits)) <= Cardinality(MonitorFailuresIn(audits'))
    BY <2>1, MonitorAppendedFacts
  <2>4. doc' # None => MonitorBacked(doc)'
    BY <2>1, <2>3, MonitorAppendedFacts, MonitorDocStaysBacked
  <2>5. /\ Monitor!Previous(r)'.total + 1 <= Len(audits')
        /\ Monitor!Previous(r)'.failed + MonitorOne(job'[r].outcome)
              <= Cardinality(MonitorFailuresIn(audits'))
    <3>1. MonitorBacked(Monitor!Previous(r)) /\ Monitor!Previous(r)' = Monitor!Previous(r)
                /\ job' = job
      BY <2>1 DEF MonitorIInv, Monitor!Previous
    <3>2. Monitor!Previous(r).total \in Nat /\ Monitor!Previous(r).failed \in Nat
      BY <1>t, MonitorNextStatusType DEF Monitor!Status
    <3>3. QED
      BY <2>1, <3>1, <3>2, MonitorAppendedFacts DEF MonitorBacked
  <2>6. QED
    BY <2>1, <2>2, <2>3, <2>4, <2>5, MonitorOwnStep
<1>5. ASSUME NEW r \in Calls, Monitor!UpsertStatus(r) PROVE MonitorIInv'
  <2>1. /\ pc[r] = "upsert" /\ pc' = [pc EXCEPT ![r] = "done"] /\ doc' = Monitor!NextStatus(r)
        /\ job' = [job EXCEPT ![r] = Monitor!NoJob] /\ UNCHANGED <<clock, audits>>
    BY <1>5 DEF Monitor!UpsertStatus, Monitor!Goto
  <2>2. MonitorTypes'
    BY <1>t, <2>1, MonitorNextStatusType, MonitorJobTypes DEF MonitorTypes
  <2>3. MonitorBacked(doc)'
    BY <1>t, <2>1, MonitorNextStatusType DEF MonitorBacked, MonitorIInv
  <2>4. Len(audits) <= Len(audits')
              /\ Cardinality(MonitorFailuresIn(audits)) <= Cardinality(MonitorFailuresIn(audits'))
    BY <2>1, MonitorAppendedFacts
  <2>5. \A s \in Calls \ {r} : job'[s] = job[s]
    BY <1>t, <2>1 DEF MonitorTypes
  <2>6. QED
    BY <2>1, <2>2, <2>3, <2>4, <2>5, MonitorOwnStep
<1>6. ASSUME NEW r \in Calls, Monitor!Fails(r) PROVE MonitorIInv'
  <2>1. /\ pc' = [pc EXCEPT ![r] = "done"] /\ job' = [job EXCEPT ![r] = Monitor!NoJob]
        /\ clock' = clock
        /\ audits' \in {audits, Monitor!Appended(r)}
        /\ doc' = doc \/ (doc' = Monitor!NextStatus(r) /\ pc[r] = "upsert" /\ audits' = audits)
    BY <1>6 DEF Monitor!Fails, Monitor!Goto, Monitor!Caught
  <2>2. MonitorTypes'
    BY <1>t, <2>1, MonitorAppendedFacts, MonitorNextStatusType, MonitorJobTypes DEF MonitorTypes
  <2>3. /\ Len(audits) <= Len(audits')
        /\ Cardinality(MonitorFailuresIn(audits)) <= Cardinality(MonitorFailuresIn(audits'))
        /\ Len(audits) \in Nat /\ Len(audits') \in Nat
        /\ Cardinality(MonitorFailuresIn(audits)) \in Nat
        /\ Cardinality(MonitorFailuresIn(audits')) \in Nat
    BY <2>1, MonitorAppendedFacts
  <2>4. doc' # None => MonitorBacked(doc)'
    <3>1. CASE doc' = doc
      BY <2>2, <2>3, <3>1, MonitorDocStaysBacked DEF MonitorTypes
    <3>2. CASE doc' = Monitor!NextStatus(r) /\ pc[r] = "upsert" /\ audits' = audits
      BY <1>t, <3>2, MonitorNextStatusType DEF MonitorBacked, MonitorIInv
    <3>3. QED
      BY <2>1, <3>1, <3>2
  <2>5. \A s \in Calls \ {r} : job'[s] = job[s]
    BY <1>t, <2>1 DEF MonitorTypes
  <2>6. QED
    BY <2>1, <2>2, <2>3, <2>4, <2>5, MonitorOwnStep
<1>7. CASE UNCHANGED Monitor!vars
  BY <1>7 DEF Monitor!vars, MonitorIInv, MonitorTypes, MonitorBacked, Monitor!Previous
<1>8. QED
  BY <1>1, <1>2, <1>3, <1>4, <1>5, <1>6, <1>7 DEF Monitor!Next

\* The records of successes, and the status that records tell when they were made
\* one after the other; last is the last success.
MonitorGood(s) == {i \in DOMAIN s : s[i].outcome = "succeeded"}

MonitorTold(s, last) ==
    [state |-> IF last = Len(s) THEN "operational" ELSE "outage",
     since |-> IF last = Len(s) THEN None ELSE s[last + 1].at,
     failures |-> Len(s) - last,
     total |-> Len(s), failed |-> Len(s) - Cardinality(MonitorGood(s))]

MonitorLast(s, last) ==
    last \in MonitorGood(s) \cup {0} /\ \A j \in MonitorGood(s) : j <= last

\* A stored status is what the records tell.
MonitorExact(status, s) ==
    /\ status = None => s = <<>>
    /\ \E last \in Nat : /\ MonitorLast(s, last)
                         /\ (IF status = None THEN Monitor!NoStatus ELSE status)
                                = MonitorTold(s, last)

MonitorOwn(r) == [outcome |-> job[r].outcome, at |-> job[r].at]

\* As long as no recordings overlap and none fails, one at most is under way. It has
\* read the stored status, which is what the records before its own tell.
MonitorInTurn ==
    ~disturbed =>
        /\ \A r, s \in Calls : Monitor!Busy(r) /\ Monitor!Busy(s) => r = s
        /\ (\A r \in Calls : pc[r] # "upsert") => MonitorExact(doc, audits)
        /\ \A r \in Calls :
              /\ pc[r] \in {"append", "upsert"} => job[r].previous = doc
              /\ pc[r] = "upsert" =>
                    \E old \in Seq(MonitorRecord) :
                        audits = Append(old, MonitorOwn(r)) /\ MonitorExact(doc, old)

-----------------------------------------------------------------------------

\* A record more is a success more or none.
LEMMA MonitorGoodAppend ==
    ASSUME NEW s \in Seq(MonitorRecord), NEW e \in MonitorRecord
    PROVE  /\ MonitorGood(s) \subseteq 1..Len(s) /\ Cardinality(MonitorGood(s)) \in Nat
           /\ e.outcome = "succeeded" =>
                  /\ MonitorGood(Append(s, e)) = MonitorGood(s) \cup {Len(s) + 1}
                  /\ Cardinality(MonitorGood(Append(s, e))) = Cardinality(MonitorGood(s)) + 1
           /\ e.outcome # "succeeded" => MonitorGood(Append(s, e)) = MonitorGood(s)
<1>1. MonitorGood(s) \subseteq 1..Len(s) /\ IsFiniteSet(MonitorGood(s))
  <2>1. MonitorGood(s) \subseteq 1..Len(s) /\ IsFiniteSet(1..Len(s))
    BY FS_Interval DEF MonitorGood
  <2>2. QED
    BY <2>1, FS_Subset
<1>2. /\ DOMAIN Append(s, e) = DOMAIN s \cup {Len(s) + 1} /\ Len(s) + 1 \notin DOMAIN s
      /\ \A i \in DOMAIN s : Append(s, e)[i] = s[i]
      /\ Append(s, e)[Len(s) + 1] = e
  OBVIOUS
<1>3. ASSUME e.outcome = "succeeded"
      PROVE  /\ MonitorGood(Append(s, e)) = MonitorGood(s) \cup {Len(s) + 1}
             /\ Len(s) + 1 \notin MonitorGood(s)
  BY <1>2, <1>3 DEF MonitorGood
<1>4. ASSUME e.outcome # "succeeded" PROVE MonitorGood(Append(s, e)) = MonitorGood(s)
  BY <1>2, <1>4 DEF MonitorGood
<1>5. QED
  BY <1>1, <1>3, <1>4, FS_AddElement, FS_CardinalityType

\* The next status is what the records tell once the recording's own is added.
LEMMA MonitorNextIsExact ==
    ASSUME MonitorTypes, NEW r \in Calls, job[r].previous = doc, NEW old \in Seq(MonitorRecord),
           MonitorExact(doc, old)
    PROVE  MonitorExact(Monitor!NextStatus(r), Append(old, MonitorOwn(r)))
<1> DEFINE new == Append(old, MonitorOwn(r))
<1>1. PICK last \in Nat : MonitorLast(old, last) /\ Monitor!Previous(r) = MonitorTold(old, last)
  BY DEF MonitorExact, Monitor!Previous
<1>2. /\ MonitorOwn(r) \in MonitorRecord /\ job[r].outcome \in Monitor!Outcomes
      /\ job[r].at \in MonitorTimes /\ MonitorOwn(r).outcome = job[r].outcome
      /\ MonitorOwn(r).at = job[r].at
  BY DEF MonitorTypes, MonitorOwn, MonitorRecord
<1>3. /\ new \in Seq(MonitorRecord) /\ Len(new) = Len(old) + 1 /\ Len(old) \in Nat
      /\ \A i \in 1..Len(old) : new[i] = old[i]
      /\ new[Len(old) + 1] = MonitorOwn(r)
  BY <1>2
<1>4. last <= Len(old) /\ MonitorGood(old) \subseteq 1..Len(old)
            /\ Cardinality(MonitorGood(old)) \in Nat
  BY <1>1, <1>2, <1>3, MonitorGoodAppend DEF MonitorLast
<1>5. Monitor!NextStatus(r) # None
  BY MonitorNextStatusType, MonitorTimesAreNumbers
<1> HIDE DEF new
<1>6. CASE job[r].outcome = "succeeded"
  <2>1. /\ MonitorGood(new) = MonitorGood(old) \cup {Len(old) + 1}
        /\ Cardinality(MonitorGood(new)) = Cardinality(MonitorGood(old)) + 1
    BY <1>2, <1>6, MonitorGoodAppend DEF new
  <2>2. MonitorLast(new, Len(old) + 1)
    BY <1>3, <1>4, <2>1 DEF MonitorLast
  <2>3. Monitor!NextStatus(r) = MonitorTold(new, Len(old) + 1)
    BY <1>1, <1>3, <1>4, <1>6, <2>1 DEF Monitor!NextStatus, MonitorTold
  <2>4. QED
    BY <1>3, <1>5, <2>2, <2>3 DEF MonitorExact, new
<1>7. CASE job[r].outcome = "failed"
  <2>1. MonitorGood(new) = MonitorGood(old)
    BY <1>2, <1>7, MonitorGoodAppend DEF new
  <2>2. MonitorLast(new, last)
    BY <1>1, <2>1 DEF MonitorLast
  <2>3. last # Len(new) /\ (last # Len(old) => new[last + 1] = old[last + 1]
              /\ old[last + 1].at # None)
    <3>1. last # Len(old) => last + 1 \in 1..Len(old)
      BY <1>3, <1>4
    <3>2. \A i \in 1..Len(old) : old[i].at # None
      <4>1. \A i \in 1..Len(old) : old[i] \in MonitorRecord
        OBVIOUS
      <4>2. QED
        BY <4>1, MonitorTimesAreNumbers DEF MonitorRecord
    <3>3. QED
      BY <1>3, <1>4, <3>1, <3>2
  <2>4. (IF Monitor!Previous(r).since # None THEN Monitor!Previous(r).since ELSE job[r].at)
         = new[last + 1].at
    BY <1>1, <1>2, <1>3, <2>3 DEF MonitorTold
  <2>5. Monitor!NextStatus(r) = MonitorTold(new, last)
    <3>1. Monitor!NextStatus(r) =
             [state |-> "outage", since |-> new[last + 1].at,
              failures |-> Monitor!Previous(r).failures + 1,
              total |-> Monitor!Previous(r).total + 1, failed |-> Monitor!Previous(r).failed + 1]
      BY <1>7, <2>4 DEF Monitor!NextStatus
    <3>2. QED
      BY <1>1, <1>3, <1>4, <2>1, <2>3, <3>1 DEF MonitorTold
  <2>6. QED
    BY <1>1, <1>5, <2>2, <2>5 DEF MonitorExact, new
<1>8. QED
  BY <1>2, <1>6, <1>7 DEF Monitor!Outcomes

\* Counting is the same wherever it is done.
LEMMA MonitorCounts == ASSUME NEW S PROVE Monitor!Cardinality(S) = Cardinality(S)
BY DEF Monitor!Cardinality, Cardinality

LEMMA MonitorInTurnInit == Monitor!Init => MonitorInTurn
<1> SUFFICES ASSUME Monitor!Init PROVE MonitorInTurn
  OBVIOUS
<1>1. \A r \in Calls : ~Monitor!Busy(r) /\ pc[r] = "idle"
  BY DEF Monitor!Init, Monitor!Busy
<1>2. MonitorGood(<<>>) = {}
  BY DEF MonitorGood
<1>3. MonitorLast(<<>>, 0) /\ Monitor!NoStatus = MonitorTold(<<>>, 0)
  BY <1>2, FS_EmptySet DEF MonitorLast, MonitorTold, Monitor!NoStatus
<1>4. MonitorExact(None, <<>>)
  BY <1>3 DEF MonitorExact
<1>5. doc = None /\ audits = <<>>
  BY DEF Monitor!Init
<1>6. QED
  BY <1>1, <1>4, <1>5 DEF MonitorInTurn

\* The step of a recording while no other one is under way.
LEMMA MonitorInTurnStep ==
    ASSUME MonitorTypes, MonitorInTurn, [Monitor!Next]_(Monitor!vars)
    PROVE  MonitorInTurn'
<1>1. CASE Monitor!Tick \/ UNCHANGED Monitor!vars
  <2>1. UNCHANGED <<pc, job, audits, doc, disturbed>>
    BY <1>1 DEF Monitor!Tick, Monitor!vars
  <2>2. QED
    BY <2>1 DEF MonitorInTurn, Monitor!Busy, MonitorExact, MonitorOwn
<1>2. ASSUME NEW r \in Calls, NEW outcome \in Monitor!Outcomes, Monitor!Begin(r, outcome),
                   ~disturbed'
      PROVE  MonitorInTurn'
  <2>1. /\ pc' = [pc EXCEPT ![r] = "read"] /\ UNCHANGED <<audits, doc>>
        /\ ~disturbed /\ \A s \in Calls : ~Monitor!Busy(s)
    BY <1>2 DEF Monitor!Begin, Monitor!Goto
  <2>2. pc'[r] = "read" /\ \A s \in Calls \ {r} : pc'[s] = pc[s] /\ pc'[s] \in {"idle", "done"}
    BY <2>1 DEF MonitorTypes, Monitor!Busy
  <2>3. \A s \in Calls : pc[s] # "upsert"
    BY <2>1 DEF Monitor!Busy
  <2>4. MonitorExact(doc, audits)'
    BY <2>1, <2>3 DEF MonitorInTurn
  <2>5. QED
    BY <2>2, <2>4 DEF MonitorInTurn, Monitor!Busy
<1>3. ASSUME NEW r \in Calls, Monitor!GetStatus(r) \/ Monitor!AppendAudit(r)
                   \/ Monitor!UpsertStatus(r),
             ~disturbed'
      PROVE  MonitorInTurn'
  <2>1. /\ ~disturbed /\ Monitor!Busy(r)
        /\ \A s \in Calls \ {r} : pc'[s] = pc[s] /\ ~Monitor!Busy(s) /\ pc[s] \in {"idle", "done"}
    <3>1. ~disturbed /\ Monitor!Busy(r) /\ \A s \in Calls \ {r} : pc'[s] = pc[s]
      BY <1>3 DEF Monitor!GetStatus, Monitor!AppendAudit, Monitor!UpsertStatus, Monitor!Goto,
                  Monitor!Busy, MonitorTypes
    <3>2. \A s \in Calls \ {r} : ~Monitor!Busy(s)
      BY <3>1 DEF MonitorInTurn
    <3>3. QED
      BY <3>1, <3>2 DEF Monitor!Busy
  <2>2. CASE Monitor!GetStatus(r)
    <3>1. pc[r] = "read" /\ pc'[r] = "append" /\ job'[r].previous = doc
                /\ UNCHANGED <<audits, doc>>
      BY <2>2 DEF Monitor!GetStatus, Monitor!Goto, MonitorTypes
    <3>2. MonitorExact(doc, audits)'
      BY <2>1, <3>1 DEF MonitorInTurn
    <3>3. QED
      BY <2>1, <3>1, <3>2 DEF MonitorInTurn, Monitor!Busy
  <2>3. CASE Monitor!AppendAudit(r)
    <3>1. /\ pc[r] = "append" /\ pc'[r] = "upsert" /\ audits' = Append(audits, MonitorOwn(r))
          /\ UNCHANGED <<job, doc>>
      BY <2>3 DEF Monitor!AppendAudit, Monitor!Appended, Monitor!Goto, MonitorTypes, MonitorOwn
    <3>2. /\ MonitorExact(doc, audits) /\ audits \in Seq(MonitorRecord) /\ job[r].previous = doc
      BY <2>1, <3>1 DEF MonitorInTurn, MonitorTypes
    <3>3. \E old \in Seq(MonitorRecord) :
             audits' = Append(old, MonitorOwn(r)') /\ MonitorExact(doc', old)
      BY <3>1, <3>2 DEF MonitorOwn
    <3>4. QED
      BY <2>1, <3>1, <3>2, <3>3 DEF MonitorInTurn, Monitor!Busy
  <2>4. CASE Monitor!UpsertStatus(r)
    <3>1. pc[r] = "upsert" /\ pc'[r] = "done" /\ doc' = Monitor!NextStatus(r) /\ audits' = audits
      BY <2>4 DEF Monitor!UpsertStatus, Monitor!Goto, MonitorTypes
    <3>2. PICK old \in Seq(MonitorRecord) : audits = Append(old, MonitorOwn(r))
                /\ MonitorExact(doc, old)
      BY <2>1, <3>1 DEF MonitorInTurn
    <3>3. job[r].previous = doc
      BY <2>1, <3>1 DEF MonitorInTurn
    <3>4. MonitorExact(doc', audits')
      BY <3>1, <3>2, <3>3, MonitorNextIsExact
    <3>5. \A s \in Calls : ~Monitor!Busy(s)' /\ pc'[s] \in {"idle", "done"}
      BY <2>1, <3>1 DEF Monitor!Busy
    <3>6. QED
      BY <3>4, <3>5 DEF MonitorInTurn
  <2>5. QED
    BY <1>3, <2>2, <2>3, <2>4
<1>4. ASSUME NEW r \in Calls, Monitor!Fails(r) PROVE MonitorInTurn'
  BY <1>4 DEF Monitor!Fails, MonitorInTurn
<1>5. CASE disturbed'
  BY <1>5 DEF MonitorInTurn
<1>6. QED
  BY <1>1, <1>2, <1>3, <1>4, <1>5 DEF Monitor!Next

\* The last success of the records is one only.
LEMMA MonitorShows == ASSUME MonitorIInv, MonitorInTurn PROVE Monitor!StatusIsTrue
<1>1. Monitor!TypeOK
  <2>1. \A i \in DOMAIN audits : audits[i] \in MonitorRecord
    BY DEF MonitorIInv, MonitorTypes
  <2>2. QED
    BY <2>1 DEF MonitorIInv, MonitorTypes, MonitorTimes, MonitorRecord, Monitor!TypeOK
<1>2. Monitor!StatusNeverOvercounts
  <2>1. MonitorFailuresIn(audits) = {i \in DOMAIN audits : audits[i].outcome = "failed"}
    BY DEF MonitorFailuresIn
  <2>2. QED
    BY <2>1, MonitorCounts DEF MonitorIInv, MonitorBacked, Monitor!StatusNeverOvercounts
<1>3. ASSUME ~disturbed, \A r \in Calls : ~Monitor!Busy(r), audits # <<>>,
             NEW good, good = MonitorGood(audits),
             NEW last, last = CHOOSE i \in good \cup {0} : \A j \in good : j <= i
      PROVE  doc = [state |-> IF last = Len(audits) THEN "operational" ELSE "outage",
                    since |-> IF last = Len(audits) THEN None ELSE audits[last + 1].at,
                    failures |-> Len(audits) - last,
                    total |-> Len(audits), failed |-> Len(audits) - Cardinality(good)]
  <2>1. MonitorExact(doc, audits)
    BY <1>3 DEF MonitorInTurn, Monitor!Busy
  <2>2. PICK i \in Nat : MonitorLast(audits, i) /\ doc = MonitorTold(audits, i)
    BY <1>3, <2>1 DEF MonitorExact
  <2>3. good \subseteq Nat \ {0}
    BY <1>3 DEF MonitorGood, MonitorIInv, MonitorTypes
  <2>4. i \in good \cup {0} /\ \A j \in good : j <= i
    BY <1>3, <2>2 DEF MonitorLast
  <2>5. last \in good \cup {0} /\ \A j \in good : j <= last
    BY <1>3, <2>4
  <2>6. last = i
    BY <2>3, <2>4, <2>5
  <2>7. QED
    BY <1>3, <2>2, <2>6 DEF MonitorTold
<1>4. Monitor!SequentialStatusIsExact
  BY <1>3, MonitorCounts DEF Monitor!SequentialStatusIsExact, MonitorGood
<1>5. QED
  BY <1>1, <1>2, <1>4 DEF Monitor!StatusIsTrue

-----------------------------------------------------------------------------
(* GroqRotation                                                            *)

\* A number is a multiple of s and its remainder.
LEMMA DivMod ==
    ASSUME NEW s \in Nat \ {0}, NEW a \in Nat
    PROVE  \E q \in Nat, m \in 0 .. s - 1 : a % s = m /\ a = s * q + m
<1>1. a \div s \in Int /\ a \div s >= 0 /\ a % s \in 0 .. s - 1
  OBVIOUS
<1>2. PICK q \in Nat, m \in 0 .. s - 1 : q = a \div s /\ m = a % s
  BY <1>1
<1>3. m = a - s * q
  BY <1>2, Z3
<1>4. a = s * q + m
  BY <1>3
<1>5. QED
  BY <1>2, <1>4

\* Multiples of s closer than s are one.
LEMMA Multiples ==
    ASSUME NEW s \in Nat \ {0}, NEW p \in Int, NEW q \in Int, s * p - s * q < s, s * q - s * p < s
    PROVE  p = q
<1>1. ASSUME NEW x \in Int, NEW y \in Int, x < y PROVE s * y - s * x >= s
  <2>1. y - x - 1 \in Nat
    BY <1>1
  <2>2. s * (y - x - 1) >= 0
    BY <2>1
  <2>3. s * y - s * x = s * (y - x - 1) + s
    OBVIOUS
  <2>4. QED
    BY <2>2, <2>3
<1>2. QED
  BY <1>1

LEMMA ModOf ==
    ASSUME NEW s \in Nat \ {0}, NEW q \in Nat, NEW k \in 0 .. s - 1
    PROVE  (s * q + k) % s = k
<1> DEFINE a == s * q + k
<1>1. a \in Nat
  OBVIOUS
<1>2. PICK p \in Nat, m \in 0 .. s - 1 : a % s = m /\ a = s * p + m
  BY <1>1, DivMod
<1>3. s * q \in Int /\ s * p \in Int
  BY <1>2
<1>4. s * q - s * p < s /\ s * p - s * q < s
  BY <1>2, <1>3
<1>5. p = q
  BY <1>4, Multiples
<1>6. QED
  BY <1>2, <1>5

\* Numbers closer than s have different remainders.
LEMMA ModInjective ==
    ASSUME NEW s \in Nat \ {0}, NEW a \in Nat, NEW b \in Nat, a % s = b % s, a - b < s, b - a < s
    PROVE  a = b
<1>1. PICK p \in Nat, m \in 0 .. s - 1 : a % s = m /\ a = s * p + m
  BY DivMod
<1>2. PICK q \in Nat, n \in 0 .. s - 1 : b % s = n /\ b = s * q + n
  BY DivMod
<1>n. n = m
  BY <1>1, <1>2
<1>3. s * p \in Int /\ s * q \in Int
  OBVIOUS
<1>4. s * p - s * q < s /\ s * q - s * p < s
  BY <1>1, <1>2, <1>3, <1>n
<1>5. p = q
  BY <1>4, Multiples
<1>6. QED
  BY <1>1, <1>2, <1>5, <1>n

GroqTypes ==
    /\ size \in KeyCounts
    /\ draws \in Seq(Requests) /\ index = Len(draws)
    /\ pc \in [Requests -> {"idle", "ainvoke", "astream"} \cup Groq!Ends]
    /\ attempt \in [Requests -> 0 .. Groq!MaxAttempts - 1]
    /\ chunks \in [Requests -> Seq(Nat)]

GroqChunksAreOfAttempts ==
    \A r \in Requests : \A i \in DOMAIN chunks[r] : chunks[r][i] \in 0 .. attempt[r]

GroqNothingIsDrawnOfNone == size = 0 => draws = <<>>
      /\ \A r \in Requests : pc[r] \in {"idle", "failed"}

\* A request draws one key for each attempt.
GroqDrawsAreAttempts ==
    \A r \in Requests :
        /\ pc[r] = "idle" => Groq!DrawsOf(r) = {} /\ attempt[r] = 0
        /\ pc[r] \in {"ainvoke", "astream", "rate_limited"}
                 => Cardinality(Groq!DrawsOf(r)) = attempt[r] + 1
        /\ pc[r] = "rate_limited" => attempt[r] = Groq!MaxAttempts - 1

\* A request that drew has a first and a last draw.
GroqDrawsHaveEnds ==
    \A r \in Requests : Groq!DrawsOf(r) # {} =>
        \E i, j \in Groq!DrawsOf(r) : Groq!DrawsOf(r) \subseteq i .. j

GroqIInv == GroqTypes /\ GroqChunksAreOfAttempts /\ GroqNothingIsDrawnOfNone
      /\ GroqDrawsAreAttempts /\ GroqDrawsHaveEnds

\* Between two draws of one key every key is drawn.
LEMMA GroqKeysCover ==
    ASSUME size \in Nat \ {0}, NEW a \in Nat, NEW b \in Nat, a < b,
                 Groq!KeyAt(a) = Groq!KeyAt(b), NEW k \in Groq!Keys
    PROVE  \E n \in a .. b : Groq!KeyAt(n) = k
<1>0. a % size = b % size /\ k \in 0 .. size - 1
  BY DEF Groq!KeyAt, Groq!Keys
<1>1. b - a >= size
  <2>1. SUFFICES ASSUME b - a < size PROVE FALSE
    OBVIOUS
  <2>2. a - b < size
    OBVIOUS
  <2>3. a = b
    BY <1>0, <2>1, <2>2, ModInjective, Zenon
  <2>4. QED
    BY <2>3
<1>2. PICK q \in Nat, m \in 0 .. size - 1 : a % size = m /\ a = size * q + m
  BY DivMod
<1>3. size * q \in Nat /\ size * (q + 1) = size * q + size
  OBVIOUS
<1>4. CASE k >= m
  <2>1. size * q + k \in a .. b
    BY <1>0, <1>1, <1>2, <1>3, <1>4
  <2>2. (size * q + k) % size = k
    BY <1>0, ModOf
  <2>3. QED
    BY <2>1, <2>2 DEF Groq!KeyAt
<1>5. CASE k < m
  <2>1. size * (q + 1) + k \in a .. b
    BY <1>0, <1>1, <1>2, <1>3, <1>5
  <2>2. (size * (q + 1) + k) % size = k
    BY <1>0, ModOf
  <2>3. QED
    BY <2>1, <2>2 DEF Groq!KeyAt
<1>6. QED
  BY <1>0, <1>4, <1>5

LEMMA GroqAttemptsAreSome ==
    ASSUME KeyCounts \subseteq Nat, size \in KeyCounts
    PROVE  Groq!MaxAttempts \in 1 .. 3 /\ (size > 0 => Groq!MaxAttempts <= size)
BY DEF Groq!MaxAttempts

LEMMA GroqDrawsAreFinite ==
    ASSUME GroqTypes, NEW r
    PROVE  IsFiniteSet(Groq!DrawsOf(r)) /\ Groq!DrawsOf(r) \subseteq 1 .. Len(draws)
<1>1. Groq!DrawsOf(r) \subseteq 1 .. Len(draws) /\ Len(draws) \in Nat
  BY DEF GroqTypes, Groq!DrawsOf
<1>2. IsFiniteSet(1 .. Len(draws))
  BY <1>1, FS_Interval
<1>3. QED
  BY <1>1, <1>2, FS_Subset

LEMMA GroqDrawStep ==
    ASSUME GroqTypes, NEW r \in Requests, draws' = Append(draws, r)
    PROVE  /\ Groq!DrawsOf(r)' = Groq!DrawsOf(r) \cup {Len(draws) + 1}
           /\ Len(draws) + 1 \notin Groq!DrawsOf(r)
           /\ \A q \in Requests \ {r} : Groq!DrawsOf(q)' = Groq!DrawsOf(q)
           /\ Cardinality(Groq!DrawsOf(r)') = Cardinality(Groq!DrawsOf(r)) + 1
<1>1. /\ Len(draws) \in Nat /\ DOMAIN draws = 1 .. Len(draws)
      /\ DOMAIN draws' = 1 .. Len(draws) + 1
      /\ draws'[Len(draws) + 1] = r /\ \A i \in 1 .. Len(draws) : draws'[i] = draws[i]
  BY DEF GroqTypes
<1>2. /\ Groq!DrawsOf(r)' = Groq!DrawsOf(r) \cup {Len(draws) + 1}
      /\ Len(draws) + 1 \notin Groq!DrawsOf(r)
      /\ \A q \in Requests \ {r} : Groq!DrawsOf(q)' = Groq!DrawsOf(q)
  BY <1>1 DEF Groq!DrawsOf
<1>3. IsFiniteSet(Groq!DrawsOf(r))
  BY GroqDrawsAreFinite
<1>4. Cardinality(Groq!DrawsOf(r) \cup {Len(draws) + 1}) = Cardinality(Groq!DrawsOf(r)) + 1
  BY <1>2, <1>3, FS_AddElement
<1>5. QED
  BY <1>2, <1>4

LEMMA GroqDrawKeepsEnds ==
    ASSUME GroqIInv, NEW r \in Requests, draws' = Append(draws, r)
    PROVE  GroqDrawsHaveEnds'
<1>t. GroqTypes /\ Len(draws) \in Nat
  BY DEF GroqIInv, GroqTypes
<1>1. SUFFICES ASSUME NEW q \in Requests, Groq!DrawsOf(q)' # {}
               PROVE  \E i, j \in Groq!DrawsOf(q)' : Groq!DrawsOf(q)' \subseteq i .. j
  BY DEF GroqDrawsHaveEnds
<1>2. CASE q # r
  <2>1. Groq!DrawsOf(q)' = Groq!DrawsOf(q)
    BY <1>t, <1>2, GroqDrawStep DEF GroqIInv
  <2>2. QED
    BY <1>1, <2>1 DEF GroqIInv, GroqDrawsHaveEnds
<1>3. CASE q = r /\ Groq!DrawsOf(r) = {}
  <2>1. Groq!DrawsOf(r)' = {Len(draws) + 1}
    BY <1>t, <1>3, GroqDrawStep
  <2>2. QED
    BY <1>t, <1>3, <2>1
<1>4. CASE q = r /\ Groq!DrawsOf(r) # {}
  <2>1. PICK i \in Groq!DrawsOf(r), j \in Groq!DrawsOf(r) : Groq!DrawsOf(r) \subseteq i .. j
    BY <1>4 DEF GroqIInv, GroqDrawsHaveEnds
  <2>2. Groq!DrawsOf(r) \subseteq 1 .. Len(draws)
    BY <1>t, GroqDrawsAreFinite
  <2>3. Groq!DrawsOf(r)' = Groq!DrawsOf(r) \cup {Len(draws) + 1}
    BY <1>t, GroqDrawStep
  <2>4. Groq!DrawsOf(r)' \subseteq i .. Len(draws) + 1
    BY <1>t, <2>1, <2>2, <2>3
  <2>5. QED
    BY <1>4, <2>1, <2>3, <2>4
<1>5. QED
  BY <1>2, <1>3, <1>4

LEMMA GroqIInvInit == ASSUME KeyCounts \subseteq Nat, Groq!Init PROVE GroqIInv
<1>1. Groq!MaxAttempts \in 1 .. 3
  BY GroqAttemptsAreSome DEF Groq!Init
<1>2. GroqTypes
  BY <1>1 DEF Groq!Init, GroqTypes
<1>3. \A r : Groq!DrawsOf(r) = {}
  BY DEF Groq!Init, Groq!DrawsOf
<1>4. QED
  BY <1>2, <1>3 DEF Groq!Init, GroqIInv, GroqChunksAreOfAttempts, GroqNothingIsDrawnOfNone,
                    GroqDrawsAreAttempts, GroqDrawsHaveEnds

LEMMA GroqStartKeeps ==
    ASSUME KeyCounts \subseteq Nat, GroqIInv, NEW r \in Requests,
           NEW kind \in {"ainvoke", "astream"},
           Groq!Start(r, kind)
    PROVE  GroqIInv'
<1>t. GroqTypes
  BY DEF GroqIInv
<1>m. Groq!MaxAttempts' = Groq!MaxAttempts /\ size' = size /\ size \in Nat
  BY <1>t DEF Groq!Start, Groq!NextKey, Groq!MaxAttempts, GroqTypes
<1>1. CASE size > 0
  <2>1. /\ pc[r] = "idle" /\ UNCHANGED <<size, attempt, chunks>>
        /\ index' = index + 1 /\ draws' = Append(draws, r) /\ pc' = [pc EXCEPT ![r] = kind]
    BY <1>1 DEF Groq!Start, Groq!NextKey
  <2>2. GroqTypes'
    BY <1>t, <1>m, <2>1 DEF GroqTypes
  <2>3. GroqDrawsAreAttempts'
    <3>1. /\ Cardinality(Groq!DrawsOf(r)') = Cardinality(Groq!DrawsOf(r)) + 1
          /\ \A q \in Requests \ {r} : Groq!DrawsOf(q)' = Groq!DrawsOf(q)
      BY <1>t, <2>1, GroqDrawStep
    <3>2. Cardinality(Groq!DrawsOf(r)) = 0 /\ attempt[r] = 0
      BY <2>1, FS_EmptySet DEF GroqIInv, GroqDrawsAreAttempts
    <3>3. pc'[r] = kind /\ \A q \in Requests \ {r} : pc'[q] = pc[q]
      BY <1>t, <2>1 DEF GroqTypes
    <3>4. QED
      BY <1>m, <2>1, <3>1, <3>2, <3>3 DEF GroqIInv, GroqDrawsAreAttempts
  <2>4. GroqDrawsHaveEnds'
    BY <2>1, GroqDrawKeepsEnds
  <2>5. QED
    BY <1>1, <1>m, <2>1, <2>2, <2>3, <2>4
       DEF GroqIInv, GroqChunksAreOfAttempts, GroqNothingIsDrawnOfNone
<1>2. CASE size = 0
  <2>1. /\ UNCHANGED <<size, index, draws, attempt, chunks>> /\ pc' = [pc EXCEPT ![r] = "failed"]
    BY <1>2 DEF Groq!Start
  <2>2. GroqTypes'
    BY <1>t, <1>m, <2>1 DEF GroqTypes, Groq!Ends
  <2>3. \A q : Groq!DrawsOf(q)' = Groq!DrawsOf(q)
    BY <2>1 DEF Groq!DrawsOf
  <2>4. \A q \in Requests : pc'[q] = pc[q] \/ pc'[q] = "failed"
    BY <1>t, <2>1 DEF GroqTypes
  <2>5. QED
    BY <1>m, <2>1, <2>2, <2>3, <2>4
       DEF GroqIInv, GroqChunksAreOfAttempts, GroqNothingIsDrawnOfNone, GroqDrawsAreAttempts,
           GroqDrawsHaveEnds
<1>3. QED
  BY <1>1, <1>2, <1>m

LEMMA GroqYieldKeeps ==
    ASSUME GroqIInv, NEW r \in Requests, Groq!YieldChunk(r)
    PROVE  GroqIInv'
<1>t. GroqTypes
  BY DEF GroqIInv
<1>1. UNCHANGED <<size, index, draws, pc, attempt>>
            /\ chunks' = [chunks EXCEPT ![r] = Append(@, attempt[r])]
  BY DEF Groq!YieldChunk
<1>2. Groq!MaxAttempts' = Groq!MaxAttempts /\ \A q : Groq!DrawsOf(q)' = Groq!DrawsOf(q)
  BY <1>1 DEF Groq!MaxAttempts, Groq!DrawsOf
<1>3. attempt[r] \in Nat /\ \A q \in Requests : chunks[q] \in Seq(Nat)
  BY <1>t DEF GroqTypes
<1>4. GroqTypes'
  BY <1>t, <1>1, <1>2, <1>3 DEF GroqTypes
<1>5. GroqChunksAreOfAttempts'
  <2>1. /\ \A q \in Requests \ {r} : chunks'[q] = chunks[q]
        /\ chunks'[r] = Append(chunks[r], attempt[r])
    BY <1>t, <1>1 DEF GroqTypes
  <2>2. \A i \in DOMAIN chunks'[r] : chunks'[r][i] = attempt[r] \/ (i \in DOMAIN chunks[r]
              /\ chunks'[r][i] = chunks[r][i])
    BY <1>3, <2>1
  <2>3. \A i \in DOMAIN chunks'[r] : chunks'[r][i] \in 0 .. attempt[r]
    BY <1>3, <2>2 DEF GroqIInv, GroqChunksAreOfAttempts
  <2>4. QED
    BY <1>1, <2>1, <2>3 DEF GroqIInv, GroqChunksAreOfAttempts
<1>6. QED
  BY <1>1, <1>2, <1>4, <1>5
     DEF GroqIInv, GroqNothingIsDrawnOfNone, GroqDrawsAreAttempts, GroqDrawsHaveEnds

LEMMA GroqRateLimitKeeps ==
    ASSUME KeyCounts \subseteq Nat, GroqIInv, NEW r \in Requests, Groq!RateLimit(r)
    PROVE  GroqIInv'
<1>t. GroqTypes
  BY DEF GroqIInv
<1>m. Groq!MaxAttempts' = Groq!MaxAttempts /\ size' = size /\ Groq!MaxAttempts \in 1 .. 3
  BY <1>t, GroqAttemptsAreSome DEF Groq!RateLimit, Groq!NextKey, Groq!MaxAttempts, GroqTypes
<1>a. attempt[r] \in 0 .. Groq!MaxAttempts - 1 /\ size # 0
  BY <1>t DEF GroqTypes, GroqIInv, GroqNothingIsDrawnOfNone, Groq!RateLimit
<1>1. CASE attempt[r] < Groq!MaxAttempts - 1
  <2>1. /\ pc[r] \in {"ainvoke", "astream"} /\ UNCHANGED <<size, pc, chunks>>
        /\ index' = index + 1 /\ draws' = Append(draws, r)
        /\ attempt' = [attempt EXCEPT ![r] = @ + 1]
    BY <1>1, <1>a, <1>m DEF Groq!RateLimit, Groq!NextKey
  <2>2. attempt'[r] = attempt[r] + 1 /\ \A q \in Requests \ {r} : attempt'[q] = attempt[q]
    BY <1>t, <2>1 DEF GroqTypes
  <2>3. GroqTypes'
    <3>1. attempt' \in [Requests -> 0 .. Groq!MaxAttempts - 1]
      BY <1>t, <1>1, <1>a, <1>m, <2>1 DEF GroqTypes
    <3>2. QED
      BY <1>t, <1>m, <2>1, <3>1 DEF GroqTypes
  <2>4. GroqDrawsAreAttempts'
    <3>1. /\ Cardinality(Groq!DrawsOf(r)') = Cardinality(Groq!DrawsOf(r)) + 1
          /\ \A q \in Requests \ {r} : Groq!DrawsOf(q)' = Groq!DrawsOf(q)
      BY <1>t, <2>1, GroqDrawStep
    <3>2. Cardinality(Groq!DrawsOf(r)) = attempt[r] + 1
      BY <2>1 DEF GroqIInv, GroqDrawsAreAttempts
    <3>4. QED
      BY <1>m, <1>a, <2>1, <2>2, <3>1, <3>2 DEF GroqIInv, GroqDrawsAreAttempts
  <2>5. GroqDrawsHaveEnds'
    BY <2>1, GroqDrawKeepsEnds
  <2>6. GroqChunksAreOfAttempts'
    BY <1>a, <1>m, <2>1, <2>2 DEF GroqIInv, GroqChunksAreOfAttempts
  <2>7. QED
    BY <1>a, <2>1, <2>3, <2>4, <2>5, <2>6 DEF GroqIInv, GroqNothingIsDrawnOfNone
<1>2. CASE attempt[r] >= Groq!MaxAttempts - 1
  <2>1. /\ UNCHANGED <<size, index, draws, attempt, chunks>>
        /\ pc' = [pc EXCEPT ![r] = "rate_limited"]
        /\ pc[r] \in {"ainvoke", "astream"}
    BY <1>2, <1>a, <1>m DEF Groq!RateLimit
  <2>2. GroqTypes'
    BY <1>t, <1>m, <2>1 DEF GroqTypes, Groq!Ends
  <2>3. \A q : Groq!DrawsOf(q)' = Groq!DrawsOf(q)
    BY <2>1 DEF Groq!DrawsOf
  <2>4. pc'[r] = "rate_limited" /\ \A q \in Requests \ {r} : pc'[q] = pc[q]
    BY <1>t, <2>1 DEF GroqTypes
  <2>5. attempt[r] = Groq!MaxAttempts - 1
    BY <1>2, <1>a, <1>m
  <2>6. GroqDrawsAreAttempts'
    BY <1>m, <2>1, <2>3, <2>4, <2>5 DEF GroqIInv, GroqDrawsAreAttempts
  <2>7. QED
    BY <1>a, <2>1, <2>2, <2>3, <2>6
       DEF GroqIInv, GroqChunksAreOfAttempts, GroqNothingIsDrawnOfNone, GroqDrawsHaveEnds
<1>3. QED
  BY <1>1, <1>2, <1>a, <1>m

LEMMA GroqEndKeeps ==
    ASSUME GroqIInv, NEW r \in Requests, Groq!Complete(r) \/ Groq!OtherError(r)
    PROVE  GroqIInv'
<1>t. GroqTypes
  BY DEF GroqIInv
<1>1. PICK end \in {"done", "failed"} : pc' = [pc EXCEPT ![r] = end]
  BY DEF Groq!Complete, Groq!OtherError
<1>2. UNCHANGED <<size, index, draws, attempt, chunks>> /\ pc[r] \in {"ainvoke", "astream"}
  BY DEF Groq!Complete, Groq!OtherError
<1>3. Groq!MaxAttempts' = Groq!MaxAttempts /\ \A q : Groq!DrawsOf(q)' = Groq!DrawsOf(q)
  BY <1>2 DEF Groq!MaxAttempts, Groq!DrawsOf
<1>4. GroqTypes'
  BY <1>t, <1>1, <1>2, <1>3 DEF GroqTypes, Groq!Ends
<1>5. pc'[r] = end /\ \A q \in Requests \ {r} : pc'[q] = pc[q]
  BY <1>t, <1>1 DEF GroqTypes
<1>6. QED
  BY <1>2, <1>3, <1>4, <1>5
     DEF GroqIInv, GroqChunksAreOfAttempts, GroqNothingIsDrawnOfNone, GroqDrawsAreAttempts,
         GroqDrawsHaveEnds

LEMMA GroqIInvStep == ASSUME KeyCounts \subseteq Nat, GroqIInv, [Groq!Next]_Groq!vars
      PROVE GroqIInv'
<1>1. ASSUME NEW r \in Requests, NEW kind \in {"ainvoke", "astream"}, Groq!Start(r, kind)
                   PROVE GroqIInv'
  BY <1>1, GroqStartKeeps
<1>2. ASSUME NEW r \in Requests, Groq!YieldChunk(r) \/ Groq!Complete(r) \/ Groq!RateLimit(r)
                   \/ Groq!OtherError(r) PROVE GroqIInv'
  BY <1>2, GroqYieldKeeps, GroqEndKeeps, GroqRateLimitKeeps
<1>3. CASE UNCHANGED Groq!vars
  <2>1. UNCHANGED <<size, index, draws, pc, attempt, chunks>>
    BY <1>3 DEF Groq!vars
  <2>2. Groq!MaxAttempts' = Groq!MaxAttempts /\ \A q : Groq!DrawsOf(q)' = Groq!DrawsOf(q)
    BY <2>1 DEF Groq!DrawsOf, Groq!MaxAttempts
  <2>3. QED
    BY <2>1, <2>2
       DEF GroqIInv, GroqTypes, GroqChunksAreOfAttempts, GroqNothingIsDrawnOfNone,
           GroqDrawsAreAttempts, GroqDrawsHaveEnds
<1>4. QED
  BY <1>1, <1>2, <1>3 DEF Groq!Next

LEMMA GroqShows == ASSUME KeyCounts \subseteq Nat, GroqIInv PROVE Groq!RotationIsFair
<1>t. GroqTypes /\ size \in Nat /\ Len(draws) \in Nat
  BY DEF GroqIInv, GroqTypes
<1>d. \A r : Groq!DrawsOf(r) \subseteq 1 .. Len(draws)
  BY <1>t, GroqDrawsAreFinite
<1>1. Groq!TypeOK
  BY DEF GroqIInv, GroqTypes, Groq!TypeOK, GroqChunksAreOfAttempts
<1>2. ASSUME NEW r \in Requests, pc[r] = "rate_limited", ~Groq!Contended(r)
      PROVE  Cardinality(Groq!KeysTried(r)) = Groq!MaxAttempts
  <2>1. /\ size # 0 /\ Cardinality(Groq!DrawsOf(r)) = Groq!MaxAttempts
        /\ Groq!MaxAttempts \in 1 .. 3 /\ Groq!MaxAttempts <= size
    BY SMTT(30), <1>t, <1>2, GroqAttemptsAreSome
       DEF GroqIInv, GroqNothingIsDrawnOfNone, GroqDrawsAreAttempts, GroqTypes
  <2>2. Groq!DrawsOf(r) # {}
    BY <2>1, FS_EmptySet
  <2>3. PICK i \in Groq!DrawsOf(r), j \in Groq!DrawsOf(r) : Groq!DrawsOf(r) \subseteq i .. j
    BY <1>2, <2>2 DEF GroqIInv, GroqDrawsHaveEnds
  <2>4. i \in 1 .. Len(draws) /\ j \in 1 .. Len(draws)
    BY <1>d, <2>3
  \* Nobody drew in between.
  <2>5. i .. j \subseteq Groq!DrawsOf(r)
    <3>1. CASE i < j
      <4>1. \A n \in i .. j : draws[n] = r
        BY <1>2, <2>3, <3>1 DEF Groq!Contended
      <4>2. QED
        BY <1>t, <2>4, <4>1 DEF Groq!DrawsOf, GroqTypes
    <3>2. CASE ~(i < j)
      BY <2>3, <2>4, <3>2
    <3>3. QED
      BY <3>1, <3>2
  <2>6. Groq!DrawsOf(r) = i .. j
    BY <2>3, <2>5
  <2>7. i <= j /\ j - i < size
    <3>1. Cardinality(i .. j) = IF i > j THEN 0 ELSE j - i + 1
      BY <2>4, FS_Interval
    <3>2. i <= j /\ Cardinality(i .. j) <= size
      BY <2>1, <2>3, <2>4, <2>6
    <3>3. Cardinality(i .. j) = j - i + 1
      BY <2>4, <3>1, <3>2
    <3>4. QED
      BY <1>t, <2>4, <3>2, <3>3
  <2> DEFINE key == [n \in i .. j |-> Groq!KeyAt(n - 1)]
  <2>8. \A a, b \in i .. j : Groq!KeyAt(a - 1) = Groq!KeyAt(b - 1) => a = b
    <3>1. SUFFICES ASSUME NEW a \in i .. j, NEW b \in i .. j, (a - 1) % size = (b - 1) % size
                   PROVE  a = b
      BY DEF Groq!KeyAt
    <3>2. /\ a - 1 \in Nat /\ b - 1 \in Nat /\ size \in Nat \ {0}
          /\ (a - 1) - (b - 1) < size /\ (b - 1) - (a - 1) < size
      BY <1>t, <2>1, <2>4, <2>7
    <3>3. a - 1 = b - 1
      BY <3>1, <3>2, ModInjective
    <3>4. QED
      BY <2>4, <3>3
  <2>9. key \in Bijection(i .. j, Groq!KeysTried(r))
    <3>1. key \in [i .. j -> Groq!KeysTried(r)]
      BY <2>6 DEF Groq!KeysTried
    <3>2. key \in Surjection(i .. j, Groq!KeysTried(r))
      BY <2>6, <3>1 DEF Groq!KeysTried, Surjection
    <3>3. key \in Injection(i .. j, Groq!KeysTried(r))
      <4>1. \A a, b \in i .. j : key[a] = key[b] => a = b
        BY <2>8
      <4>2. QED
        BY <3>1, <4>1 DEF Injection, IsInjective
    <3>4. QED
      BY <3>2, <3>3 DEF Bijection
  <2>10. Cardinality(Groq!KeysTried(r)) = Cardinality(i .. j)
    BY <2>4, <2>9, FS_Interval, FS_Bijection DEF ExistsBijection
  <2>11. QED
    BY <2>1, <2>6, <2>10
<1>3. ASSUME NEW r \in Requests, NEW i \in Groq!DrawsOf(r), NEW j \in Groq!DrawsOf(r),
             i < j, Groq!KeyAt(i - 1) = Groq!KeyAt(j - 1)
      PROVE  {Groq!KeyAt(n - 1) : n \in i .. j} = Groq!Keys
  <2>1. i \in 1 .. Len(draws) /\ j \in 1 .. Len(draws) /\ size \in Nat \ {0}
    BY <1>d, <1>t DEF GroqIInv, GroqNothingIsDrawnOfNone
  <2>2. ASSUME NEW n \in i .. j PROVE Groq!KeyAt(n - 1) \in Groq!Keys
    <3>1. n - 1 \in Nat
      BY <2>1
    <3>2. (n - 1) % size \in 0 .. size - 1
      BY <2>1, <3>1
    <3>3. QED
      BY <3>2 DEF Groq!KeyAt, Groq!Keys
  <2>3. ASSUME NEW k \in Groq!Keys PROVE \E n \in i .. j : Groq!KeyAt(n - 1) = k
    <3>1. i - 1 \in Nat /\ j - 1 \in Nat /\ i - 1 < j - 1
      BY <1>3, <2>1
    <3>2. PICK n \in (i - 1) .. (j - 1) : Groq!KeyAt(n) = k
      BY <1>3, <2>1, <3>1, GroqKeysCover
    <3>3. n + 1 \in i .. j /\ (n + 1) - 1 = n
      BY <2>1, <3>2
    <3>4. Groq!KeyAt((n + 1) - 1) = k
      BY <3>2, <3>3
    <3>5. QED
      BY <3>3, <3>4
  <2>4. QED
    BY <2>2, <2>3
<1>4. Groq!GivesUpAfterDistinctKeys /\ Groq!NoKeyTwiceBeforeTheOthers
  <2>1. \A S : Groq!Cardinality(S) = Cardinality(S)
    BY DEF Groq!Cardinality, Cardinality
  <2>2. QED
    BY <1>2, <1>3, <2>1 DEF Groq!GivesUpAfterDistinctKeys, Groq!NoKeyTwiceBeforeTheOthers
<1>5. QED
  BY <1>1, <1>4 DEF Groq!RotationIsFair

-----------------------------------------------------------------------------
(* ContextMemory                                                           *)

\* Numbers, as MCServices assumes them.
MemoryParameters ==
    /\ SummaryBudgets \subseteq Nat /\ {Legacy, MaxMessages, MemoryClock} \subseteq Nat
    /\ {CompactFrom, ReadLimit, WindowBudget} \subseteq Nat \ {0}

MemorySteps == {"idle", "load", "loaded", "read_document", "read_messages", "summarise",
          "reload_document", "reload", "trim", "ready"}

MemoryTypes ==
    /\ clock \in 0..MemoryClock
    /\ created \subseteq Memory!Message /\ IsFiniteSet(created)
    /\ stored \subseteq created
    /\ pc \in [Chats -> MemorySteps]
    /\ read \in [Chats -> Memory!Document] /\ doc \in Memory!Document
    /\ older \in [Chats -> SUBSET Memory!AnyMessage]
    /\ \A c \in Chats : older[c] # {} <=> pc[c] = "summarise"
    /\ window \in [Chats -> Memory!Window] /\ \A c \in Chats : window[c].seen \subseteq stored
    /\ excused \cup mixed \subseteq stored \cup Memory!LegacyMessages

\* What a document says of the messages stored and embedded, when it was read or
\* since: its summary tells, with the exceptions, exactly those up to the cutoff
\* and those it does not embed.
MemoryTellsAll(d) ==
    /\ d.summary \subseteq stored \cup Memory!LegacyMessages
    /\ \A m \in d.summary \cap stored : m.at <= d.cutoff \/ m \in mixed
    /\ \A m \in stored \ Memory!Excepted : m \in d.summary \/ m.at > d.cutoff
    /\ \A m \in Memory!LegacyMessages \ Memory!Excepted : m \in d.summary \/ m \in d.legacy
    /\ d.summary \cap d.legacy \subseteq mixed

\* What a chat summarises is embedded, or all the messages up to the last of them.
MemoryOlderIsAll(c) ==
    /\ \/ older[c] \subseteq read[c].legacy
       \/ older[c] \subseteq stored /\ \A m \in older[c] : m.at > read[c].cutoff
    /\ \A m \in stored \ Memory!Excepted : (\E h \in older[c] : m.at <= h.at) =>
          m \in read[c].summary \cup older[c]

\* The document a chat has read and will use.
MemoryReading(c) == pc[c] \in {"load", "reload", "read_messages", "summarise"}

MemoryIInv ==
    /\ MemoryTypes /\ MemoryTellsAll(doc) /\ Memory!NothingTwice /\ Memory!HistoryHasNoGap
    /\ \A c \in Chats : MemoryOlderIsAll(c) /\ (MemoryReading(c) => MemoryTellsAll(read[c]))

LEMMA MemoryCounts == \A S : Memory!Cardinality(S) = Cardinality(S)
BY DEF Memory!Cardinality, Cardinality

LEMMA MemoryMessageTimes == ASSUME MemoryTypes, MemoryClock \in Nat
      PROVE  /\ \A m \in created : m.at \in 0..MemoryClock
             /\ \A m \in stored : m.at \in 0..MemoryClock
             /\ \A m \in Memory!LegacyMessages : m.at = -1
             /\ stored \cap Memory!LegacyMessages = {}
             /\ stored \cup Memory!LegacyMessages \subseteq Memory!AnyMessage
BY DEF MemoryTypes, Memory!Message, Memory!LegacyMessages, Memory!AnyMessage

LEMMA MemoryEmptyDocs == ASSUME MemoryClock \in Nat PROVE Memory!EmptyDoc \in Memory!Document
BY DEF Memory!EmptyDoc, Memory!Document

\* What was excepted stays so, and a document says then what it said.
LEMMA MemoryHistoryGrows ==
    ASSUME UNCHANGED stored, excused \subseteq excused', mixed \subseteq mixed'
    PROVE  /\ \A d : MemoryTellsAll(d) => MemoryTellsAll(d)'
           /\ Memory!Excepted \subseteq Memory!Excepted'
<1>1. Memory!Excepted \subseteq Memory!Excepted'
  BY DEF Memory!Excepted
<1>2. SUFFICES ASSUME NEW d, MemoryTellsAll(d) PROVE MemoryTellsAll(d)'
  BY <1>1
<1>3. QED
  BY <1>1, <1>2 DEF MemoryTellsAll, Memory!LegacyMessages

LEMMA MemoryTellsStays ==
    ASSUME UNCHANGED stored, excused \subseteq excused', mixed \subseteq mixed'
    PROVE  /\ doc' = doc /\ MemoryTellsAll(doc) => MemoryTellsAll(doc)'
           /\ \A c \in Chats : read'[c] = read[c] /\ MemoryTellsAll(read[c]) => MemoryTellsAll(read[c])'
           /\ \A c \in Chats : older'[c] = older[c] /\ read'[c] = read[c] /\ MemoryOlderIsAll(c)
                 => MemoryOlderIsAll(c)'
           /\ UNCHANGED window /\ Memory!NothingTwice => Memory!NothingTwice'
           /\ UNCHANGED window /\ Memory!HistoryHasNoGap => Memory!HistoryHasNoGap'
<1>1. Memory!Excepted \subseteq Memory!Excepted'
  BY DEF Memory!Excepted
<1>2. doc' = doc /\ MemoryTellsAll(doc) => MemoryTellsAll(doc)'
  BY <1>1 DEF MemoryTellsAll, Memory!LegacyMessages
<1>3. \A c \in Chats : read'[c] = read[c] /\ MemoryTellsAll(read[c]) => MemoryTellsAll(read[c])'
  BY <1>1 DEF MemoryTellsAll, Memory!LegacyMessages
<1>4. \A c \in Chats : older'[c] = older[c] /\ read'[c] = read[c] /\ MemoryOlderIsAll(c)
         => MemoryOlderIsAll(c)'
  BY <1>1 DEF MemoryOlderIsAll
<1>5. UNCHANGED window /\ Memory!NothingTwice => Memory!NothingTwice'
  BY DEF Memory!NothingTwice
<1>6. UNCHANGED window /\ Memory!HistoryHasNoGap => Memory!HistoryHasNoGap'
  BY <1>1 DEF Memory!HistoryHasNoGap
<1>7. QED
  BY <1>2, <1>3, <1>4, <1>5, <1>6

\* The maximum of times is one of them and no less than the others.
LEMMA MaxIsLast ==
    ASSUME MemoryClock \in Nat, NEW S, S \subseteq 0..MemoryClock, S # {}
    PROVE  Memory!Max(S) \in S /\ \A x \in S : x <= Memory!Max(S)
<1> DEFINE T == {MemoryClock - x : x \in S}
<1>1. T \subseteq Nat /\ T # {}
  <2>1. \A x \in S : MemoryClock - x \in Nat
    OBVIOUS
  <2>2. QED
    BY <2>1
<1>2. PICK t \in T : \A y \in T : <<y, t>> \notin OpToRel(<, Nat)
  BY <1>1, NatLessThanWellFounded, WFMin
<1>3. \A y \in T : t <= y
  <2>1. \A y \in Nat : y < t => <<y, t>> \in OpToRel(<, Nat)
    BY <1>1 DEF OpToRel
  <2>2. SUFFICES ASSUME NEW y \in T PROVE t <= y
    OBVIOUS
  <2>3. y \in Nat /\ t \in Nat
    BY <1>1
  <2>4. ~(y < t)
    BY <1>2, <2>1, <2>3, Zenon
  <2>5. QED
    BY <2>3, <2>4
<1>4. PICK m \in S : t = MemoryClock - m
  BY <1>2
<1>5. \A x \in S : x <= m
  <2>1. SUFFICES ASSUME NEW x \in S PROVE x <= m
    OBVIOUS
  <2>2. MemoryClock - m <= MemoryClock - x
    BY <1>3, <1>4
  <2>3. QED
    BY <2>2
<1>6. QED
  BY <1>5 DEF Memory!Max

LEMMA MemoryOldestIs == ASSUME NEW S, NEW n, NEW T \in Memory!Oldest(S, n)
      PROVE T \subseteq S /\ \A m \in T, o \in S \ T : Memory!Before(m, o)
BY DEF Memory!Oldest, Memory!kSubset

LEMMA MemoryNewestIs == ASSUME NEW S, NEW n, NEW T \in Memory!Newest(S, n)
      PROVE T \subseteq S /\ \A m \in S \ T, o \in T : Memory!Before(m, o)
<1>1. PICK R : (\E k : R \in Memory!Oldest(S, k)) /\ T = S \ R
  BY DEF Memory!Newest
<1>2. R \subseteq S /\ \A m \in R, o \in S \ R : Memory!Before(m, o)
  BY <1>1, MemoryOldestIs
<1>3. QED
  BY <1>1, <1>2

LEMMA MemoryIInvInit == ASSUME MemoryParameters, Memory!Init PROVE MemoryIInv
<1>1. doc \in Memory!Document /\ doc.summary = {} /\ doc.cutoff = -1 /\ doc.legacy = Memory!LegacyMessages
  BY DEF Memory!Init, Memory!EmptyDoc, Memory!Document, MemoryParameters
<1>2. MemoryTypes
  BY <1>1, MemoryEmptyDocs, FS_EmptySet
     DEF Memory!Init, MemoryTypes, MemoryParameters, MemorySteps, Memory!EmptyWindow,
         Memory!Window
<1>3. stored = {} /\ mixed = {} /\ older = [c \in Chats |-> {}] /\ pc = [c \in Chats |-> "idle"]
      /\ window = [c \in Chats |-> Memory!EmptyWindow]
  BY DEF Memory!Init
<1>4. MemoryTellsAll(doc)
  BY <1>1, <1>3 DEF MemoryTellsAll
<1>5. \A c \in Chats : MemoryOlderIsAll(c) /\ ~MemoryReading(c)
  BY <1>3 DEF MemoryOlderIsAll, MemoryReading
<1>6. Memory!NothingTwice /\ Memory!HistoryHasNoGap
  BY <1>3 DEF Memory!NothingTwice, Memory!HistoryHasNoGap, Memory!EmptyWindow
<1>7. QED
  BY <1>2, <1>4, <1>5, <1>6 DEF MemoryIInv

\* A step that changes nothing the invariant is about but the clock and the types.
LEMMA MemoryTickKeeps == ASSUME MemoryParameters, MemoryIInv, Memory!Tick PROVE MemoryIInv'
<1>1. UNCHANGED <<created, stored, doc, pc, read, older, window, excused, mixed>>
      /\ clock' \in 0..MemoryClock
  BY DEF Memory!Tick, MemoryIInv, MemoryTypes, MemoryParameters, Memory!history
<1>2. MemoryTypes'
  BY <1>1 DEF MemoryIInv, MemoryTypes, Memory!LegacyMessages
<1>3. QED
  BY <1>1, <1>2, MemoryTellsStays DEF MemoryIInv, MemoryReading

LEMMA MemoryCreateKeeps == ASSUME MemoryParameters, MemoryIInv, Memory!CreateMessage
      PROVE MemoryIInv'
<1>1. /\ UNCHANGED <<clock, stored, doc, pc, read, older, window, excused, mixed>>
      /\ Cardinality(created) < MaxMessages
      /\ created' = created \cup {[id |-> Cardinality(created) + 1, at |-> clock]}
  BY MemoryCounts DEF Memory!CreateMessage, Memory!history
<1>2. created' \subseteq Memory!Message /\ IsFiniteSet(created')
  <2>1. Cardinality(created) \in Nat
    BY FS_CardinalityType DEF MemoryIInv, MemoryTypes
  <2>2. [id |-> Cardinality(created) + 1, at |-> clock] \in Memory!Message
    BY <1>1, <2>1 DEF Memory!Message, MemoryIInv, MemoryTypes, MemoryParameters
  <2>3. IsFiniteSet(created')
    BY <1>1, FS_AddElement DEF MemoryIInv, MemoryTypes
  <2>4. QED
    BY <1>1, <2>2, <2>3 DEF MemoryIInv, MemoryTypes
<1>3. MemoryTypes'
  BY <1>1, <1>2 DEF MemoryIInv, MemoryTypes, Memory!LegacyMessages
<1>4. QED
  BY <1>1, <1>3, MemoryTellsStays DEF MemoryIInv, MemoryReading

\* A message inserted is late, or later than every cutoff there is.
LEMMA MemoryStoreKeeps == ASSUME MemoryParameters, MemoryIInv, NEW m \in created \ stored,
      Memory!StoreMessage(m) PROVE MemoryIInv'
<1>1. /\ UNCHANGED <<clock, created, doc, pc, read, older, window, mixed>>
      /\ stored' = stored \cup {m}
      /\ excused \subseteq excused' /\ excused' \subseteq excused \cup {m}
      /\ m \in excused' \/ ~Memory!Passed(m.at)
  BY DEF Memory!StoreMessage
<1>t. /\ \A x \in stored' : x.at \in 0..MemoryClock
      /\ m \notin Memory!LegacyMessages
  BY <1>1, MemoryMessageTimes DEF MemoryIInv, MemoryTypes, MemoryParameters, Memory!LegacyMessages
<1>c. /\ doc.cutoff \in -1..MemoryClock
      /\ \A c \in Chats : read[c].cutoff \in -1..MemoryClock
      /\ \A c \in Chats : \A h \in older[c] : h.at \in -1..MemoryClock
  BY DEF MemoryIInv, MemoryTypes, Memory!Document, MemoryParameters, Memory!AnyMessage,
         Memory!Message, Memory!LegacyMessages
<1>2. Memory!Excepted \subseteq Memory!Excepted' /\ (m \notin Memory!Excepted' => ~Memory!Passed(m.at))
  BY <1>1 DEF Memory!Excepted
<1>3. MemoryTypes'
  BY <1>1, <1>t DEF MemoryIInv, MemoryTypes, Memory!LegacyMessages
<1>5. ASSUME NEW d \in Memory!Document, MemoryTellsAll(d), ~Memory!Passed(m.at) => m.at > d.cutoff
      PROVE  MemoryTellsAll(d)'
  <2>1. m \notin d.summary
    BY <1>5, <1>t DEF MemoryTellsAll
  <2>2. QED
    BY <1>1, <1>2, <1>5, <2>1 DEF MemoryTellsAll, Memory!LegacyMessages
<1>6. ASSUME NEW c \in Chats PROVE MemoryOlderIsAll(c)'
  <2>1. MemoryOlderIsAll(c)
    BY DEF MemoryIInv
  <2>2. m \notin Memory!Excepted' => \A h \in older[c] : ~(m.at <= h.at)
    BY <1>2 DEF Memory!Passed
  <2>3. QED
    BY <1>1, <1>2, <2>1, <2>2 DEF MemoryOlderIsAll
<1>7. MemoryTellsAll(doc)'
  <2>1. ~Memory!Passed(m.at) => m.at > doc.cutoff
    BY <1>1, <1>t, <1>c DEF Memory!Passed
  <2>2. \A d \in Memory!Document :
           MemoryTellsAll(d) /\ (~Memory!Passed(m.at) => m.at > d.cutoff) => MemoryTellsAll(d)'
    BY <1>5
  <2>3. doc \in Memory!Document /\ MemoryTellsAll(doc)
    BY DEF MemoryIInv, MemoryTypes
  <2>4. QED
    BY <1>1, <2>1, <2>2, <2>3 DEF MemoryTellsAll
<1>8. ASSUME NEW c \in Chats, MemoryReading(c)' PROVE MemoryTellsAll(read[c])'
  <2>1. ~Memory!Passed(m.at) => m.at > read[c].cutoff
    BY <1>1, <1>t, <1>c DEF Memory!Passed
  <2>2. \A d \in Memory!Document :
           MemoryTellsAll(d) /\ (~Memory!Passed(m.at) => m.at > d.cutoff) => MemoryTellsAll(d)'
    BY <1>5
  <2>3. read[c] \in Memory!Document /\ MemoryTellsAll(read[c])
    BY <1>1, <1>8 DEF MemoryIInv, MemoryTypes, MemoryReading
  <2>4. QED
    BY <1>1, <2>1, <2>2, <2>3 DEF MemoryTellsAll
<1>9. Memory!NothingTwice' /\ Memory!HistoryHasNoGap'
  BY <1>1, <1>2 DEF MemoryIInv, Memory!NothingTwice, Memory!HistoryHasNoGap
<1>10. QED
  BY <1>3, <1>6, <1>7, <1>8, <1>9 DEF MemoryIInv

\* Reading the document.
LEMMA MemoryReadKeeps == ASSUME MemoryParameters, MemoryIInv, NEW c \in Chats,
      Memory!LoadDocument(c) \/ Memory!ReadDocument(c) PROVE MemoryIInv'
<1>1. /\ UNCHANGED <<clock, created, stored, doc, older, window, excused, mixed>>
      /\ read' = [read EXCEPT ![c] = doc]
  BY DEF Memory!LoadDocument, Memory!ReadDocument, Memory!history
<1>2. PICK step \in MemorySteps : pc' = [pc EXCEPT ![c] = step] /\ step # "summarise"
            /\ pc[c] # "summarise"
  BY DEF Memory!LoadDocument, Memory!ReadDocument, Memory!Goto, MemorySteps
<1>3. /\ read'[c] = doc /\ \A k \in Chats \ {c} : read'[k] = read[k]
      /\ pc'[c] = step /\ \A k \in Chats \ {c} : pc'[k] = pc[k]
  BY <1>1, <1>2 DEF MemoryIInv, MemoryTypes
<1>4. MemoryTypes'
  BY <1>1, <1>2, <1>3 DEF MemoryIInv, MemoryTypes, Memory!LegacyMessages
<1>5. MemoryTellsAll(doc)' /\ Memory!NothingTwice' /\ Memory!HistoryHasNoGap'
  BY <1>1, MemoryTellsStays DEF MemoryIInv
<1>6. MemoryTellsAll(read[c])'
  BY <1>1, <1>3, <1>5 DEF MemoryTellsAll
<1>7. MemoryOlderIsAll(c)'
  <2>1. older'[c] = {}
    BY <1>1, <1>2 DEF MemoryIInv, MemoryTypes
  <2>2. QED
    BY <2>1 DEF MemoryOlderIsAll
<1>8. \A k \in Chats \ {c} : MemoryOlderIsAll(k)' /\ (MemoryReading(k)' => MemoryTellsAll(read[k])')
  BY <1>1, <1>3, MemoryTellsStays DEF MemoryIInv, MemoryReading
<1>9. QED
  BY <1>4, <1>5, <1>6, <1>7, <1>8 DEF MemoryIInv

\* A chat that has no use any more for the document it read.
LEMMA MemoryForgetKeeps ==
    ASSUME MemoryParameters, MemoryIInv, NEW c \in Chats,
           NEW step \in MemorySteps \ {"load", "reload", "read_messages", "summarise"},
           pc' = [pc EXCEPT ![c] = step], read' = [read EXCEPT ![c] = Memory!EmptyDoc],
           \/ older' = [older EXCEPT ![c] = {}]
           \/ UNCHANGED older /\ pc[c] # "summarise",
           UNCHANGED <<clock, created, stored>>,
           excused \subseteq excused', mixed \subseteq mixed',
           excused' \cup mixed' \subseteq stored \cup Memory!LegacyMessages,
           doc' \in Memory!Document, MemoryTellsAll(doc)',
           window' \in [Chats -> Memory!Window], \A k \in Chats : window'[k].seen \subseteq stored,
           Memory!NothingTwice', Memory!HistoryHasNoGap'
    PROVE  MemoryIInv'
<1>1. /\ read'[c] = Memory!EmptyDoc /\ \A k \in Chats \ {c} : read'[k] = read[k]
      /\ pc'[c] = step /\ \A k \in Chats \ {c} : pc'[k] = pc[k]
      /\ older'[c] = {} /\ \A k \in Chats \ {c} : older'[k] = older[k]
      /\ older' \in [Chats -> SUBSET Memory!AnyMessage]
  BY DEF MemoryIInv, MemoryTypes
<1>2. MemoryTypes'
  <2>1. read' \in [Chats -> Memory!Document]
    BY MemoryEmptyDocs DEF MemoryIInv, MemoryTypes, MemoryParameters
  <2>2. \A k \in Chats : older'[k] # {} <=> pc'[k] = "summarise"
    BY <1>1 DEF MemoryIInv, MemoryTypes
  <2>3. pc' \in [Chats -> MemorySteps]
    BY DEF MemoryIInv, MemoryTypes
  <2>4. QED
    BY <1>1, <2>1, <2>2, <2>3 DEF MemoryIInv, MemoryTypes, Memory!LegacyMessages
<1>3. MemoryOlderIsAll(c)' /\ ~MemoryReading(c)'
  BY <1>1 DEF MemoryOlderIsAll, MemoryReading
<1>4. \A k \in Chats \ {c} : MemoryOlderIsAll(k)' /\ (MemoryReading(k)' => MemoryTellsAll(read[k])')
  BY <1>1, MemoryTellsStays DEF MemoryIInv, MemoryReading
<1>5. QED
  BY <1>2, <1>3, <1>4 DEF MemoryIInv

LEMMA MemoryLoadMessagesKeeps == ASSUME MemoryParameters, MemoryIInv, NEW c \in Chats,
      Memory!LoadMessages(c) PROVE MemoryIInv'
<1> DEFINE due == Memory!LiveMessages(read[c])
           from == IF due # {} THEN due ELSE read[c].legacy
<1>1. /\ UNCHANGED <<clock, created, stored, doc, older, excused, mixed>>
      /\ read' = [read EXCEPT ![c] = Memory!EmptyDoc]
      /\ pc[c] \in {"load", "reload"}
  BY DEF Memory!LoadMessages, Memory!history
<1>2. PICK step \in MemorySteps \ {"load", "reload", "read_messages", "summarise"} :
         pc' = [pc EXCEPT ![c] = step]
  BY DEF Memory!LoadMessages, Memory!Goto, MemorySteps
<1>3. PICK chosen \in Memory!Newest(from, WindowBudget) :
         window' = [window EXCEPT ![c] =
                       [summary |-> read[c].summary, messages |-> chosen, seen |-> stored]]
  BY DEF Memory!LoadMessages
<1>t. /\ \A m \in stored : m.at \in 0..MemoryClock
      /\ \A m \in Memory!LegacyMessages : m.at = -1
      /\ stored \cap Memory!LegacyMessages = {}
      /\ stored \cup Memory!LegacyMessages \subseteq Memory!AnyMessage
      /\ read[c] \in Memory!Document /\ read[c].cutoff \in -1..MemoryClock
      /\ MemoryTellsAll(read[c])
  BY <1>1, MemoryMessageTimes
     DEF MemoryIInv, MemoryTypes, MemoryParameters, Memory!Document, MemoryReading
<1>4. chosen \subseteq from /\ \A m \in from \ chosen, o \in chosen : Memory!Before(m, o)
  BY MemoryNewestIs
<1>5. /\ \/ from \subseteq due
         \/ due = {} /\ from \subseteq Memory!LegacyMessages /\ from \subseteq read[c].legacy
      /\ due \subseteq stored /\ \A m \in due : m.at > read[c].cutoff
      /\ \A m \in stored : m.at > read[c].cutoff => m \in due
      /\ due # {} => from = due
  <2>1. due = {m \in stored : m.at > read[c].cutoff}
    BY DEF Memory!LiveMessages
  <2>2. read[c].legacy \subseteq Memory!LegacyMessages
    BY <1>t DEF Memory!Document
  <2> HIDE DEF due
  <2>3. (due # {} => from = due) /\ (due = {} => from = read[c].legacy)
    OBVIOUS
  <2> HIDE DEF from
  <2>4. \/ from \subseteq due
        \/ due = {} /\ from \subseteq Memory!LegacyMessages /\ from \subseteq read[c].legacy
    BY <2>2, <2>3
  <2>5. due \subseteq stored /\ \A m \in due : m.at > read[c].cutoff
    BY <2>1
  <2>6. \A m \in stored : m.at > read[c].cutoff => m \in due
    BY <2>1
  <2>7. QED
    BY <2>3, <2>4, <2>5, <2>6
<1> HIDE DEF due, from
<1>6. read[c].summary \subseteq Memory!AnyMessage /\ chosen \subseteq Memory!AnyMessage
  BY <1>4, <1>5, <1>t DEF MemoryTellsAll
<1>7. window' \in [Chats -> Memory!Window] /\ \A k \in Chats : window'[k].seen \subseteq stored
  <2>1. stored \subseteq Memory!Message
    BY DEF MemoryIInv, MemoryTypes
  <2>2. [summary |-> read[c].summary, messages |-> chosen, seen |-> stored] \in Memory!Window
    BY <1>6, <2>1 DEF Memory!Window
  <2>3. window \in [Chats -> Memory!Window] /\ \A k \in Chats : window[k].seen \subseteq stored
    BY DEF MemoryIInv, MemoryTypes
  <2>4. QED
    BY <1>3, <2>2, <2>3
<1>w. /\ window'[c].summary = read[c].summary /\ window'[c].messages = chosen
      /\ window'[c].seen = stored
      /\ \A k \in Chats \ {c} : window'[k] = window[k]
  BY <1>3 DEF MemoryIInv, MemoryTypes
<1>8. Memory!NothingTwice'
  <2>1. ASSUME NEW m \in read[c].summary \cap chosen PROVE m \in mixed
    <3>1. CASE m \in due
      BY <1>5, <1>t, <3>1 DEF MemoryTellsAll
    <3>2. CASE m \in read[c].legacy
      BY <1>t, <3>2 DEF MemoryTellsAll
    <3>3. QED
      BY <1>4, <1>5, <3>1, <3>2
  <2>2. QED
    BY <1>1, <1>w, <2>1 DEF MemoryIInv, Memory!NothingTwice
<1>9. Memory!HistoryHasNoGap'
  <2>1. ASSUME NEW m \in stored \ Memory!Excepted, m \notin read[c].summary \cup chosen, NEW o \in chosen
        PROVE  m.at <= o.at
    <3>1. m \in due
      BY <1>5, <1>t, <2>1 DEF MemoryTellsAll
    <3>2. Memory!Before(m, o) /\ o \in stored
      BY <1>4, <1>5, <2>1, <3>1
    <3>3. QED
      BY <1>t, <3>2 DEF Memory!Before
  <2>2. Memory!Excepted' = Memory!Excepted
    BY <1>1 DEF Memory!Excepted
  <2>3. QED
    BY <1>w, <2>1, <2>2 DEF MemoryIInv, Memory!HistoryHasNoGap
<1>10. doc' \in Memory!Document /\ MemoryTellsAll(doc)'
       /\ excused' \cup mixed' \subseteq stored \cup Memory!LegacyMessages
  BY <1>1, MemoryTellsStays DEF MemoryIInv, MemoryTypes
<1>11. QED
  BY <1>1, <1>2, <1>7, <1>8, <1>9, <1>10, MemoryForgetKeeps

LEMMA MemoryFinishKeeps == ASSUME MemoryParameters, MemoryIInv, NEW c \in Chats,
      Memory!Finish(c) PROVE MemoryIInv'
<1>1. /\ UNCHANGED <<clock, created, stored, doc, excused, mixed>>
      /\ pc' = [pc EXCEPT ![c] = "idle"] /\ read' = [read EXCEPT ![c] = Memory!EmptyDoc]
      /\ older' = [older EXCEPT ![c] = {}] /\ window' = [window EXCEPT ![c] = Memory!EmptyWindow]
  BY DEF Memory!Finish, Memory!Goto, Memory!history
<1>2. window' \in [Chats -> Memory!Window] /\ \A k \in Chats : window'[k].seen \subseteq stored
  BY <1>1 DEF MemoryIInv, MemoryTypes, Memory!Window, Memory!EmptyWindow
<1>3. Memory!NothingTwice' /\ Memory!HistoryHasNoGap'
  BY <1>1 DEF MemoryIInv, MemoryTypes, Memory!NothingTwice, Memory!HistoryHasNoGap,
              Memory!EmptyWindow, Memory!Excepted
<1>4. /\ doc' \in Memory!Document /\ MemoryTellsAll(doc)'
      /\ "idle" \in MemorySteps \ {"load", "reload", "read_messages", "summarise"}
      /\ excused' \cup mixed' \subseteq stored \cup Memory!LegacyMessages
  BY <1>1, MemoryTellsStays DEF MemoryIInv, MemoryTypes, MemorySteps
<1>5. QED
  BY <1>1, <1>2, <1>3, <1>4, MemoryForgetKeeps

\* A window that is emptied or loses its oldest messages.
LEMMA MemoryTrimKeeps == ASSUME MemoryParameters, MemoryIInv, NEW c \in Chats,
      Memory!CheckBudget(c) \/ Memory!TrimWindow(c) PROVE MemoryIInv'
<1>1. /\ UNCHANGED <<clock, created, stored, doc, read, older, excused, mixed>>
      /\ pc[c] # "summarise"
  BY DEF Memory!CheckBudget, Memory!TrimWindow, Memory!history
<1>2. PICK step \in MemorySteps \ {"load", "reload", "read_messages", "summarise"} :
         pc' = [pc EXCEPT ![c] = step]
  BY DEF Memory!CheckBudget, Memory!TrimWindow, Memory!Goto, MemorySteps
<1>m. Memory!Excepted' = Memory!Excepted
  BY <1>1 DEF Memory!Excepted
<1>3. /\ window' \in [Chats -> Memory!Window] /\ Memory!NothingTwice' /\ Memory!HistoryHasNoGap'
      /\ \A k \in Chats : window'[k].seen \subseteq stored
  <2>1. CASE Memory!CheckBudget(c)
    BY <1>1, <1>m, <2>1
       DEF Memory!CheckBudget, MemoryIInv, MemoryTypes, Memory!NothingTwice,
           Memory!HistoryHasNoGap, Memory!EmptyWindow, Memory!Window
  <2>2. CASE Memory!TrimWindow(c)
    <3>1. PICK kept :
                /\ \E n \in 0..Cardinality(window[c].messages) : kept \in Memory!Newest(window[c].messages, n)
                      /\ window' = [window EXCEPT ![c].messages = kept]
      BY <2>2, MemoryCounts DEF Memory!TrimWindow
    <3>2. /\ kept \subseteq window[c].messages /\ window[c] \in Memory!Window
          /\ \A m \in window[c].messages \ kept, o \in kept : Memory!Before(m, o)
      BY <3>1, MemoryNewestIs DEF MemoryIInv, MemoryTypes
    <3>3. window' \in [Chats -> Memory!Window]
      BY <3>1, <3>2 DEF MemoryIInv, MemoryTypes, Memory!Window
    <3>4. /\ window'[c].messages = kept /\ window'[c].summary = window[c].summary
          /\ window'[c].seen = window[c].seen
          /\ \A k \in Chats \ {c} : window'[k] = window[k]
      BY <3>1, <3>2 DEF MemoryIInv, MemoryTypes, Memory!Window
    <3>5. ASSUME NEW m \in window[c].seen \ Memory!Excepted,
                 m \notin window[c].summary \cup kept, NEW o \in kept
          PROVE  m.at <= o.at
      <4>1. CASE m \in window[c].messages
        <5>1. Memory!Before(m, o)
          BY <3>2, <3>5, <4>1
        <5>2. m.at \in Int /\ o.at \in Int
          BY <3>2, <4>1
             DEF Memory!Window, Memory!AnyMessage, Memory!Message, Memory!LegacyMessages
        <5>3. QED
          BY <5>1, <5>2 DEF Memory!Before
      <4>2. CASE m \notin window[c].messages
        BY <3>2, <3>5, <4>2 DEF MemoryIInv, Memory!HistoryHasNoGap
      <4>3. QED
        BY <4>1, <4>2
    <3>6. Memory!HistoryHasNoGap'
      BY <1>m, <3>4, <3>5 DEF MemoryIInv, Memory!HistoryHasNoGap
    <3>7. Memory!NothingTwice'
      BY <1>1, <3>2, <3>4 DEF MemoryIInv, Memory!NothingTwice
    <3>8. \A k \in Chats : window'[k].seen \subseteq stored
      BY <3>4 DEF MemoryIInv, MemoryTypes
    <3>9. QED
      BY <3>3, <3>6, <3>7, <3>8
  <2>3. QED
    BY <2>1, <2>2
<1>4. MemoryTypes'
  BY <1>1, <1>2, <1>3 DEF MemoryIInv, MemoryTypes, Memory!LegacyMessages
<1>5. /\ MemoryTellsAll(doc)'
      /\ \A k \in Chats : MemoryOlderIsAll(k)' /\ (MemoryReading(k)' => MemoryTellsAll(read[k])')
  <2>1. \A k \in Chats : MemoryReading(k)' => MemoryReading(k)
    BY <1>2 DEF MemoryReading, MemoryIInv, MemoryTypes
  <2>2. QED
    BY <1>1, <2>1, MemoryTellsStays DEF MemoryIInv
<1>6. QED
  BY <1>3, <1>4, <1>5 DEF MemoryIInv

\* What is selected is the oldest of what is due, or embedded; what it leaves out
\* of its last millisecond is excepted.
LEMMA MemorySelectKeeps == ASSUME MemoryParameters, MemoryIInv, NEW c \in Chats,
      Memory!SelectOlder(c) PROVE MemoryIInv'
<1> DEFINE S == Memory!LiveMessages(read[c])
<1>1. /\ UNCHANGED <<clock, created, stored, doc, read, window, mixed>>
      /\ pc[c] = "read_messages"
  BY DEF Memory!SelectOlder
<1>2. PICK due \in Memory!Oldest(S, ReadLimit) :
         \E half \in IF Cardinality(due) >= CompactFrom THEN Memory!OlderHalf(due)
                    ELSE Memory!OlderHalf(read[c].legacy) :
            /\ older' = [older EXCEPT ![c] = half]
            /\ excused' = excused \cup {m \in S \ half : \E o \in half : m.at <= o.at}
            /\ pc' = [pc EXCEPT ![c] = IF half = {} THEN "reload_document" ELSE "summarise"]
  BY MemoryCounts DEF Memory!SelectOlder, Memory!Goto
<1>3. PICK half \in IF Cardinality(due) >= CompactFrom THEN Memory!OlderHalf(due)
                    ELSE Memory!OlderHalf(read[c].legacy) :
         /\ older' = [older EXCEPT ![c] = half]
         /\ excused' = excused \cup {m \in S \ half : \E o \in half : m.at <= o.at}
         /\ pc' = [pc EXCEPT ![c] = IF half = {} THEN "reload_document" ELSE "summarise"]
  BY <1>2
<1>4. S = {m \in stored : m.at > read[c].cutoff}
  BY DEF Memory!LiveMessages
<1>5. half \subseteq S \/ half \subseteq read[c].legacy
  <2>1. \A D : \A h \in Memory!OlderHalf(D) : h \subseteq D
    BY MemoryOldestIs DEF Memory!OlderHalf
  <2>2. due \subseteq S
    BY MemoryOldestIs
  <2>3. half \in Memory!OlderHalf(due) \/ half \in Memory!OlderHalf(read[c].legacy)
    BY <1>3
  <2>4. half \subseteq due \/ half \subseteq read[c].legacy
    BY <2>1, <2>3
  <2>5. QED
    BY <2>2, <2>4
<1> HIDE DEF S
<1>t. /\ read[c] \in Memory!Document /\ MemoryTellsAll(read[c])
      /\ read[c].legacy \subseteq Memory!LegacyMessages
      /\ stored \cup Memory!LegacyMessages \subseteq Memory!AnyMessage
      /\ \A m \in stored : m.at \in 0..MemoryClock
      /\ read[c].cutoff \in -1..MemoryClock
  BY <1>1, MemoryMessageTimes
     DEF MemoryIInv, MemoryTypes, MemoryParameters, MemoryReading, Memory!Document
<1>6. /\ older'[c] = half /\ \A k \in Chats \ {c} : older'[k] = older[k]
      /\ \A k \in Chats : MemoryReading(k)' => MemoryReading(k)
  BY <1>1, <1>3 DEF MemoryIInv, MemoryTypes, MemoryReading
<1>7. excused \subseteq excused' /\ excused' \subseteq excused \cup stored
  BY <1>3, <1>4
<1>8. MemoryOlderIsAll(c)'
  <2>1. ASSUME NEW m \in stored \ Memory!Excepted', NEW h \in half, m.at <= h.at
        PROVE  m \in read[c].summary \cup half
    <3>1. m \notin Memory!Excepted
      BY <1>1, <1>7, <2>1 DEF Memory!Excepted
    <3>2. m \in read[c].summary \/ m \in S
      BY <1>4, <1>t, <3>1 DEF MemoryTellsAll
    <3>3. m \in S \ half => m \in excused'
      BY <1>3, <2>1
    <3>4. QED
      BY <2>1, <3>2, <3>3 DEF Memory!Excepted
  <2>2. half \subseteq read[c].legacy \/ (half \subseteq stored /\ \A m \in half : m.at > read[c].cutoff)
    BY <1>4, <1>5
  <2>3. QED
    BY <1>1, <1>6, <2>1, <2>2 DEF MemoryOlderIsAll
<1>9. \A k \in Chats \ {c} : MemoryOlderIsAll(k)'
  BY <1>1, <1>6, <1>7, MemoryTellsStays DEF MemoryIInv
<1>10. /\ MemoryTellsAll(doc)' /\ Memory!NothingTwice' /\ Memory!HistoryHasNoGap'
       /\ \A k \in Chats : MemoryReading(k)' => MemoryTellsAll(read[k])'
  BY <1>1, <1>6, <1>7, MemoryTellsStays DEF MemoryIInv
<1>11. MemoryTypes'
  <2>1. half \in SUBSET Memory!AnyMessage
    BY <1>4, <1>5, <1>t
  <2>2. older' \in [Chats -> SUBSET Memory!AnyMessage] /\ pc' \in [Chats -> MemorySteps]
    BY <1>3, <2>1 DEF MemoryIInv, MemoryTypes, MemorySteps
  <2>3. \A k \in Chats : older'[k] # {} <=> pc'[k] = "summarise"
    BY <1>3 DEF MemoryIInv, MemoryTypes
  <2>4. excused' \cup mixed' \subseteq stored \cup Memory!LegacyMessages
    BY <1>1, <1>7 DEF MemoryIInv, MemoryTypes
  <2>5. QED
    BY <1>1, <2>2, <2>3, <2>4 DEF MemoryIInv, MemoryTypes, Memory!LegacyMessages
<1>12. QED
  BY <1>8, <1>9, <1>10, <1>11 DEF MemoryIInv

\* What is left of the summary and the older messages is some of them.
LEMMA MemoryCutIs == ASSUME NEW n, NEW summary, NEW half, NEW told \in Memory!CutTo(n, summary, half)
      PROVE told \subseteq summary \cup half
BY MemoryOldestIs DEF Memory!CutTo, Memory!kSubset

\* The document saved by a compaction of stored messages.
LEMMA MemorySavedLive ==
    ASSUME MemoryParameters, MemoryIInv, NEW c \in Chats, pc[c] = "summarise",
           older[c] \subseteq stored, \A m \in older[c] : m.at > read[c].cutoff,
           NEW told, told \subseteq read[c].summary \cup older[c],
           doc' = Memory!NewDocument(c, told), UNCHANGED stored,
           excused' = excused \cup ((read[c].summary \cup older[c]) \ told),
           mixed' = mixed \cup Memory!Overtaken(c)
    PROVE  /\ doc' \in Memory!Document /\ MemoryTellsAll(doc)'
           /\ excused' \cup mixed' \subseteq stored \cup Memory!LegacyMessages
<1> DEFINE last == Memory!Max({m.at : m \in older[c]})
<1>n. MemoryClock \in Nat
  BY DEF MemoryParameters
<1>t. /\ \A m \in stored : m.at \in 0..MemoryClock
      /\ stored \cap Memory!LegacyMessages = {}
      /\ stored \cup Memory!LegacyMessages \subseteq Memory!AnyMessage
  BY <1>n, MemoryMessageTimes DEF MemoryIInv
<1>d. /\ read[c] \in Memory!Document /\ doc \in Memory!Document
      /\ read[c].cutoff \in -1..MemoryClock
      /\ read[c].legacy \subseteq Memory!LegacyMessages /\ doc.legacy \subseteq Memory!LegacyMessages
      /\ MemoryTellsAll(read[c]) /\ MemoryOlderIsAll(c) /\ older[c] # {}
      /\ excused \cup mixed \subseteq stored \cup Memory!LegacyMessages
  BY DEF MemoryIInv, MemoryTypes, Memory!Document, MemoryReading
<1>1. last \in {m.at : m \in older[c]} /\ \A m \in older[c] : m.at <= last
  <2>1. {m.at : m \in older[c]} \subseteq 0..MemoryClock /\ {m.at : m \in older[c]} # {}
    BY <1>t, <1>d
  <2>2. QED
    BY <1>n, <2>1, MaxIsLast
<1>2. ~Memory!OfLegacy(older[c])
  BY <1>t DEF Memory!OfLegacy
<1>3. /\ doc' = [doc EXCEPT !.summary = told, !.cutoff = last]
      /\ mixed' = mixed \cup (doc.legacy \ read[c].legacy) \cup (read[c].legacy \ doc.legacy)
  BY <1>2 DEF Memory!NewDocument, Memory!Overtaken
<1> HIDE DEF last
<1>4. PICK h \in older[c] : h.at = last
  BY <1>1
<1>5. last \in 0..MemoryClock /\ read[c].cutoff < last
  BY <1>4, <1>t
<1>6. /\ doc'.summary = told /\ doc'.cutoff = last /\ doc'.legacy = doc.legacy
      /\ doc' \in Memory!Document
  <2>1. told \subseteq Memory!AnyMessage
    BY <1>t, <1>d DEF MemoryTellsAll
  <2>2. last \in -1..MemoryClock
    BY <1>n, <1>5
  <2>3. QED
    BY <1>3, <1>d, <2>1, <2>2 DEF Memory!Document
<1>7. excused' \cup mixed' \subseteq stored \cup Memory!LegacyMessages
  BY <1>3, <1>d DEF MemoryTellsAll
<1>8. told \subseteq stored \cup Memory!LegacyMessages
  BY <1>d DEF MemoryTellsAll
<1>9. ASSUME NEW m \in told \cap stored PROVE m.at <= last \/ m \in mixed'
  <2>1. CASE m \in older[c]
    BY <1>1, <2>1
  <2>2. CASE m \in read[c].summary
    BY <1>3, <1>5, <1>t, <1>d, <1>9, <2>2 DEF MemoryTellsAll
  <2>3. QED
    BY <1>9, <2>1, <2>2
<1>e. Memory!Excepted \subseteq Memory!Excepted'
      /\ (read[c].summary \cup older[c]) \ told \subseteq Memory!Excepted'
      /\ mixed' \subseteq Memory!Excepted'
  BY <1>3 DEF Memory!Excepted
<1>10. ASSUME NEW m \in stored \ Memory!Excepted' PROVE m \in told \/ m.at > last
  <2>1. m.at <= last => m \in read[c].summary \cup older[c]
    BY <1>4, <1>d, <1>e, <1>10 DEF MemoryOlderIsAll
  <2>2. m.at \in 0..MemoryClock
    BY <1>t
  <2>3. QED
    BY <1>5, <1>e, <1>10, <2>1, <2>2
<1>11. ASSUME NEW m \in Memory!LegacyMessages \ Memory!Excepted' PROVE m \in told \/ m \in doc.legacy
  <2>1. m \in read[c].summary \/ m \in read[c].legacy
    BY <1>d, <1>e, <1>11 DEF MemoryTellsAll
  <2>2. QED
    BY <1>3, <1>e, <1>11, <2>1
<1>12. told \cap doc.legacy \subseteq mixed'
  BY <1>3, <1>t, <1>d DEF MemoryTellsAll
<1>13. MemoryTellsAll(doc)'
  BY <1>6, <1>8, <1>9, <1>10, <1>11, <1>12 DEF MemoryTellsAll, Memory!LegacyMessages
<1>14. QED
  BY <1>6, <1>7, <1>13

\* The document saved by a compaction of embedded messages.
LEMMA MemorySavedLegacy ==
    ASSUME MemoryParameters, MemoryIInv, NEW c \in Chats, pc[c] = "summarise",
           older[c] \subseteq read[c].legacy,
           NEW told, told \subseteq read[c].summary \cup older[c],
           doc' = Memory!NewDocument(c, told), UNCHANGED stored,
           excused' = excused \cup ((read[c].summary \cup older[c]) \ told),
           mixed' = mixed \cup Memory!Overtaken(c)
    PROVE  /\ doc' \in Memory!Document /\ MemoryTellsAll(doc)'
           /\ excused' \cup mixed' \subseteq stored \cup Memory!LegacyMessages
<1>n. MemoryClock \in Nat
  BY DEF MemoryParameters
<1>t. /\ \A m \in stored : m.at \in 0..MemoryClock
      /\ \A m \in Memory!LegacyMessages : m.at = -1
      /\ stored \cap Memory!LegacyMessages = {}
      /\ stored \cup Memory!LegacyMessages \subseteq Memory!AnyMessage
  BY <1>n, MemoryMessageTimes DEF MemoryIInv
<1>d. /\ read[c] \in Memory!Document /\ doc \in Memory!Document
      /\ read[c].cutoff \in -1..MemoryClock /\ doc.cutoff \in -1..MemoryClock
      /\ read[c].legacy \subseteq Memory!LegacyMessages
      /\ MemoryTellsAll(read[c]) /\ older[c] # {}
      /\ excused \cup mixed \subseteq stored \cup Memory!LegacyMessages
  BY DEF MemoryIInv, MemoryTypes, Memory!Document, MemoryReading
<1>2. Memory!OfLegacy(older[c])
  <2>1. PICK h : h \in older[c]
    BY <1>d
  <2>2. h.at = -1
    BY <1>t, <1>d, <2>1
  <2>3. QED
    BY <2>1, <2>2 DEF Memory!OfLegacy
<1> DEFINE between == {m \in stored : (m.at <= doc.cutoff) # (m.at <= read[c].cutoff)}
<1>3. /\ doc' = [doc EXCEPT !.summary = told, !.legacy = read[c].legacy \ older[c]]
      /\ mixed' = mixed \cup between
  BY <1>2 DEF Memory!NewDocument, Memory!Overtaken
<1>4. \A m \in stored : m \notin between => (m.at <= doc.cutoff <=> m.at <= read[c].cutoff)
  OBVIOUS
<1>5. between \subseteq stored
  OBVIOUS
<1> HIDE DEF between
<1>6. /\ doc'.summary = told /\ doc'.cutoff = doc.cutoff
      /\ doc'.legacy = read[c].legacy \ older[c] /\ doc' \in Memory!Document
  <2>1. told \subseteq Memory!AnyMessage
    BY <1>t, <1>d DEF MemoryTellsAll
  <2>2. read[c].legacy \ older[c] \subseteq Memory!LegacyMessages
    BY <1>d
  <2>3. QED
    BY <1>3, <1>d, <2>1, <2>2 DEF Memory!Document
<1>7. excused' \cup mixed' \subseteq stored \cup Memory!LegacyMessages
  BY <1>3, <1>5, <1>d DEF MemoryTellsAll
<1>8. told \subseteq stored \cup Memory!LegacyMessages
  BY <1>d DEF MemoryTellsAll
<1>e. Memory!Excepted \subseteq Memory!Excepted'
      /\ (read[c].summary \cup older[c]) \ told \subseteq Memory!Excepted'
      /\ mixed' \subseteq Memory!Excepted'
  BY <1>3 DEF Memory!Excepted
<1>9. ASSUME NEW m \in told \cap stored PROVE m.at <= doc.cutoff \/ m \in mixed'
  <2>1. m \in read[c].summary
    BY <1>t, <1>d, <1>9
  <2>2. m.at <= read[c].cutoff \/ m \in mixed
    BY <1>d, <1>9, <2>1 DEF MemoryTellsAll
  <2>3. QED
    BY <1>3, <1>4, <1>9, <2>2
<1>10. ASSUME NEW m \in stored \ Memory!Excepted' PROVE m \in told \/ m.at > doc.cutoff
  <2>1. m \in read[c].summary \/ m.at > read[c].cutoff
    BY <1>d, <1>e, <1>10 DEF MemoryTellsAll
  <2>2. m \notin between
    BY <1>3, <1>e, <1>10
  <2>3. m.at > read[c].cutoff => m.at > doc.cutoff
    BY <1>4, <1>t, <1>d, <1>10, <2>2
  <2>4. QED
    BY <1>e, <1>10, <2>1, <2>3
<1>11. ASSUME NEW m \in Memory!LegacyMessages \ Memory!Excepted'
       PROVE  m \in told \/ m \in read[c].legacy \ older[c]
  <2>1. m \in read[c].summary \/ m \in read[c].legacy
    BY <1>d, <1>e, <1>11 DEF MemoryTellsAll
  <2>2. QED
    BY <1>e, <1>11, <2>1
<1>12. told \cap (read[c].legacy \ older[c]) \subseteq mixed'
  BY <1>3, <1>d DEF MemoryTellsAll
<1>13. MemoryTellsAll(doc)'
  BY <1>6, <1>8, <1>9, <1>10, <1>11, <1>12 DEF MemoryTellsAll, Memory!LegacyMessages
<1>14. QED
  BY <1>6, <1>7, <1>13

LEMMA MemorySaveKeeps == ASSUME MemoryParameters, MemoryIInv, NEW c \in Chats,
      Memory!SaveSummary(c) PROVE MemoryIInv'
<1>1. /\ UNCHANGED <<clock, created, stored, window>> /\ pc[c] = "summarise"
      /\ pc' = [pc EXCEPT ![c] = "reload_document"]
      /\ read' = [read EXCEPT ![c] = Memory!EmptyDoc]
      /\ older' = [older EXCEPT ![c] = {}]
      /\ mixed' = mixed \cup Memory!Overtaken(c)
  BY DEF Memory!SaveSummary, Memory!Goto
<1>2. PICK told :
         /\ \E n \in SummaryBudgets : told \in Memory!CutTo(n, read[c].summary, older[c])
         /\ doc' = Memory!NewDocument(c, told)
         /\ excused' = excused \cup ((read[c].summary \cup older[c]) \ told)
  BY DEF Memory!SaveSummary
<1>3. told \subseteq read[c].summary \cup older[c]
  BY <1>2, MemoryCutIs
<1>4. /\ doc' \in Memory!Document /\ MemoryTellsAll(doc)'
      /\ excused' \cup mixed' \subseteq stored \cup Memory!LegacyMessages
  <2>1. MemoryOlderIsAll(c)
    BY DEF MemoryIInv
  <2>2. CASE older[c] \subseteq read[c].legacy
    BY <1>1, <1>2, <1>3, <2>2, MemorySavedLegacy
  <2>3. CASE older[c] \subseteq stored /\ \A m \in older[c] : m.at > read[c].cutoff
    BY <1>1, <1>2, <1>3, <2>3, MemorySavedLive
  <2>4. QED
    BY <2>1, <2>2, <2>3 DEF MemoryOlderIsAll
<1>5. excused \subseteq excused' /\ mixed \subseteq mixed'
  BY <1>1, <1>2
<1>6. /\ window' \in [Chats -> Memory!Window] /\ \A k \in Chats : window'[k].seen \subseteq stored
      /\ Memory!NothingTwice' /\ Memory!HistoryHasNoGap'
      /\ "reload_document" \in MemorySteps \ {"load", "reload", "read_messages", "summarise"}
  BY <1>1, <1>5, MemoryTellsStays DEF MemoryIInv, MemoryTypes, MemorySteps
<1>7. QED
  BY <1>1, <1>4, <1>5, <1>6, MemoryForgetKeeps

LEMMA MemoryIInvStep == ASSUME MemoryParameters, MemoryIInv, [Memory!Next]_Memory!vars
      PROVE MemoryIInv'
<1>1. CASE Memory!Tick \/ Memory!CreateMessage
  BY <1>1, MemoryTickKeeps, MemoryCreateKeeps
<1>2. ASSUME NEW m \in created \ stored, Memory!StoreMessage(m) PROVE MemoryIInv'
  BY <1>2, MemoryStoreKeeps
<1>3. ASSUME NEW c \in Chats, Memory!LoadDocument(c) \/ Memory!LoadMessages(c)
                   \/ Memory!CheckBudget(c) \/ Memory!TrimWindow(c)
      PROVE  MemoryIInv'
  BY <1>3, MemoryReadKeeps, MemoryLoadMessagesKeeps, MemoryTrimKeeps
<1>4. ASSUME NEW c \in Chats, Memory!ReadDocument(c) \/ Memory!SelectOlder(c)
                   \/ Memory!SaveSummary(c) \/ Memory!Finish(c)
      PROVE  MemoryIInv'
  BY <1>4, MemoryReadKeeps, MemorySelectKeeps, MemorySaveKeeps, MemoryFinishKeeps
<1>5. CASE UNCHANGED Memory!vars
  <2>1. UNCHANGED <<clock, created, stored, doc, pc, read, older, window, excused, mixed>>
    BY <1>5 DEF Memory!vars, Memory!history
  <2>2. MemoryTypes'
    BY <2>1 DEF MemoryIInv, MemoryTypes, Memory!LegacyMessages
  <2>3. QED
    BY <2>1, <2>2, MemoryTellsStays DEF MemoryIInv, MemoryReading
<1>6. QED
  BY <1>1, <1>2, <1>3, <1>4, <1>5 DEF Memory!Next

LEMMA MemoryShows == ASSUME MemoryIInv PROVE Memory!MemoryIsAccountedFor
<1>1. Memory!TypeOK
  BY DEF MemoryIInv, MemoryTypes, MemorySteps, Memory!TypeOK
<1>2. Memory!NothingForgotten
  BY DEF MemoryIInv, MemoryTellsAll, Memory!NothingForgotten
<1>3. QED
  BY <1>1, <1>2 DEF MemoryIInv, Memory!MemoryIsAccountedFor

-----------------------------------------------------------------------------
(* ConversationStore                                                       *)

\* The proofs about the store are those of its own module.
StoreP == INSTANCE ConversationStoreProofs WITH Requests <- Calls, InitialDocs <- Documents

LEMMA StoreParameters == StoreP!Parameters /\ StoreP!OwnedByUsers /\ StoreP!FreshDocs
<1>1. StoreP!Parameters
  BY DEF StoreP!Parameters, StoreP!Doc, StoreP!Titles, Documents
<1>2. StoreP!OwnedByUsers
  BY ConstantsAssumption DEF StoreP!OwnedByUsers, Documents
<1>3. StoreP!FreshDocs
  BY DEF StoreP!FreshDocs, Documents
<1>4. QED
  BY <1>1, <1>2, <1>3

StoreInv == component = "store" => StoreP!IInv /\ StoreP!ForeignInv /\ StoreP!CountInv

LEMMA StoreStart == ASSUME Store!Init PROVE StoreP!IInv /\ StoreP!ForeignInv /\ StoreP!CountInv
<1>1. StoreP!Init
  BY DEF Store!Init, StoreP!Init, Store!NewJob, StoreP!NewJob, Store!NoDoc, StoreP!NoDoc
<1>2. QED
  BY <1>1, StoreParameters, StoreP!IInvInit, StoreP!ForeignInit, StoreP!CountInit

\* Its actions, named from here and from there, are the same.
LEMMA StoreActions ==
    /\ \A c \in Conversations, u \in Users, title \in {"default", "chosen"} :
          Store!CreateConversation(c, u, title) => StoreP!CreateConversation(c, u, title)
    /\ \A c \in Conversations, u \in Users, r \in Calls :
          /\ Store!StartChat(r, c, u) => StoreP!StartChat(r, c, u)
          /\ Store!RenameConversation(r, c, u) => StoreP!RenameConversation(r, c, u)
          /\ Store!DeleteConversation(r, c, u) => StoreP!DeleteConversation(r, c, u)
    /\ \A r \in Calls :
          /\ Store!FindConversation(r) => StoreP!FindConversation(r)
          /\ Store!UpsertConversation(r) => StoreP!UpsertConversation(r)
          /\ Store!InsertMessage(r) => StoreP!InsertMessage(r)
          /\ Store!TouchConversation(r) => StoreP!TouchConversation(r)
          /\ Store!FindTitle(r) => StoreP!FindTitle(r)
          /\ Store!SetTitle(r) => StoreP!SetTitle(r)
          /\ Store!Answer(r) => StoreP!Answer(r)
          /\ Store!DeleteMessages(r) => StoreP!DeleteMessages(r)
          /\ Store!Abort(r) => StoreP!Abort(r)
<1>1. ASSUME NEW c, NEW u, NEW title, Store!CreateConversation(c, u, title)
      PROVE  StoreP!CreateConversation(c, u, title)
  BY <1>1, Zenon
     DEF Store!CreateConversation, StoreP!CreateConversation, Store!NewDoc, StoreP!NewDoc
<1>2. ASSUME NEW c, NEW u, NEW r, Store!StartChat(r, c, u) PROVE StoreP!StartChat(r, c, u)
  BY <1>2, Zenon
     DEF Store!StartChat, StoreP!StartChat, Store!Goto, StoreP!Goto, Store!NewJob,
         StoreP!NewJob, Store!NoDoc, StoreP!NoDoc
<1>3. ASSUME NEW c, NEW u, NEW r, Store!RenameConversation(r, c, u)
                   PROVE StoreP!RenameConversation(r, c, u)
  BY <1>3, Zenon
     DEF Store!RenameConversation, StoreP!RenameConversation, Store!Goto, StoreP!Goto,
         Store!Matches, StoreP!Matches
<1>4. ASSUME NEW c, NEW u, NEW r, Store!DeleteConversation(r, c, u)
                   PROVE StoreP!DeleteConversation(r, c, u)
  BY <1>4, Zenon
     DEF Store!DeleteConversation, StoreP!DeleteConversation, Store!Goto, StoreP!Goto,
         Store!Matches, StoreP!Matches, Store!NewJob, StoreP!NewJob, Store!NoDoc,
         StoreP!NoDoc, Store!Appending, StoreP!Appending
<1>5. ASSUME NEW r, Store!FindConversation(r) PROVE StoreP!FindConversation(r)
  BY <1>5, Zenon
     DEF Store!FindConversation, StoreP!FindConversation, Store!Goto, StoreP!Goto,
         Store!Matches, StoreP!Matches, Store!OwnedByAnother, StoreP!OwnedByAnother
<1>6. ASSUME NEW r, Store!UpsertConversation(r) PROVE StoreP!UpsertConversation(r)
  BY <1>6, Zenon
     DEF Store!UpsertConversation, StoreP!UpsertConversation, Store!Goto, StoreP!Goto,
         Store!NewDoc, StoreP!NewDoc, Store!history, StoreP!history
<1>7. ASSUME NEW r, Store!InsertMessage(r) PROVE StoreP!InsertMessage(r)
  BY <1>7, Zenon
     DEF Store!InsertMessage, StoreP!InsertMessage, Store!Goto, StoreP!Goto,
         Store!MessageOf, StoreP!MessageOf, Store!history, StoreP!history
<1>8. ASSUME NEW r, Store!TouchConversation(r) PROVE StoreP!TouchConversation(r)
  BY <1>8, Zenon
     DEF Store!TouchConversation, StoreP!TouchConversation, Store!Goto, StoreP!Goto,
         Store!MessageOf, StoreP!MessageOf, Store!Matches, StoreP!Matches
<1>9. ASSUME NEW r, Store!FindTitle(r) PROVE StoreP!FindTitle(r)
  BY <1>9, Zenon
     DEF Store!FindTitle, StoreP!FindTitle, Store!Goto, StoreP!Goto, Store!Matches,
         StoreP!Matches, Store!history, StoreP!history
<1>10. ASSUME NEW r, Store!SetTitle(r) PROVE StoreP!SetTitle(r)
  BY <1>10, Zenon
     DEF Store!SetTitle, StoreP!SetTitle, Store!Goto, StoreP!Goto, Store!Matches,
         StoreP!Matches, Store!history, StoreP!history
<1>11. ASSUME NEW r, Store!Answer(r) PROVE StoreP!Answer(r)
  BY <1>11, Zenon
     DEF Store!Answer, StoreP!Answer, Store!Goto, StoreP!Goto, Store!history, StoreP!history
<1>12. ASSUME NEW r, Store!DeleteMessages(r) PROVE StoreP!DeleteMessages(r)
  BY <1>12, Zenon
     DEF Store!DeleteMessages, StoreP!DeleteMessages, Store!Goto, StoreP!Goto,
         Store!ChatsOn, StoreP!ChatsOn, Store!Busy, StoreP!Busy, Store!Appending,
         StoreP!Appending
<1>13. ASSUME NEW r, Store!Abort(r) PROVE StoreP!Abort(r)
  BY <1>13, Zenon
     DEF Store!Abort, StoreP!Abort, Store!Goto, StoreP!Goto, Store!Busy, StoreP!Busy,
         Store!Appending, StoreP!Appending
<1>14. QED
  BY <1>1, <1>2, <1>3, <1>4, <1>5, <1>6, <1>7, <1>8, <1>9, <1>10, <1>11, <1>12, <1>13, Zenon

LEMMA StoreStep ==
    ASSUME StoreP!IInv, StoreP!ForeignInv, StoreP!CountInv, [Store!Next]_(Store!vars)
    PROVE  StoreP!IInv' /\ StoreP!ForeignInv' /\ StoreP!CountInv'
<1>1. [StoreP!Next]_(StoreP!vars)
  <2>1. ASSUME NEW c \in Conversations, NEW u \in Users, NEW title \in {"default", "chosen"},
               Store!CreateConversation(c, u, title)
        PROVE  StoreP!Next
    BY <2>1, StoreActions DEF StoreP!Next
  <2>2. ASSUME NEW c \in Conversations, NEW u \in Users, NEW r \in Calls,
               \/ Store!StartChat(r, c, u) \/ Store!RenameConversation(r, c, u)
               \/ Store!DeleteConversation(r, c, u)
        PROVE  StoreP!Next
    BY <2>2, StoreActions DEF StoreP!Next
  <2>3. ASSUME NEW r \in Calls,
               \/ Store!FindConversation(r) \/ Store!UpsertConversation(r)
               \/ Store!InsertMessage(r) \/ Store!TouchConversation(r)
               \/ Store!FindTitle(r) \/ Store!SetTitle(r)
               \/ Store!Answer(r) \/ Store!DeleteMessages(r) \/ Store!Abort(r)
        PROVE  StoreP!Next
    BY <2>3, StoreActions DEF StoreP!Next
  <2>4. Store!Next => StoreP!Next
    BY <2>1, <2>2, <2>3 DEF Store!Next
  <2>5. UNCHANGED Store!vars => UNCHANGED StoreP!vars
    BY DEF Store!vars, StoreP!vars, Store!history, StoreP!history
  <2>6. QED
    BY <2>4, <2>5
<1>2. QED
  BY <1>1, StoreParameters, StoreP!IInvStep, StoreP!ForeignInvStep, StoreP!CountInvStep
     DEF StoreP!OwnedByUsers

-----------------------------------------------------------------------------
(* A behaviour is one component's                                          *)

LEMMA StartIsOwn ==
    ASSUME Init
    PROVE  /\ component = "store" => Store!Init
           /\ component = "groq" => Groq!Init
           /\ component = "spotify" => Spotify!Init
           /\ component = "auth" => Auth!Init
           /\ component = "memory" => Memory!Init
           /\ component = "monitor" => Monitor!Init
BY DEF Init

LEMMA StepIsOwn ==
    ASSUME [Next]_vars
    PROVE  /\ component' = component
           /\ component = "store" => [Store!Next]_(Store!vars)
           /\ component = "groq" => [Groq!Next]_(Groq!vars)
           /\ component = "spotify" => [Spotify!Next]_(Spotify!vars)
           /\ component = "auth" => [Auth!Next]_(Auth!vars)
           /\ component = "memory" => [Memory!Next]_(Memory!vars)
           /\ component = "monitor" => [Monitor!Next]_(Monitor!vars)
<1>1. CASE Next
  BY <1>1 DEF Next
<1>2. CASE UNCHANGED vars
  <2>1. /\ UNCHANGED <<component, pc, doc, job, clock>> /\ UNCHANGED storeVars
        /\ UNCHANGED groqVars
        /\ UNCHANGED spotifyVars /\ UNCHANGED authVars /\ UNCHANGED memoryVars
        /\ UNCHANGED monitorVars
    BY <1>2 DEF vars
  <2>2. UNCHANGED Groq!vars
    BY <2>1 DEF groqVars, Groq!vars
  <2>6. UNCHANGED Store!vars
    BY <2>1 DEF storeVars, Store!vars, Store!history
  <2>3. UNCHANGED Spotify!vars /\ UNCHANGED Auth!vars
    BY <2>1 DEF spotifyVars, authVars, Spotify!vars, Auth!vars
  <2>4. UNCHANGED Memory!vars /\ UNCHANGED Monitor!vars
    BY <2>1 DEF memoryVars, monitorVars, Memory!vars, Memory!history, Monitor!vars
  <2>5. QED
    BY <2>1, <2>2, <2>3, <2>4, <2>6
<1>3. QED
  BY <1>1, <1>2

AuthInv == component = "auth" => AuthIInv /\ Auth!TypeOK /\ AuthTokenChosen

\* Logging in or refreshing in one browser never ends the session of another: an
\* unexpired token is handed out again, and a row that changed is not overwritten.
THEOREM SessionsAlwaysHold == Spec => []SessionsHold
<1>1. ASSUME Init PROVE AuthInv
  BY <1>1, StartIsOwn, AuthStart DEF AuthInv
<1>2. ASSUME AuthInv, [Next]_vars, component' = "auth"
      PROVE  AuthIInv' /\ Auth!TypeOK' /\ AuthTokenChosen'
  <2>1. [Auth!Next]_(Auth!vars) /\ AuthIInv /\ Auth!TypeOK /\ AuthTokenChosen
    BY <1>2, StepIsOwn DEF AuthInv
  <2>2. QED
    BY <2>1, AuthStep
<1>3. AuthInv /\ [Next]_vars => AuthInv'
  BY <1>2 DEF AuthInv
<1>4. AuthInv => SessionsHold
  BY AuthShows DEF AuthInv, SessionsHold
<1>5. QED
  BY <1>1, <1>3, <1>4, PTL DEF Spec

SpotifyInv == component = "spotify" => SpotifyIInv /\ SpotifyInBounds

LEMMA SpotifyAlways == Spec => []SpotifyInv
<1>1. ASSUME Init PROVE SpotifyInv
  BY <1>1, StartIsOwn, SpotifyStart DEF SpotifyInv
<1>2. ASSUME SpotifyInv, [Next]_vars, component' = "spotify"
      PROVE  SpotifyIInv' /\ SpotifyInBounds'
  <2>1. [Spotify!Next]_(Spotify!vars) /\ SpotifyIInv /\ SpotifyInBounds
    BY <1>2, StepIsOwn DEF SpotifyInv
  <2>2. QED
    BY <2>1, SpotifyStep
<1>3. SpotifyInv /\ [Next]_vars => SpotifyInv'
  BY <1>2 DEF SpotifyInv
<1>4. QED
  BY <1>1, <1>3, PTL DEF Spec

\* However refreshes, connections and disconnections overlap and end half-way, the
\* stored refresh token works, is about to be replaced, or its replacement was lost
\* with the call that was to save it; and what is stored is of its type.
THEOREM AccountAlwaysUsable == Spec => []AccountStaysUsable
<1>1. SpotifyInv => AccountStaysUsable
  BY SpotifyShows DEF SpotifyInv, AccountStaysUsable
<1>2. QED
  BY <1>1, SpotifyAlways, PTL

\* An access token taken from the store without a refresh is one Spotify accepts.
THEOREM CachedTokenAlwaysValid == Spec => CachedTokenIsValid
<1>1. ASSUME SpotifyInv, [Next]_vars, component = "spotify"
      PROVE  [Spotify!HandsOutValidToken]_vars
  <2>1. [Spotify!Next]_(Spotify!vars) /\ SpotifyIInv
    BY <1>1, StepIsOwn DEF SpotifyInv
  <2>2. CASE Spotify!Next
    BY <2>1, <2>2, SpotifyHandsOut DEF Spotify!HandsOutValidToken
  <2>3. CASE UNCHANGED Spotify!vars
    BY <2>3 DEF Spotify!HandsOutValidToken, Spotify!vars
  <2>4. QED
    BY <2>1, <2>2, <2>3
<1>2. SpotifyInv /\ [Next]_vars => [component = "spotify" => Spotify!HandsOutValidToken]_vars
  BY <1>1
<1>3. QED
  BY <1>2, SpotifyAlways, PTL DEF Spec, CachedTokenIsValid

MonitorInv == component = "monitor" => MonitorIInv /\ MonitorInTurn

\* However recordings of the platform's own activity overlap and fail, the stored
\* status counts no request and no failure without a record; and when none overlap
\* or fail it is what the records tell.
THEOREM StatusAlwaysTrue == Spec => []StatusIsTrue
<1>1. ASSUME Init PROVE MonitorInv
  BY <1>1, StartIsOwn, MonitorIInvInit, MonitorInTurnInit DEF MonitorInv
<1>2. ASSUME MonitorInv, [Next]_vars, component' = "monitor"
      PROVE  MonitorIInv' /\ MonitorInTurn'
  <2>1. [Monitor!Next]_(Monitor!vars) /\ MonitorIInv /\ MonitorInTurn /\ MonitorTypes
    BY <1>2, StepIsOwn DEF MonitorInv, MonitorIInv
  <2>2. QED
    BY <2>1, MonitorIInvStep, MonitorInTurnStep
<1>3. MonitorInv /\ [Next]_vars => MonitorInv'
  BY <1>2 DEF MonitorInv
<1>4. MonitorInv => StatusIsTrue
  BY MonitorShows DEF MonitorInv, StatusIsTrue
<1>5. QED
  BY <1>1, <1>3, <1>4, PTL DEF Spec

GroqInv == component = "groq" => GroqIInv

LEMMA GroqAlways == Spec => []GroqInv
<1>0. KeyCounts \subseteq Nat
  BY ConstantsAssumption
<1>1. ASSUME Init PROVE GroqInv
  BY <1>0, <1>1, StartIsOwn, GroqIInvInit DEF GroqInv
<1>2. ASSUME GroqInv, [Next]_vars, component' = "groq" PROVE GroqIInv'
  <2>1. [Groq!Next]_(Groq!vars) /\ GroqIInv
    BY <1>2, StepIsOwn DEF GroqInv
  <2>2. QED
    BY <1>0, <2>1, GroqIInvStep
<1>3. GroqInv /\ [Next]_vars => GroqInv'
  BY <1>2 DEF GroqInv
<1>4. QED
  BY <1>1, <1>3, PTL DEF Spec

\* A request gives up on rate limits only after as many different keys as it may
\* try, unless others drew in between, and is handed a key again only when every
\* other key was handed out since; for any number of keys and requests.
THEOREM RotationIsAlwaysFair == Spec => []RotationIsFair
<1>1. GroqInv => RotationIsFair
  BY ConstantsAssumption, GroqShows DEF GroqInv, RotationIsFair
<1>2. QED
  BY <1>1, GroqAlways, PTL

MemoryInv == component = "memory" => MemoryIInv

LEMMA MemoryAlways == Spec => []MemoryInv
<1>0. MemoryParameters
  BY ConstantsAssumption DEF MemoryParameters
<1>1. ASSUME Init PROVE MemoryInv
  BY <1>0, <1>1, StartIsOwn, MemoryIInvInit DEF MemoryInv
<1>2. ASSUME MemoryInv, [Next]_vars, component' = "memory" PROVE MemoryIInv'
  <2>1. [Memory!Next]_(Memory!vars) /\ MemoryIInv
    BY <1>2, StepIsOwn DEF MemoryInv
  <2>2. QED
    BY <1>0, <2>1, MemoryIInvStep
<1>3. MemoryInv /\ [Next]_vars => MemoryInv'
  BY <1>2 DEF MemoryInv
<1>4. QED
  BY <1>1, <1>3, PTL DEF Spec

\* However chats load, compact, fail and save over one another, and wherever the
\* text of a summary is cut: a stored message is in the conversation's summary or
\* after its cutoff, an embedded one in the summary or still embedded, except those
\* that were inserted late, share the last millisecond of what was summarised, were
\* cut off or were between compactions of different kinds; only the latter can be
\* twice in a chat's history; and a history leaves out nothing between the messages
\* it has.
THEOREM MemoryIsAlwaysAccountedFor == Spec => []MemoryIsAccountedFor
<1>1. MemoryInv => MemoryIsAccountedFor
  BY MemoryShows DEF MemoryInv, MemoryIsAccountedFor
<1>2. QED
  BY <1>1, MemoryAlways, PTL

LEMMA StoreAlways == Spec => []StoreInv
<1>1. ASSUME Init PROVE StoreInv
  BY <1>1, StartIsOwn, StoreStart DEF StoreInv
<1>2. ASSUME StoreInv, [Next]_vars, component' = "store"
      PROVE  StoreP!IInv' /\ StoreP!ForeignInv' /\ StoreP!CountInv'
  <2>1. [Store!Next]_(Store!vars) /\ StoreP!IInv /\ StoreP!ForeignInv /\ StoreP!CountInv
    BY <1>2, StepIsOwn DEF StoreInv
  <2>2. QED
    BY <2>1, StoreStep
<1>3. StoreInv /\ [Next]_vars => StoreInv'
  BY <1>2 DEF StoreInv
<1>4. QED
  BY <1>1, <1>3, PTL DEF Spec

\* Replies have their prompts, chosen titles stay, and nobody else's message gets
\* into a conversation that has a user, however chats, renamings and deletions
\* overlap or end half-way.
THEOREM HistoryAlwaysHolds == Spec => []HistoryHolds
<1>1. StoreInv => HistoryHolds
  <2>1. StoreP!IInv /\ StoreP!ForeignInv => StoreP!HistoryHolds
    BY StoreP!HistoryFollows
  <2>2. StoreP!HistoryHolds => Store!HistoryHolds
    BY Zenon
       DEF StoreP!HistoryHolds, Store!HistoryHolds, StoreP!ReplyHasPrompt, Store!ReplyHasPrompt,
           StoreP!ChosenTitleStays, Store!ChosenTitleStays,
           StoreP!ForeignMessageOnlyByFirstUse, Store!ForeignMessageOnlyByFirstUse
  <2>3. QED
    BY <2>1, <2>2 DEF StoreInv, HistoryHolds
<1>2. QED
  BY <1>1, StoreAlways, PTL

\* A conversation's document counts its messages, and they go with it, however
\* prompts, replies and deletions overlap.
THEOREM CountsAndDeletionsAlwaysHold == Spec => []CountsAndDeletionsHold
<1>1. StoreInv => CountsAndDeletionsHold
  <2>1. StoreP!IInv /\ StoreP!CountInv => StoreP!CountsAndDeletionsHold
    BY StoreP!CountsFollow
  <2>2. StoreP!TypeOK => Store!TypeOK
    BY Zenon
       DEF StoreP!TypeOK, Store!TypeOK, StoreP!Doc, Store!Doc, StoreP!Titles, Store!Titles,
           StoreP!Message, Store!Message, StoreP!Job, Store!Job, StoreP!Appending, Store!Appending
  <2>3. StoreP!CountMatchesMessages => Store!CountMatchesMessages
    BY Zenon
       DEF StoreP!CountMatchesMessages, Store!CountMatchesMessages,
           StoreP!Contested, Store!Contested, StoreP!Cardinality, Store!Cardinality
  <2>4. StoreP!DeletedWithItsMessages => Store!DeletedWithItsMessages
    BY Zenon
       DEF StoreP!DeletedWithItsMessages, Store!DeletedWithItsMessages,
           StoreP!Contested, Store!Contested
  <2>5. QED
    BY <2>1, <2>2, <2>3, <2>4
       DEF StoreInv, CountsAndDeletionsHold, StoreP!CountsAndDeletionsHold,
           Store!CountsAndDeletionsHold
<1>2. QED
  BY <1>1, StoreAlways, PTL

=============================================================================
