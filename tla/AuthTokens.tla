----------------------------- MODULE AuthTokens -----------------------------
(***************************************************************************)
(* AuthService and AuthController: logins and token refreshes of one user  *)
(* from several browsers. The user's row holds one refresh token; a login  *)
(* or refresh hands it out again until it expires, then replaces it. Every *)
(* request reads the row, chooses the token and updates the row in three   *)
(* steps; ASP.NET Identity refuses an update of a row that has changed     *)
(* since (its concurrency stamp), and the service ignores the refusal.     *)
(*                                                                         *)
(* A token is a number and the time of its expiry. Access tokens leave no  *)
(* state behind and are left out.                                          *)
(***************************************************************************)
EXTENDS Naturals

CONSTANTS
    Browsers,      \* each keeps the cookie of one session
    Requests,      \* logins and refreshes
    NoToken,
    RefreshLife,   \* RefreshTokenExpirationDays, also of the cookie
    MaxClock,      \* bound: time
    MaxTokens,     \* bound: refresh tokens generated
    MaxStamps      \* bound: updates of the row

VARIABLES
    clock,
    user,       \* the user's row: its refresh token and concurrency stamp
    cookie,     \* a browser's refreshToken cookie and when it is dropped
    generated,  \* how many refresh tokens were made
    pc,         \* where a request is
    request,    \* a request's browser, the row it read and the token it answers
    refused     \* history: tokens that were handed out though not stored

vars == <<clock, user, cookie, generated, pc, request, refused>>

Token == [id : 1..MaxTokens, expires : Nat]
Row == [token : Token \cup {NoToken}, stamp : 0..MaxStamps]
NoRequest(b) == [browser |-> b, read |-> [token |-> NoToken, stamp |-> 0], token |-> NoToken]
NoCookie == [token |-> NoToken, until |-> 0]

Goto(r, step) == pc' = [pc EXCEPT ![r] = step]

\* IsJwtExpired
Expired(token) == token = NoToken \/ token.expires < clock

-----------------------------------------------------------------------------

\* Time passes, and browsers drop cookies.
Tick ==
    /\ clock < MaxClock
    /\ clock' = clock + 1
    /\ cookie' = [b \in Browsers |-> IF cookie[b].until <= clock' THEN NoCookie ELSE cookie[b]]
    /\ UNCHANGED <<user, generated, pc, request, refused>>

\* UserLogin with the right password.
Login(r, b) ==
    /\ pc[r] = "idle"
    /\ request' = [request EXCEPT ![r] = [NoRequest(b) EXCEPT !.read = user]]
    /\ Goto(r, "generate")
    /\ UNCHANGED <<clock, user, cookie, generated, refused>>

\* RefreshToken: the cookie's token must be the stored one and not expired.
RefreshToken(r, b) ==
    /\ pc[r] = "idle"
    /\ IF cookie[b].token = user.token /\ ~Expired(cookie[b].token)
       THEN /\ request' = [request EXCEPT ![r] = [NoRequest(b) EXCEPT !.read = user]]
            /\ Goto(r, "generate")
       ELSE /\ request' = [request EXCEPT ![r] = NoRequest(b)]
            /\ Goto(r, "unauthorized")
    /\ UNCHANGED <<clock, user, cookie, generated, refused>>

\* Mutant of Reusable: every answer has a refresh token of its own.
ReusableNever(token) == FALSE

Reusable(token) == ~Expired(token)

\* GenerateLoginResponse, after the roles were read: the stored token is handed
\* out again if it has not expired.
GenerateLoginResponse(r) ==
    /\ pc[r] = "generate"
    /\ IF Reusable(request[r].read.token)
       THEN /\ request' = [request EXCEPT ![r].token = request[r].read.token]
            /\ UNCHANGED generated
       ELSE /\ generated < MaxTokens
            /\ generated' = generated + 1
            /\ request' = [request EXCEPT ![r].token =
                               [id |-> generated', expires |-> clock + RefreshLife]]
    /\ Goto(r, "update")
    /\ UNCHANGED <<clock, user, cookie, refused>>

StampMatches(r) == request[r].read.stamp = user.stamp

\* UpdateAsync; its result is not looked at.
UpdateUser(r) ==
    /\ pc[r] = "update"
    /\ IF StampMatches(r)
       THEN /\ user.stamp < MaxStamps
            /\ user' = [token |-> request[r].token, stamp |-> user.stamp + 1]
            /\ UNCHANGED refused
       ELSE /\ refused' = IF request[r].token = user.token THEN refused
                          ELSE refused \cup {request[r].token}
            /\ UNCHANGED user
    /\ Goto(r, "respond")
    /\ UNCHANGED <<clock, cookie, generated, request>>

\* SetAuthCookies: the answer reaches the browser.
SetAuthCookies(r) ==
    /\ pc[r] = "respond"
    /\ cookie' = [cookie EXCEPT ![request[r].browser] =
                      [token |-> request[r].token, until |-> clock + RefreshLife]]
    /\ Goto(r, "done")
    /\ UNCHANGED <<clock, user, generated, request, refused>>

\* The request ends, or is given up or lost on the way at any step.
Finish(r) ==
    /\ pc[r] # "idle"
    /\ Goto(r, "idle")
    /\ request' = [request EXCEPT ![r] = NoRequest(request[r].browser)]
    /\ UNCHANGED <<clock, user, cookie, generated, refused>>

-----------------------------------------------------------------------------

Init ==
    /\ clock = 0
    /\ user = [token |-> NoToken, stamp |-> 0]
    /\ cookie = [b \in Browsers |-> NoCookie]
    /\ generated = 0
    /\ pc = [r \in Requests |-> "idle"]
    /\ request \in [Requests -> {NoRequest(b) : b \in Browsers}]
    /\ refused = {}

Next ==
    \/ Tick
    \/ \E r \in Requests :
          \/ \E b \in Browsers : Login(r, b) \/ RefreshToken(r, b)
          \/ GenerateLoginResponse(r)
          \/ UpdateUser(r)
          \/ SetAuthCookies(r)
          \/ Finish(r)

Spec == Init /\ [][Next]_vars

-----------------------------------------------------------------------------
(* What must hold                                                          *)

\* Every variable has its type.
TypeOK ==
    /\ clock \in 0..MaxClock
    /\ user \in Row
    /\ cookie \in [Browsers -> [token : Token \cup {NoToken}, until : Nat]]
    /\ generated \in 0..MaxTokens
    /\ pc \in [Requests -> {"idle", "generate", "update", "respond", "done", "unauthorized"}]
    /\ request \in [Requests -> [browser : Browsers, read : Row, token : Token \cup {NoToken}]]
    /\ refused \subseteq Token

\* A session lasts as long as its refresh token: logging in or refreshing in one
\* browser never invalidates an unexpired token in another. Only a token whose
\* update of the row was refused is of no use to its browser.
SessionsCoexist ==
    \A b \in Browsers :
        ~Expired(cookie[b].token) /\ cookie[b].token \notin refused =>
            cookie[b].token = user.token

\* The row of a user serves all of the user's browsers at once.
SessionsHold == TypeOK /\ SessionsCoexist

=============================================================================
