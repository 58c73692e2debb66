------------------------------- MODULE Access -------------------------------
(***************************************************************************)
(* Who is shown which page of the client: the check of the session         *)
(* (auth/context/jwt/auth-provider.tsx), the guards of protected and of    *)
(* guests' pages, the login page, and the intro that follows a login       *)
(* (app/App.tsx).                                                          *)
(*                                                                         *)
(* A step is an event with the promise reactions that follow it, a render, *)
(* or the effects of a render, which run before the next one, a child's    *)
(* before its parents'. An event comes neither between a check answered at *)
(* once and its reaction, nor between a navigation and its render. A tab's *)
(* three copies of the token are ClientSession's: here they are one. There *)
(* is no button that logs out; signing up leads to the login page.         *)
(***************************************************************************)
EXTENDS Integers, FiniteSets

CONSTANTS
    Accounts,
    MaxEvents,      \* bound: what users, other tabs, the clock and failures do
    None

VARIABLES
    token,          \* jwt: its account and whether it is fresh, or None
    changed,        \* it is not the one of the last render
    user, loading,  \* AuthProvider's state
    resolved,       \* the account a check was answered with at once, until it reacts
    refresh,        \* who waits for the refresh under way: "check", "request"
    carried,        \* whose refresh token it was sent with, or None
    resent,         \* a request was sent again after a refresh
    cookie,         \* whose refresh token the browser has, or None
    location,       \* page, and returnTo of the login page
    rendered,       \* location, authenticated and loading as of the last render
    due,            \* its effects that are still to run
    shown,          \* ~isChecking of the guard that is mounted
    posts,          \* logins under way: account and where they lead
    queued, intro,  \* INTRO_PENDING_KEY, introActive
    wanted,         \* history: the pages the user may be on the way to
    redirects,      \* history: by guards since the last event
    logins, intros, \* history
    events

session == <<token, changed, user, loading, resolved, refresh, carried, resent, cookie>>
pages == <<location, rendered, due, shown>>
history == <<wanted, redirects, logins, intros, events>>
vars == <<session, pages, posts, queued, intro, history>>

Protected == {"chat", "settings"}
Guard(page) == CASE page \in Protected -> "auth" [] page = "login" -> "guest" [] OTHER -> None

\* normalizeReturnTo: without one, the chat.
DefaultReturn == "chat"
At(page) == [page |-> page, returnTo |-> DefaultReturn]
LoginFor(page) == [page |-> "login", returnTo |-> page]

Fresh(account) == [account |-> account, fresh |-> TRUE]
Usable == IF token = None THEN FALSE ELSE token.fresh
View == [location |-> location, authenticated |-> user # None, loading |-> loading]

SetJwt(t) ==
    /\ token' = t
    /\ changed' = (changed \/ t # None \/ token # None)

\* The reactions to the last event are over, and where it led is rendered.
Idle == resolved = None /\ rendered.location = location

\* What nothing in the tab asked for.
Event ==
    /\ Idle /\ events < MaxEvents
    /\ events' = events + 1
    /\ redirects' = 0

-----------------------------------------------------------------------------
(* Rendering                                                               *)

Render ==
    LET sameState == View.authenticated = rendered.authenticated /\ loading = rendered.loading
        sameGuard == Guard(location.page) = Guard(rendered.location.page)
    IN  /\ due = {}
        /\ View # rendered \/ changed
        /\ rendered' = View /\ changed' = FALSE
        /\ shown' = (shown /\ sameGuard)
        /\ due' = {e \in {"guard", "intro", "session"} :
                      CASE e = "guard" -> View # rendered /\ Guard(location.page) # None
                        [] e = "intro" -> ~sameState
                        [] OTHER -> changed}
        /\ UNCHANGED <<token, user, loading, resolved, refresh, carried, resent, cookie,
                       location, posts, queued, intro, history>>

Redirect(to) == location' = to /\ redirects' = redirects + 1 /\ UNCHANGED shown
Admit == shown' = TRUE /\ UNCHANGED <<location, redirects>>

\* Mutant of AuthGuard: it forgets where the user was.
AuthGuardForgetting ==
    IF rendered.authenticated THEN Admit ELSE Redirect(LoginFor(DefaultReturn))

AuthGuard ==
    IF rendered.authenticated THEN Admit ELSE Redirect(LoginFor(rendered.location.page))

GuestGuard ==
    IF rendered.authenticated THEN Redirect(At(rendered.location.returnTo)) ELSE Admit

CheckPermissions ==
    IF "guard" \notin due \/ rendered.loading THEN UNCHANGED <<location, shown, redirects>>
    ELSE IF Guard(rendered.location.page) = "auth" THEN AuthGuard ELSE GuestGuard

\* AppContent's effect.
PlayIntro ==
    IF "intro" \in due /\ ~rendered.loading /\ rendered.authenticated /\ ~intro /\ queued
    THEN queued' = FALSE /\ intro' = TRUE /\ intros' = intros + 1
    ELSE UNCHANGED <<queued, intro, intros>>

\* refreshJwt: it joins the refresh under way, or sends one with the cookie that the
\* browser has then.
JoinRefresh(waiter) ==
    /\ refresh' = refresh \cup {waiter}
    /\ carried' = IF refresh = {} THEN cookie ELSE carried

\* checkUserSession, with ensureValidJwt.
CheckUserSession ==
    IF "session" \notin due THEN UNCHANGED <<loading, resolved, refresh, carried>>
    ELSE /\ loading' = TRUE
         /\ IF Usable
            THEN resolved' = token.account /\ UNCHANGED <<refresh, carried>>
            ELSE JoinRefresh("check") /\ UNCHANGED resolved

RunEffects ==
    /\ due # {}
    /\ due' = {}
    /\ CheckPermissions /\ PlayIntro /\ CheckUserSession
    /\ UNCHANGED <<token, changed, user, resent, cookie, rendered, posts, wanted, logins, events>>

\* The check goes on with a token that needed no refresh.
Checked ==
    /\ resolved # None
    /\ user' = resolved /\ loading' = FALSE
    /\ resolved' = None
    /\ UNCHANGED <<token, changed, refresh, carried, resent, cookie, pages, posts, queued, intro,
                   history>>

-----------------------------------------------------------------------------
(* The session                                                             *)

\* The API refuses a token; the page's requests join one refresh.
Unauthorized ==
    /\ Event
    /\ rendered.location.page \in Protected /\ shown
    /\ ~Usable
    /\ JoinRefresh("request")
    /\ UNCHANGED <<token, changed, user, loading, resolved, resent, cookie, pages, posts,
                   queued, intro, wanted, logins, intros>>

\* The answer is for the account that the refresh was sent for, and brings its cookie,
\* whoever logged in meanwhile.
RefreshSucceeds ==
    /\ Idle
    /\ refresh # {} /\ carried # None
    /\ refresh' = {} /\ carried' = None
    /\ SetJwt(Fresh(carried)) /\ cookie' = carried
    /\ IF "check" \in refresh THEN user' = carried /\ loading' = FALSE
       ELSE UNCHANGED <<user, loading>>
    /\ resent' = (resent \/ "request" \in refresh)
    /\ UNCHANGED <<resolved, pages, posts, queued, intro, history>>

\* The page is left without a word on where to return.
LogoutAndRedirect ==
    /\ SetJwt(None)
    /\ location' = At("login")
    /\ wanted' = wanted \cup {DefaultReturn}

\* Refused, or without an answer.
RefreshFails ==
    /\ refresh # {}
    /\ IF carried = None THEN Idle /\ UNCHANGED <<events, redirects>> ELSE Event
    /\ refresh' = {} /\ carried' = None
    /\ IF "check" \in refresh THEN user' = None /\ loading' = FALSE
       ELSE UNCHANGED <<user, loading>>
    /\ IF "request" \in refresh THEN LogoutAndRedirect
       ELSE SetJwt(None) /\ UNCHANGED <<location, wanted>>
    /\ UNCHANGED <<resolved, resent, cookie, rendered, due, shown, posts, queued, intro,
                   logins, intros>>

\* The request that was sent again is answered, or its failure logs the user out.
Resent ==
    /\ resent /\ resent' = FALSE
    /\ \/ Idle /\ UNCHANGED <<token, changed, location, wanted, events, redirects>>
       \/ Event /\ LogoutAndRedirect
    /\ UNCHANGED <<user, loading, resolved, refresh, carried, cookie, rendered, due, shown, posts,
                   queued, intro, logins, intros>>

\* The token expires, or the refresh token is replaced elsewhere.
Expire ==
    /\ Event
    /\ \/ token # None /\ token' = [token EXCEPT !.fresh = FALSE] /\ UNCHANGED cookie
       \/ cookie' = None /\ UNCHANGED token
    /\ UNCHANGED <<changed, user, loading, resolved, refresh, carried, resent, pages, posts, queued,
                   intro, wanted, logins, intros>>

\* Another tab logs in, refreshes, or removes the token, and storage tells this one.
OtherTab ==
    /\ Event
    /\ \/ \E a \in Accounts : SetJwt(Fresh(a)) /\ cookie' = a
       \/ token # None /\ SetJwt(None) /\ UNCHANGED cookie
    /\ UNCHANGED <<user, loading, resolved, refresh, carried, resent, pages, posts, queued, intro,
                   wanted, logins, intros>>

-----------------------------------------------------------------------------
(* The user                                                                *)

\* A link on the page shown, or back and forward from it.
Go(page) ==
    /\ Event
    /\ due = {}
    /\ page # location.page
    /\ location' = At(page)
    /\ wanted' = {IF page = "login" THEN DefaultReturn ELSE page}
    /\ UNCHANGED <<session, rendered, due, shown, posts, queued, intro, logins, intros>>

\* onSubmit: the button stays enabled, the captcha's answer is kept until an answer comes.
Submit(account) ==
    /\ Event
    /\ rendered.location.page = "login" /\ shown
    /\ \A p \in posts : p.account # account
    /\ posts' = posts \cup {[account |-> account, returnTo |-> rendered.location.returnTo]}
    /\ UNCHANGED <<session, pages, queued, intro, wanted, logins, intros>>

\* login, queueIntroPlayback and router.replace, wherever the tab is by then.
LoginSucceeds(p) ==
    /\ Idle
    /\ posts' = posts \ {p}
    /\ cookie' = p.account /\ SetJwt(Fresh(p.account))
    /\ queued' = TRUE
    /\ location' = At(p.returnTo) /\ wanted' = wanted \cup {p.returnTo}
    /\ logins' = logins + 1 /\ redirects' = 0
    /\ UNCHANGED <<user, loading, resolved, refresh, carried, resent, rendered, due, shown, intro,
                   intros, events>>

LoginFails(p) ==
    /\ Idle
    /\ posts' = posts \ {p}
    /\ UNCHANGED <<session, pages, queued, intro, history>>

\* IntroFlow's onComplete; a new value of introActive runs the effect again.
IntroEnds ==
    /\ Idle
    /\ intro /\ due = {}
    /\ intro' = FALSE
    /\ due' = {"intro"}
    /\ UNCHANGED <<session, location, rendered, shown, posts, queued, history>>

\* What the page starts with; the address, the two storages and the cookie stay.
Start ==
    /\ user = None /\ loading = TRUE
    /\ changed = FALSE /\ resolved = None /\ refresh = {} /\ carried = None /\ resent = FALSE
    /\ rendered = View
    /\ due = {"guard", "intro", "session"}
    /\ shown = FALSE /\ posts = {} /\ intro = FALSE

\* A login or a refresh that was under way may have been answered to the browser.
Reload ==
    /\ Event
    /\ user' = None /\ loading' = TRUE
    /\ changed' = FALSE /\ refresh' = {} /\ carried' = None /\ resent' = FALSE
    /\ rendered' = [location |-> location, authenticated |-> FALSE, loading |-> TRUE]
    /\ due' = {"guard", "intro", "session"}
    /\ shown' = FALSE /\ posts' = {} /\ intro' = FALSE
    /\ cookie' \in {cookie} \cup ({carried} \ {None}) \cup {p.account : p \in posts}
    /\ UNCHANGED <<token, resolved, location, queued, wanted, logins, intros>>

-----------------------------------------------------------------------------

Init ==
    /\ \E page \in Protected \cup {"landing", "login"} :
          /\ location = At(page)
          /\ wanted = {IF page = "login" THEN DefaultReturn ELSE page}
    /\ Start
    /\ cookie \in Accounts \cup {None}
    /\ token = None \/ \E a \in Accounts, f \in BOOLEAN : token = [account |-> a, fresh |-> f]
    /\ queued = FALSE
    /\ redirects = 0 /\ logins = 0 /\ intros = 0 /\ events = 0

Refreshed == RefreshSucceeds \/ RefreshFails

User ==
    \/ \E page \in Protected \cup {"landing", "login"} : Go(page)
    \/ \E a \in Accounts : Submit(a)
    \/ Reload

Next ==
    \/ Render \/ RunEffects \/ Checked
    \/ Unauthorized \/ Refreshed \/ Resent \/ Expire \/ OtherTab
    \/ User \/ IntroEnds
    \/ \E p \in posts : LoginSucceeds(p) \/ LoginFails(p)

Spec == Init /\ [][Next]_vars

-----------------------------------------------------------------------------
(* What must hold                                                          *)

\* Nothing is left to render or to run, and nothing is under way.
Quiet ==
    /\ View = rendered /\ ~changed /\ due = {}
    /\ resolved = None /\ refresh = {} /\ ~resent

\* However checks, refreshes, logins and other tabs overlap, the tab comes to
\* show the account of its token, and does not go on loading.
UserIsOfToken ==
    Quiet => ~loading /\ user = IF token = None THEN None ELSE token.account

\* Nobody is left on a page he may not see, nor with the overlay of a guard.
PageIsAllowed ==
    Quiet => CASE location.page \in Protected -> user # None /\ shown
               [] location.page = "login" -> user = None /\ shown
               [] OTHER -> TRUE

\* Whatever detours the guards take, they lead to the page that was asked for,
\* or to the login page that leads there; a
\* logout may lead to the chat instead, a late login to where it was sent from.
WantedIsReached ==
    Quiet => \E page \in wanted : location.page = page \/ location = LoginFor(page)

\* The guards do not send the user to and fro.
RedirectsEnd == redirects <= 4

\* An intro follows a login, and each login has one at most.
IntrosFollowLogins == intros + (IF queued THEN 1 ELSE 0) <= logins

AccessSettles ==
    /\ UserIsOfToken /\ PageIsAllowed /\ WantedIsReached
    /\ RedirectsEnd /\ IntrosFollowLogins

=============================================================================
