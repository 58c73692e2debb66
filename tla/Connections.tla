------------------------------ MODULE Connections ------------------------------
(***************************************************************************)
(* The connected services on the settings page (pages/SettingsPage): what  *)
(* the page shows of an account and what the server has, with the calls    *)
(* between them. Finance is connected by a call, Spotify on a page of its  *)
(* own whose address a call asks for, and that leads back with             *)
(* "?spotify=connected".                                                   *)
(***************************************************************************)
EXTENDS Integers, FiniteSets

CONSTANTS
    MaxMounts,      \* bound: times the page is opened
    None

VARIABLES
    service,    \* "finance" or "spotify"
    server,     \* whether the account is connected
    shown,      \* likewise on the page; None while it checks
    loading,
    calls,      \* under way: what, for which mount, and the answer if there is one
    mount,
    away,       \* the browser was sent to Spotify's page
    asked,      \* it was sent there by this mount, whose button stays disabled
    failed,     \* history: a call of this mount failed
    astray      \* history: an answer was on its way when the user acted, or a change when the page closed

page == <<shown, loading, calls, mount, away, asked, failed, astray>>
vars == <<service, server, page>>

\* What changes the account, and what the buttons call.
Changes == {"connect", "disconnect"}
Clicks == Changes \cup {"authorize"}
Call(op, m) == [op |-> op, mount |-> m, answer |-> None]

\* The call of an operation there is at most one of per mount.
Sent(op) == calls' = calls \cup {Call(op, mount)}

-----------------------------------------------------------------------------
(* The server                                                              *)

Serve(c) ==
    /\ c.answer = None
    /\ server' = CASE c.op = "connect" -> TRUE [] c.op = "disconnect" -> FALSE [] OTHER -> server
    /\ calls' = (calls \ {c}) \cup {[c EXCEPT !.answer = IF c.op = "status" THEN server ELSE TRUE]}
    /\ UNCHANGED <<service, shown, loading, mount, away, asked, failed, astray>>

-----------------------------------------------------------------------------
(* The page                                                                *)

\* checkFinanceStatus and checkSpotifyStatus, when the page is opened, whatever is
\* still under way of the time before.
Open ==
    /\ mount < MaxMounts /\ mount' = mount + 1
    /\ calls' = calls \cup {Call("status", mount + 1)}
    /\ loading' = FALSE /\ away' = FALSE /\ asked' = FALSE /\ failed' = FALSE
    /\ astray' = (\E c \in calls : c.op \in Changes /\ c.answer = None)
    /\ UNCHANGED service

Reopen == Open /\ shown' = None /\ UNCHANGED server

\* Spotify's page made the connection before it leads back.
Redirect ==
    /\ away /\ Open
    /\ server' = TRUE /\ shown' = TRUE

\* The browser did not leave, or goes back to the page as it was, with the connection
\* made or not.
Return ==
    /\ away /\ away' = FALSE
    /\ server' \in {server, TRUE}
    /\ astray' = (astray \/ server' # server)
    /\ UNCHANGED <<service, shown, loading, calls, mount, asked, failed>>

\* Mutant of CanConnect: the button works while the status is checked.
CanConnectAlways == shown # TRUE /\ ~loading

CanConnect == shown = FALSE /\ ~loading

\* Whether the status of this mount may yet be shown.
Checking == \E c \in calls : c.op = "status" /\ c.mount = mount

Change(op) ==
    /\ Sent(op)
    /\ loading' = TRUE
    /\ astray' = (astray \/ (service = "spotify" /\ Checking))
    /\ UNCHANGED <<service, server, shown, mount, away, asked, failed>>

Connect == service = "finance" /\ CanConnect /\ Change("connect")

\* handleSpotifyConnect asks where to go; nothing is changed yet.
Authorize ==
    /\ service = "spotify" /\ CanConnect
    /\ Sent("authorize")
    /\ loading' = TRUE
    /\ UNCHANGED <<service, server, shown, mount, away, asked, failed, astray>>

Disconnect == shown = TRUE /\ ~loading /\ Change("disconnect")

\* The answer; one for a mount that is gone changes nothing, but the browser goes to
\* Spotify's page from wherever it is, and only the next load of the page resets the
\* flag that was set for it.
Answer(c) ==
    /\ c.answer # None
    /\ calls' = calls \ {c}
    /\ IF c.mount = mount
       THEN /\ shown' = CASE c.op = "status" -> c.answer
                          [] c.op = "authorize" -> shown
                          [] OTHER -> c.op = "connect"
            /\ loading' = (loading /\ c.op \notin Changes)
            /\ asked' = (asked \/ c.op = "authorize")
       ELSE UNCHANGED <<shown, loading, asked>>
    /\ away' = (away \/ c.op = "authorize")
    /\ UNCHANGED <<service, server, mount, failed, astray>>

\* finally, or catch: the button is back.
Settled(c) == loading /\ c.op = "status"

\* The call fails, before or after the server did what it asks.
Fail(c) ==
    /\ calls' = calls \ {c}
    /\ IF c.mount = mount
       THEN /\ shown' = IF c.op = "status" THEN FALSE ELSE shown
            /\ loading' = Settled(c)
            /\ failed' = (failed \/ c.op # "authorize")
       ELSE UNCHANGED <<shown, loading, failed>>
    /\ UNCHANGED <<service, server, mount, away, asked, astray>>

-----------------------------------------------------------------------------

Init ==
    /\ service \in {"finance", "spotify"} /\ server \in BOOLEAN
    /\ mount = 1 /\ shown = None /\ loading = FALSE
    /\ calls = {Call("status", 1)}
    /\ away = FALSE /\ asked = FALSE /\ failed = FALSE /\ astray = FALSE

Next ==
    \/ Reopen \/ Redirect \/ Return \/ Connect \/ Authorize \/ Disconnect
    \/ \E c \in calls : Serve(c) \/ Answer(c) \/ Fail(c)

Spec == Init /\ [][Next]_vars

-----------------------------------------------------------------------------
(* What must hold                                                          *)

\* Once every call is answered the page shows what the server has: only a call that
\* failed, a page closed before its change was made, a disconnect right after Spotify's
\* redirect, before the status arrived, and a connection made by Spotify's page that
\* the browser left backwards make them differ.
ShownIsTrue == calls = {} /\ ~failed /\ ~astray => shown = server

\* A disabled button comes back: its call is still under way. Only one that sent the
\* browser to Spotify's page stays disabled, until the page is loaded anew.
DisabledHasCall ==
    loading => \/ \E c \in calls : c.mount = mount /\ c.op \in Clicks
               \/ asked

\* The settings end up showing what the server has, and can be changed again.
SettingsAreTrue == ShownIsTrue /\ DisabledHasCall

=============================================================================
