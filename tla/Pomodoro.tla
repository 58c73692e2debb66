------------------------------- MODULE Pomodoro -------------------------------
(***************************************************************************)
(* The Pomodoro timer of a generated UI (registry/PomodoroTimer): an       *)
(* interval counts the seconds of a phase down; when they are over, the    *)
(* state updater stops the interval and defers the next phase to a timeout *)
(* that nothing cancels. An event, its render and its effect are one step. *)
(***************************************************************************)
EXTENDS Integers, FiniteSets

CONSTANTS
    Seconds,        \* of each phase
    Sessions,       \* sessionsBeforeLongBreak
    None

VARIABLES
    phase, session, left, running,
    intervals,      \* those that tick
    ref,            \* the one intervalRef knows, or None
    deferred,       \* what the deferred advance captured: phase and session, or None
    worked,         \* history: work phases finished since the last long break or reset
    overtaken       \* history: the user paused or reset while an advance was deferred

shown == <<phase, session, left, running>>
clock == <<intervals, ref, deferred>>
vars == <<shown, clock, worked, overtaken>>

Phases == {"work", "shortBreak", "longBreak"}

-----------------------------------------------------------------------------

\* clearTimer: only the interval the ref knows can be stopped.
Cleared == IF ref = None THEN intervals ELSE intervals \ {ref}

\* setInterval in the effect, after the cleanup of the one before.
Started(others) == LET i == CHOOSE n \in 1..3 : n \notin others
                   IN  intervals' = others \cup {i} /\ ref' = i

\* Mutant of Effect: it returns no cleanup.
EffectKeeping == IF running' THEN Started(intervals) ELSE intervals' = Cleared /\ ref' = None

\* The effect, when running or advancePhase changed.
Effect == IF running' THEN Started(Cleared) ELSE intervals' = Cleared /\ ref' = None

Toggle ==
    /\ running' = ~running
    /\ Effect
    /\ overtaken' = (overtaken \/ deferred # None)
    /\ UNCHANGED <<phase, session, left, deferred, worked>>

\* A second of an interval, and a deferred advance is due at once: it comes first.
\* At the last second the interval is cleared.
Tick(i) ==
    /\ i \in intervals /\ deferred = None
    /\ IF left <= 1
       THEN /\ left' = 0
            /\ intervals' = Cleared /\ ref' = None
            /\ deferred' = [phase |-> phase, session |-> session]
       ELSE left' = left - 1 /\ UNCHANGED clock
    /\ UNCHANGED <<phase, session, running, worked, overtaken>>

IsLast(s) == s >= Sessions

\* advancePhase, of the phase and session it was made for.
AdvancePhase(t) ==
    /\ phase' = CASE t.phase # "work" -> "work"
                  [] t.phase = "work" /\ IsLast(t.session) -> "longBreak"
                  [] OTHER -> "shortBreak"
    /\ session' = CASE t.phase = "work" -> session
                    [] t.phase = "longBreak" -> 1
                    [] OTHER -> t.session + 1
    /\ left' = Seconds[phase']

\* The deferred advance: it starts the timer whatever happened meanwhile.
Timeout ==
    /\ deferred # None /\ deferred' = None
    /\ AdvancePhase(deferred)
    /\ running' = TRUE
    /\ IF <<running', phase', session'>> = <<running, phase, session>>
       THEN UNCHANGED <<intervals, ref>> ELSE Effect
    /\ worked' = CASE deferred.phase = "work" -> worked + 1
                   [] deferred.phase = "longBreak" -> 0
                   [] OTHER -> worked
    /\ UNCHANGED overtaken

HandleReset ==
    /\ running' = FALSE /\ phase' = "work" /\ session' = 1 /\ left' = Seconds["work"]
    /\ Effect
    /\ worked' = 0 /\ overtaken' = (deferred # None)
    /\ UNCHANGED deferred

Init ==
    /\ phase = "work" /\ session = 1 /\ left = Seconds["work"] /\ running = FALSE
    /\ intervals = {} /\ ref = None /\ deferred = None
    /\ worked = 0 /\ overtaken = FALSE

Next ==
    \/ Toggle \/ HandleReset \/ Timeout
    \/ \E i \in intervals : Tick(i)

Spec == Init /\ [][Next]_vars

-----------------------------------------------------------------------------
(* What must hold                                                          *)

\* A second is counted once: one interval ticks while the timer runs and none
\* while it does not, unless the end of a phase is just being handled.
CountsOnce ==
    /\ Cardinality(intervals) <= 1 /\ intervals \subseteq {ref}
    /\ deferred = None => (running <=> intervals # {})

\* A long break comes after as many work phases as were asked for, and never
\* another, unless the user interfered between the end of a phase and the next.
LongBreakWhenEarned ==
    ~overtaken => /\ phase = "longBreak" <=> worked = Sessions
                  /\ phase = "work" => session = worked + 1

\* The timer counts its seconds and its sessions once each.
TimerCounts == CountsOnce /\ LongBreakWhenEarned

=============================================================================
