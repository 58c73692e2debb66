----------------------------- MODULE StatusPolling -----------------------------
(***************************************************************************)
(* How the public status page (status/src/App.tsx) polls its summary: a    *)
(* first load, one every thirty seconds, and a new effect for each click   *)
(* on Refresh. What it derives from a summary is StatusSummary; here the   *)
(* summary is the number of records it was made from. The message about a  *)
(* failed load is left out.                                                *)
(***************************************************************************)
EXTENDS Integers, FiniteSets

CONSTANTS
    MaxRecords,     \* bound: records the service makes
    Requests,       \* bound: the summaries that may be under way at a time
    MaxRefreshes,   \* bound: clicks on Refresh
    None

VARIABLES
    records,    \* records the service has
    summary,    \* what the page has, or None
    requests,   \* summaries requested: by which effect, and what was read
    effect,     \* refreshSequence
    loading, refreshing,
    clicked     \* history: records there were when Refresh was clicked, and whether it was answered

page == <<summary, requests, effect, loading, refreshing, clicked>>
vars == <<records, page>>

-----------------------------------------------------------------------------
(* The service                                                             *)

Record ==
    /\ records < MaxRecords
    /\ records' = records + 1
    /\ UNCHANGED page

Read(r) ==
    /\ r.read = None
    /\ requests' = (requests \ {r}) \cup {[r EXCEPT !.read = records]}
    /\ UNCHANGED <<records, summary, effect, loading, refreshing, clicked>>

-----------------------------------------------------------------------------
(* The page                                                                *)

\* What load() sends for an effect.
Load(e) ==
    \E id \in Requests \ {r.id : r \in requests} :
        requests' = requests \cup {[id |-> id, effect |-> e, read |-> None]}

\* The interval of the current effect.
Poll ==
    /\ Load(effect)
    /\ refreshing' = TRUE
    /\ UNCHANGED <<records, summary, effect, loading, clicked>>

\* The effect's cleanup aborts what it requested, and the next effect loads.
Refresh ==
    /\ effect < MaxRefreshes
    /\ effect' = effect + 1
    /\ Load(effect + 1)
    /\ refreshing' = TRUE
    /\ clicked' = [records |-> records, answered |-> FALSE]
    /\ UNCHANGED <<records, summary, loading>>

Mounted(r) == r.effect = effect

\* Mutant of Settled: a background load leaves the button spinning.
SettledLoadingOnly == loading' = FALSE /\ UNCHANGED refreshing

Settled == loading' = FALSE /\ refreshing' = FALSE

\* An answer that was there before its request was aborted still arrives.
Answer(r) ==
    /\ r.read # None
    /\ requests' = requests \ {r}
    /\ IF Mounted(r)
       THEN /\ summary' = r.read
            /\ Settled
            /\ clicked' = [clicked EXCEPT !.answered = TRUE]
       ELSE UNCHANGED <<summary, loading, refreshing, clicked>>
    /\ UNCHANGED <<records, effect>>

\* The request fails, or is aborted.
Fail(r) ==
    /\ requests' = requests \ {r}
    /\ IF Mounted(r) THEN Settled ELSE UNCHANGED <<loading, refreshing>>
    /\ UNCHANGED <<records, summary, effect, clicked>>

-----------------------------------------------------------------------------

Init ==
    /\ records = 0 /\ summary = None /\ effect = 0
    /\ \E id \in Requests : requests = {[id |-> id, effect |-> 0, read |-> None]}
    /\ loading = TRUE /\ refreshing = FALSE
    /\ clicked = [records |-> 0, answered |-> FALSE]

Next ==
    \/ Record \/ Poll \/ Refresh
    \/ \E r \in requests : Read(r) \/ Answer(r) \/ Fail(r)

Spec == Init /\ [][Next]_vars

-----------------------------------------------------------------------------
(* What must hold                                                          *)

\* While a spinner turns, a request of the current effect is under way.
SpinnerHasRequest == loading \/ refreshing => \E r \in requests : r.effect = effect

\* What a refresh brings is not older than the click: an answer to a request
\* from before it is not taken for its own.
RefreshIsFresh == clicked.answered /\ summary # None => summary >= clicked.records

\* A refresh turns its spinner while it is under way and ends with news.
RefreshIsHonest == SpinnerHasRequest /\ RefreshIsFresh

=============================================================================
