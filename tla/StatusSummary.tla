----------------------------- MODULE StatusSummary -----------------------------
(***************************************************************************)
(* What the public status page (status/src/App.tsx) derives from a summary *)
(* of the external services: the components, the bars of the past hours,   *)
(* the timeline of incidents and the audit log.                            *)
(*                                                                         *)
(* The service's side is reduced to what one summary shows: the recordings *)
(* of calls, each of which stores an audit record and replaces the status  *)
(* of its service by one made of a status it read before, while others do  *)
(* the same; the summary reads the statuses and then the records. Retries  *)
(* of one call are RetryPipeline, failures of the platform's recordings    *)
(* PlatformMonitor, the polls that bring one summary after the other       *)
(* StatusPolling.                                                          *)
(***************************************************************************)
EXTENDS Integers, Sequences, FiniteSets, Functions

CONSTANTS
    Services,       \* keys of the monitored services
    HourLength,     \* times in an hour
    WindowHours,    \* hourlyWindowHours
    MaxAudits,      \* bound: recordings
    None

VARIABLES
    recordings, \* the recordings in the order in which they took the time: their records, and how far they are
    statuses,   \* the stored status of each service
    told,       \* history: recordings whose status was stored, and after it none of an earlier one of their service
    summary     \* None, what was read of the statuses, or the whole summary

vars == <<recordings, statuses, told, summary>>

Clock == Len(recordings)
Hour(at) == at \div HourLength

Outcomes == {"succeeded", "failed", "failed_queued"}
Origins == {"interactive", "retry"}
Audit == [key : Services, outcome : Outcomes, origin : Origins, at : Nat]

IsDown(status) == status.state \in {"degraded", "outage"}
Complete == summary # None /\ summary.at # None

-----------------------------------------------------------------------------
(* The service                                                             *)

\* Services whose calls PlatformActivityMonitor records; the page makes up what is
\* not among the services that are stored.
Synthetic == {"platform", "ai-agent"}

\* What a call may leave: a failure that is not queued may be of the last attempt or
\* not. PlatformActivityMonitor knows no retries, and any failure is an outage.
Kinds ==
    {k \in [key : Services, outcome : Outcomes, origin : Origins, last : BOOLEAN] :
        /\ k.last => k.outcome = "failed"
        /\ k.key \in Synthetic => k.origin = "interactive" /\ (k.last <=> k.outcome # "succeeded")}

NoStatus == [state |-> "monitoring", since |-> None, checked |-> None, failed |-> None,
             failures |-> 0, origin |-> None]

ServiceKey(n) == recordings[n].key
Stored == {n \in DOMAIN recordings : recordings[n].stored}
Audits == {[key |-> ServiceKey(n), outcome |-> recordings[n].outcome,
            origin |-> recordings[n].origin, at |-> n] : n \in Stored}

\* A call ends and its recording takes the time; what happens after the summary is
\* the next summary's.
Begin(kind) ==
    /\ ~Complete /\ Clock < MaxAudits
    /\ recordings' = Append(recordings,
            [key |-> kind.key, outcome |-> kind.outcome, origin |-> kind.origin, last |-> kind.last,
             stored |-> FALSE, previous |-> None, saved |-> FALSE])
    /\ UNCHANGED <<statuses, told, summary>>

\* A recording that fails or is cancelled is one that goes no further.
AppendAudit(n) ==
    /\ ~Complete /\ ~recordings[n].stored
    /\ ServiceKey(n) \in Synthetic => recordings[n].previous # None
    /\ recordings' = [recordings EXCEPT ![n].stored = TRUE]
    /\ UNCHANGED <<statuses, told, summary>>

\* ExternalServiceExecutor reads the status after it stored its record,
\* PlatformActivityMonitor before.
GetStatus(n) ==
    /\ ~Complete /\ recordings[n].previous = None /\ ~recordings[n].saved
    /\ ServiceKey(n) \notin Synthetic => recordings[n].stored
    /\ recordings' = [recordings EXCEPT ![n].previous = statuses[ServiceKey(n)]]
    /\ UNCHANGED <<statuses, told, summary>>

\* Mutant of NextStatus: the incident is kept after a success.
NextStatusKeepsIncident(n) ==
    LET call == recordings[n]
        previous == call.previous
    IN  [state |-> IF call.outcome = "succeeded" THEN "operational"
                   ELSE IF previous.failures >= 1 \/ call.last THEN "outage" ELSE "degraded",
         since |-> IF previous.since = None /\ call.outcome # "succeeded" THEN n ELSE previous.since,
         checked |-> n,
         failed |-> IF call.outcome = "succeeded" THEN previous.failed ELSE n,
         failures |-> IF call.outcome = "succeeded" THEN 0 ELSE previous.failures + 1,
         origin |-> call.origin]

\* What a recording makes of the status it read.
NextStatus(n) ==
    LET call == recordings[n]
        previous == call.previous
    IN  IF call.outcome = "succeeded"
        THEN [state |-> "operational", since |-> None, checked |-> n,
              failed |-> previous.failed, failures |-> 0, origin |-> call.origin]
        ELSE [state |-> IF previous.failures >= 1 \/ call.last THEN "outage" ELSE "degraded",
              since |-> IF previous.since = None THEN n ELSE previous.since,
              checked |-> n, failed |-> n,
              failures |-> previous.failures + 1, origin |-> call.origin]

\* The whole status is replaced, whatever was stored since it was read. Once the summary
\* has the statuses, later ones are the next summary's.
UpsertStatus(n) ==
    /\ summary = None /\ recordings[n].stored /\ recordings[n].previous # None
    /\ statuses' = [statuses EXCEPT ![ServiceKey(n)] = NextStatus(n)]
    /\ told' = {m \in told : ServiceKey(m) = ServiceKey(n) => m < n} \cup {n}
    /\ recordings' = [recordings EXCEPT ![n].previous = None, ![n].saved = TRUE]
    /\ UNCHANGED summary

ReadStatuses ==
    /\ summary = None
    /\ summary' = [statuses |-> statuses, told |-> told, audits |-> {}, at |-> None]
    /\ UNCHANGED <<recordings, statuses, told>>

ReadAudits ==
    /\ summary # None /\ ~Complete
    /\ summary' = [summary EXCEPT !.audits = Audits, !.at = Clock]
    /\ UNCHANGED <<recordings, statuses, told>>

-----------------------------------------------------------------------------
(* What is derived from a summary                                          *)

OpenedBy(s, a) ==
    [key |-> a.key, state |-> IF a.outcome = "failed" THEN "outage" ELSE "degraded",
     started |-> IF s.statuses[a.key].since = None THEN a.at ELSE s.statuses[a.key].since,
     resolved |-> None, updated |-> a.at, records |-> 1]

Extended(incident, a) ==
    [incident EXCEPT !.state = IF @ = "outage" \/ a.outcome = "failed" THEN "outage" ELSE "degraded",
                     !.updated = a.at, !.records = @ + 1]

ResolvedBy(incident, a) ==
    [incident EXCEPT !.state = "resolved", !.resolved = a.at, !.updated = a.at]

Close(open, key) == Restrict(open, DOMAIN open \ {key})

Put(open, key, incident) ==
    [k \in DOMAIN open \cup {key} |-> IF k = key THEN incident ELSE open[k]]

\* One record: it opens, extends or resolves its service's incident.
Absorb(s, acc, a) ==
    LET known == a.key \in DOMAIN acc.open IN
    CASE a.outcome = "succeeded" /\ ~known -> acc
      [] a.outcome = "succeeded" /\ known ->
            [open |-> Close(acc.open, a.key),
             done |-> acc.done \cup {ResolvedBy(acc.open[a.key], a)}]
      [] OTHER ->
            [acc EXCEPT !.open = Put(@, a.key, IF known THEN Extended(acc.open[a.key], a)
                                                        ELSE OpenedBy(s, a))]

\* What the records until a time tell, in the order of their times.
ToldBy(s) ==
    LET tells[n \in 0..s.at] ==
            LET now == {a \in s.audits : a.at = n} IN
            CASE n = 0 -> [open |-> <<>>, done |-> {}]
              [] n # 0 /\ now = {} -> tells[n - 1]
              [] OTHER -> Absorb(s, tells[n - 1], CHOOSE a \in now : TRUE)
    IN  tells

Told(s) == ToldBy(s)[s.at]

\* Services that are down, but not by their records.
Untracked(s) == {key \in Services \ DOMAIN Told(s).open : IsDown(s.statuses[key])}

\* buildIncidentTimeline: the records' incidents, the open ones corrected by the
\* service's status.
Timeline(s) ==
    LET open == Told(s).open
        StillOpen(key) ==
            [open[key] EXCEPT
                !.state = IF s.statuses[key].state = "outage" THEN "outage" ELSE @,
                !.started = IF s.statuses[key].since = None THEN @ ELSE s.statuses[key].since,
                !.updated = IF s.statuses[key].failed = None THEN @ ELSE s.statuses[key].failed]
        OfStatus(key) ==
            [key |-> key, state |-> s.statuses[key].state, started |-> s.statuses[key].since,
             resolved |-> None, updated |-> s.statuses[key].failed,
             records |-> s.statuses[key].failures]
    IN  Told(s).done \cup {StillOpen(key) : key \in DOMAIN open}
                     \cup {OfStatus(key) : key \in Untracked(s)}

\* buildHourlyActivitySlots: the hours shown, the last one that of the summary.
Slots(s) == {Hour(s.at) - i : i \in 0..(WindowHours - 1)}

Bar(s, key, h) == {a \in s.audits : a.key = key /\ Hour(a.at) = h}

\* Its colour: failures before retries, and the status while nothing happened.
BarState(s, key, h) ==
    LET outcomes == {a.outcome : a \in Bar(s, key, h)} IN
    CASE "failed" \in outcomes -> "failed"
      [] "failed" \notin outcomes /\ "failed_queued" \in outcomes -> "queued"
      [] outcomes = {"succeeded"} -> "operational"
      [] OTHER ->
            IF /\ h = Hour(s.at) /\ s.statuses[key].checked # None
               /\ Hour(s.statuses[key].checked) = h
            THEN CASE s.statuses[key].state = "outage" -> "failed"
                   [] s.statuses[key].state = "degraded" -> "queued"
                   [] OTHER -> s.statuses[key].state
            ELSE "empty"

InMode(m, outcome) ==
    CASE m = "all" -> TRUE
      [] m = "unsuccessful" -> outcome # "succeeded"
      [] m = "failed" -> outcome = "failed"
      [] m = "queued" -> outcome = "failed_queued"

\* What is listed for the chosen component, hour and mode.
FilteredAudits(s, component, hour, mode) ==
    {a \in s.audits : /\ component \in {"all", a.key}
                             /\ hour \in {None, Hour(a.at)}
                             /\ InMode(mode, a.outcome)}

FilteredTimeline(s, component, hour) ==
    {i \in Timeline(s) : /\ component \in {"all", i.key}
                         /\ \/ hour = None
                            \/ hour \in {Hour(t) : t \in {i.started, i.updated, i.resolved} \ {None}}}

\* A click on a bar lists all records of its component and hour.
InspectHour(s, key, h) == FilteredAudits(s, key, h, "all")

-----------------------------------------------------------------------------
(* The components                                                          *)

States(s) == {s.statuses[key].state : key \in Services}

\* GetSummaryAsync: the worst state of the services.
OverallStatus(s) ==
    CASE "outage" \in States(s) -> "outage"
      [] "outage" \notin States(s) /\ "degraded" \in States(s) -> "degraded"
      [] States(s) \cap {"outage", "degraded"} = {} /\ "operational" \in States(s) -> "operational"
      [] OTHER -> "monitoring"

Earliest(times) == IF times \subseteq {None} THEN None
                   ELSE CHOOSE t \in times \ {None} : \A u \in times \ {None} : t <= u

Platform(s) == [state |-> OverallStatus(s),
                since |-> Earliest({s.statuses[key].since : key \in Services})]

Interactive(s) == {a \in s.audits : a.origin = "interactive"}

LatestFailure(s) ==
    LET failures == {a.at : a \in {b \in Interactive(s) : b.outcome # "succeeded"}}
    IN  IF failures = {} THEN None ELSE CHOOSE t \in failures : \A u \in failures : u <= t

InteractiveServices(s) ==
    {key \in Services : \/ s.statuses[key].origin = "interactive"
                        \/ \E a \in Interactive(s) : a.key = key}

AgentState(s) ==
    LET states == {s.statuses[key].state : key \in InteractiveServices(s)} IN
    CASE "outage" \in states -> "outage"
      [] /\ "outage" \notin states
         /\ \/ "degraded" \in states
            \/ \E a \in Interactive(s) : a.outcome = "failed_queued" -> "degraded"
      [] OTHER -> IF Interactive(s) = {} THEN "monitoring" ELSE "operational"

AgentSince(s) ==
    IF AgentState(s) = "operational" THEN None
    ELSE Earliest({s.statuses[key].since : key \in InteractiveServices(s)} \cup {LatestFailure(s)})

Agent(s) == [state |-> AgentState(s), since |-> AgentSince(s)]

\* buildComponents. The platform and the agent are made up by the page unless
\* the summary has services of these keys (PlatformMonitor stores some).
Components(s) ==
    [c \in Services \cup {"platform", "ai-agent"} |->
        CASE c \in Services -> [state |-> s.statuses[c].state, since |-> s.statuses[c].since]
          [] c = "platform" /\ c \notin Services -> Platform(s)
          [] c = "ai-agent" /\ c \notin Services -> Agent(s)]

\* "Components currently requiring attention"; the banner counts them when
\* something is degraded.
Highlighted(s) == {c \in DOMAIN Components(s) : IsDown(Components(s)[c])}

-----------------------------------------------------------------------------

Init ==
    /\ recordings = <<>> /\ statuses = [key \in Services |-> NoStatus] /\ told = {}
    /\ summary = None

Next ==
    \/ \E kind \in Kinds : Begin(kind)
    \/ \E n \in DOMAIN recordings : AppendAudit(n) \/ GetStatus(n) \/ UpsertStatus(n)
    \/ ReadStatuses \/ ReadAudits

Spec == Init /\ [][Next]_vars

-----------------------------------------------------------------------------
(* What must hold                                                          *)

\* A component is down exactly if it says since when: the services as they are
\* stored, the platform and the agent as the page derives them.
DownSinceWhen ==
    Complete => \A c \in DOMAIN Components(summary) :
        IsDown(Components(summary)[c]) <=> Components(summary)[c].since # None

\* As many elements as the incidents have records.
Records(incidents) == UNION {{i} \X (1..i.records) : i \in incidents}

\* Every unsuccessful record of a service belongs to one of its incidents, at
\* most one of which is open, and a service that is down has an open one.
RecordsAreInTimeline ==
    Complete => \A key \in Services :
        LET incidents == {i \in Timeline(summary) : i.key = key}
            open == {i \in incidents : i.resolved = None}
            Failures == {a \in summary.audits : a.key = key /\ a.outcome # "succeeded"}
        IN  /\ Cardinality(open) <= 1
            /\ IsDown(summary.statuses[key]) => open # {}
            /\ key \notin Untracked(summary) =>
                    Cardinality(Records(incidents)) = Cardinality(Failures)

\* No incident is over before it began, but for those of a service that is down:
\* they are all said to have begun with the current one.
ResolvedAfterStart ==
    Complete => \A i \in Timeline(summary) :
        i.resolved # None /\ ~IsDown(summary.statuses[i.key]) => i.started < i.resolved

\* Incidents begin with a failure of their service that is listed, whichever status
\* a recording read before it wrote its own.
StartedAtAFailure ==
    Complete => \A i \in Timeline(summary) : \E a \in summary.audits :
        a.key = i.key /\ a.outcome # "succeeded" /\ a.at = i.started

\* The latest records of a service, which all succeeded or all failed.
Streak(s, key) ==
    {a \in s.audits : /\ a.key = key
                      /\ \A b \in s.audits : b.key = key /\ b.at >= a.at =>
                             (b.outcome = "succeeded" <=> a.outcome = "succeeded")}

\* A service is down exactly if its latest records failed, unless when the statuses
\* were read none of those had stored a status that no earlier one replaced.
StatusFollowsLog ==
    Complete => \A key \in Services : \A a \in Streak(summary, key) :
        a.at \in summary.told => (IsDown(summary.statuses[key]) <=> a.outcome # "succeeded")

\* When the banner sees nothing wrong, the records of an open incident in the timeline
\* had no status stored when the statuses were read, or an earlier recording of their
\* service replaced it.
QuietBannerMissesNothing ==
    Complete /\ ~IsDown(Platform(summary)) =>
        \A i \in Timeline(summary), a \in summary.audits :
            i.resolved = None /\ a.key = i.key /\ a.at >= i.started => a.at \notin summary.told

\* The bars count what a click on them lists, and miss no record of the window.
BarsCountRecords ==
    Complete => \A key \in Services : \A a \in FilteredAudits(summary, key, None, "all") :
        Hour(a.at) > Hour(summary.at) - WindowHours =>
            \E h \in Slots(summary) : /\ a \in InspectHour(summary, key, h)
                                      /\ Bar(summary, key, h) = InspectHour(summary, key, h)
                                      /\ BarState(summary, key, h) # "empty"

\* Banner, components, timeline and bars tell what the log and the statuses say, and
\* do not contradict each other.
SummaryTellsTheLog ==
    /\ DownSinceWhen
    /\ RecordsAreInTimeline
    /\ ResolvedAfterStart
    /\ StartedAtAFailure
    /\ StatusFollowsLog
    /\ QuietBannerMissesNothing
    /\ BarsCountRecords

=============================================================================
