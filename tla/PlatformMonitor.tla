---------------------------- MODULE PlatformMonitor ----------------------------
(***************************************************************************)
(* PlatformActivityMonitor: the outcomes of chats, recorded as the status  *)
(* of one of the platform's own components. A recording takes the time,    *)
(* reads the status, appends an audit record and replaces the status, each *)
(* an operation of the store of its own; an exception in any of them is    *)
(* logged and ends it. Which outcomes a chat records is ChatStream.        *)
(***************************************************************************)
EXTENDS Integers, Sequences, FiniteSets

CONSTANTS
    Requests,   \* recordings
    MaxClock,   \* bound: time
    None

VARIABLES
    clock,
    pc,         \* where a recording is
    job,        \* a recording's outcome, its time and the status it read
    audits,     \* the component's records, in the order they were stored
    doc,        \* its stored status, or None
    disturbed   \* history: recordings overlapped, or one failed

vars == <<clock, pc, job, audits, doc, disturbed>>

Outcomes == {"succeeded", "failed"}
Status == [state : {"operational", "outage"}, since : (0..MaxClock) \cup {None}, failures : Nat,
           total : Nat, failed : Nat]
Busy(r) == pc[r] \notin {"idle", "done"}
Goto(r, step) == pc' = [pc EXCEPT ![r] = step]

NoJob == [outcome |-> "succeeded", at |-> 0, previous |-> None]
NoStatus == [state |-> "operational", since |-> None, failures |-> 0, total |-> 0, failed |-> 0]
Previous(r) == IF job[r].previous = None THEN NoStatus ELSE job[r].previous

TypeOK ==
    /\ clock \in 0..MaxClock
    /\ pc \in [Requests -> {"idle", "read", "append", "upsert", "done"}]
    /\ \A r \in Requests : job[r].outcome \in Outcomes /\ job[r].at \in 0..MaxClock
    /\ \A i \in DOMAIN audits : audits[i].outcome \in Outcomes /\ audits[i].at \in 0..MaxClock
    /\ doc \in Status \cup {None}

-----------------------------------------------------------------------------

Tick ==
    /\ clock < MaxClock /\ clock' = clock + 1
    /\ UNCHANGED <<pc, job, audits, doc, disturbed>>

\* RecordAsync takes the time before it awaits anything.
Begin(r, outcome) ==
    /\ pc[r] = "idle" /\ Goto(r, "read")
    /\ job' = [job EXCEPT ![r] = [outcome |-> outcome, at |-> clock, previous |-> None]]
    /\ disturbed' = (disturbed \/ \E s \in Requests : Busy(s))
    /\ UNCHANGED <<clock, audits, doc>>

GetStatus(r) ==
    /\ pc[r] = "read" /\ Goto(r, "append")
    /\ job' = [job EXCEPT ![r].previous = doc]
    /\ UNCHANGED <<clock, audits, doc, disturbed>>

Appended(r) == Append(audits, [outcome |-> job[r].outcome, at |-> job[r].at])

AppendAudit(r) ==
    /\ pc[r] = "append" /\ Goto(r, "upsert")
    /\ audits' = Appended(r)
    /\ UNCHANGED <<clock, job, doc, disturbed>>

NextStatus(r) ==
    LET succeeded == job[r].outcome = "succeeded"
        previous == Previous(r)
    IN  [state |-> IF succeeded THEN "operational" ELSE "outage",
         since |-> CASE succeeded -> None
                     [] ~succeeded /\ previous.since # None -> previous.since
                     [] OTHER -> job[r].at,
         failures |-> IF succeeded THEN 0 ELSE previous.failures + 1,
         total |-> previous.total + 1,
         failed |-> previous.failed + (IF succeeded THEN 0 ELSE 1)]

UpsertStatus(r) ==
    /\ pc[r] = "upsert" /\ Goto(r, "done")
    /\ doc' = NextStatus(r) /\ job' = [job EXCEPT ![r] = NoJob]
    /\ UNCHANGED <<clock, audits, disturbed>>

\* Mutant of Caught: what was to follow is done all the same.
CaughtEach(step) == IF step = "read" THEN "append" ELSE IF step = "append" THEN "upsert" ELSE "done"

\* The try block is left.
Caught(step) == "done"

\* The store fails or the request is cancelled; a write may have been done.
Fails(r) ==
    /\ Busy(r) /\ Goto(r, Caught(pc[r]))
    /\ audits' \in IF pc[r] = "append" THEN {audits, Appended(r)} ELSE {audits}
    /\ doc' \in IF pc[r] = "upsert" THEN {doc, NextStatus(r)} ELSE {doc}
    /\ disturbed' = TRUE /\ job' = [job EXCEPT ![r] = NoJob]
    /\ UNCHANGED clock

-----------------------------------------------------------------------------

Init ==
    /\ clock = 0
    /\ pc = [r \in Requests |-> "idle"]
    /\ job = [r \in Requests |-> NoJob]
    /\ audits = <<>> /\ doc = None
    /\ disturbed = FALSE

Next ==
    \/ Tick
    \/ \E r \in Requests :
        \/ \E outcome \in Outcomes : Begin(r, outcome)
        \/ GetStatus(r) \/ AppendAudit(r) \/ UpsertStatus(r) \/ Fails(r)

Spec == Init /\ [][Next]_vars

-----------------------------------------------------------------------------
(* What must hold                                                          *)

\* However recordings overlap and fail, the status counts no request and no
\* failure that was not recorded.
StatusNeverOvercounts ==
    doc # None => /\ doc.total <= Len(audits)
                  /\ doc.failed <= Cardinality({i \in DOMAIN audits : audits[i].outcome = "failed"})

\* Recordings one after the other leave the status the records tell: the counts,
\* and an incident since the first failure after the last success.
SequentialStatusIsExact ==
    ~disturbed /\ (\A r \in Requests : ~Busy(r)) /\ audits # <<>> =>
        LET good == {i \in DOMAIN audits : audits[i].outcome = "succeeded"}
            last == CHOOSE i \in good \cup {0} : \A j \in good : j <= i
        IN  doc = [state |-> IF last = Len(audits) THEN "operational" ELSE "outage",
                   since |-> IF last = Len(audits) THEN None ELSE audits[last + 1].at,
                   failures |-> Len(audits) - last,
                   total |-> Len(audits), failed |-> Len(audits) - Cardinality(good)]

\* The status of the platform says no more than its records, and all of it when
\* they were made one after the other.
StatusIsTrue == TypeOK /\ StatusNeverOvercounts /\ SequentialStatusIsExact

=============================================================================
