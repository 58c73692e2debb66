---------------------------- MODULE RetryPipeline ----------------------------
(***************************************************************************)
(* The retry pipeline of MIBO.ActionService: interactive calls of external *)
(* services (ExternalServiceExecutor.ExecuteAsync), the RabbitMQ queues    *)
(* that hold their delayed retries (RabbitMqRetryPublisher), the consumer  *)
(* that executes them (RabbitMqRetryConsumerHostedService, ProcessRetry),  *)
(* and the audit log and status document both write                        *)
(* (IExternalServiceMonitorStore).                                         *)
(*                                                                         *)
(* A process is an interactive call or a message handler of the consumer.  *)
(* Every await on another system is an action of its own, so every other   *)
(* process, a crash or a lost connection can come between two of them.     *)
(* Polly's retries and timeout inside an attempt are left out: an attempt  *)
(* is one step with three outcomes.                                        *)
(***************************************************************************)
EXTENDS Naturals, Sequences, FiniteSets

CONSTANTS
    Calls,       \* interactive calls; a call's name is its correlation id
    Handlers,    \* slots for invocations of the consumer's Received handler
    Services,    \* service keys of the registry
    ServiceOf,   \* the service a call's handler name resolves to
    NoCall,      \* the call of a process that has none
    Configs,     \* the configurations the service may be started with
    FaultKinds,  \* the kinds of fault that may happen
    MaxFaults    \* bound: how many faults happen in a behaviour

AllFaults == {"store", "publish", "unconfirmed", "connection", "crash", "startup"}

Config == [enabled: BOOLEAN, useRabbit: BOOLEAN, maxAttempts: Nat,
           migrated: SUBSET Services, registered: SUBSET Services]

ASSUME ConstantsAssumption ==
    /\ Calls \cap Handlers = {}
    /\ NoCall \notin Calls
    /\ IsFiniteSet(Calls) /\ IsFiniteSet(Handlers)
    /\ ServiceOf \in [Calls -> Services]
    /\ Configs \subseteq Config
    /\ FaultKinds \subseteq AllFaults
    /\ MaxFaults \in Nat

VARIABLES
    config,        \* the options the running process was started with
    consumer,      \* life cycle of the process and its hosted consumer
    pc,            \* where each process is
    job,           \* the locals of each process
    retryQueue,    \* delayed messages; only its head can expire
    executeQueue,  \* messages due, not delivered
    deadQueue,     \* the dead-letter queue's messages
    audited,       \* the distinct rows of the audit log
    auditCount,    \* how many rows the audit log has for a service
    status,        \* the status document of a service
    \* history variables, read by no guard of the code
    promised,      \* highest attempt ScheduleRetryAsync reported as queued
    served,        \* calls with an attempt whose operation succeeded
    lost,          \* calls whose chain ended without a trace in the queues
    redeliveries,  \* deliveries the broker repeated
    faults         \* faults so far

queues  == <<retryQueue, executeQueue, deadQueue>>
store   == <<audited, auditCount, status>>
history == <<promised, served, lost>>
vars    == <<config, consumer, pc, job, queues, store, history, redeliveries, faults>>

-----------------------------------------------------------------------------

Procs == Calls \cup Handlers

Message == [call: Calls, attempt: Nat \ {0}, max: Nat]

Outcomes == {"succeeded", "failed", "failed_queued"}

Row == [call: Calls, attempt: Nat \ {0}, outcome: Outcomes]

\* OpenIncidentSinceUtc is kept as the fact that it is set.
Status == [state: {"none", "operational", "degraded", "outage"}, incident: BOOLEAN,
           streak: Nat, requests: Nat, failures: Nat]

\* No document yet: every "previous?.X ?? 0" reads these values.
NoStatus == [state |-> "none", incident |-> FALSE,
             streak |-> 0, requests |-> 0, failures |-> 0]

Job == [msg: Message, succeeded: BOOLEAN, queued: BOOLEAN,
        previous: Status, acked: BOOLEAN]

\* What a process is working for. acked = FALSE: the broker still waits for
\* this delivery's acknowledgement on the channel it was delivered on.
NewJob(m) == [msg |-> m, succeeded |-> FALSE, queued |-> FALSE,
              previous |-> NoStatus, acked |-> FALSE]

NoJob == NewJob([call |-> NoCall, attempt |-> 1, max |-> 0])

\* The steps that await something, in the order of the code.
Awaiting == {"run", "schedule", "audit", "read", "write", "deadletter", "ack"}

\* How a call ends: with the service's value, with the service's error, with
\* any other exception or a crash, or without the pipeline.
Ends == {"returned", "rethrown", "aborted", "bypassed"}

Busy(p) == pc[p] \in Awaiting

\* A process's last step: its locals are gone.
Finish(p, end) ==
    /\ pc' = [pc EXCEPT ![p] = end]
    /\ job' = [job EXCEPT ![p] = NoJob]

Goto(p, step) == pc' = [pc EXCEPT ![p] = step]

Fault(kind) ==
    /\ kind \in FaultKinds
    /\ faults < MaxFaults
    /\ faults' = faults + 1

ServiceOfJob(p) == ServiceOf[job[p].msg.call]

\* Mutant of RowOf: attempts counted from zero.
RowOfFromZero(p) ==
    [call    |-> job[p].msg.call,
     attempt |-> job[p].msg.attempt - 1,
     outcome |-> IF job[p].succeeded THEN "succeeded"
                 ELSE IF job[p].queued THEN "failed_queued" ELSE "failed"]

\* Mutant of RowOf: the row does not say that a retry is queued.
RowOfUnqueued(p) ==
    [call    |-> job[p].msg.call,
     attempt |-> job[p].msg.attempt,
     outcome |-> IF job[p].succeeded THEN "succeeded" ELSE "failed"]

\* A row of the audit log for what happened to the job's attempt.
RowOf(p) ==
    [call    |-> job[p].msg.call,
     attempt |-> job[p].msg.attempt,
     outcome |-> IF job[p].succeeded THEN "succeeded"
                 ELSE IF job[p].queued THEN "failed_queued" ELSE "failed"]

-----------------------------------------------------------------------------
(* The process and its consumer                                            *)

\* The hosted service connects, declares the topology and subscribes. A failed
\* connection is logged and ends the hosted service, not the process.
StartConsumer ==
    /\ consumer = "starting"
    /\ \/ /\ ~(config.enabled /\ config.useRabbit)
          /\ consumer' = "disabled"
          /\ UNCHANGED faults
       \/ /\ config.enabled /\ config.useRabbit
          /\ consumer' = "listening"
          /\ UNCHANGED faults
       \/ /\ config.enabled /\ config.useRabbit
          /\ Fault("startup")
          /\ consumer' = "stopped"
    /\ UNCHANGED <<config, pc, job, queues, store, history, redeliveries>>

\* Deliveries on the current channel that have not been acknowledged.
Unacked == {h \in Handlers : Busy(h) /\ ~job[h].acked}

\* Mutant of Requeued: the consumer subscribes with autoAck.
RequeuedAutoAck == executeQueue

\* Unacknowledged deliveries go back to the front of the execute queue.
\* Dispatch is one at a time, so there is at most one.
Requeued == IF Unacked = {} THEN executeQueue
            ELSE <<job[CHOOSE h \in Unacked : TRUE].msg>> \o executeQueue

\* The process dies, or stops and cancels the stopping token: nothing it was
\* doing is finished, and the broker takes back what was not acknowledged.
Crash ==
    /\ consumer # "down"
    /\ Fault("crash")
    /\ consumer' = "down"
    /\ pc' = [p \in Procs |-> IF p \in Handlers THEN "idle"
                              ELSE IF Busy(p) THEN "aborted" ELSE pc[p]]
    /\ job' = [p \in Procs |-> NoJob]
    /\ executeQueue' = Requeued
    /\ redeliveries' = redeliveries + Cardinality(Unacked)
    /\ UNCHANGED <<config, retryQueue, deadQueue, store, history>>

\* A restarted process may have been deployed with another configuration.
Restart ==
    /\ consumer = "down"
    /\ consumer' = "starting"
    /\ config' \in Configs
    /\ UNCHANGED <<pc, job, queues, store, history, redeliveries, faults>>

\* The consumer's connection drops and recovers. The broker redelivers on the
\* new channel; the handler goes on, and its acknowledgement will be void.
DropConnection ==
    /\ consumer = "listening"
    /\ Unacked # {}
    /\ Fault("connection")
    /\ executeQueue' = Requeued
    /\ job' = [p \in Procs |-> IF p \in Unacked THEN [job[p] EXCEPT !.acked = TRUE]
                               ELSE job[p]]
    /\ redeliveries' = redeliveries + Cardinality(Unacked)
    /\ UNCHANGED <<config, consumer, pc, retryQueue, deadQueue, store, history>>

-----------------------------------------------------------------------------
(* The broker                                                              *)

\* Mutant of Expire: the retry queue is declared without a dead-letter exchange.
ExpireWithoutExchange ==
    /\ retryQueue # <<>>
    /\ retryQueue' = Tail(retryQueue)
    /\ UNCHANGED <<config, consumer, pc, job, executeQueue, deadQueue, store,
                   history, redeliveries, faults>>

\* A retry message's delay passes. RabbitMQ expires messages only at the head
\* of a queue, so a message behind a longer delay waits for it.
Expire ==
    /\ retryQueue # <<>>
    /\ executeQueue' = Append(executeQueue, Head(retryQueue))
    /\ retryQueue' = Tail(retryQueue)
    /\ UNCHANGED <<config, consumer, pc, job, deadQueue, store, history,
                   redeliveries, faults>>

\* The consumer's channel dispatches one message at a time: the next only
\* after the handler of the previous one returned. A message whose handler
\* name is no longer registered is acknowledged without being executed.
Deliver(h) ==
    /\ consumer = "listening"
    /\ Unacked = {}
    /\ pc[h] = "idle"
    /\ executeQueue # <<>>
    /\ LET m == Head(executeQueue)
       IN  /\ job' = [job EXCEPT ![h] = NewJob(m)]
           /\ \/ /\ ServiceOf[m.call] \in config.registered
                 /\ Goto(h, "run")
                 /\ UNCHANGED lost
              \/ /\ ServiceOf[m.call] \notin config.registered
                 /\ Goto(h, "ack")
                 /\ lost' = lost \cup {m.call}
    /\ executeQueue' = Tail(executeQueue)
    /\ UNCHANGED <<config, consumer, retryQueue, deadQueue, store,
                   promised, served, redeliveries, faults>>

Ack(h) ==
    /\ pc[h] = "ack"
    /\ Finish(h, "idle")
    /\ UNCHANGED <<config, consumer, queues, store, history,
                   redeliveries, faults>>

-----------------------------------------------------------------------------
(* One attempt                                                             *)

\* ExecuteAsync: a handler name the registry does not know is executed
\* outside the pipeline; any other becomes attempt 1 of a new correlation id.
ExecuteAsync(c) ==
    /\ consumer # "down"
    /\ pc[c] = "idle"
    /\ \/ /\ ServiceOf[c] \in config.registered
          /\ Goto(c, "run")
          /\ job' = [job EXCEPT ![c] =
                       NewJob([call |-> c, attempt |-> 1, max |-> config.maxAttempts])]
       \/ /\ ServiceOf[c] \notin config.registered
          /\ Finish(c, "bypassed")
    /\ UNCHANGED <<config, consumer, queues, store, history, redeliveries, faults>>

\* TryExecuteOperationAsync: the operation succeeds or fails.
TryExecuteOperation(p) ==
    /\ pc[p] = "run"
    /\ \/ /\ job' = [job EXCEPT ![p].succeeded = TRUE]
          /\ Goto(p, "audit")
          /\ served' = served \cup {job[p].msg.call}
       \/ /\ Goto(p, "schedule")
          /\ UNCHANGED <<job, served>>
    /\ UNCHANGED <<config, consumer, queues, store, promised, lost,
                   redeliveries, faults>>

\* An OperationCanceledException leaves ExecuteAsync from any of its awaits:
\* nothing after it is written, nothing before it is undone.
CallerCancels(c) ==
    /\ Busy(c)
    /\ Finish(c, "aborted")
    /\ UNCHANGED <<config, consumer, queues, store, history,
                   redeliveries, faults>>

\* Mutant of MayRetry: one attempt too many.
MayRetryOffByOne(m) ==
    /\ config.enabled /\ config.useRabbit
    /\ ServiceOf[m.call] \in config.migrated
    /\ m.attempt <= m.max

\* ScheduleNextAttemptIfNeededAsync: is there a next attempt?
MayRetry(m) ==
    /\ config.enabled
    /\ config.useRabbit
    /\ ServiceOf[m.call] \in config.migrated
    /\ m.attempt < m.max

\* Mutant of NextMessage: the attempt counts the interactive one twice.
NextMessageSkipsOne(m) == [m EXCEPT !.attempt = @ + 2]

NextMessage(m) == [m EXCEPT !.attempt = @ + 1]

\* Mutant of ReportQueued: the decision to queue is not handed back.
ReportNothing(p) == UNCHANGED <<job, promised>>

\* The caller of ScheduleNextAttemptIfNeededAsync is told that a retry is queued.
ReportQueued(p) ==
    LET next == NextMessage(job[p].msg)
    IN  /\ job' = [job EXCEPT ![p].queued = TRUE]
        /\ promised' = [promised EXCEPT ![next.call] =
                          IF @ > next.attempt THEN @ ELSE next.attempt]

\* The next attempt is published before the failed one is recorded. Publishing
\* may fail, and without publisher confirms it may also seem to succeed.
ScheduleNextAttempt(p) ==
    LET m == job[p].msg
    IN  /\ pc[p] = "schedule"
        /\ Goto(p, "audit")
        /\ \/ /\ ~MayRetry(m)
              /\ UNCHANGED <<job, retryQueue, promised, lost, faults>>
           \/ /\ MayRetry(m)
              /\ retryQueue' = Append(retryQueue, NextMessage(m))
              /\ ReportQueued(p)
              /\ UNCHANGED <<lost, faults>>
           \/ /\ MayRetry(m)
              /\ Fault("publish")
              /\ UNCHANGED <<job, retryQueue, promised, lost>>
           \/ /\ MayRetry(m)
              /\ Fault("unconfirmed")
              /\ ReportQueued(p)
              /\ lost' = lost \cup {m.call}
              /\ UNCHANGED retryQueue
        /\ UNCHANGED <<config, consumer, executeQueue, deadQueue, store,
                       served, redeliveries>>

\* PersistSuccessAsync and PersistFailureAsync: insert the audit row, ...
AppendAudit(p) ==
    /\ pc[p] = "audit"
    /\ audited' = audited \cup {RowOf(p)}
    /\ auditCount' = [auditCount EXCEPT ![ServiceOfJob(p)] = @ + 1]
    /\ Goto(p, "read")
    /\ UNCHANGED <<config, consumer, job, queues, status, history,
                   redeliveries, faults>>

\* ... read the status document, ...
GetStatus(p) ==
    /\ pc[p] = "read"
    /\ job' = [job EXCEPT ![p].previous = status[ServiceOfJob(p)]]
    /\ Goto(p, "write")
    /\ UNCHANGED <<config, consumer, queues, store, history,
                   redeliveries, faults>>

\* Mutant of StatusAfterSuccess: the incident is not closed.
StatusAfterSuccessKeepsIncident(previous) ==
    [previous EXCEPT !.state = "operational", !.streak = 0, !.requests = @ + 1]

\* Mutant of StatusAfterSuccess: the failures of the chain are counted again.
StatusAfterSuccessRecounts(previous) ==
    [previous EXCEPT !.state = "operational", !.incident = FALSE, !.streak = 0,
                     !.requests = @ + 1 + previous.streak]

\* ... and replace it by what follows from the one read.
StatusAfterSuccess(previous) ==
    [state    |-> "operational",
     incident |-> FALSE,
     streak   |-> 0,
     requests |-> previous.requests + 1,
     failures |-> previous.failures]

StatusAfterFailure(previous, m, queued) ==
    LET streak == previous.streak + 1
    IN  [state    |-> IF streak >= 2 \/ (~queued /\ m.attempt >= m.max)
                      THEN "outage" ELSE "degraded",
         incident |-> TRUE,
         streak   |-> streak,
         requests |-> previous.requests + 1,
         failures |-> previous.failures + 1]

NextStatus(p) ==
    IF job[p].succeeded THEN StatusAfterSuccess(job[p].previous)
    ELSE StatusAfterFailure(job[p].previous, job[p].msg, job[p].queued)

\* The attempt failed and nothing was queued for it.
NeedsDeadLetter(p) == ~job[p].succeeded /\ ~job[p].queued

\* A call then returns its value or rethrows; a handler acknowledges, or dead
\* letters first.
UpsertStatus(p) ==
    /\ pc[p] = "write"
    /\ status' = [status EXCEPT ![ServiceOfJob(p)] = NextStatus(p)]
    /\ \/ /\ p \in Calls
          /\ Finish(p, IF job[p].succeeded THEN "returned" ELSE "rethrown")
       \/ /\ p \in Handlers
          /\ Goto(p, IF NeedsDeadLetter(p) THEN "deadletter" ELSE "ack")
          /\ UNCHANGED job
    /\ UNCHANGED <<config, consumer, queues, audited, auditCount, history,
                   redeliveries, faults>>

\* A store operation throws. The exception leaves ExecuteAsync, or is logged
\* by the consumer, which acknowledges the message all the same. The last
\* write may have been applied.
StoreFails(p) ==
    /\ pc[p] \in {"audit", "read", "write"}
    /\ Fault("store")
    /\ \/ UNCHANGED status
       \/ /\ pc[p] = "write"
          /\ status' = [status EXCEPT ![ServiceOfJob(p)] = NextStatus(p)]
    /\ \/ /\ p \in Calls
          /\ Finish(p, "aborted")
          /\ UNCHANGED lost
       \/ /\ p \in Handlers
          /\ Goto(p, "ack")
          /\ UNCHANGED job
          /\ lost' = IF NeedsDeadLetter(p) THEN lost \cup {job[p].msg.call} ELSE lost
    /\ UNCHANGED <<config, consumer, queues, audited, auditCount,
                   promised, served, redeliveries>>

\* PublishDeadLetterAsync swallows its own exceptions.
PublishDeadLetter(h) ==
    /\ pc[h] = "deadletter"
    /\ Goto(h, "ack")
    /\ \/ /\ deadQueue' = deadQueue \cup {job[h].msg}
          /\ UNCHANGED <<lost, faults>>
       \/ /\ Fault("publish")
          /\ lost' = lost \cup {job[h].msg.call}
          /\ UNCHANGED deadQueue
    /\ UNCHANGED <<config, consumer, job, retryQueue, executeQueue, store,
                   promised, served, redeliveries>>

-----------------------------------------------------------------------------

Init ==
    /\ config \in Configs
    /\ consumer = "starting"
    /\ pc = [p \in Procs |-> "idle"]
    /\ job = [p \in Procs |-> NoJob]
    /\ retryQueue = <<>>
    /\ executeQueue = <<>>
    /\ deadQueue = {}
    /\ audited = {}
    /\ auditCount = [s \in Services |-> 0]
    /\ status = [s \in Services |-> NoStatus]
    /\ promised = [c \in Calls |-> 0]
    /\ served = {}
    /\ lost = {}
    /\ redeliveries = 0
    /\ faults = 0

Step(p) ==
    \/ TryExecuteOperation(p)
    \/ ScheduleNextAttempt(p)
    \/ AppendAudit(p)
    \/ GetStatus(p)
    \/ UpsertStatus(p)

Next ==
    \/ StartConsumer
    \/ Crash
    \/ Restart
    \/ DropConnection
    \/ Expire
    \/ \E c \in Calls : ExecuteAsync(c) \/ CallerCancels(c)
    \/ \E h \in Handlers : Deliver(h) \/ PublishDeadLetter(h) \/ Ack(h)
    \/ \E p \in Procs : Step(p) \/ StoreFails(p)

Spec == Init /\ [][Next]_vars

\* A delay passes, a started process starts its consumer and is restarted when
\* it is down, the broker delivers what a consumer asks for, and a handler that
\* has a message finishes it: no await of it is without a timeout or an error.
Fairness ==
    /\ WF_vars(StartConsumer)
    /\ WF_vars(Restart)
    /\ WF_vars(Expire)
    /\ WF_vars(\E h \in Handlers : Deliver(h))
    /\ \A h \in Handlers :
           WF_vars(Step(h) \/ PublishDeadLetter(h) \/ Ack(h))

FairSpec == Spec /\ Fairness

-----------------------------------------------------------------------------
(* What must hold                                                          *)

QueuedMessages(q) == {q[i] : i \in DOMAIN q}

\* Every variable has its type, and a busy process has a job.
TypeOK ==
    /\ config \in Configs
    /\ consumer \in {"starting", "listening", "stopped", "disabled", "down"}
    /\ pc \in [Procs -> {"idle"} \cup Awaiting \cup Ends]
    /\ job \in [Procs -> Job \cup {NoJob}]
    /\ \A p \in Procs : Busy(p) => job[p] \in Job
    /\ retryQueue \in Seq(Message)
    /\ executeQueue \in Seq(Message)
    /\ deadQueue \subseteq Message
    /\ audited \subseteq Row
    /\ auditCount \in [Services -> Nat]
    /\ status \in [Services -> Status]
    /\ promised \in [Calls -> Nat]
    /\ served \subseteq Calls
    /\ lost \subseteq Calls
    /\ redeliveries \in Nat
    /\ faults \in Nat

\* No chain of retries runs past the limit it was started with, whatever the
\* service is redeployed with meanwhile: every message in a queue or with a
\* handler is a later attempt than the first and none exceeds its own limit.
AttemptsBounded ==
    /\ \A m \in QueuedMessages(retryQueue) \cup QueuedMessages(executeQueue)
                 \cup deadQueue \cup {job[h].msg : h \in {g \in Handlers : Busy(g)}} :
          2 <= m.attempt /\ m.attempt <= m.max
    /\ \A p \in Procs : Busy(p) /\ job[p].queued => job[p].msg.attempt < job[p].msg.max

\* A handler still has to do something for its message: nothing that outlives
\* the handler stands for the call yet.
Holds(h, c) ==
    /\ Busy(h)
    /\ job[h].msg.call = c
    /\ ~job[h].succeeded
    /\ ~job[h].queued
    /\ pc[h] # "ack"

Live(c) ==
    \/ \E m \in QueuedMessages(retryQueue) \cup QueuedMessages(executeQueue) : m.call = c
    \/ \E h \in Handlers : Holds(h, c)

DeadLettered(c) == \E m \in deadQueue : m.call = c

\* A call whose retry was reported as queued is never silently forgotten: it is
\* still in a queue or in a handler's hands, or an attempt of it succeeded, or
\* it is in the dead-letter queue, or it was given up at one of the points
\* where the code gives up (lost). Crashes, redeliveries and void
\* acknowledgements do not break this.
NoSilentLoss ==
    \A c \in Calls : promised[c] > 0 =>
        Live(c) \/ c \in served \/ DeadLettered(c) \/ c \in lost

\* How many independent chains of attempts a call has.
InQueue(q, c) == Cardinality({i \in DOMAIN q : q[i].call = c})

Chains(c) == InQueue(retryQueue, c) + InQueue(executeQueue, c)
             + Cardinality({h \in Handlers : Holds(h, c)})

\* A call has at most one chain of attempts, and one more for each delivery the
\* broker had to repeat: the pipeline itself never forks a chain.
ForksOnlyByRedelivery ==
    \A c \in Calls : Chains(c) <= 1 + redeliveries

\* The audit log and the queue agree. A row says "queued" only for an attempt
\* whose successor was promised, and "succeeded" only for a call that was
\* served; unless a delivery was repeated, "failed" means that no later attempt
\* was promised, and no attempt has two outcomes.
AuditMatchesQueue ==
    /\ \A r \in audited :
          /\ r.outcome = "failed_queued" => promised[r.call] > r.attempt
          /\ r.outcome = "succeeded" => r.call \in served
    /\ redeliveries = 0 =>
          /\ \A r \in audited : r.outcome = "failed" => promised[r.call] <= r.attempt
          /\ \A r1, r2 \in audited :
                r1.call = r2.call /\ r1.attempt = r2.attempt => r1 = r2

\* A message in the dead-letter queue is explained by the audit log, which has a
\* failed attempt without a successor for it; and it is the last attempt unless
\* publishing the next one failed or a redeployment switched retries off.
DeadLetterExplained ==
    \A m \in deadQueue :
        /\ [call |-> m.call, attempt |-> m.attempt, outcome |-> "failed"] \in audited
        /\ m.attempt >= m.max \/ faults > 0

\* The public status document never claims more requests than the audit log
\* can show, however the read-modify-write cycles of different processes
\* overlap; overlapping cycles only lose counts.
StatusNeverOvercounts ==
    \A s \in Services : status[s].requests <= auditCount[s]

\* The fields of one status document agree with each other although several
\* processes compute them from snapshots they read earlier.
Coherent(doc) ==
    /\ doc.streak <= doc.failures
    /\ doc.failures <= doc.requests
    /\ doc.incident <=> doc.streak > 0
    /\ doc.incident <=> doc.state \in {"degraded", "outage"}
    /\ doc.streak >= 2 => doc.state = "outage"

StatusCoherent == \A s \in Services : Coherent(status[s])

\* A caller that gets the service's value or the service's own error has its
\* attempt in the audit log with that outcome, and a retry said to be queued
\* was promised. Any other exception tells the caller nothing of the service.
CallerOutcomeAudited ==
    \A c \in Calls :
        /\ pc[c] = "returned" => \E r \in audited :
              r.call = c /\ r.attempt = 1 /\ r.outcome = "succeeded"
        /\ pc[c] = "rethrown" => \E r \in audited :
              r.call = c /\ r.attempt = 1 /\ r.outcome # "succeeded"

\* The state of the contract that a state of the pipeline stands for.
Fate == [c \in Calls |->
           IF promised[c] = 0 THEN "none"
           ELSE IF c \in served THEN "served"
           ELSE IF DeadLettered(c) THEN "dead"
           ELSE IF c \in lost THEN "lost"
           ELSE "open"]

Contract == INSTANCE RetryContract WITH
                granted <- promised, fate <- Fate, repeated <- redeliveries > 0,
                Limit <- CHOOSE n \in {k.maxAttempts : k \in Configs} :
                             \A k \in Configs : k.maxAttempts <= n

\* The pipeline implements the contract, whatever is redeployed or fails: until
\* the broker repeats a delivery, a chain is granted one attempt at a time and
\* ends at most once.
ImplementsContract == Contract!Spec

\* A promised retry is served, dead-lettered or given up, unless the consumer
\* never came to listen again.
EveryRetrySettles ==
    \A c \in Calls :
        (Fate[c] = "open") ~> (Fate[c] # "open" \/ consumer \in {"stopped", "disabled"})

\* What is on record of the attempts agrees with what became of them: the audit log
\* with the queue, and the dead letters with the limits and the redeployments.
LogsExplainQueue == TypeOK /\ AuditMatchesQueue /\ DeadLetterExplained

=============================================================================
