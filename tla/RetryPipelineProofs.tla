------------------------- MODULE RetryPipelineProofs -------------------------
(***************************************************************************)
(* Theorems about RetryPipeline, for every number of calls, handlers,      *)
(* services, attempts and faults, and that it implements RetryContract.    *)
(***************************************************************************)
EXTENDS RetryPipeline, FiniteSetTheorems, TLAPS

\* What the queue operations do to a queue's type and contents.
LEMMA QueueAppend ==
    ASSUME NEW S, NEW q \in Seq(S), NEW m \in S
    PROVE  /\ Append(q, m) \in Seq(S)
           /\ QueuedMessages(Append(q, m)) = QueuedMessages(q) \cup {m}
<1>1. Append(q, m) \in Seq(S)
  OBVIOUS
<1>2. DOMAIN Append(q, m) = DOMAIN q \cup {Len(q) + 1}
  OBVIOUS
<1>3. /\ \A i \in DOMAIN q : Append(q, m)[i] = q[i]
      /\ Append(q, m)[Len(q) + 1] = m
  OBVIOUS
<1>4. QED
  BY <1>1, <1>2, <1>3 DEF QueuedMessages

LEMMA QueueTail ==
    ASSUME NEW S, NEW q \in Seq(S), q # <<>>
    PROVE  /\ Head(q) \in S
           /\ Tail(q) \in Seq(S)
           /\ QueuedMessages(q) = {Head(q)} \cup QueuedMessages(Tail(q))
<1>1. /\ Head(q) \in S /\ Tail(q) \in Seq(S)
      /\ Len(q) \in Nat \ {0} /\ Len(Tail(q)) = Len(q) - 1
      /\ Head(q) = q[1]
      /\ \A i \in 1 .. Len(q) - 1 : Tail(q)[i] = q[i + 1]
  OBVIOUS
<1>2. ASSUME NEW i \in DOMAIN q
      PROVE  q[i] \in {Head(q)} \cup QueuedMessages(Tail(q))
  <2>1. CASE i = 1
    BY <1>1, <2>1
  <2>2. CASE i # 1
    <3>1. /\ i - 1 \in DOMAIN Tail(q)
          /\ Tail(q)[i - 1] = q[i]
      BY <1>1, <2>2
    <3>2. QED
      BY <3>1 DEF QueuedMessages
  <2>3. QED
    BY <2>1, <2>2
<1>3. ASSUME NEW i \in DOMAIN Tail(q)
      PROVE  Tail(q)[i] \in QueuedMessages(q)
  <2>1. /\ i + 1 \in DOMAIN q
        /\ Tail(q)[i] = q[i + 1]
    BY <1>1
  <2>2. QED
    BY <2>1 DEF QueuedMessages
<1>4. Head(q) \in QueuedMessages(q)
  <2>1. 1 \in DOMAIN q /\ q[1] = Head(q)
    BY <1>1
  <2>2. QED
    BY <2>1 DEF QueuedMessages
<1>5. QED
  BY <1>1, <1>2, <1>3, <1>4 DEF QueuedMessages

LEMMA QueuePrepend ==
    ASSUME NEW S, NEW q \in Seq(S), NEW m \in S
    PROVE  /\ <<m>> \o q \in Seq(S)
           /\ QueuedMessages(<<m>> \o q) = {m} \cup QueuedMessages(q)
<1> DEFINE r == <<m>> \o q
<1>1. /\ r \in Seq(S)
      /\ Len(r) = Len(q) + 1
      /\ r[1] = m
      /\ \A i \in 1 .. Len(q) : r[i + 1] = q[i]
  OBVIOUS
<1>2. ASSUME NEW i \in DOMAIN r
      PROVE  r[i] \in {m} \cup QueuedMessages(q)
  <2>1. CASE i = 1
    BY <1>1, <2>1
  <2>2. CASE i # 1
    <3>1. /\ i - 1 \in DOMAIN q
          /\ q[i - 1] = r[i]
      BY <1>1, <2>2
    <3>2. QED
      BY <3>1 DEF QueuedMessages
  <2>3. QED
    BY <2>1, <2>2
<1>3. ASSUME NEW i \in DOMAIN q
      PROVE  q[i] \in QueuedMessages(r)
  <2>1. /\ i + 1 \in DOMAIN r
        /\ r[i + 1] = q[i]
    BY <1>1
  <2>2. QED
    BY <2>1 DEF QueuedMessages
<1>4. m \in QueuedMessages(r)
  <2>1. 1 \in DOMAIN r /\ r[1] = m
    BY <1>1
  <2>2. QED
    BY <2>1 DEF QueuedMessages
<1>5. QED
  BY <1>1, <1>2, <1>3, <1>4 DEF QueuedMessages

-----------------------------------------------------------------------------
(* Type correctness                                                        *)

LEMMA JobTypes ==
    /\ NoStatus \in Status
    /\ \A m \in Message : NewJob(m) \in Job
BY DEF NoStatus, Status, NewJob, Job

\* The messages a job can give rise to.
LEMMA NextMessageType ==
    ASSUME NEW m \in Message, m.attempt < m.max
    PROVE  /\ NextMessage(m) \in Message
           /\ NextMessage(m).call = m.call
BY DEF NextMessage, Message

LEMMA NextStatusType ==
    ASSUME NEW p, job[p] \in Job
    PROVE  NextStatus(p) \in Status
<1>1. /\ job[p].previous \in Status
      /\ job[p].msg \in Message
      /\ job[p].queued \in BOOLEAN
      /\ job[p].succeeded \in BOOLEAN
  BY DEF Job
<1>2. StatusAfterSuccess(job[p].previous) \in Status
  BY <1>1 DEF StatusAfterSuccess, Status
<1>3. StatusAfterFailure(job[p].previous, job[p].msg, job[p].queued) \in Status
  BY <1>1 DEF StatusAfterFailure, Status, Message
<1>4. QED
  BY <1>2, <1>3 DEF NextStatus

LEMMA UnackedMessage ==
    ASSUME TypeOK, Unacked # {}
    PROVE  /\ (CHOOSE h \in Unacked : TRUE) \in Unacked
           /\ job[CHOOSE h \in Unacked : TRUE].msg \in Message
<1>1. (CHOOSE h \in Unacked : TRUE) \in Unacked
  OBVIOUS
<1>2. \A h \in Unacked : job[h] \in Job
  BY DEF TypeOK, Unacked, Procs
<1>3. QED
  BY <1>1, <1>2 DEF Job

LEMMA RequeuedType ==
    ASSUME TypeOK
    PROVE  Requeued \in Seq(Message)
<1>1. CASE Unacked = {}
  BY <1>1 DEF Requeued, TypeOK
<1>2. CASE Unacked # {}
  <2>1. executeQueue \in Seq(Message)
    BY DEF TypeOK
  <2>2. QED
    BY <1>2, <2>1, UnackedMessage, QueuePrepend DEF Requeued
<1>3. QED
  BY <1>1, <1>2

\* Control and locals stay typed when a process goes on or ends.
ControlOK ==
    /\ pc \in [Procs -> {"idle"} \cup Awaiting \cup Ends]
    /\ job \in [Procs -> Job \cup {NoJob}]
    /\ \A p \in Procs : Busy(p) => job[p] \in Job

LEMMA FinishTypes ==
    ASSUME TypeOK, NEW p \in Procs, NEW end \in {"idle"} \cup Ends, Finish(p, end)
    PROVE  ControlOK'
BY DEF TypeOK, ControlOK, Finish, Busy, Awaiting, Ends

LEMMA GotoTypes ==
    ASSUME TypeOK, NEW p \in Procs, NEW step \in Awaiting, Goto(p, step),
           NEW j \in Job, job' = [job EXCEPT ![p] = j]
    PROVE  ControlOK'
BY DEF TypeOK, ControlOK, Goto, Busy, Awaiting

LEMMA GotoSameJobTypes ==
    ASSUME TypeOK, NEW p \in Procs, NEW step \in Awaiting, Goto(p, step),
           Busy(p), UNCHANGED job
    PROVE  ControlOK'
BY DEF TypeOK, ControlOK, Goto, Busy, Awaiting

\* Every variable keeps its type, and a busy process has a job.
THEOREM TypeCorrect == Spec => []TypeOK
<1>1. Init => TypeOK
  BY ConstantsAssumption, JobTypes
     DEF Init, TypeOK, Procs, Busy, Awaiting, Config
<1>2. TypeOK /\ [Next]_vars => TypeOK'
  <2> SUFFICES ASSUME TypeOK, [Next]_vars
               PROVE  TypeOK'
    OBVIOUS
  <2> USE ConstantsAssumption
  <2>1. CASE StartConsumer
    BY <2>1 DEF StartConsumer, Fault, TypeOK, queues, store, history, Busy
  <2>2. CASE Crash
    <3>1. redeliveries' \in Nat
      <4>1. IsFiniteSet(Unacked)
        BY FS_Subset DEF Unacked
      <4>2. QED
        BY <2>2, <4>1, FS_CardinalityType DEF Crash, TypeOK
    <3>2. executeQueue' \in Seq(Message)
      BY <2>2, RequeuedType DEF Crash
    <3>3. QED
      BY <2>2, <3>1, <3>2
         DEF Crash, Fault, TypeOK, store, history, Busy, Awaiting, Ends, Procs
  <2>3. CASE Restart
    BY <2>3 DEF Restart, TypeOK, queues, store, history, Busy
  <2>4. CASE DropConnection
    <3>1. redeliveries' \in Nat
      <4>1. IsFiniteSet(Unacked)
        BY FS_Subset DEF Unacked
      <4>2. QED
        BY <2>4, <4>1, FS_CardinalityType DEF DropConnection, TypeOK
    <3>2. executeQueue' \in Seq(Message)
      BY <2>4, RequeuedType DEF DropConnection
    <3>3. \A p \in Unacked : [job[p] EXCEPT !.acked = TRUE] \in Job
      BY DEF Unacked, TypeOK, Job, Procs
    <3>4. /\ job' \in [Procs -> Job \cup {NoJob}]
          /\ \A p \in Procs : Busy(p)' => job'[p] \in Job
      BY <2>4, <3>3 DEF DropConnection, TypeOK, Busy
    <3>5. QED
      BY <2>4, <3>1, <3>2, <3>4
         DEF DropConnection, Fault, TypeOK, store, history, Busy
  <2>5. CASE Expire
    <3>1. /\ retryQueue' \in Seq(Message)
          /\ executeQueue' \in Seq(Message)
      BY <2>5, QueueTail, QueueAppend DEF Expire, TypeOK
    <3>2. QED
      BY <2>5, <3>1 DEF Expire, TypeOK, store, history, Busy
  <2>6. ASSUME NEW c \in Calls, ExecuteAsync(c)
        PROVE  TypeOK'
    <3>1. [call |-> c, attempt |-> 1, max |-> config.maxAttempts] \in Message
      BY DEF TypeOK, Message, Config
    <3>2. NewJob([call |-> c, attempt |-> 1, max |-> config.maxAttempts]) \in Job
      BY <3>1, JobTypes
    <3>3. c \in Procs
      BY DEF Procs
    <3>4. ControlOK'
      <4>1. CASE Finish(c, "bypassed")
        BY <4>1, <3>3, FinishTypes DEF Ends
      <4>2. CASE ~Finish(c, "bypassed")
        BY <2>6, <4>2, <3>2, <3>3, GotoTypes DEF ExecuteAsync, Awaiting
      <4>3. QED
        BY <4>1, <4>2
    <3>5. QED
      BY <2>6, <3>4 DEF ExecuteAsync, ControlOK, TypeOK, queues, store, history
  <2>7. ASSUME NEW c \in Calls, CallerCancels(c)
        PROVE  TypeOK'
    BY <2>7 DEF CallerCancels, Finish, TypeOK, queues, store, history,
                Busy, Awaiting, Ends, Procs
  <2>8. ASSUME NEW h \in Handlers, Deliver(h)
        PROVE  TypeOK'
    <3>1. /\ Head(executeQueue) \in Message
          /\ executeQueue' \in Seq(Message)
      BY <2>8, QueueTail DEF Deliver, TypeOK
    <3>2. NewJob(Head(executeQueue)) \in Job
      BY <3>1, JobTypes
    <3>3. Head(executeQueue).call \in Calls
      BY <3>1 DEF Message
    <3>4. QED
      BY <2>8, <3>1, <3>2, <3>3
         DEF Deliver, Goto, TypeOK, store, Busy, Awaiting, Ends, Procs
  <2>9. ASSUME NEW h \in Handlers, PublishDeadLetter(h)
        PROVE  TypeOK'
    <3>1. job[h].msg \in Message /\ job[h].msg.call \in Calls
      BY <2>9 DEF PublishDeadLetter, TypeOK, Busy, Awaiting, Job, Message, Procs
    <3>2. QED
      BY <2>9, <3>1 DEF PublishDeadLetter, Fault, Goto, TypeOK, store, Busy,
                        Awaiting, Ends, Procs
  <2>10. ASSUME NEW h \in Handlers, Ack(h)
         PROVE  TypeOK'
    BY <2>10 DEF Ack, Finish, TypeOK, queues, store, history,
                 Busy, Awaiting, Ends, Procs
  <2>11. ASSUME NEW p \in Procs, Busy(p)
         PROVE  /\ job[p] \in Job
                /\ job[p].msg \in Message
                /\ job[p].msg.call \in Calls
                /\ job[p].msg.attempt \in Nat \ {0}
                /\ ServiceOfJob(p) \in Services
                /\ RowOf(p) \in Row
    BY <2>11 DEF TypeOK, Job, Message, ServiceOfJob, RowOf, Row, Outcomes
  <2>12. ASSUME NEW p \in Procs, TryExecuteOperation(p)
         PROVE  TypeOK'
    <3>1. Busy(p)
      BY <2>12 DEF TryExecuteOperation, Busy, Awaiting
    <3>2. [job[p] EXCEPT !.succeeded = TRUE] \in Job
      BY <3>1, <2>11 DEF Job
    <3>3. QED
      BY ZenonT(60), <2>12, <2>11, <3>1, <3>2
         DEF TryExecuteOperation, Goto, TypeOK, queues, store,
             Busy, Awaiting, Ends
  <2>13. ASSUME NEW p \in Procs, ScheduleNextAttempt(p)
         PROVE  TypeOK'
    <3>1. Busy(p)
      BY <2>13 DEF ScheduleNextAttempt, Busy, Awaiting
    <3>2. [job[p] EXCEPT !.queued = TRUE] \in Job
      BY <3>1, <2>11 DEF Job
    <3>3. MayRetry(job[p].msg) =>
            Append(retryQueue, NextMessage(job[p].msg)) \in Seq(Message)
      BY <3>1, <2>11, NextMessageType, QueueAppend DEF MayRetry, TypeOK
    <3>4. retryQueue' \in Seq(Message)
      BY <2>13, <3>3 DEF ScheduleNextAttempt, TypeOK
    <3>5. promised' \in [Calls -> Nat]
      <4>1. job[p].msg.call \in Calls /\ job[p].msg.attempt + 1 \in Nat
        BY <2>11, <3>1
      <4>2. NextMessage(job[p].msg).call = job[p].msg.call
            /\ NextMessage(job[p].msg).attempt = job[p].msg.attempt + 1
        BY <2>11, <3>1 DEF NextMessage, Message
      <4>3. \/ UNCHANGED promised
            \/ \E n \in Nat : promised' = [promised EXCEPT ![job[p].msg.call] = n]
        BY <2>13, <4>1, <4>2 DEF ScheduleNextAttempt, ReportQueued, TypeOK
      <4>4. QED
        BY <4>1, <4>3 DEF TypeOK
    <3>6. ControlOK'
      <4>1. Goto(p, "audit") /\ "audit" \in Awaiting
        BY <2>13 DEF ScheduleNextAttempt, Awaiting
      <4>2. \/ UNCHANGED job
            \/ job' = [job EXCEPT ![p] = [job[p] EXCEPT !.queued = TRUE]]
        BY <2>13, <3>1, <2>11 DEF ScheduleNextAttempt, ReportQueued, TypeOK
      <4>3. CASE UNCHANGED job
        BY <3>1, <4>1, <4>3, GotoSameJobTypes
      <4>4. CASE job' = [job EXCEPT ![p] = [job[p] EXCEPT !.queued = TRUE]]
        BY <3>2, <4>1, <4>4, GotoTypes
      <4>5. QED
        BY <4>2, <4>3, <4>4
    <3>7. /\ lost' \subseteq Calls
          /\ faults' \in Nat
      <4>1. /\ lost' = lost \/ lost' = lost \cup {job[p].msg.call}
            /\ faults' = faults \/ faults' = faults + 1
        BY <2>13 DEF ScheduleNextAttempt, Fault
      <4>2. job[p].msg.call \in Calls
        BY <2>11, <3>1
      <4>3. lost \subseteq Calls /\ faults \in Nat
        BY DEF TypeOK
      <4>4. QED
        BY <4>1, <4>2, <4>3
    <3>8. QED
      BY <2>13, <3>4, <3>5, <3>6, <3>7
         DEF ScheduleNextAttempt, ControlOK, TypeOK, store
  <2>14. ASSUME NEW p \in Procs, AppendAudit(p)
         PROVE  TypeOK'
    <3>1. Busy(p)
      BY <2>14 DEF AppendAudit, Busy, Awaiting
    <3>2. QED
      BY <2>14, <2>11, <3>1
         DEF AppendAudit, Goto, TypeOK, queues, history, Busy, Awaiting, Ends
  <2>15. ASSUME NEW p \in Procs, GetStatus(p)
         PROVE  TypeOK'
    <3>1. Busy(p)
      BY <2>15 DEF GetStatus, Busy, Awaiting
    <3>2. [job[p] EXCEPT !.previous = status[ServiceOfJob(p)]] \in Job
      BY <3>1, <2>11 DEF Job, TypeOK
    <3>3. QED
      BY <2>15, <2>11, <3>1, <3>2
         DEF GetStatus, Goto, TypeOK, queues, store, history, Busy, Awaiting, Ends
  <2>16. ASSUME NEW p \in Procs, UpsertStatus(p)
         PROVE  TypeOK'
    <3>1. Busy(p)
      BY <2>16 DEF UpsertStatus, Busy, Awaiting
    <3>2. NextStatus(p) \in Status
      BY <3>1, <2>11, NextStatusType
    <3>3. QED
      BY ZenonT(60), <2>16, <2>11, <3>1, <3>2
         DEF UpsertStatus, Goto, Finish, TypeOK, queues, history,
             Busy, Awaiting, Ends
  <2>17. ASSUME NEW p \in Procs, StoreFails(p)
         PROVE  TypeOK'
    <3>1. Busy(p)
      BY <2>17 DEF StoreFails, Busy, Awaiting
    <3>2. NextStatus(p) \in Status
      BY <3>1, <2>11, NextStatusType
    <3>3. ControlOK'
      <4>1. CASE Finish(p, "aborted")
        BY <4>1, FinishTypes DEF Ends
      <4>2. CASE ~Finish(p, "aborted")
        BY <2>17, <4>2, <3>1, GotoSameJobTypes DEF StoreFails, Awaiting
      <4>3. QED
        BY <4>1, <4>2
    <3>4. lost' \subseteq Calls
      <4>1. lost' = lost \/ lost' = lost \cup {job[p].msg.call}
        BY <2>17 DEF StoreFails
      <4>2. job[p].msg.call \in Calls
        BY <2>11, <3>1
      <4>3. lost \subseteq Calls
        BY DEF TypeOK
      <4>4. QED
        BY <4>1, <4>2, <4>3
    <3>5. status' \in [Services -> Status]
      BY <2>17, <3>2 DEF StoreFails, TypeOK
    <3>6. faults' \in Nat
      BY <2>17 DEF StoreFails, Fault, TypeOK
    <3>7. QED
      BY <2>17, <3>3, <3>4, <3>5, <3>6 DEF StoreFails, ControlOK, TypeOK, queues
  <2>18. CASE UNCHANGED vars
    BY <2>18 DEF vars, TypeOK, queues, store, history, Busy
  <2>19. QED
    BY <2>1, <2>2, <2>3, <2>4, <2>5, <2>6, <2>7, <2>8, <2>9, <2>10, <2>12,
       <2>13, <2>14, <2>15, <2>16, <2>17, <2>18 DEF Next, Step
<1>3. QED
  BY <1>1, <1>2, PTL DEF Spec

-----------------------------------------------------------------------------
(* The status document                                                     *)

LEMMA NextStatusCoherent ==
    ASSUME NEW p, job[p] \in Job, Coherent(job[p].previous)
    PROVE  Coherent(NextStatus(p))
<1>1. /\ job[p].previous \in Status
      /\ job[p].msg.attempt \in Nat /\ job[p].msg.max \in Nat
      /\ job[p].queued \in BOOLEAN
  BY DEF Job, Message
<1>2. Coherent(StatusAfterSuccess(job[p].previous))
  BY <1>1 DEF StatusAfterSuccess, Coherent, Status
<1>3. Coherent(StatusAfterFailure(job[p].previous, job[p].msg, job[p].queued))
  BY <1>1 DEF StatusAfterFailure, Coherent, Status
<1>4. QED
  BY <1>2, <1>3 DEF NextStatus

\* A stored document is coherent, and so is every snapshot of one that a
\* process still computes with, however old it is.
CoherentInv ==
    /\ StatusCoherent
    /\ \A p \in Procs : Coherent(job[p].previous)

\* Stale snapshots never make a status document contradict itself.
THEOREM StatusStaysCoherent == Spec => []StatusCoherent
<1>1. Init => CoherentInv
  BY DEF Init, CoherentInv, StatusCoherent, Coherent, NoStatus, NoJob, NewJob
<1>2. TypeOK /\ CoherentInv /\ [Next]_vars => CoherentInv'
  <2> SUFFICES ASSUME TypeOK, CoherentInv, [Next]_vars
               PROVE  CoherentInv'
    OBVIOUS
  <2>1. \A m : Coherent(NewJob(m).previous)
    BY DEF NewJob, Coherent, NoStatus
  <2>2. Coherent(NoJob.previous)
    BY <2>1 DEF NoJob
  <2>3. ASSUME NEW p \in Procs, Busy(p)
        PROVE  /\ job[p] \in Job
               /\ Coherent(NextStatus(p))
               /\ ServiceOfJob(p) \in Services
    <3>1. job[p] \in Job
      BY <2>3 DEF TypeOK
    <3>2. job[p].msg.call \in Calls
      BY <3>1 DEF Job, Message
    <3>3. QED
      BY <3>1, <3>2, NextStatusCoherent, ConstantsAssumption
         DEF CoherentInv, ServiceOfJob
  <2>4. ASSUME UNCHANGED job, UNCHANGED status
        PROVE  CoherentInv'
    BY <2>4 DEF CoherentInv, StatusCoherent
  <2>5. ASSUME NEW p \in Procs, UNCHANGED job \/ job' = [job EXCEPT ![p] = NoJob],
               Busy(p),
               UNCHANGED status
                 \/ status' = [status EXCEPT ![ServiceOfJob(p)] = NextStatus(p)]
        PROVE  CoherentInv'
    <3>1. \A q \in Procs : Coherent(job[q].previous)'
      BY <2>5, <2>2 DEF CoherentInv, TypeOK
    <3>2. StatusCoherent'
      BY <2>5, <2>3 DEF CoherentInv, StatusCoherent, TypeOK
    <3>3. QED
      BY <3>1, <3>2 DEF CoherentInv
  <2>6. CASE Crash
    BY <2>6, <2>2 DEF Crash, CoherentInv, StatusCoherent, store
  <2>7. CASE DropConnection
    <3>1. \A p \in Unacked : [job[p] EXCEPT !.acked = TRUE].previous = job[p].previous
      BY DEF Unacked, TypeOK, Procs, Job
    <3>2. QED
      BY <2>7, <3>1 DEF DropConnection, CoherentInv, StatusCoherent, store
  <2>8. CASE StartConsumer \/ Restart \/ Expire
    BY <2>8, <2>4 DEF StartConsumer, Restart, Expire, store
  <2>9. ASSUME NEW c \in Calls, ExecuteAsync(c) \/ CallerCancels(c)
        PROVE  CoherentInv'
    BY <2>9, <2>1, <2>2
       DEF ExecuteAsync, CallerCancels, Finish, CoherentInv, StatusCoherent, store, TypeOK
  <2>10. ASSUME NEW h \in Handlers, Deliver(h)
         PROVE  CoherentInv'
    BY <2>10, <2>1 DEF Deliver, CoherentInv, StatusCoherent, store, TypeOK
  <2>11. ASSUME NEW h \in Handlers, PublishDeadLetter(h) \/ Ack(h)
         PROVE  CoherentInv'
    BY <2>11, <2>2, <2>4
       DEF PublishDeadLetter, Ack, Finish, CoherentInv, StatusCoherent, store, TypeOK
  <2>12. ASSUME NEW p \in Procs, TryExecuteOperation(p)
         PROVE  CoherentInv'
    <3>1. [job[p] EXCEPT !.succeeded = TRUE].previous = job[p].previous
      BY <2>12, <2>3 DEF TryExecuteOperation, Busy, Awaiting, Job
    <3>2. QED
      BY <2>12, <3>1 DEF TryExecuteOperation, CoherentInv, StatusCoherent, store, TypeOK
  <2>13. ASSUME NEW p \in Procs, ScheduleNextAttempt(p)
         PROVE  CoherentInv'
    <3>1. [job[p] EXCEPT !.queued = TRUE].previous = job[p].previous
      BY <2>13, <2>3 DEF ScheduleNextAttempt, Busy, Awaiting, Job
    <3>2. \/ UNCHANGED job
          \/ job' = [job EXCEPT ![p] = [job[p] EXCEPT !.queued = TRUE]]
      BY <2>13, <2>3 DEF ScheduleNextAttempt, ReportQueued, TypeOK
    <3>3. QED
      BY <2>13, <3>1, <3>2 DEF ScheduleNextAttempt, CoherentInv, StatusCoherent, store, TypeOK
  <2>14. ASSUME NEW p \in Procs, AppendAudit(p)
         PROVE  CoherentInv'
    BY <2>14, <2>4 DEF AppendAudit
  <2>15. ASSUME NEW p \in Procs, GetStatus(p)
         PROVE  CoherentInv'
    <3>1. Busy(p) /\ Coherent(status[ServiceOfJob(p)])
      BY <2>15, <2>3 DEF GetStatus, Busy, Awaiting, CoherentInv, StatusCoherent
    <3>2. [job[p] EXCEPT !.previous = status[ServiceOfJob(p)]].previous
            = status[ServiceOfJob(p)]
      BY <3>1, <2>3 DEF Job
    <3>3. QED
      BY <2>15, <3>1, <3>2 DEF GetStatus, CoherentInv, StatusCoherent, store, TypeOK
  <2>16. ASSUME NEW p \in Procs, UpsertStatus(p) \/ StoreFails(p)
         PROVE  CoherentInv'
    <3>1. Busy(p)
      BY <2>16 DEF UpsertStatus, StoreFails, Busy, Awaiting
    <3>2. UNCHANGED job \/ job' = [job EXCEPT ![p] = NoJob]
      BY <2>16 DEF UpsertStatus, StoreFails, Finish
    <3>3. \/ UNCHANGED status
          \/ status' = [status EXCEPT ![ServiceOfJob(p)] = NextStatus(p)]
      BY <2>16 DEF UpsertStatus, StoreFails
    <3>4. QED
      BY <3>1, <3>2, <3>3, <2>5
  <2>17. CASE UNCHANGED vars
    BY <2>17, <2>4 DEF vars, store
  <2>18. QED
    BY <2>6, <2>7, <2>8, <2>9, <2>10, <2>11, <2>12, <2>13, <2>14, <2>15, <2>16,
       <2>17 DEF Next, Step
<1>3. CoherentInv => StatusCoherent
  BY DEF CoherentInv
<1>4. QED
  BY <1>1, <1>2, <1>3, TypeCorrect, PTL DEF Spec

-----------------------------------------------------------------------------
(* No promised retry is silently lost                                      *)

\* A crash takes every handler with it, and a handler whose connection dropped
\* leaves no message behind. So a call is only safe with a queue or with a
\* handler whose delivery the broker will repeat, and the broker can repeat it
\* because it has one unacknowledged delivery at most.
OneUnacked == \A h1, h2 \in Unacked : h1 = h2

InQueues(c) ==
    \E m \in QueuedMessages(retryQueue) \cup QueuedMessages(executeQueue) : m.call = c

FirmlyHeld(c) == InQueues(c) \/ \E h \in Unacked : Holds(h, c)

Accounted(c) == FirmlyHeld(c) \/ c \in served \/ DeadLettered(c) \/ c \in lost

LossInv ==
    /\ OneUnacked
    /\ \A c \in Calls : promised[c] > 0 => Accounted(c)

LEMMA LossInvSuffices == LossInv => NoSilentLoss
BY DEF LossInv, NoSilentLoss, Accounted, FirmlyHeld, InQueues, Live, Unacked

\* The front of the execute queue gets back what unacknowledged handlers hold.
LEMMA RequeuedHolds ==
    ASSUME TypeOK, OneUnacked
    PROVE  QueuedMessages(Requeued)
             = QueuedMessages(executeQueue) \cup {job[h].msg : h \in Unacked}
<1>1. CASE Unacked = {}
  BY <1>1 DEF Requeued
<1>2. CASE Unacked # {}
  <2> DEFINE u == CHOOSE h \in Unacked : TRUE
  <2>1. u \in Unacked /\ job[u].msg \in Message
    BY <1>2, UnackedMessage
  <2>2. {job[h].msg : h \in Unacked} = {job[u].msg}
    BY <2>1 DEF OneUnacked
  <2>3. Requeued = <<job[u].msg>> \o executeQueue
    BY <1>2 DEF Requeued
  <2>4. QueuedMessages(<<job[u].msg>> \o executeQueue)
          = {job[u].msg} \cup QueuedMessages(executeQueue)
    BY <2>1, QueuePrepend DEF TypeOK
  <2>5. QED
    BY <2>2, <2>3, <2>4
<1>3. QED
  BY <1>1, <1>2

\* A step of one process keeps every call accounted for if the queues and the
\* settled calls only grow, and what that process held it still holds or has
\* handed over.
LEMMA AccountedStep ==
    ASSUME TypeOK, LossInv, NEW p \in Procs,
           \A q \in Procs \ {p} : pc'[q] = pc[q] /\ job'[q] = job[q],
           Unacked' \subseteq Unacked,
           QueuedMessages(retryQueue) \subseteq QueuedMessages(retryQueue)',
           QueuedMessages(executeQueue) \subseteq QueuedMessages(executeQueue)',
           served \subseteq served', lost \subseteq lost', deadQueue \subseteq deadQueue',
           \A c \in Calls : p \in Unacked /\ Holds(p, c) =>
               (p \in Unacked /\ Holds(p, c))' \/ Accounted(c)',
           \A c \in Calls : promised'[c] > 0 => promised[c] > 0 \/ Accounted(c)'
    PROVE  LossInv'
<1>1. \A c \in Calls : InQueues(c) => InQueues(c)'
  BY DEF InQueues
<1>2. \A h \in Unacked \ {p} : h \in Unacked' /\ \A c : Holds(h, c) => Holds(h, c)'
  BY DEF Unacked, Holds, Busy, Procs
<1>3. \A c \in Calls : FirmlyHeld(c) => Accounted(c)'
  BY <1>1, <1>2 DEF FirmlyHeld, Accounted
<1>4. \A c \in Calls : Accounted(c) => Accounted(c)'
  BY <1>3 DEF Accounted, DeadLettered
<1>5. OneUnacked'
  BY DEF LossInv, OneUnacked
<1>6. QED
  BY <1>4, <1>5 DEF LossInv

LEMMA LossInvInit == Init => LossInv
BY DEF Init, LossInv, OneUnacked, Unacked, Busy, Awaiting, Procs

\* Steps of calls, of the process as a whole and of the broker.
LEMMA LossInvEnvironment ==
    ASSUME TypeOK, LossInv,
           \/ StartConsumer \/ Crash \/ Restart \/ DropConnection \/ Expire
           \/ \E c \in Calls : ExecuteAsync(c) \/ CallerCancels(c)
    PROVE  LossInv'
<1>1. CASE StartConsumer \/ Restart
  <2>1. /\ UNCHANGED <<pc, job, retryQueue, executeQueue, deadQueue>>
        /\ UNCHANGED <<promised, served, lost>>
    BY <1>1 DEF StartConsumer, Restart, queues, history
  <2>2. QED
    BY <2>1 DEF LossInv, OneUnacked, Accounted, FirmlyHeld, InQueues, DeadLettered,
                Unacked, Holds, Busy
<1>2. ASSUME Requeued = executeQueue', UNCHANGED <<retryQueue, deadQueue>>,
             UNCHANGED <<promised, served, lost>>, Unacked' = {}
      PROVE  LossInv'
  <2>1. QueuedMessages(executeQueue)'
          = QueuedMessages(executeQueue) \cup {job[h].msg : h \in Unacked}
    BY <1>2, RequeuedHolds DEF LossInv
  <2>2. \A c \in Calls : FirmlyHeld(c) => InQueues(c)'
    BY <1>2, <2>1 DEF FirmlyHeld, InQueues, Holds
  <2>3. QED
    BY <1>2, <2>2 DEF LossInv, OneUnacked, Accounted, FirmlyHeld, DeadLettered
<1>3. CASE Crash
  <2>1. Unacked' = {}
    BY <1>3 DEF Crash, Unacked, Busy, Awaiting, Procs
  <2>2. QED
    BY <1>2, <1>3, <2>1 DEF Crash, history
<1>4. CASE DropConnection
  <2>1. \A h \in Unacked : job'[h].acked = TRUE
    <3>1. \A h \in Unacked : h \in Procs /\ job[h] \in Job
      BY DEF Unacked, TypeOK, Procs
    <3>2. \A h \in Unacked : job'[h] = [job[h] EXCEPT !.acked = TRUE]
      BY <1>4, <3>1 DEF DropConnection
    <3>3. QED
      BY <3>1, <3>2 DEF Job
  <2>2. Unacked' = {}
    BY <1>4, <2>1 DEF DropConnection, Unacked, Busy, Procs
  <2>3. QED
    BY <1>2, <1>4, <2>2 DEF DropConnection, history
<1>5. CASE Expire
  <2>1. /\ Head(retryQueue) \in Message
        /\ QueuedMessages(retryQueue) = {Head(retryQueue)} \cup QueuedMessages(Tail(retryQueue))
    BY <1>5, QueueTail DEF Expire, TypeOK
  <2>2. QueuedMessages(Append(executeQueue, Head(retryQueue)))
          = QueuedMessages(executeQueue) \cup {Head(retryQueue)}
    BY <2>1, QueueAppend DEF TypeOK
  <2>3. QueuedMessages(retryQueue)' \cup QueuedMessages(executeQueue)'
          = QueuedMessages(retryQueue) \cup QueuedMessages(executeQueue)
    BY <1>5, <2>1, <2>2 DEF Expire
  <2>4. UNCHANGED <<pc, job, deadQueue, promised, served, lost>>
    BY <1>5 DEF Expire, history
  <2>5. QED
    BY <2>3, <2>4 DEF LossInv, OneUnacked, Accounted, FirmlyHeld, InQueues, DeadLettered,
                      Unacked, Holds, Busy
<1>6. ASSUME NEW c \in Calls, ExecuteAsync(c) \/ CallerCancels(c)
      PROVE  LossInv'
  <2>1. \A q \in Procs \ {c} : pc'[q] = pc[q] /\ job'[q] = job[q]
    BY <1>6 DEF ExecuteAsync, CallerCancels, Finish, Goto, TypeOK
  <2>2. c \in Procs /\ c \notin Handlers
    BY ConstantsAssumption DEF Procs
  <2>3. Unacked' = Unacked
    BY <2>1, <2>2 DEF Unacked, Busy, Procs
  <2>4. UNCHANGED <<retryQueue, executeQueue, deadQueue, promised, served, lost>>
    BY <1>6 DEF ExecuteAsync, CallerCancels, queues, history
  <2>5. c \notin Unacked
    BY <2>2 DEF Unacked
  <2>6. QED
    BY <2>1, <2>2, <2>3, <2>4, <2>5, AccountedStep
<1>7. QED
  BY <1>1, <1>3, <1>4, <1>5, <1>6

\* The broker hands the head of the execute queue to a handler.
LEMMA LossInvDeliver ==
    ASSUME TypeOK, LossInv, NEW h \in Handlers, Deliver(h)
    PROVE  LossInv'
<1>1. PICK m \in Message :
        /\ m = Head(executeQueue)
        /\ QueuedMessages(executeQueue) = {m} \cup QueuedMessages(executeQueue)'
  BY QueueTail DEF Deliver, TypeOK
<1>2. h \in Procs /\ m.call \in Calls
  BY <1>1 DEF Procs, Message
<1>3. /\ job' = [job EXCEPT ![h] = NewJob(m)]
      /\ Unacked = {}
      /\ UNCHANGED <<retryQueue, deadQueue, promised, served>>
      /\ \/ pc' = [pc EXCEPT ![h] = "run"] /\ UNCHANGED lost
         \/ pc' = [pc EXCEPT ![h] = "ack"] /\ lost' = lost \cup {m.call}
  BY <1>1 DEF Deliver, Goto
<1>4. /\ job'[h] = NewJob(m)
      /\ \A q \in Procs \ {h} : pc'[q] = pc[q] /\ job'[q] = job[q]
  BY <1>2, <1>3 DEF TypeOK
<1>5. /\ job'[h].msg = m /\ job'[h].acked = FALSE
      /\ job'[h].succeeded = FALSE /\ job'[h].queued = FALSE
  BY <1>4 DEF NewJob
<1>6. pc'[h] \in {"run", "ack"}
  BY <1>2, <1>3 DEF TypeOK
<1>7. Unacked' = {h}
  BY <1>2, <1>3, <1>4, <1>5, <1>6 DEF Unacked, Busy, Awaiting, Procs
<1>8. OneUnacked'
  BY <1>7 DEF OneUnacked
<1>9. Holds(h, m.call)' \/ m.call \in lost'
  <2>1. CASE pc'[h] = "run"
    BY <2>1, <1>5 DEF Holds, Busy, Awaiting
  <2>2. CASE pc'[h] # "run"
    BY <2>2, <1>2, <1>3 DEF TypeOK
  <2>3. QED
    BY <2>1, <2>2
<1>10. Accounted(m.call)'
  BY <1>7, <1>9 DEF Accounted, FirmlyHeld
<1>11. ASSUME NEW c \in Calls, Accounted(c)
       PROVE  Accounted(c)'
  <2>1. CASE c = m.call
    BY <2>1, <1>10
  <2>2. CASE c # m.call
    <3>1. InQueues(c) => InQueues(c)'
      BY <2>2, <1>1, <1>3 DEF InQueues
    <3>2. lost \subseteq lost'
      BY <1>3
    <3>3. QED
      BY <1>11, <3>1, <3>2, <1>3 DEF Accounted, FirmlyHeld, DeadLettered
  <2>3. QED
    BY <2>1, <2>2
<1>12. QED
  BY <1>3, <1>8, <1>11 DEF LossInv

\* Steps of an attempt and of a handler after it.
LEMMA LossInvAttempt ==
    ASSUME TypeOK, LossInv, NEW p \in Procs,
           \/ Step(p) \/ StoreFails(p)
           \/ p \in Handlers /\ (PublishDeadLetter(p) \/ Ack(p))
    PROVE  LossInv'
<1>1. PICK m \in Message :
        /\ Busy(p)
        /\ job[p] \in Job /\ m = job[p].msg /\ m.call \in Calls
        /\ p \in Calls => p \notin Handlers
  <2>1. Busy(p)
    BY DEF Step, TryExecuteOperation, ScheduleNextAttempt, AppendAudit, GetStatus,
           UpsertStatus, StoreFails, PublishDeadLetter, Ack, Busy, Awaiting
  <2>2. job[p] \in Job
    BY <2>1 DEF TypeOK
  <2>3. QED
    BY <2>1, <2>2, ConstantsAssumption DEF Job, Message
<1>2. ASSUME NEW c, Holds(p, c)
      PROVE  c = m.call
  BY <1>1, <1>2 DEF Holds
\* The process goes on with the same job but for one of its fields.
<1>3. ASSUME NEW step \in Awaiting, Goto(p, step),
             UNCHANGED job \/ (\E j \in Job : job' = [job EXCEPT ![p] = j]
                                             /\ j.acked = job[p].acked),
             QueuedMessages(retryQueue) \subseteq QueuedMessages(retryQueue)',
             UNCHANGED executeQueue,
             served \subseteq served', lost \subseteq lost', deadQueue \subseteq deadQueue',
             Holds(p, m.call) => Holds(p, m.call)' \/ Accounted(m.call)',
             \A c \in Calls : promised'[c] > 0 => promised[c] > 0 \/ Accounted(c)'
      PROVE  LossInv'
  <2>1. /\ pc'[p] \in Awaiting
        /\ job'[p].acked = job[p].acked
        /\ \A q \in Procs \ {p} : pc'[q] = pc[q] /\ job'[q] = job[q]
    BY <1>3 DEF Goto, TypeOK
  <2>2. Unacked' = Unacked
    BY <2>1, <1>1 DEF Unacked, Busy, Procs
  <2>3. \A c \in Calls : p \in Unacked /\ Holds(p, c) =>
            (p \in Unacked /\ Holds(p, c))' \/ Accounted(c)'
    BY <1>2, <1>3, <2>2
  <2>4. QED
    BY <1>3, <2>1, <2>2, <2>3, AccountedStep
\* The process ends and held nothing.
<1>4. ASSUME NEW end \in {"idle"} \cup Ends, Finish(p, end),
             UNCHANGED <<queues, history>>,
             p \in Handlers => ~Holds(p, m.call)
      PROVE  LossInv'
  <2>1. /\ pc'[p] = end
        /\ \A q \in Procs \ {p} : pc'[q] = pc[q] /\ job'[q] = job[q]
    BY <1>4 DEF Finish, TypeOK
  <2>2. Unacked' \subseteq Unacked
    BY <2>1 DEF Unacked, Busy, Awaiting, Ends, Procs
  <2>3. \A c \in Calls : ~(p \in Unacked /\ Holds(p, c))
    BY <1>2, <1>4 DEF Unacked
  <2>4. QED
    BY <1>4, <2>1, <2>2, <2>3, AccountedStep DEF queues, history
<1>5. CASE TryExecuteOperation(p)
  <2>1. PICK step \in {"audit", "schedule"} : Goto(p, step)
    BY <1>5 DEF TryExecuteOperation
  <2>2. [job[p] EXCEPT !.succeeded = TRUE] \in Job
        /\ [job[p] EXCEPT !.succeeded = TRUE].acked = job[p].acked
    BY <1>1 DEF Job
  <2>3. Holds(p, m.call) => Holds(p, m.call)' \/ m.call \in served'
    BY <1>5, <1>1 DEF TryExecuteOperation, Goto, Holds, Busy, Awaiting, TypeOK
  <2>4. QED
    BY <1>3, <1>5, <2>1, <2>2, <2>3
       DEF TryExecuteOperation, queues, Awaiting, Accounted
<1>6. CASE ScheduleNextAttempt(p)
  <2>1. Goto(p, "audit") /\ pc[p] = "schedule" /\ UNCHANGED <<executeQueue, deadQueue, served>>
    BY <1>6 DEF ScheduleNextAttempt
  <2>2. [job[p] EXCEPT !.queued = TRUE] \in Job
        /\ [job[p] EXCEPT !.queued = TRUE].acked = job[p].acked
    BY <1>1 DEF Job
  <2>3. CASE UNCHANGED <<job, retryQueue, promised, lost>>
    <3>1. Holds(p, m.call) => Holds(p, m.call)'
      BY <2>1, <2>3 DEF Goto, Holds, Busy, Awaiting, TypeOK
    <3>2. QED
      BY <1>3, <2>1, <2>3, <3>1 DEF Awaiting
  <2>4. CASE ~UNCHANGED <<job, retryQueue, promised, lost>>
    <3>1. /\ job' = [job EXCEPT ![p] = [job[p] EXCEPT !.queued = TRUE]]
          /\ MayRetry(m)
          /\ \/ retryQueue' = Append(retryQueue, NextMessage(m)) /\ UNCHANGED lost
             \/ UNCHANGED retryQueue /\ lost' = lost \cup {m.call}
      BY <1>6, <1>1, <2>4 DEF ScheduleNextAttempt, ReportQueued, TypeOK
    <3>2. /\ NextMessage(m) \in Message /\ NextMessage(m).call = m.call
          /\ QueuedMessages(Append(retryQueue, NextMessage(m)))
               = QueuedMessages(retryQueue) \cup {NextMessage(m)}
      BY <1>1, <3>1, NextMessageType, QueueAppend DEF MayRetry, TypeOK
    <3>3. /\ Accounted(m.call)'
          /\ QueuedMessages(retryQueue) \subseteq QueuedMessages(retryQueue)'
          /\ lost \subseteq lost'
      BY <3>1, <3>2 DEF Accounted, FirmlyHeld, InQueues
    <3>4. \A c \in Calls : promised'[c] > 0 => promised[c] > 0 \/ Accounted(c)'
      <4>1. \A c \in Calls \ {m.call} : promised'[c] = promised[c]
        BY <1>1, <1>6, <3>2 DEF ScheduleNextAttempt, ReportQueued, TypeOK
      <4>2. QED
        BY <3>3, <4>1
    <3>5. QED
      BY <1>3, <2>1, <2>2, <3>1, <3>3, <3>4 DEF Awaiting
  <2>5. QED
    BY <2>3, <2>4
<1>7. CASE AppendAudit(p)
  <2>1. Holds(p, m.call) => Holds(p, m.call)'
    BY <1>7 DEF AppendAudit, Goto, Holds, Busy, Awaiting, TypeOK
  <2>2. QED
    BY <1>3, <1>7, <2>1 DEF AppendAudit, queues, history, Awaiting
<1>8. CASE GetStatus(p)
  <2> DEFINE j == [job[p] EXCEPT !.previous = status[ServiceOfJob(p)]]
  <2>1. /\ j \in Job /\ j.acked = job[p].acked
        /\ j.msg = m /\ j.succeeded = job[p].succeeded /\ j.queued = job[p].queued
    BY <1>1, ConstantsAssumption DEF Job, TypeOK, ServiceOfJob
  <2>2. job' = [job EXCEPT ![p] = j]
    BY <1>8 DEF GetStatus
  <2>3. Holds(p, m.call) => Holds(p, m.call)'
    BY <1>8, <2>1, <2>2 DEF GetStatus, Goto, Holds, Busy, Awaiting, TypeOK
  <2>4. QED
    BY <1>3, <1>8, <2>1, <2>2, <2>3 DEF GetStatus, queues, history, Awaiting
<1>9. CASE UpsertStatus(p)
  <2>1. CASE p \in Calls
    <3>1. PICK end \in {"returned", "rethrown"} : Finish(p, end)
      BY <1>1, <1>9, <2>1 DEF UpsertStatus
    <3>2. QED
      BY <1>1, <1>4, <1>9, <2>1, <3>1 DEF UpsertStatus, Ends
  <2>2. CASE p \notin Calls
    <3>1. /\ UNCHANGED job
          /\ Goto(p, IF NeedsDeadLetter(p) THEN "deadletter" ELSE "ack")
      BY <1>9, <2>2 DEF UpsertStatus
    <3>2. PICK step \in {"ack", "deadletter"} : Goto(p, step)
      BY <3>1
    <3>3. Holds(p, m.call) => Holds(p, m.call)'
      BY <3>1, <1>9 DEF UpsertStatus, NeedsDeadLetter, Goto, Holds, Busy, Awaiting, TypeOK
    <3>4. QED
      BY <1>3, <1>9, <3>1, <3>2, <3>3 DEF UpsertStatus, queues, history, Awaiting
  <2>3. QED
    BY <2>1, <2>2
<1>10. CASE StoreFails(p)
  <2>1. CASE p \in Calls
    <3>1. Finish(p, "aborted") /\ UNCHANGED lost
      BY <1>1, <1>10, <2>1 DEF StoreFails
    <3>2. QED
      BY <1>1, <1>4, <1>10, <2>1, <3>1 DEF StoreFails, Ends, history
  <2>2. CASE p \notin Calls
    <3>1. /\ Goto(p, "ack") /\ UNCHANGED job
          /\ lost' = IF NeedsDeadLetter(p) THEN lost \cup {m.call} ELSE lost
      BY <1>1, <1>10, <2>2 DEF StoreFails
    <3>2. lost \subseteq lost' /\ (Holds(p, m.call) => m.call \in lost')
      BY <3>1 DEF Holds, NeedsDeadLetter
    <3>3. QED
      BY <1>3, <1>10, <3>1, <3>2 DEF StoreFails, queues, Awaiting, Accounted
  <2>3. QED
    BY <2>1, <2>2
<1>11. CASE p \in Handlers /\ PublishDeadLetter(p)
  <2>1. /\ Goto(p, "ack") /\ UNCHANGED <<job, retryQueue, executeQueue, promised, served>>
        /\ deadQueue \subseteq deadQueue' /\ lost \subseteq lost'
        /\ m \in deadQueue' \/ m.call \in lost'
    BY <1>1, <1>11 DEF PublishDeadLetter
  <2>2. Accounted(m.call)'
    BY <2>1 DEF Accounted, DeadLettered
  <2>3. QED
    BY <1>3, <2>1, <2>2 DEF Awaiting
<1>12. CASE p \in Handlers /\ Ack(p)
  BY <1>4, <1>12 DEF Ack, Holds
<1>13. QED
  BY <1>5, <1>6, <1>7, <1>8, <1>9, <1>10, <1>11, <1>12 DEF Step

\* Whatever crashes, lost connections, store and broker faults and redeployments
\* happen: a retry the executor reported as queued is in a queue, in a handler's
\* hands, served, dead-lettered, or given up at a point the model names.
THEOREM NeverSilentlyLost == Spec => []NoSilentLoss
<1>1. Init => LossInv
  BY LossInvInit
<1>2. TypeOK /\ LossInv /\ [Next]_vars => LossInv'
  <2> SUFFICES ASSUME TypeOK, LossInv, [Next]_vars
               PROVE  LossInv'
    OBVIOUS
  <2>1. CASE UNCHANGED vars
    BY <2>1 DEF vars, queues, history, LossInv, OneUnacked, Accounted, FirmlyHeld,
                InQueues, DeadLettered, Unacked, Holds, Busy
  <2>2. CASE Next
    <3>1. CASE \E h \in Handlers : Deliver(h)
      BY <3>1, LossInvDeliver
    <3>2. CASE \E h \in Handlers : PublishDeadLetter(h) \/ Ack(h)
      BY <3>2, LossInvAttempt DEF Procs
    <3>3. CASE \E p \in Procs : Step(p) \/ StoreFails(p)
      BY <3>3, LossInvAttempt
    <3>4. QED
      BY <2>2, <3>1, <3>2, <3>3, LossInvEnvironment DEF Next
  <2>3. QED
    BY <2>1, <2>2
<1>3. QED
  BY <1>1, <1>2, LossInvSuffices, TypeCorrect, PTL DEF Spec

-----------------------------------------------------------------------------
(* Attempts are bounded                                                    *)

\* A message that was queued is at least a second attempt, within its own limit.
WithinLimit(m) == 2 <= m.attempt /\ m.attempt <= m.max

\* What the broker and the dead-letter queue hold is within its limit.
QueuesBounded ==
    \A m \in QueuedMessages(retryQueue) \cup QueuedMessages(executeQueue) \cup deadQueue :
        WithinLimit(m)

\* So is what a handler holds; whoever queued a retry had an attempt left.
JobsBounded ==
    /\ \A h \in Handlers : Busy(h) => WithinLimit(job[h].msg)
    /\ \A p \in Procs : Busy(p) /\ job[p].queued => job[p].msg.attempt < job[p].msg.max

\* The property in two parts, of the messages outside the processes and of the
\* processes' own.
BoundedInv == QueuesBounded /\ JobsBounded

\* A process that ends, or that goes on with the message it has, stays bounded.
LEMMA JobsBoundedStep ==
    ASSUME TypeOK, JobsBounded, NEW p \in Procs,
           NEW step, pc' = [pc EXCEPT ![p] = step],
           \/ step \notin Awaiting /\ job' = [job EXCEPT ![p] = NoJob]
           \/ Busy(p) /\ UNCHANGED job
           \/ /\ Busy(p)
              /\ \E j \in Job : /\ job' = [job EXCEPT ![p] = j]
                                /\ j.msg = job[p].msg
                                /\ j.queued => job[p].queued \/ j.msg.attempt < j.msg.max
    PROVE  JobsBounded'
<1>1. ASSUME NEW q \in Procs, q # p
      PROVE  job'[q] = job[q] /\ (Busy(q)' <=> Busy(q))
  BY <1>1 DEF TypeOK, Busy
<1>2. Busy(p)' => /\ Busy(p)
                  /\ job'[p].msg = job[p].msg
                  /\ job'[p].queued => \/ job[p].queued
                                       \/ job[p].msg.attempt < job[p].msg.max
  BY DEF TypeOK, Busy
<1>3. \A h \in Handlers : h \in Procs
  BY DEF Procs
<1>4. ASSUME NEW h \in Handlers, Busy(h)'
      PROVE  WithinLimit(job[h].msg)'
  BY <1>1, <1>2, <1>3, <1>4 DEF JobsBounded, WithinLimit
<1>5. ASSUME NEW q \in Procs, Busy(q)', job'[q].queued
      PROVE  job'[q].msg.attempt < job'[q].msg.max
  BY <1>1, <1>2, <1>5 DEF JobsBounded
<1>6. QED
  BY <1>4, <1>5 DEF JobsBounded

\* No chain of retries runs past the limit its message was published with, whatever
\* is redelivered, requeued or reconfigured meanwhile.
THEOREM AttemptsStayBounded == Spec => []AttemptsBounded
<1>1. Init => BoundedInv
  BY DEF Init, BoundedInv, QueuesBounded, JobsBounded, QueuedMessages, Procs, Busy, Awaiting
<1>2. TypeOK /\ BoundedInv /\ [Next]_vars => BoundedInv'
  <2> SUFFICES ASSUME TypeOK, QueuesBounded, JobsBounded, [Next]_vars
               PROVE  QueuesBounded' /\ JobsBounded'
    BY DEF BoundedInv
  <2>1. ASSUME NEW p \in Procs, Busy(p)
        PROVE  /\ job[p] \in Job
               /\ job[p].msg \in Message
    <3>1. job[p] \in Job
      BY <2>1 DEF TypeOK
    <3>2. QED
      BY <3>1 DEF Job
  <2>2. ASSUME UNCHANGED queues
        PROVE  QueuesBounded'
    BY <2>2 DEF QueuesBounded, queues, QueuedMessages, WithinLimit
  <2>3. ASSUME UNCHANGED <<pc, job>>
        PROVE  JobsBounded'
    BY <2>3 DEF JobsBounded, Busy, WithinLimit
  <2>4. \A h \in Handlers : h \in Procs
    BY DEF Procs
  <2>5. ASSUME executeQueue' = Requeued, UNCHANGED <<retryQueue, deadQueue>>
        PROVE  QueuesBounded'
    <3>1. QueuedMessages(Requeued)
            \subseteq QueuedMessages(executeQueue) \cup {job[h].msg : h \in Unacked}
      <4>1. CASE Unacked = {}
        BY <4>1 DEF Requeued
      <4>2. CASE Unacked # {}
        <5> DEFINE u == CHOOSE h \in Unacked : TRUE
        <5>1. u \in Unacked /\ job[u].msg \in Message
          BY <4>2, UnackedMessage
        <5>2. QueuedMessages(<<job[u].msg>> \o executeQueue)
                = {job[u].msg} \cup QueuedMessages(executeQueue)
          BY <5>1, QueuePrepend DEF TypeOK
        <5>3. QED
          BY <4>2, <5>1, <5>2 DEF Requeued
      <4>3. QED
        BY <4>1, <4>2
    <3>2. \A h \in Unacked : WithinLimit(job[h].msg)
      BY DEF Unacked, JobsBounded
    <3>3. QED
      BY <2>5, <3>1, <3>2 DEF QueuesBounded, WithinLimit
  <2>6. CASE StartConsumer \/ Restart
    BY <2>6, <2>2, <2>3 DEF StartConsumer, Restart
  <2>7. CASE Crash
    <3>1. \A p \in Procs : ~Busy(p)'
      BY <2>7 DEF Crash, Busy, Awaiting, TypeOK
    <3>2. JobsBounded'
      BY <3>1, <2>4 DEF JobsBounded
    <3>3. QED
      BY <2>7, <2>5, <3>2 DEF Crash
  <2>8. CASE DropConnection
    <3>1. \A p \in Unacked : /\ [job[p] EXCEPT !.acked = TRUE].msg = job[p].msg
                             /\ [job[p] EXCEPT !.acked = TRUE].queued = job[p].queued
      BY <2>1, <2>4 DEF Unacked, Job
    <3>2. \A p \in Procs : /\ job'[p].msg = job[p].msg
                           /\ job'[p].queued = job[p].queued
                           /\ Busy(p)' <=> Busy(p)
      BY <2>8, <3>1 DEF DropConnection, Busy
    <3>3. JobsBounded'
      BY <3>2, <2>4 DEF JobsBounded, WithinLimit
    <3>4. QED
      BY <2>8, <2>5, <3>3 DEF DropConnection
  <2>9. CASE Expire
    <3>1. /\ QueuedMessages(retryQueue')
               \subseteq QueuedMessages(retryQueue)
          /\ QueuedMessages(executeQueue')
               \subseteq QueuedMessages(executeQueue) \cup QueuedMessages(retryQueue)
      BY <2>9, QueueTail, QueueAppend DEF Expire, TypeOK
    <3>2. QueuesBounded'
      BY <2>9, <3>1 DEF Expire, QueuesBounded, WithinLimit, QueuedMessages
    <3>3. QED
      BY <2>9, <2>3, <3>2 DEF Expire
  <2>10. ASSUME NEW c \in Calls, ExecuteAsync(c)
         PROVE  QueuesBounded' /\ JobsBounded'
    <3>1. c \in Procs /\ c \notin Handlers
      BY ConstantsAssumption DEF Procs
    <3>2. CASE Finish(c, "bypassed")
      BY <2>2, <2>10, <3>1, <3>2, JobsBoundedStep DEF ExecuteAsync, Finish, Awaiting
    <3>3. CASE ~Finish(c, "bypassed")
      <4>1. /\ \A p \in Procs : p # c => job'[p] = job[p] /\ pc'[p] = pc[p]
            /\ ~job'[c].queued
        BY <2>10, <3>1, <3>3 DEF ExecuteAsync, Goto, NewJob, TypeOK
      <4>2. JobsBounded'
        BY <3>1, <4>1, <2>4 DEF JobsBounded, Busy, WithinLimit
      <4>3. QED
        BY <2>2, <2>10, <4>2 DEF ExecuteAsync
    <3>4. QED
      BY <3>2, <3>3
  <2>11. ASSUME NEW c \in Calls, CallerCancels(c)
         PROVE  QueuesBounded' /\ JobsBounded'
    BY <2>2, <2>11, JobsBoundedStep DEF CallerCancels, Finish, Procs, Awaiting
  <2>12. ASSUME NEW h \in Handlers, Deliver(h)
         PROVE  QueuesBounded' /\ JobsBounded'
    <3>1. /\ Head(executeQueue) \in QueuedMessages(executeQueue)
          /\ QueuedMessages(executeQueue') \subseteq QueuedMessages(executeQueue)
      BY <2>12, QueueTail DEF Deliver, TypeOK
    <3>2. QueuesBounded'
      BY <2>12, <3>1 DEF Deliver, QueuesBounded, WithinLimit, QueuedMessages
    <3>3. /\ \A p \in Procs : p # h => job'[p] = job[p] /\ pc'[p] = pc[p]
          /\ job'[h].msg = Head(executeQueue)
          /\ ~job'[h].queued
      BY <2>4, <2>12 DEF Deliver, Goto, NewJob, TypeOK
    <3>4. WithinLimit(Head(executeQueue))
      BY <3>1 DEF QueuesBounded
    <3>5. JobsBounded'
      BY <2>4, <3>3, <3>4 DEF JobsBounded, Busy, WithinLimit
    <3>6. QED
      BY <3>2, <3>5
  <2>13. ASSUME NEW h \in Handlers, PublishDeadLetter(h)
         PROVE  QueuesBounded' /\ JobsBounded'
    <3>1. Busy(h)
      BY <2>13 DEF PublishDeadLetter, Busy, Awaiting
    <3>2. QueuesBounded'
      BY <2>13, <3>1 DEF PublishDeadLetter, QueuesBounded, JobsBounded, WithinLimit,
                         QueuedMessages
    <3>3. QED
      BY <2>4, <2>13, <3>1, <3>2, JobsBoundedStep DEF PublishDeadLetter, Goto
  <2>14. ASSUME NEW h \in Handlers, Ack(h)
         PROVE  QueuesBounded' /\ JobsBounded'
    BY <2>2, <2>4, <2>14, JobsBoundedStep DEF Ack, Finish, Awaiting
  <2>15. ASSUME NEW p \in Procs, TryExecuteOperation(p)
         PROVE  QueuesBounded' /\ JobsBounded'
    <3>1. Busy(p)
      BY <2>15 DEF TryExecuteOperation, Busy, Awaiting
    <3> DEFINE j == [job[p] EXCEPT !.succeeded = TRUE]
    <3>2. j \in Job /\ j.msg = job[p].msg /\ j.queued = job[p].queued
      BY <3>1, <2>1 DEF Job
    <3>3. UNCHANGED job \/ job' = [job EXCEPT ![p] = j]
      BY <2>15 DEF TryExecuteOperation
    <3>4. \E step : pc' = [pc EXCEPT ![p] = step]
      BY <2>15 DEF TryExecuteOperation, Goto
    <3>5. JobsBounded'
      BY <3>1, <3>2, <3>3, <3>4, JobsBoundedStep
    <3>6. QED
      BY <2>2, <2>15, <3>5 DEF TryExecuteOperation
  <2>16. ASSUME NEW p \in Procs, ScheduleNextAttempt(p)
         PROVE  QueuesBounded' /\ JobsBounded'
    <3> DEFINE m == job[p].msg
    <3> DEFINE j == [job[p] EXCEPT !.queued = TRUE]
    <3>1. Busy(p) /\ pc' = [pc EXCEPT ![p] = "audit"]
      BY <2>16 DEF ScheduleNextAttempt, Goto, Busy, Awaiting
    <3>2. m \in Message
      BY <3>1, <2>1
    <3>3. CASE UNCHANGED job /\ UNCHANGED retryQueue
      BY <2>2, <2>16, <3>1, <3>3, JobsBoundedStep DEF ScheduleNextAttempt, queues
    <3>4. CASE MayRetry(m) /\ ReportQueued(p)
      <4>1. m.attempt < m.max
        BY <3>4 DEF MayRetry
      <4>2. j \in Job /\ j.msg = m
        BY <3>1, <2>1 DEF Job
      <4>3. job' = [job EXCEPT ![p] = j]
        BY <3>4 DEF ReportQueued
      <4>4. JobsBounded'
        BY <3>1, <4>1, <4>2, <4>3, JobsBoundedStep
      <4>5. NextMessage(m) \in Message /\ WithinLimit(NextMessage(m))
        BY <3>2, <4>1, NextMessageType DEF NextMessage, WithinLimit, Message
      <4>6. QueuedMessages(retryQueue')
              \subseteq QueuedMessages(retryQueue) \cup {NextMessage(m)}
        <5>1. \/ UNCHANGED retryQueue
              \/ retryQueue' = Append(retryQueue, NextMessage(m))
          BY <2>16 DEF ScheduleNextAttempt
        <5>2. QueuedMessages(Append(retryQueue, NextMessage(m)))
                = QueuedMessages(retryQueue) \cup {NextMessage(m)}
          BY <4>5, QueueAppend DEF TypeOK
        <5>3. QED
          BY <5>1, <5>2
      <4>7. QueuesBounded'
        BY <2>16, <4>5, <4>6 DEF ScheduleNextAttempt, QueuesBounded, WithinLimit,
                                 QueuedMessages
      <4>8. QED
        BY <4>4, <4>7
    <3>5. QED
      BY <2>16, <3>3, <3>4 DEF ScheduleNextAttempt
  <2>17. ASSUME NEW p \in Procs, AppendAudit(p)
         PROVE  QueuesBounded' /\ JobsBounded'
    <3>1. Busy(p)
      BY <2>17 DEF AppendAudit, Busy, Awaiting
    <3>2. QED
      BY <2>2, <2>17, <3>1, JobsBoundedStep DEF AppendAudit, Goto
  <2>18. ASSUME NEW p \in Procs, GetStatus(p)
         PROVE  QueuesBounded' /\ JobsBounded'
    <3>1. Busy(p)
      BY <2>18 DEF GetStatus, Busy, Awaiting
    <3> DEFINE j == [job[p] EXCEPT !.previous = status[ServiceOfJob(p)]]
    <3>2. status[ServiceOfJob(p)] \in Status
      BY <3>1, <2>1, ConstantsAssumption DEF ServiceOfJob, TypeOK, Message
    <3>3. j \in Job /\ j.msg = job[p].msg /\ j.queued = job[p].queued
      BY <3>1, <3>2, <2>1 DEF Job
    <3>4. JobsBounded'
      BY <2>18, <3>1, <3>3, JobsBoundedStep DEF GetStatus, Goto
    <3>5. QED
      BY <2>2, <2>18, <3>4 DEF GetStatus
  <2>19. ASSUME NEW p \in Procs, UpsertStatus(p) \/ StoreFails(p)
         PROVE  QueuesBounded' /\ JobsBounded'
    <3>1. Busy(p)
      BY <2>19 DEF UpsertStatus, StoreFails, Busy, Awaiting
    <3>2. \/ \E end \in Ends : Finish(p, end)
          \/ UNCHANGED job /\ \E step : Goto(p, step)
      BY <2>19 DEF UpsertStatus, StoreFails, Ends
    <3>3. JobsBounded'
      BY <3>1, <3>2, JobsBoundedStep DEF Finish, Goto, Ends, Awaiting
    <3>4. QED
      BY <2>2, <2>19, <3>3 DEF UpsertStatus, StoreFails
  <2>20. CASE UNCHANGED vars
    BY <2>20, <2>2, <2>3 DEF vars
  <2>21. QED
    BY <2>6, <2>7, <2>8, <2>9, <2>10, <2>11, <2>12, <2>13, <2>14, <2>15, <2>16,
       <2>17, <2>18, <2>19, <2>20 DEF Next, Step
<1>3. BoundedInv => AttemptsBounded
  BY DEF BoundedInv, QueuesBounded, JobsBounded, WithinLimit, AttemptsBounded
<1>4. QED
  BY <1>1, <1>2, <1>3, TypeCorrect, PTL DEF Spec

-----------------------------------------------------------------------------
(* The counts of the status document                                       *)

\* Who recorded a row for a service and has not written its status yet.
Recording(s) == {p \in Procs : pc[p] \in {"read", "write"} /\ ServiceOfJob(p) = s}

\* The log is ahead of the document by those who still have to write it, and
\* ahead of every snapshot that is going to replace it.
CountInv ==
    /\ \A s \in Services : status[s].requests + Cardinality(Recording(s)) <= auditCount[s]
    /\ \A p \in Procs : pc[p] = "write" =>
          job[p].previous.requests + Cardinality(Recording(ServiceOfJob(p)))
              <= auditCount[ServiceOfJob(p)]

LEMMA RecordingFinite ==
    ASSUME NEW S \in SUBSET Procs
    PROVE  IsFiniteSet(S) /\ Cardinality(S) \in Nat
<1>1. IsFiniteSet(Procs)
  BY ConstantsAssumption, FS_Union DEF Procs
<1>2. QED
  BY <1>1, FS_Subset, FS_CardinalityType

\* What the invariant says of a service, and the types that arithmetic needs.
LEMMA RecordingCount ==
    ASSUME TypeOK, NEW s \in Services
    PROVE  /\ status[s].requests \in Nat /\ auditCount[s] \in Nat
           /\ IsFiniteSet(Recording(s)) /\ Cardinality(Recording(s)) \in Nat
           /\ CountInv => status[s].requests + Cardinality(Recording(s)) <= auditCount[s]
<1>1. status[s].requests \in Nat /\ auditCount[s] \in Nat
  BY DEF TypeOK, Status
<1>2. Recording(s) \in SUBSET Procs
  BY DEF Recording
<1>3. QED
  BY <1>1, <1>2, RecordingFinite DEF CountInv

LEMMA BusyTypes ==
    ASSUME TypeOK, NEW p \in Procs, Busy(p)
    PROVE  /\ job[p] \in Job
           /\ job[p].msg \in Message
           /\ job[p].msg.call \in Calls
           /\ ServiceOfJob(p) \in Services
           /\ job[p].previous \in Status
<1>1. job[p] \in Job
  BY DEF TypeOK
<1>2. job[p].msg \in Message /\ job[p].msg.call \in Calls /\ job[p].previous \in Status
  BY <1>1 DEF Job, Message
<1>3. QED
  BY <1>1, <1>2, ConstantsAssumption DEF ServiceOfJob

LEMMA StatusCountsOne ==
    ASSUME TypeOK, NEW p \in Procs, Busy(p)
    PROVE  NextStatus(p).requests = job[p].previous.requests + 1
  BY DEF NextStatus, StatusAfterSuccess, StatusAfterFailure

\* A process that goes somewhere else, or ends, is not recording any more; only one
\* at its write leaves a status behind.
LEMMA CountInvLeave ==
    ASSUME TypeOK, TypeOK', CountInv, NEW p \in Procs,
           NEW step, step \notin {"read", "write"}, pc' = [pc EXCEPT ![p] = step],
           \A q \in Procs \ {p} : job'[q] = job[q],
           UNCHANGED auditCount,
           \/ UNCHANGED status
           \/ pc[p] = "write" /\ status' = [status EXCEPT ![ServiceOfJob(p)] = NextStatus(p)]
    PROVE  CountInv'
<1>1. \A q \in Procs \ {p} : pc'[q] = pc[q] /\ ServiceOfJob(q)' = ServiceOfJob(q)
  BY DEF TypeOK, ServiceOfJob
<1>2. pc'[p] = step
  BY DEF TypeOK
<1>3. \A s : Recording(s)' = Recording(s) \ {p}
  BY <1>1, <1>2 DEF Recording
<1>4. \A s : /\ Recording(s) \in SUBSET Procs /\ Cardinality(Recording(s)) \in Nat
             /\ Cardinality(Recording(s)') \in Nat
             /\ Cardinality(Recording(s)') <= Cardinality(Recording(s))
             /\ p \in Recording(s) => Cardinality(Recording(s)') = Cardinality(Recording(s)) - 1
  <2> TAKE s
  <2>1. Recording(s) \in SUBSET Procs /\ Recording(s)' \in SUBSET Procs
    BY <1>3 DEF Recording
  <2>2. IsFiniteSet(Recording(s)) /\ Cardinality(Recording(s)) \in Nat
    BY <2>1, RecordingFinite
  <2>3. Cardinality(Recording(s)') \in Nat
    BY <2>1, RecordingFinite
  <2>4. QED
    BY <1>3, <2>1, <2>2, <2>3, FS_RemoveElement
<1>5. ASSUME NEW s \in Services
      PROVE  status'[s].requests + Cardinality(Recording(s)') <= auditCount'[s]
  <2>1. /\ status[s].requests \in Nat /\ auditCount[s] \in Nat
        /\ status[s].requests + Cardinality(Recording(s)) <= auditCount[s]
    BY DEF TypeOK, Status, CountInv
  <2>2. CASE status'[s] = status[s]
    BY <1>4, <2>1, <2>2
  <2>3. CASE status'[s] # status[s]
    <3>1. pc[p] = "write" /\ s = ServiceOfJob(p) /\ status'[s] = NextStatus(p)
      BY <2>3 DEF TypeOK
    <3>2. Busy(p) /\ p \in Recording(s)
      BY <3>1 DEF Busy, Awaiting, Recording
    <3>3. /\ job[p].previous.requests \in Nat
          /\ job[p].previous.requests + Cardinality(Recording(s)) <= auditCount[s]
      BY <3>1, <3>2, BusyTypes DEF CountInv, Status
    <3>4. QED
      BY <1>4, <2>1, <3>1, <3>2, <3>3, StatusCountsOne
  <2>4. QED
    BY <2>2, <2>3
<1>6. ASSUME NEW q \in Procs, pc'[q] = "write"
      PROVE  job'[q].previous.requests + Cardinality(Recording(ServiceOfJob(q))')
                 <= auditCount'[ServiceOfJob(q)']
  <2>1. q # p /\ pc[q] = "write" /\ job'[q] = job[q] /\ ServiceOfJob(q)' = ServiceOfJob(q)
    BY <1>1, <1>2, <1>6
  <2>2. Busy(q)
    BY <2>1 DEF Busy, Awaiting
  <2>3. /\ job[q].previous.requests \in Nat /\ auditCount[ServiceOfJob(q)] \in Nat
        /\ job[q].previous.requests + Cardinality(Recording(ServiceOfJob(q)))
               <= auditCount[ServiceOfJob(q)]
    BY <2>1, <2>2, BusyTypes DEF CountInv, Status, TypeOK
  <2>4. Recording(ServiceOfJob(q))' = Recording(ServiceOfJob(q)) \ {p}
    BY <1>1, <1>2, <2>1 DEF Recording
  <2>5. Cardinality(Recording(ServiceOfJob(q))') <= Cardinality(Recording(ServiceOfJob(q)))
        /\ Cardinality(Recording(ServiceOfJob(q))') \in Nat /\ Cardinality(Recording(ServiceOfJob(q))) \in Nat
    BY <1>3, <1>4, <2>4
  <2>6. QED
    BY <2>1, <2>3, <2>5
<1>7. QED
  BY <1>5, <1>6 DEF CountInv

LEMMA CountInvAudit ==
    ASSUME TypeOK, TypeOK', CountInv, NEW p \in Procs, AppendAudit(p)
    PROVE  CountInv'
<1>1. /\ pc[p] = "audit" /\ Busy(p) /\ UNCHANGED <<job, status>>
      /\ pc' = [pc EXCEPT ![p] = "read"]
      /\ auditCount' = [auditCount EXCEPT ![ServiceOfJob(p)] = @ + 1]
  BY DEF AppendAudit, Goto, Busy, Awaiting
<1>2. PICK s0 \in Services : s0 = ServiceOfJob(p)
  BY <1>1, BusyTypes
<1>3. \A q : ServiceOfJob(q)' = ServiceOfJob(q)
  BY <1>1 DEF ServiceOfJob
<1>4. p \notin Recording(s0) /\ Recording(s0)' = Recording(s0) \cup {p}
  BY <1>1, <1>2, <1>3 DEF Recording, TypeOK
<1>5. \A s : s # s0 => Recording(s)' = Recording(s)
  BY <1>1, <1>2, <1>3 DEF Recording, TypeOK
<1>6. \A s : Cardinality(Recording(s)) \in Nat /\ IsFiniteSet(Recording(s))
  BY RecordingFinite DEF Recording
<1>7. Cardinality(Recording(s0)') = Cardinality(Recording(s0)) + 1
  BY <1>4, <1>6, FS_AddElement
<1>8. ASSUME NEW s \in Services
      PROVE  /\ auditCount[s] \in Nat
             /\ auditCount'[s] - Cardinality(Recording(s)') = auditCount[s] - Cardinality(Recording(s))
  <2>1. auditCount[s] \in Nat /\ auditCount'[s] = IF s = s0 THEN auditCount[s] + 1 ELSE auditCount[s]
    BY <1>1, <1>2, <1>8 DEF TypeOK
  <2>2. CASE s = s0
    BY <1>6, <1>7, <2>1, <2>2
  <2>3. CASE s # s0
    BY <1>5, <1>6, <2>1, <2>3
  <2>4. QED
    BY <2>2, <2>3
<1>9. ASSUME NEW s \in Services
      PROVE  status'[s].requests + Cardinality(Recording(s)') <= auditCount'[s]
  <2>1. status[s].requests \in Nat /\ status[s].requests + Cardinality(Recording(s)) <= auditCount[s]
    BY DEF TypeOK, Status, CountInv
  <2>2. Cardinality(Recording(s)') \in Nat /\ auditCount'[s] \in Nat
    BY RecordingFinite DEF Recording, TypeOK
  <2>3. QED
    BY <1>1, <1>6, <1>8, <2>1, <2>2
<1>10. ASSUME NEW q \in Procs, pc'[q] = "write"
       PROVE  job'[q].previous.requests + Cardinality(Recording(ServiceOfJob(q))')
                  <= auditCount'[ServiceOfJob(q)]
  <2>1. pc[q] = "write" /\ job'[q] = job[q] /\ Busy(q)
    BY <1>1, <1>10 DEF TypeOK, Busy, Awaiting
  <2>2. PICK s \in Services : s = ServiceOfJob(q)
    BY <2>1, BusyTypes
  <2>3. job[q].previous.requests \in Nat /\ job[q].previous.requests + Cardinality(Recording(s)) <= auditCount[s]
    BY <2>1, <2>2, BusyTypes DEF CountInv, Status
  <2>4. Cardinality(Recording(s)') \in Nat /\ auditCount'[s] \in Nat
    BY RecordingFinite DEF Recording, TypeOK
  <2>5. job[q].previous.requests + Cardinality(Recording(s)') <= auditCount'[s]
    BY <1>6, <1>8, <2>3, <2>4
  <2>6. Recording(ServiceOfJob(q))' = Recording(s)'
    BY <1>3, <2>2 DEF Recording
  <2>7. QED
    BY <1>3, <2>1, <2>2, <2>5, <2>6
<1>11. QED
  BY <1>9, <1>10, <1>3 DEF CountInv

LEMMA CountInvRead ==
    ASSUME TypeOK, TypeOK', CountInv, NEW p \in Procs, GetStatus(p)
    PROVE  CountInv'
<1>1. /\ pc[p] = "read" /\ Busy(p) /\ UNCHANGED <<auditCount, status>>
      /\ pc' = [pc EXCEPT ![p] = "write"]
      /\ job' = [job EXCEPT ![p].previous = status[ServiceOfJob(p)]]
  BY DEF GetStatus, Goto, Busy, Awaiting, store
<1>2. \A q \in Procs : ServiceOfJob(q)' = ServiceOfJob(q)
  <2>1. job[p] \in Job
    BY <1>1, BusyTypes
  <2>2. job'[p].msg = job[p].msg
    BY <1>1, <2>1 DEF TypeOK, Job
  <2>3. \A q \in Procs \ {p} : job'[q] = job[q]
    BY <1>1 DEF TypeOK
  <2>4. QED
    BY <2>2, <2>3 DEF ServiceOfJob
<1>3. \A s : Recording(s)' = Recording(s)
  BY <1>1, <1>2 DEF Recording, TypeOK
<1>4. ASSUME NEW q \in Procs, pc'[q] = "write"
      PROVE  job'[q].previous.requests + Cardinality(Recording(ServiceOfJob(q)))
                 <= auditCount[ServiceOfJob(q)]
  <2>1. CASE q = p
    <3>1. job'[p].previous = status[ServiceOfJob(p)]
      BY <1>1 DEF TypeOK
    <3>2. QED
      BY <1>1, <2>1, <3>1, BusyTypes DEF CountInv
  <2>2. CASE q # p
    BY <1>1, <1>4, <2>2 DEF CountInv, TypeOK
  <2>3. QED
    BY <2>1, <2>2
<1>5. \A s \in Services : status'[s].requests + Cardinality(Recording(s)') <= auditCount'[s]
  BY <1>1, <1>3 DEF CountInv
<1>6. \A q \in Procs : Recording(ServiceOfJob(q))' = Recording(ServiceOfJob(q))
  BY <1>2, <1>3 DEF Recording
<1>7. \A q \in Procs : pc'[q] = "write" =>
          job'[q].previous.requests + Cardinality(Recording(ServiceOfJob(q))')
              <= auditCount'[ServiceOfJob(q)']
  BY <1>1, <1>2, <1>4, <1>6
<1>8. QED
  BY <1>5, <1>7 DEF CountInv

\* However the read-modify-write cycles of processes overlap, the status document
\* counts no request without a row in the audit log.
THEOREM StatusNeverAhead == Spec => []StatusNeverOvercounts
<1>1. Init => CountInv
  <2> SUFFICES ASSUME Init PROVE CountInv
    OBVIOUS
  <2>1. \A s : Recording(s) = {}
    BY DEF Init, Recording
  <2>2. \A s : Cardinality(Recording(s)) = 0
    BY <2>1, FS_EmptySet
  <2>3. QED
    BY <2>2 DEF Init, CountInv, NoStatus
<1>2. TypeOK /\ TypeOK' /\ CountInv /\ [Next]_vars => CountInv'
  <2> SUFFICES ASSUME TypeOK, TypeOK', CountInv, [Next]_vars
               PROVE  CountInv'
    OBVIOUS
  <2>1. ASSUME UNCHANGED <<pc, audited, auditCount, status>>,
               \A q \in Procs : job'[q].msg = job[q].msg /\ job'[q].previous = job[q].previous
        PROVE  CountInv'
    <3>1. \A q \in Procs : ServiceOfJob(q)' = ServiceOfJob(q)
      BY <2>1 DEF ServiceOfJob
    <3>2. \A s : Recording(s)' = Recording(s)
      BY <2>1, <3>1 DEF Recording
    <3>3. \A q \in Procs : Recording(ServiceOfJob(q))' = Recording(ServiceOfJob(q))
      BY <3>1, <3>2 DEF Recording
    <3>4. QED
      BY <2>1, <3>1, <3>2, <3>3 DEF CountInv
  <2>2. CASE UNCHANGED vars
    BY <2>1, <2>2 DEF vars, store
  <2>3. CASE StartConsumer \/ Restart \/ Expire
    BY <2>1, <2>3 DEF StartConsumer, Restart, Expire, store
  <2>4. CASE DropConnection
    <3>1. \A q \in Procs : job'[q].msg = job[q].msg /\ job'[q].previous = job[q].previous
      BY <2>4 DEF DropConnection, Unacked, TypeOK, Procs, Job
    <3>2. QED
      BY <2>1, <2>4, <3>1 DEF DropConnection, store
  <2>5. CASE Crash
    <3>1. \A q \in Procs : pc'[q] \notin {"read", "write"}
      BY <2>5 DEF Crash, Busy, Awaiting
    <3>2. \A s : Recording(s)' = {}
      BY <3>1 DEF Recording
    <3>3. \A s : Cardinality(Recording(s)') = 0
      BY <3>2, FS_EmptySet
    <3>4. \A s \in Services : status'[s].requests + Cardinality(Recording(s)') <= auditCount'[s]
      BY <2>5, <3>3, RecordingCount DEF Crash, store
    <3>5. QED
      BY <3>1, <3>4 DEF CountInv
  <2>6. ASSUME NEW c \in Calls, ExecuteAsync(c) \/ CallerCancels(c)
        PROVE  CountInv'
    BY <2>6, CountInvLeave
       DEF ExecuteAsync, CallerCancels, Goto, Finish, TypeOK, Procs, store, Busy, Awaiting
  <2>7. ASSUME NEW h \in Handlers, Deliver(h) \/ PublishDeadLetter(h) \/ Ack(h)
        PROVE  CountInv'
    BY <2>7, CountInvLeave
       DEF Deliver, PublishDeadLetter, Ack, Goto, Finish, TypeOK, Procs, store
  <2>8. ASSUME NEW p \in Procs, TryExecuteOperation(p) \/ ScheduleNextAttempt(p)
        PROVE  CountInv'
    <3>1. PICK step \in {"audit", "schedule"} : pc' = [pc EXCEPT ![p] = step]
      BY <2>8 DEF TryExecuteOperation, ScheduleNextAttempt, Goto
    <3>2. \A q \in Procs \ {p} : job'[q] = job[q]
      BY <2>8 DEF TryExecuteOperation, ScheduleNextAttempt, ReportQueued, TypeOK
    <3>3. UNCHANGED <<auditCount, status>>
      BY <2>8 DEF TryExecuteOperation, ScheduleNextAttempt, store
    <3>4. QED
      BY <3>1, <3>2, <3>3, CountInvLeave
  <2>9. ASSUME NEW p \in Procs, UpsertStatus(p) \/ StoreFails(p)
        PROVE  CountInv'
    BY <2>9, CountInvLeave
       DEF UpsertStatus, StoreFails, Goto, Finish, TypeOK
  <2>10. QED
    BY <2>2, <2>3, <2>4, <2>5, <2>6, <2>7, <2>8, <2>9, CountInvAudit, CountInvRead DEF Next, Step
<1>3. TypeOK /\ CountInv => StatusNeverOvercounts
  <2> SUFFICES ASSUME TypeOK, CountInv, NEW s \in Services
               PROVE  status[s].requests <= auditCount[s]
    BY DEF StatusNeverOvercounts
  <2>1. QED
    BY RecordingCount
<1>4. QED
  BY <1>1, <1>2, <1>3, TypeCorrect, PTL DEF Spec

-----------------------------------------------------------------------------
(* What a caller is told                                                   *)

\* An interactive call works for itself, for the first time.
CallsAreFirst ==
    \A c \in Calls : Busy(c) => job[c].msg.call = c /\ job[c].msg.attempt = 1

\* Who has come past its audit row has that row in the log.
RowsAreWritten ==
    \A p \in Procs : pc[p] \in {"read", "write", "deadletter"} => RowOf(p) \in audited

CallerInv == CallsAreFirst /\ RowsAreWritten /\ CallerOutcomeAudited

\* A process that goes to a step that needs no row, or keeps its row, or ends
\* without an outcome; the log may grow.
LEMMA CallerInvStep ==
    ASSUME TypeOK, CallerInv, NEW p \in Procs, audited \subseteq audited',
           NEW step, pc' = [pc EXCEPT ![p] = step],
           \A q \in Procs \ {p} : job'[q] = job[q],
           step \in {"read", "write", "deadletter"} => RowOf(p)' \in audited',
           p \in Calls /\ step \in Awaiting =>
               job'[p].msg.call = p /\ job'[p].msg.attempt = 1,
           p \in Calls /\ step \in {"returned", "rethrown"} =>
               /\ RowOf(p) \in audited /\ RowOf(p).call = p /\ RowOf(p).attempt = 1
               /\ step = "returned" <=> RowOf(p).outcome = "succeeded"
    PROVE  CallerInv'
<1>1. \A q \in Procs \ {p} : pc'[q] = pc[q] /\ job'[q] = job[q]
  BY DEF TypeOK
<1>2. pc'[p] = step
  BY DEF TypeOK
<1>3. CallsAreFirst'
  BY <1>1, <1>2 DEF CallerInv, CallsAreFirst, Busy, Procs
<1>4. RowsAreWritten'
  <2> SUFFICES ASSUME NEW q \in Procs, pc'[q] \in {"read", "write", "deadletter"}
               PROVE  RowOf(q)' \in audited'
    BY DEF RowsAreWritten
  <2>1. CASE q = p
    BY <1>2, <2>1
  <2>2. CASE q # p
    BY <1>1, <2>2 DEF CallerInv, RowsAreWritten, RowOf
  <2>3. QED
    BY <2>1, <2>2
<1>5. CallerOutcomeAudited'
  <2> SUFFICES ASSUME NEW c \in Calls
               PROVE  /\ pc'[c] = "returned" => \E r \in audited' :
                            r.call = c /\ r.attempt = 1 /\ r.outcome = "succeeded"
                      /\ pc'[c] = "rethrown" => \E r \in audited' :
                            r.call = c /\ r.attempt = 1 /\ r.outcome # "succeeded"
    BY DEF CallerOutcomeAudited
  <2>1. CASE c = p
    BY <1>2, <2>1
  <2>2. CASE c # p
    <3>1. pc'[c] = pc[c]
      BY <1>1, <2>2 DEF Procs
    <3>2. /\ pc[c] = "returned" => \E r \in audited :
                r.call = c /\ r.attempt = 1 /\ r.outcome = "succeeded"
          /\ pc[c] = "rethrown" => \E r \in audited :
                r.call = c /\ r.attempt = 1 /\ r.outcome # "succeeded"
      BY DEF CallerInv, CallerOutcomeAudited
    <3>3. QED
      BY <3>1, <3>2
  <2>3. QED
    BY <2>1, <2>2
<1>6. QED
  BY <1>3, <1>4, <1>5 DEF CallerInv

LEMMA CallerInvariant == Spec => []CallerInv
<1>1. Init => CallerInv
  BY DEF Init, CallerInv, CallsAreFirst, RowsAreWritten, CallerOutcomeAudited, Procs, Busy, Awaiting
<1>2. TypeOK /\ CallerInv /\ [Next]_vars => CallerInv'
  <2> SUFFICES ASSUME TypeOK, CallerInv, [Next]_vars
               PROVE  CallerInv'
    OBVIOUS
  <2>1. ASSUME UNCHANGED <<pc, audited>>,
               \A q \in Procs : /\ job'[q].msg = job[q].msg
                                /\ job'[q].succeeded = job[q].succeeded
                                /\ job'[q].queued = job[q].queued
        PROVE  CallerInv'
    BY <2>1 DEF CallerInv, CallsAreFirst, RowsAreWritten, CallerOutcomeAudited, Busy, RowOf, Procs
  <2>2. CASE UNCHANGED vars
    BY <2>1, <2>2 DEF vars, store
  <2>3. CASE StartConsumer \/ Restart \/ Expire
    BY <2>1, <2>3 DEF StartConsumer, Restart, Expire, store
  <2>4. CASE DropConnection
    <3>1. \A q \in Procs : /\ job'[q].msg = job[q].msg
                           /\ job'[q].succeeded = job[q].succeeded
                           /\ job'[q].queued = job[q].queued
      BY <2>4 DEF DropConnection, Unacked, TypeOK, Procs, Job
    <3>2. QED
      BY <2>1, <2>4, <3>1 DEF DropConnection, store
  <2>5. CASE Crash
    <3>1. UNCHANGED audited /\ \A q \in Procs : ~Busy(q)'
      BY <2>5, ConstantsAssumption DEF Crash, store, Busy, Awaiting
    <3>2. \A c \in Calls : pc'[c] \in {"returned", "rethrown"} => pc'[c] = pc[c]
      BY <2>5, ConstantsAssumption DEF Crash, Procs
    <3>3. QED
      BY <3>1, <3>2 DEF CallerInv, CallsAreFirst, RowsAreWritten, CallerOutcomeAudited, Procs, Busy, Awaiting
  <2>6. ASSUME NEW c \in Calls, ExecuteAsync(c) \/ CallerCancels(c)
        PROVE  CallerInv'
    <3>1. c \in Procs /\ UNCHANGED audited /\ \A q \in Procs \ {c} : job'[q] = job[q]
      BY <2>6 DEF ExecuteAsync, CallerCancels, Finish, TypeOK, Procs, store
    <3>2. CASE Goto(c, "run") /\ ExecuteAsync(c)
      <4>1. job'[c].msg.call = c /\ job'[c].msg.attempt = 1
        BY <3>2 DEF ExecuteAsync, Goto, Finish, NewJob, TypeOK, Procs
      <4>2. QED
        BY <3>1, <3>2, <4>1, CallerInvStep DEF Goto
    <3>3. CASE pc' = [pc EXCEPT ![c] = "bypassed"] \/ pc' = [pc EXCEPT ![c] = "aborted"]
      BY <3>1, <3>3, CallerInvStep DEF Awaiting
    <3>4. QED
      BY <2>6, <3>2, <3>3 DEF ExecuteAsync, CallerCancels, Finish
  <2>7. ASSUME NEW h \in Handlers, Deliver(h) \/ PublishDeadLetter(h) \/ Ack(h)
        PROVE  CallerInv'
    <3>1. /\ h \in Procs /\ h \notin Calls /\ UNCHANGED audited
          /\ \A q \in Procs \ {h} : job'[q] = job[q]
      BY <2>7, ConstantsAssumption DEF Deliver, PublishDeadLetter, Ack, Finish, TypeOK, Procs, store
    <3>2. PICK step \in {"run", "ack", "idle"} : pc' = [pc EXCEPT ![h] = step]
      BY <2>7 DEF Deliver, PublishDeadLetter, Ack, Goto, Finish
    <3>3. QED
      BY <3>1, <3>2, CallerInvStep
  <2>8. ASSUME NEW p \in Procs, TryExecuteOperation(p) \/ ScheduleNextAttempt(p)
        PROVE  CallerInv'
    <3>1. PICK step \in {"audit", "schedule"} : pc' = [pc EXCEPT ![p] = step]
      BY <2>8 DEF TryExecuteOperation, ScheduleNextAttempt, Goto
    <3>2. /\ UNCHANGED audited
          /\ \A q \in Procs \ {p} : job'[q] = job[q]
      BY <2>8 DEF TryExecuteOperation, ScheduleNextAttempt, ReportQueued, TypeOK, store
    <3>3. Busy(p)
      BY <2>8 DEF TryExecuteOperation, ScheduleNextAttempt, Busy, Awaiting
    <3>4. job[p] \in Job
      BY <3>3, BusyTypes
    <3>5. job'[p].msg = job[p].msg
      BY <2>8, <3>4 DEF TryExecuteOperation, ScheduleNextAttempt, ReportQueued, TypeOK, Job
    <3>6. p \in Calls => job'[p].msg.call = p /\ job'[p].msg.attempt = 1
      BY <3>3, <3>5 DEF CallerInv, CallsAreFirst
    <3>7. QED
      BY <3>1, <3>2, <3>6, CallerInvStep
  <2>9. ASSUME NEW p \in Procs, AppendAudit(p)
        PROVE  CallerInv'
    <3>1. /\ pc' = [pc EXCEPT ![p] = "read"] /\ Busy(p) /\ UNCHANGED job
          /\ audited' = audited \cup {RowOf(p)}
      BY <2>9 DEF AppendAudit, Goto, Busy, Awaiting
    <3>2. RowOf(p)' = RowOf(p)
      BY <3>1 DEF RowOf
    <3>3. QED
      BY <3>1, <3>2, CallerInvStep DEF CallerInv, CallsAreFirst
  <2>10. ASSUME NEW p \in Procs, GetStatus(p)
         PROVE  CallerInv'
    <3>1. /\ pc[p] = "read" /\ pc' = [pc EXCEPT ![p] = "write"] /\ Busy(p) /\ UNCHANGED audited
          /\ job' = [job EXCEPT ![p].previous = status[ServiceOfJob(p)]]
      BY <2>10 DEF GetStatus, Goto, Busy, Awaiting, store
    <3>2. job[p] \in Job
      BY <3>1, BusyTypes
    <3>3. /\ job'[p].msg = job[p].msg
          /\ job'[p].succeeded = job[p].succeeded
          /\ job'[p].queued = job[p].queued
          /\ \A q \in Procs \ {p} : job'[q] = job[q]
      BY <3>1, <3>2 DEF TypeOK, Job
    <3>4. RowOf(p)' = RowOf(p) /\ RowOf(p) \in audited
      BY <3>1, <3>3 DEF RowOf, CallerInv, RowsAreWritten
    <3>5. p \in Calls => job'[p].msg.call = p /\ job'[p].msg.attempt = 1
      BY <3>1, <3>3 DEF CallerInv, CallsAreFirst
    <3>6. QED
      BY <3>1, <3>3, <3>4, <3>5, CallerInvStep
  <2>11. ASSUME NEW p \in Procs, UpsertStatus(p) \/ StoreFails(p)
         PROVE  CallerInv'
    <3>1. /\ Busy(p) /\ UNCHANGED audited /\ \A q \in Procs \ {p} : job'[q] = job[q]
      BY <2>11 DEF UpsertStatus, StoreFails, Finish, Busy, Awaiting, TypeOK
    <3>2. CASE p \in Handlers
      <4>1. p \notin Calls /\ UNCHANGED job
        BY <2>11, <3>2, ConstantsAssumption DEF UpsertStatus, StoreFails
      <4>2. RowOf(p)' = RowOf(p) /\ (pc[p] = "write" => RowOf(p) \in audited)
        BY <4>1 DEF RowOf, CallerInv, RowsAreWritten
      <4>3. \/ pc[p] = "write" /\ pc' = [pc EXCEPT ![p] = "deadletter"]
            \/ pc' = [pc EXCEPT ![p] = "ack"]
        BY <2>11, <4>1 DEF UpsertStatus, StoreFails, Goto
      <4>4. QED
        BY <3>1, <4>1, <4>2, <4>3, CallerInvStep
    <3>3. CASE p \in Calls
      <4>1. p \notin Handlers
        BY <3>3, ConstantsAssumption
      <4>2. CASE pc' = [pc EXCEPT ![p] = "aborted"]
        BY <3>1, <4>2, CallerInvStep DEF Awaiting
      <4>3. CASE UpsertStatus(p)
        <5>1. /\ pc[p] = "write"
              /\ pc' = [pc EXCEPT ![p] = IF job[p].succeeded THEN "returned" ELSE "rethrown"]
          BY <4>1, <4>3 DEF UpsertStatus, Finish
        <5>2. /\ RowOf(p) \in audited /\ RowOf(p).call = p /\ RowOf(p).attempt = 1
              /\ job[p].succeeded <=> RowOf(p).outcome = "succeeded"
          BY <3>1, <3>3, <5>1 DEF RowOf, CallerInv, RowsAreWritten, CallsAreFirst
        <5>3. QED
          BY <3>1, <5>1, <5>2, CallerInvStep DEF Awaiting
      <4>4. QED
        BY <2>11, <4>1, <4>2, <4>3 DEF StoreFails, Finish
    <3>4. QED
      BY <3>2, <3>3 DEF Procs
  <2>12. QED
    BY <2>2, <2>3, <2>4, <2>5, <2>6, <2>7, <2>8, <2>9, <2>10, <2>11 DEF Next, Step
<1>3. QED
  BY <1>1, <1>2, TypeCorrect, PTL DEF Spec

\* A caller that is given the service's answer or its error finds its attempt in the
\* audit log with that outcome.
THEOREM CallersAreTold == Spec => []CallerOutcomeAudited
<1>1. CallerInv => CallerOutcomeAudited
  BY DEF CallerInv
<1>2. QED
  BY <1>1, CallerInvariant, PTL

-----------------------------------------------------------------------------
(* Chains of attempts                                                      *)

LEMMA ShiftedCardinality ==
    ASSUME NEW A \in SUBSET Int, NEW B, IsFiniteSet(B), NEW k \in Int, \A i \in A : i + k \in B
    PROVE  IsFiniteSet(A) /\ Cardinality(A) <= Cardinality(B)
<1> DEFINE f == [i \in A |-> i + k]
<1>1. f \in Injection(A, B)
  <2>1. f \in [A -> B]
    OBVIOUS
  <2>2. \A i, j \in A : f[i] = f[j] => i = j
    OBVIOUS
  <2>3. QED
    BY <2>1, <2>2 DEF Injection, IsInjective
<1>2. QED
  BY <1>1, FS_Injection

\* How many messages of a call the queue operations add and take away.
LEMMA InQueueFinite ==
    ASSUME NEW S, NEW q \in Seq(S), NEW c
    PROVE  /\ IsFiniteSet({i \in DOMAIN q : q[i].call = c})
           /\ InQueue(q, c) \in Nat
<1>1. DOMAIN q = 1 .. Len(q) /\ Len(q) \in Nat
  OBVIOUS
<1>2. IsFiniteSet(DOMAIN q)
  BY <1>1, FS_Interval
<1>3. {i \in DOMAIN q : q[i].call = c} \in SUBSET DOMAIN q
  OBVIOUS
<1>4. QED
  BY <1>2, <1>3, FS_Subset, FS_CardinalityType DEF InQueue

LEMMA InQueueAppend ==
    ASSUME NEW S, NEW q \in Seq(S), NEW m \in S, NEW c
    PROVE  InQueue(Append(q, m), c) = InQueue(q, c) + (IF m.call = c THEN 1 ELSE 0)
<1> DEFINE Q == {i \in DOMAIN q : q[i].call = c}
           R == {i \in DOMAIN Append(q, m) : Append(q, m)[i].call = c}
<1>1. /\ DOMAIN q = 1 .. Len(q) /\ DOMAIN Append(q, m) = 1 .. Len(q) + 1 /\ Len(q) \in Nat
      /\ \A i \in 1 .. Len(q) : Append(q, m)[i] = q[i]
      /\ Append(q, m)[Len(q) + 1] = m
  OBVIOUS
<1>2. IsFiniteSet(Q) /\ Cardinality(Q) \in Nat
  BY InQueueFinite DEF InQueue
<1>3. InQueue(q, c) = Cardinality(Q) /\ InQueue(Append(q, m), c) = Cardinality(R)
  BY DEF InQueue
<1>4. m.call = c => R = Q \cup {Len(q) + 1} /\ Len(q) + 1 \notin Q
  BY <1>1
<1>5. m.call # c => R = Q
  BY <1>1
<1> HIDE DEF Q, R
<1>6. QED
  BY <1>2, <1>3, <1>4, <1>5, FS_AddElement

LEMMA InQueueTail ==
    ASSUME NEW S, NEW q \in Seq(S), q # <<>>, NEW c
    PROVE  InQueue(Tail(q), c) + (IF Head(q).call = c THEN 1 ELSE 0) <= InQueue(q, c)
<1> DEFINE Q == {i \in DOMAIN q : q[i].call = c}
           R == {i \in DOMAIN Tail(q) : Tail(q)[i].call = c}
<1>1. /\ Len(q) \in Nat \ {0} /\ DOMAIN q = 1 .. Len(q) /\ DOMAIN Tail(q) = 1 .. Len(q) - 1
      /\ \A i \in 1 .. Len(q) - 1 : Tail(q)[i] = q[i + 1]
      /\ Head(q) = q[1] /\ Tail(q) \in Seq(S)
  OBVIOUS
<1>2. IsFiniteSet(Q) /\ Cardinality(Q) \in Nat /\ Cardinality(R) \in Nat
  BY <1>1, InQueueFinite DEF InQueue
<1>3. IsFiniteSet(Q \ {1}) /\ Cardinality(Q \ {1}) = IF 1 \in Q THEN Cardinality(Q) - 1 ELSE Cardinality(Q)
  BY <1>2, FS_RemoveElement
<1>4. R \in SUBSET Int /\ \A i \in R : i + 1 \in Q \ {1}
  BY <1>1
<1>5. 1 \in Q <=> Head(q).call = c
  BY <1>1
<1>6. InQueue(q, c) = Cardinality(Q) /\ InQueue(Tail(q), c) = Cardinality(R)
  BY DEF InQueue
<1> HIDE DEF Q, R
<1>7. Cardinality(R) <= Cardinality(Q \ {1})
  <2> DEFINE B == Q \ {1}
  <2>1. IsFiniteSet(B) /\ R \in SUBSET Int /\ \A i \in R : i + 1 \in B
    BY <1>3, <1>4
  <2> HIDE DEF B
  <2>2. Cardinality(R) <= Cardinality(B)
    <3>1. \A k \in Int : (\A i \in R : i + k \in B) => Cardinality(R) <= Cardinality(B)
      BY <2>1, ShiftedCardinality
    <3>2. (\A i \in R : i + 1 \in B) => Cardinality(R) <= Cardinality(B)
      BY <3>1, 1 \in Int, Zenon
    <3>3. QED
      BY <2>1, <3>2
  <2>3. QED
    BY <2>2 DEF B
<1>8. QED
  BY <1>2, <1>3, <1>5, <1>6, <1>7

LEMMA InQueuePrepend ==
    ASSUME NEW S, NEW q \in Seq(S), NEW m \in S, NEW c
    PROVE  InQueue(<<m>> \o q, c) <= InQueue(q, c) + 1
<1> DEFINE r == <<m>> \o q
           Q == {i \in DOMAIN q : q[i].call = c}
           R == {i \in DOMAIN r : r[i].call = c}
<1>1. /\ r \in Seq(S) /\ Len(q) \in Nat /\ DOMAIN q = 1 .. Len(q) /\ DOMAIN r = 1 .. Len(q) + 1
      /\ \A i \in 1 .. Len(q) : r[i + 1] = q[i]
  OBVIOUS
<1>2. /\ IsFiniteSet(Q) /\ Cardinality(Q) \in Nat
      /\ IsFiniteSet(R) /\ Cardinality(R) \in Nat
  BY <1>1, InQueueFinite DEF InQueue
<1>3. IsFiniteSet(R \ {1}) /\ Cardinality(R \ {1}) = IF 1 \in R THEN Cardinality(R) - 1 ELSE Cardinality(R)
  BY <1>2, FS_RemoveElement
<1>4. R \ {1} \in SUBSET Int /\ \A i \in R \ {1} : i + (-1) \in Q
  <2>1. \A i \in 2 .. Len(q) + 1 : i - 1 \in 1 .. Len(q) /\ r[i] = q[i - 1]
    BY <1>1
  <2>2. QED
    BY <1>1, <2>1
<1>5. InQueue(q, c) = Cardinality(Q) /\ InQueue(r, c) = Cardinality(R)
  BY DEF InQueue
<1> HIDE DEF Q, R
<1>6. Cardinality(R \ {1}) <= Cardinality(Q)
  <2> DEFINE A == R \ {1}
  <2>1. IsFiniteSet(Q) /\ A \in SUBSET Int /\ \A i \in A : i + (-1) \in Q
    BY <1>2, <1>4
  <2> HIDE DEF A
  <2>2. Cardinality(A) <= Cardinality(Q)
    <3>1. \A k \in Int : (\A i \in A : i + k \in Q) => Cardinality(A) <= Cardinality(Q)
      BY <2>1, ShiftedCardinality
    <3>2. QED
      BY <2>1, <3>1
  <2>3. QED
    BY <2>2 DEF A
<1>7. QED
  BY <1>2, <1>3, <1>5, <1>6

Holders(c) == {h \in Handlers : Holds(h, c)}

\* An interactive call that may still start a chain.
Starting(c) == IF pc[c] \in {"idle", "run", "schedule"} THEN 1 ELSE 0

\* A handler whose attempt is open has queued nothing yet.
AttemptsAreOpen ==
    \A h \in Handlers : pc[h] \in {"run", "schedule"} => ~job[h].succeeded /\ ~job[h].queued

\* The chain that a call has, or may still start, and one for each repetition.
ChainsCounted == \A c \in Calls : Chains(c) + Starting(c) <= 1 + redeliveries

ForkInv == ChainsCounted /\ AttemptsAreOpen

LEMMA ChainParts ==
    ASSUME TypeOK, NEW c
    PROVE  /\ Chains(c) = InQueue(retryQueue, c) + InQueue(executeQueue, c) + Cardinality(Holders(c))
           /\ InQueue(retryQueue, c) \in Nat /\ InQueue(executeQueue, c) \in Nat
           /\ IsFiniteSet(Holders(c)) /\ Cardinality(Holders(c)) \in Nat
           /\ redeliveries \in Nat
<1>1. retryQueue \in Seq(Message) /\ executeQueue \in Seq(Message) /\ redeliveries \in Nat
  BY DEF TypeOK
<1>2. IsFiniteSet(Holders(c)) /\ Cardinality(Holders(c)) \in Nat
  BY ConstantsAssumption, FS_Subset, FS_CardinalityType DEF Holders
<1>3. Chains(c) = InQueue(retryQueue, c) + InQueue(executeQueue, c) + Cardinality(Holders(c))
  BY DEF Chains, Holders
<1>4. QED
  BY <1>1, <1>2, <1>3, InQueueFinite

\* If the parts grow by no more than the whole may, the count stays right.
LEMMA ChainsCountedStep ==
    ASSUME TypeOK, TypeOK', ChainsCounted,
           NEW c \in Calls, NEW a \in Int, NEW b \in Int, NEW d \in Int, NEW e \in Int,
           InQueue(retryQueue', c) <= InQueue(retryQueue, c) + a,
           InQueue(executeQueue', c) <= InQueue(executeQueue, c) + b,
           Cardinality(Holders(c)') <= Cardinality(Holders(c)) + d,
           Starting(c)' <= Starting(c) + e,
           a + b + d + e <= redeliveries' - redeliveries
    PROVE  (Chains(c) + Starting(c) <= 1 + redeliveries)'
<1>1. /\ Chains(c) = InQueue(retryQueue, c) + InQueue(executeQueue, c) + Cardinality(Holders(c))
      /\ InQueue(retryQueue, c) \in Nat /\ InQueue(executeQueue, c) \in Nat
      /\ Cardinality(Holders(c)) \in Nat /\ redeliveries \in Nat
  BY ChainParts
<1>2. Chains(c)' = InQueue(retryQueue', c) + InQueue(executeQueue', c) + Cardinality(Holders(c)')
  BY DEF Chains, Holders, InQueue
<1>3. InQueue(retryQueue', c) \in Nat /\ InQueue(executeQueue', c) \in Nat
  <2>1. retryQueue' \in Seq(Message) /\ executeQueue' \in Seq(Message)
    BY DEF TypeOK
  <2>2. QED
    BY <2>1, InQueueFinite
<1>4. Cardinality(Holders(c)') \in Nat
  <2>1. Holders(c)' \in SUBSET Handlers
    BY DEF Holders
  <2>2. QED
    BY <2>1, ConstantsAssumption, FS_Subset, FS_CardinalityType
<1>5. Starting(c) \in Nat /\ Starting(c)' \in Nat /\ redeliveries' \in Nat
  BY DEF Starting, TypeOK
<1>6. Chains(c) + Starting(c) <= 1 + redeliveries
  BY DEF ChainsCounted
<1>7. /\ Chains(c) \in Int /\ Chains(c)' \in Int
      /\ Chains(c)' <= Chains(c) + a + b + d
  BY <1>1, <1>2, <1>3, <1>4
<1>8. Chains(c)' + Starting(c)' <= Chains(c) + Starting(c) + (a + b + d + e)
  BY <1>5, <1>7
<1>9. Chains(c)' + Starting(c)' <= 1 + redeliveries + (redeliveries' - redeliveries)
  <2>1. a + b + d + e <= redeliveries' - redeliveries
    OBVIOUS
  <2>2. Chains(c)' + Starting(c)' \in Int /\ Chains(c) + Starting(c) \in Int
    BY <1>5, <1>7
  <2>3. redeliveries' - redeliveries \in Int /\ 1 + redeliveries \in Int
    BY <1>1, <1>5
  <2>4. \A u, v, w, x, y \in Int : u <= v + w /\ w <= y /\ v <= x => u <= x + y
    OBVIOUS
  <2>5. a + b + d + e \in Int
    OBVIOUS
  <2> QED
    BY <1>6, <1>8, <2>1, <2>2, <2>3, <2>4, <2>5
<1>10. 1 + redeliveries + (redeliveries' - redeliveries) = 1 + redeliveries'
  BY <1>1, <1>5
<1>11. QED
  BY <1>9, <1>10

\* Holders that come and go.
LEMMA FewerHolders ==
    ASSUME NEW c, Holders(c)' \subseteq Holders(c)
    PROVE  Cardinality(Holders(c)') <= Cardinality(Holders(c))
<1>1. IsFiniteSet(Holders(c))
  BY ConstantsAssumption, FS_Subset DEF Holders
<1>2. QED
  BY <1>1, FS_Subset

LEMMA HoldersStep ==
    ASSUME NEW c, NEW h
    PROVE  /\ Holders(c)' \subseteq Holders(c) \cup {h} =>
                 Cardinality(Holders(c)') <= Cardinality(Holders(c)) + 1
           /\ Holders(c)' \subseteq Holders(c) \ {h} /\ h \in Holders(c) =>
                 Cardinality(Holders(c)') <= Cardinality(Holders(c)) - 1
<1>1. IsFiniteSet(Holders(c)) /\ Cardinality(Holders(c)) \in Nat
  <2>1. Holders(c) \in SUBSET Handlers
    BY DEF Holders
  <2>2. QED
    BY <2>1, ConstantsAssumption, FS_Subset, FS_CardinalityType
<1>2. IsFiniteSet(Holders(c) \cup {h}) /\ Cardinality(Holders(c) \cup {h}) <= Cardinality(Holders(c)) + 1
  BY <1>1, FS_AddElement
<1>3. /\ IsFiniteSet(Holders(c) \ {h})
      /\ h \in Holders(c) => Cardinality(Holders(c) \ {h}) = Cardinality(Holders(c)) - 1
  BY <1>1, FS_RemoveElement
<1>4. Cardinality(Holders(c)') \in Nat
  <2>1. Holders(c)' \in SUBSET Handlers
    BY DEF Holders
  <2>2. QED
    BY <2>1, ConstantsAssumption, FS_Subset, FS_CardinalityType
<1>5. Cardinality(Holders(c) \cup {h}) \in Nat
  BY <1>2, FS_CardinalityType
<1>6. /\ Holders(c)' \subseteq Holders(c) \cup {h} =>
            Cardinality(Holders(c)') <= Cardinality(Holders(c) \cup {h})
      /\ Holders(c)' \subseteq Holders(c) \ {h} =>
            Cardinality(Holders(c)') <= Cardinality(Holders(c) \ {h})
  BY <1>1, <1>2, <1>3, FS_Subset
<1>7. QED
  BY <1>1, <1>2, <1>3, <1>4, <1>5, <1>6

\* A step that leaves the queues alone, in which no handler begins to hold a call and
\* no interactive call may start a chain that it could not start before.
LEMMA ForkQuiet ==
    ASSUME TypeOK, TypeOK', ChainsCounted,
           UNCHANGED <<retryQueue, executeQueue, redeliveries>>,
           \A c \in Calls : Holders(c)' \subseteq Holders(c),
           \A c \in Calls : pc'[c] \in {"idle", "run", "schedule"} => pc[c] \in {"idle", "run", "schedule"}
    PROVE  ChainsCounted'
<1> SUFFICES ASSUME NEW c \in Calls PROVE (Chains(c) + Starting(c) <= 1 + redeliveries)'
  BY DEF ChainsCounted
<1>1. /\ InQueue(retryQueue', c) <= InQueue(retryQueue, c) + 0
      /\ InQueue(executeQueue', c) <= InQueue(executeQueue, c) + 0
  BY ChainParts
<1>2. Cardinality(Holders(c)') <= Cardinality(Holders(c)) + 0
  BY FewerHolders, ChainParts
<1>3. Starting(c)' <= Starting(c) + 0
  BY DEF Starting
<1>4. 0 + 0 + 0 + 0 <= redeliveries' - redeliveries
  BY DEF TypeOK
<1>5. QED
  BY <1>1, <1>2, <1>3, <1>4, ChainsCountedStep

\* A process that goes on.
LEMMA ForkProcess ==
    ASSUME TypeOK, TypeOK', ForkInv, UNCHANGED <<retryQueue, executeQueue, redeliveries>>,
           NEW p \in Procs, NEW step, pc' = [pc EXCEPT ![p] = step],
           \A q \in Procs \ {p} : job'[q] = job[q],
           p \in Handlers => \/ step \in {"idle", "ack"}
                             \/ /\ Busy(p) /\ pc[p] # "ack"
                                /\ job'[p].msg = job[p].msg
                                /\ job[p].succeeded => job'[p].succeeded
                                /\ job[p].queued => job'[p].queued
                                /\ step \in {"run", "schedule"} => pc[p] \in {"run", "schedule"} /\ UNCHANGED job,
           p \in Calls /\ step \in {"idle", "run", "schedule"} => pc[p] \in {"idle", "run", "schedule"}
    PROVE  ForkInv'
<1>1. \A q \in Procs \ {p} : pc'[q] = pc[q] /\ job'[q] = job[q]
  BY DEF TypeOK
<1>2. pc'[p] = step
  BY DEF TypeOK
<1>3. \A c \in Calls : Holders(c)' \subseteq Holders(c)
  <2> SUFFICES ASSUME NEW c \in Calls, NEW h \in Handlers, Holds(h, c)'
               PROVE  Holds(h, c)
    BY DEF Holders
  <2>1. CASE h # p
    BY <1>1, <2>1 DEF Holds, Busy, Procs
  <2>2. CASE h = p
    <3>1. step \notin {"idle", "ack"}
      BY <1>2, <2>2 DEF Holds, Busy, Awaiting
    <3>2. job'[p].succeeded \in BOOLEAN /\ job'[p].queued \in BOOLEAN
          /\ job[p].succeeded \in BOOLEAN /\ job[p].queued \in BOOLEAN
      BY <2>2, <3>1 DEF TypeOK, Holds, Job
    <3>3. QED
      BY <2>2, <3>1, <3>2 DEF Holds
  <2>3. QED
    BY <2>1, <2>2
<1>4. \A c \in Calls : pc'[c] \in {"idle", "run", "schedule"} => pc[c] \in {"idle", "run", "schedule"}
  BY <1>1, <1>2 DEF Procs
<1>5. ChainsCounted'
  BY <1>3, <1>4, ForkQuiet DEF ForkInv
<1>6. AttemptsAreOpen'
  BY <1>1, <1>2 DEF ForkInv, AttemptsAreOpen, Procs
<1>7. QED
  BY <1>5, <1>6 DEF ForkInv
\* The broker moves a message, or hands it to a handler that does not hold it yet.
LEMMA ForkBroker ==
    ASSUME TypeOK, TypeOK', ForkInv, Expire \/ \E h \in Handlers : Deliver(h)
    PROVE  ForkInv'
<1>1. CASE Expire
  <2>1. /\ retryQueue # <<>> /\ executeQueue' = Append(executeQueue, Head(retryQueue))
        /\ retryQueue' = Tail(retryQueue) /\ UNCHANGED <<pc, job, redeliveries>>
    BY <1>1 DEF Expire
  <2>2. retryQueue \in Seq(Message) /\ executeQueue \in Seq(Message) /\ Head(retryQueue) \in Message
    BY <2>1 DEF TypeOK
  <2>3. ASSUME NEW c \in Calls
        PROVE  (Chains(c) + Starting(c) <= 1 + redeliveries)'
    <3> DEFINE n == IF Head(retryQueue).call = c THEN 1 ELSE 0
    <3>1. InQueue(retryQueue', c) + n <= InQueue(retryQueue, c)
      BY <2>1, <2>2, InQueueTail
    <3>2. InQueue(executeQueue', c) = InQueue(executeQueue, c) + n
      BY <2>1, <2>2, InQueueAppend
    <3>3. Cardinality(Holders(c)') <= Cardinality(Holders(c)) + 0 /\ Starting(c)' <= Starting(c) + 0
      <4>1. Holders(c)' = Holders(c) /\ Starting(c)' = Starting(c)
        BY <2>1 DEF Holders, Holds, Busy, Starting
      <4>2. QED
        BY <4>1, ChainParts DEF Starting
    <3>4. n \in {0, 1}
      OBVIOUS
    <3>5. /\ InQueue(retryQueue', c) <= InQueue(retryQueue, c) + (-n)
          /\ InQueue(executeQueue', c) <= InQueue(executeQueue, c) + n
      <4> HIDE DEF n
      <4>1. InQueue(retryQueue', c) \in Nat
        BY InQueueFinite DEF TypeOK
      <4>2. QED
        BY <3>1, <3>2, <3>4, <4>1, ChainParts
    <3> HIDE DEF n
    <3>6. -n \in Int /\ n \in Int /\ -n + n + 0 + 0 <= redeliveries' - redeliveries
      BY <2>1, <3>4 DEF TypeOK
    <3>7. QED
      BY <3>3, <3>5, <3>6, ChainsCountedStep DEF ForkInv
  <2>4. AttemptsAreOpen'
    BY <2>1 DEF ForkInv, AttemptsAreOpen
  <2>5. QED
    BY <2>3, <2>4 DEF ForkInv, ChainsCounted
<1>2. ASSUME NEW h \in Handlers, Deliver(h)
      PROVE  ForkInv'
  <2>1. /\ executeQueue # <<>> /\ executeQueue' = Tail(executeQueue)
        /\ UNCHANGED <<retryQueue, redeliveries>> /\ pc[h] = "idle"
        /\ job' = [job EXCEPT ![h] = NewJob(Head(executeQueue))]
        /\ h \in Procs /\ h \notin Calls
    BY <1>2, ConstantsAssumption DEF Deliver, Procs
  <2>2. PICK step \in {"run", "ack"} : pc' = [pc EXCEPT ![h] = step]
    BY <1>2 DEF Deliver, Goto
  <2>3. executeQueue \in Seq(Message) /\ Head(executeQueue) \in Message
    BY <2>1 DEF TypeOK
  <2>4. \A q \in Procs \ {h} : pc'[q] = pc[q] /\ job'[q] = job[q]
    BY <2>1, <2>2 DEF TypeOK
  <2>5. pc'[h] = step /\ job'[h] = NewJob(Head(executeQueue))
    BY <2>1, <2>2 DEF TypeOK
  <2>6. ASSUME NEW c \in Calls
        PROVE  (Chains(c) + Starting(c) <= 1 + redeliveries)'
    <3> DEFINE n == IF Head(executeQueue).call = c THEN 1 ELSE 0
    <3>1. InQueue(executeQueue', c) + n <= InQueue(executeQueue, c)
      BY <2>1, <2>3, InQueueTail
    <3>2. Starting(c)' <= Starting(c) + 0
      BY <2>1, <2>4 DEF Starting, Procs
    <3>3. Holders(c)' \subseteq Holders(c) \cup {h}
      BY <2>4 DEF Holders, Holds, Busy, Procs
    <3>4. Head(executeQueue).call # c => Holders(c)' \subseteq Holders(c)
      BY <2>4, <2>5 DEF Holders, Holds, Busy, Procs, NewJob
    <3>5. Cardinality(Holders(c)') <= Cardinality(Holders(c)) + n
      <4>1. CASE Head(executeQueue).call = c
        BY <3>3, <4>1, HoldersStep
      <4>2. CASE Head(executeQueue).call # c
        BY <3>4, <4>2, FewerHolders, ChainParts
      <4>3. QED
        BY <4>1, <4>2
    <3>6. n \in {0, 1}
      OBVIOUS
    <3> HIDE DEF n
    <3>7. InQueue(executeQueue', c) <= InQueue(executeQueue, c) + (-n)
      <4>1. InQueue(executeQueue', c) \in Nat
        BY InQueueFinite DEF TypeOK
      <4>2. QED
        BY <3>1, <3>6, <4>1, ChainParts
    <3>8. /\ InQueue(retryQueue', c) <= InQueue(retryQueue, c) + 0
          /\ -n \in Int /\ n \in Int /\ 0 + (-n) + n + 0 <= redeliveries' - redeliveries
      BY <2>1, <3>6, ChainParts DEF TypeOK
    <3>9. QED
      BY <3>2, <3>5, <3>7, <3>8, ChainsCountedStep DEF ForkInv
  <2>7. AttemptsAreOpen'
    BY <2>4, <2>5 DEF ForkInv, AttemptsAreOpen, NewJob, Procs
  <2>8. QED
    BY <2>6, <2>7 DEF ForkInv, ChainsCounted
<1>3. QED
  BY <1>1, <1>2

\* A crash or a lost connection puts a message back, and repeats its delivery.
LEMMA ForkRequeue ==
    ASSUME TypeOK, TypeOK', ForkInv, Crash \/ DropConnection
    PROVE  ForkInv'
<1>1. /\ executeQueue' = Requeued /\ UNCHANGED retryQueue
      /\ redeliveries' = redeliveries + Cardinality(Unacked)
  BY DEF Crash, DropConnection
<1>2. IsFiniteSet(Unacked) /\ Cardinality(Unacked) \in Nat /\ (Cardinality(Unacked) = 0 <=> Unacked = {})
  BY ConstantsAssumption, FS_Subset, FS_CardinalityType, FS_EmptySet DEF Unacked
<1>3. \A c \in Calls : Holders(c)' \subseteq Holders(c)
  <2>1. CASE Crash
    <3>1. \A h \in Handlers : ~Busy(h)'
      BY <2>1 DEF Crash, Busy, Awaiting, Procs
    <3>2. QED
      BY <3>1 DEF Holders, Holds
  <2>2. CASE DropConnection
    <3>1. \A h \in Handlers : Busy(h)' => Busy(h)
      BY <2>2 DEF DropConnection, Busy
    <3>2. \A h \in Handlers : Busy(h) => /\ job'[h].msg = job[h].msg
                                         /\ job'[h].succeeded = job[h].succeeded
                                         /\ job'[h].queued = job[h].queued
      BY <2>2 DEF DropConnection, TypeOK, Procs, Job
    <3>3. pc' = pc
      BY <2>2 DEF DropConnection
    <3>4. QED
      BY <3>1, <3>2, <3>3 DEF Holders, Holds
  <2>3. QED
    BY <2>1, <2>2
<1>4. ASSUME NEW c \in Calls
      PROVE  (Chains(c) + Starting(c) <= 1 + redeliveries)'
  <2> DEFINE n == Cardinality(Unacked)
  <2>1. InQueue(executeQueue', c) <= InQueue(executeQueue, c) + n
    <3>1. CASE Unacked = {}
      BY <1>1, <1>2, <3>1, ChainParts DEF Requeued
    <3>2. CASE Unacked # {}
      <4>1. executeQueue \in Seq(Message)
        BY DEF TypeOK
      <4>2. InQueue(executeQueue', c) <= InQueue(executeQueue, c) + 1
        BY <1>1, <3>2, <4>1, UnackedMessage, InQueuePrepend DEF Requeued
      <4>3. InQueue(executeQueue', c) \in Nat
        BY InQueueFinite DEF TypeOK
      <4>4. QED
        BY <1>2, <3>2, <4>2, <4>3, ChainParts
    <3>3. QED
      BY <3>1, <3>2
  <2>2. Starting(c)' <= Starting(c) + 0
    BY ConstantsAssumption DEF Crash, DropConnection, Starting, Procs, Busy, Awaiting
  <2>3. Cardinality(Holders(c)') <= Cardinality(Holders(c)) + 0
    BY <1>3, FewerHolders, ChainParts
  <2>4. InQueue(retryQueue', c) <= InQueue(retryQueue, c) + 0
    BY <1>1, ChainParts
  <2> HIDE DEF n
  <2>5. n \in Int /\ 0 + n + 0 + 0 <= redeliveries' - redeliveries
    BY <1>1, <1>2 DEF TypeOK, n
  <2>6. QED
    BY <2>1, <2>2, <2>3, <2>4, <2>5, ChainsCountedStep DEF ForkInv
<1>5. AttemptsAreOpen'
  <2>1. CASE Crash
    BY <2>1 DEF Crash, AttemptsAreOpen, Procs
  <2>2. CASE DropConnection
    <3>1. UNCHANGED pc /\ \A h \in Handlers : Busy(h) => /\ job'[h].succeeded = job[h].succeeded
                                                       /\ job'[h].queued = job[h].queued
      BY <2>2 DEF DropConnection, TypeOK, Procs, Job
    <3>2. QED
      BY <3>1 DEF ForkInv, AttemptsAreOpen, Busy, Awaiting
  <2>3. QED
    BY <2>1, <2>2
<1>6. QED
  BY <1>4, <1>5 DEF ForkInv, ChainsCounted
\* Publishing the next attempt: a handler hands its chain over to the queue, an
\* interactive call starts one.
LEMMA ForkSchedule ==
    ASSUME TypeOK, TypeOK', ForkInv, CallsAreFirst, NEW p \in Procs, ScheduleNextAttempt(p)
    PROVE  ForkInv'
<1>1. /\ pc[p] = "schedule" /\ Busy(p) /\ pc' = [pc EXCEPT ![p] = "audit"]
      /\ UNCHANGED <<executeQueue, redeliveries>>
  BY DEF ScheduleNextAttempt, Goto, Busy, Awaiting
<1>2. job[p] \in Job /\ job[p].msg \in Message /\ job[p].msg.call \in Calls
  BY <1>1, BusyTypes
<1>3. /\ \A q \in Procs \ {p} : pc'[q] = pc[q] /\ job'[q] = job[q]
      /\ pc'[p] = "audit" /\ job'[p].msg = job[p].msg
      /\ job[p].succeeded = job'[p].succeeded /\ (job[p].queued => job'[p].queued)
  BY <1>1, <1>2 DEF ScheduleNextAttempt, ReportQueued, TypeOK, Job
<1>4. CASE UNCHANGED retryQueue
  BY <1>1, <1>3, <1>4, ForkProcess DEF Procs
<1>5. CASE MayRetry(job[p].msg) /\ retryQueue' = Append(retryQueue, NextMessage(job[p].msg)) /\ ReportQueued(p)
  <2> DEFINE m == NextMessage(job[p].msg)
  <2>1. retryQueue \in Seq(Message) /\ m \in Message /\ m.call = job[p].msg.call
    BY <1>2, <1>5, NextMessageType DEF TypeOK, MayRetry
  <2>2. job'[p].queued
    BY <1>2, <1>5 DEF ReportQueued, TypeOK, Job
  <2>3. ASSUME NEW c \in Calls
        PROVE  (Chains(c) + Starting(c) <= 1 + redeliveries)'
    <3> DEFINE n == IF m.call = c THEN 1 ELSE 0
    <3>1. InQueue(retryQueue', c) = InQueue(retryQueue, c) + n
      BY <1>5, <2>1, InQueueAppend
    <3>2. Holders(c)' \subseteq Holders(c) \ {p}
      BY <1>3, <2>2 DEF Holders, Holds, Busy, Procs
    <3>3. Cardinality(Holders(c)') <= Cardinality(Holders(c)) + 0
      BY <3>2, FewerHolders, ChainParts
    <3>4. Starting(c)' <= Starting(c) + 0
      BY <1>1, <1>3 DEF Starting, Procs
    <3>5. /\ n \in {0, 1} /\ -n \in Int /\ n \in Int
          /\ n + 0 + (-n) + 0 <= redeliveries' - redeliveries
          /\ n + 0 + 0 + (-n) <= redeliveries' - redeliveries
      BY <1>1 DEF TypeOK
    <3>6. n = 1 /\ p \in Handlers => Cardinality(Holders(c)') <= Cardinality(Holders(c)) + (-n)
      <4>1. n = 1 /\ p \in Handlers => p \in Holders(c)
        BY <1>1, <2>1 DEF Holders, Holds, ForkInv, AttemptsAreOpen
      <4>2. QED
        BY <3>2, <4>1, HoldersStep, ChainParts
    <3>7. n = 1 /\ p \in Calls => Starting(c)' <= Starting(c) + (-n)
      BY <1>1, <1>3, <2>1 DEF Starting, CallsAreFirst
    <3>8. InQueue(executeQueue', c) <= InQueue(executeQueue, c) + 0
      BY <1>1, ChainParts
    <3>9. InQueue(retryQueue', c) <= InQueue(retryQueue, c) + n
      BY <3>1, <3>5, ChainParts
    <3> HIDE DEF n
    <3>10. CASE n = 0
      BY <3>3, <3>4, <3>5, <3>8, <3>9, <3>10, ChainsCountedStep DEF ForkInv
    <3>11. CASE n = 1 /\ p \in Handlers
      BY <3>4, <3>5, <3>6, <3>8, <3>9, <3>11, ChainsCountedStep DEF ForkInv
    <3>12. CASE n = 1 /\ p \in Calls
      BY <3>3, <3>5, <3>7, <3>8, <3>9, <3>12, ChainsCountedStep DEF ForkInv
    <3>13. QED
      BY <3>5, <3>10, <3>11, <3>12 DEF Procs
  <2>4. AttemptsAreOpen'
    BY <1>3 DEF ForkInv, AttemptsAreOpen, Procs
  <2>5. QED
    BY <2>3, <2>4 DEF ForkInv, ChainsCounted
<1>6. QED
  BY <1>4, <1>5 DEF ScheduleNextAttempt

\* The pipeline itself never forks a chain of attempts: a call has one at most, and one
\* more for each delivery that the broker repeated.
THEOREM ForksAreRepetitions == Spec => []ForksOnlyByRedelivery
<1>1. Init => ForkInv
  <2> SUFFICES ASSUME Init PROVE ForkInv
    OBVIOUS
  <2>1. \A c : InQueue(retryQueue, c) = 0 /\ InQueue(executeQueue, c) = 0
    <3>1. DOMAIN retryQueue = {} /\ DOMAIN executeQueue = {}
      BY DEF Init
    <3>2. \A c : /\ {i \in DOMAIN retryQueue : retryQueue[i].call = c} = {}
                 /\ {i \in DOMAIN executeQueue : executeQueue[i].call = c} = {}
      BY <3>1
    <3>3. QED
      BY <3>2, FS_EmptySet DEF InQueue
  <2>2. \A c : Cardinality({h \in Handlers : Holds(h, c)}) = 0
    <3>1. \A c : {h \in Handlers : Holds(h, c)} = {}
      BY DEF Init, Holds, Busy, Awaiting, Procs
    <3>2. QED
      BY <3>1, FS_EmptySet
  <2>3. ChainsCounted
    <3>1. \A c \in Calls : Chains(c) = 0
      BY <2>1, <2>2 DEF Chains
    <3>2. \A c \in Calls : Starting(c) = 1
      BY DEF Init, Starting, Procs
    <3>3. QED
      BY <3>1, <3>2 DEF Init, ChainsCounted
  <2>4. QED
    BY <2>3 DEF Init, ForkInv, AttemptsAreOpen, Procs
<1>2. TypeOK /\ TypeOK' /\ CallerInv /\ ForkInv /\ [Next]_vars => ForkInv'
  <2> SUFFICES ASSUME TypeOK, TypeOK', CallerInv, ForkInv, [Next]_vars
               PROVE  ForkInv'
    OBVIOUS
  <2>1. CASE StartConsumer \/ Restart \/ UNCHANGED vars
    <3>1. UNCHANGED <<pc, job, retryQueue, executeQueue, redeliveries>>
      BY <2>1 DEF StartConsumer, Restart, vars, queues
    <3>2. \A c : Holders(c)' = Holders(c)
      BY <3>1 DEF Holders, Holds, Busy
    <3>3. QED
      BY <3>1, <3>2, ForkQuiet DEF ForkInv, AttemptsAreOpen
  <2>2. ASSUME NEW c \in Calls, ExecuteAsync(c) \/ CallerCancels(c)
        PROVE  ForkInv'
    <3>1. /\ c \in Procs /\ c \notin Handlers /\ \A q \in Procs \ {c} : job'[q] = job[q]
          /\ UNCHANGED <<retryQueue, executeQueue, redeliveries>>
      BY <2>2, ConstantsAssumption DEF ExecuteAsync, CallerCancels, Finish, TypeOK, Procs, queues
    <3>2. \/ pc' = [pc EXCEPT ![c] = "run"] /\ pc[c] = "idle"
          \/ \E step \in {"bypassed", "aborted"} : pc' = [pc EXCEPT ![c] = step]
      BY <2>2 DEF ExecuteAsync, CallerCancels, Finish, Goto
    <3>3. QED
      BY <3>1, <3>2, ForkProcess
  <2>3. ASSUME NEW h \in Handlers, PublishDeadLetter(h) \/ Ack(h)
        PROVE  ForkInv'
    <3>1. /\ h \in Procs /\ h \notin Calls /\ \A q \in Procs \ {h} : job'[q] = job[q]
          /\ UNCHANGED <<retryQueue, executeQueue, redeliveries>>
      BY <2>3, ConstantsAssumption DEF PublishDeadLetter, Ack, Finish, TypeOK, Procs, queues
    <3>2. \E step \in {"idle", "ack"} : pc' = [pc EXCEPT ![h] = step]
      BY <2>3 DEF PublishDeadLetter, Ack, Finish, Goto
    <3>3. QED
      BY <3>1, <3>2, ForkProcess
  <2>4. ASSUME NEW p \in Procs, TryExecuteOperation(p)
        PROVE  ForkInv'
    <3>1. /\ pc[p] = "run" /\ Busy(p) /\ UNCHANGED <<retryQueue, executeQueue, redeliveries>>
      BY <2>4 DEF TryExecuteOperation, Busy, Awaiting, queues
    <3>2. job[p] \in Job
      BY <3>1, BusyTypes
    <3>3. \/ pc' = [pc EXCEPT ![p] = "audit"] /\ job' = [job EXCEPT ![p].succeeded = TRUE]
          \/ pc' = [pc EXCEPT ![p] = "schedule"] /\ UNCHANGED job
      BY <2>4 DEF TryExecuteOperation, Goto
    <3>4. /\ \A q \in Procs \ {p} : job'[q] = job[q]
          /\ job'[p].msg = job[p].msg /\ job'[p].queued = job[p].queued
          /\ job[p].succeeded => job'[p].succeeded
      BY <3>2, <3>3 DEF TypeOK, Job
    <3>5. QED
      BY <3>1, <3>3, <3>4, ForkProcess
  <2>5. ASSUME NEW p \in Procs, AppendAudit(p) \/ GetStatus(p)
        PROVE  ForkInv'
    <3>1. /\ pc[p] \in {"audit", "read"} /\ Busy(p) /\ UNCHANGED <<retryQueue, executeQueue, redeliveries>>
      BY <2>5 DEF AppendAudit, GetStatus, Busy, Awaiting, queues
    <3>2. job[p] \in Job
      BY <3>1, BusyTypes
    <3>3. \E step \in {"read", "write"} : pc' = [pc EXCEPT ![p] = step]
      BY <2>5 DEF AppendAudit, GetStatus, Goto
    <3>4. /\ \A q \in Procs \ {p} : job'[q] = job[q]
          /\ job'[p].msg = job[p].msg /\ job'[p].queued = job[p].queued
          /\ job'[p].succeeded = job[p].succeeded
      BY <2>5, <3>2 DEF AppendAudit, GetStatus, TypeOK, Job
    <3>5. QED
      BY ZenonT(60), <3>1, <3>3, <3>4, ForkProcess
  <2>6. ASSUME NEW p \in Procs, UpsertStatus(p) \/ StoreFails(p)
        PROVE  ForkInv'
    <3>1. /\ pc[p] \in {"audit", "read", "write"} /\ Busy(p)
          /\ UNCHANGED <<retryQueue, executeQueue, redeliveries>>
      BY <2>6 DEF UpsertStatus, StoreFails, Busy, Awaiting, queues
    <3>2. \A q \in Procs \ {p} : job'[q] = job[q]
      BY <2>6 DEF UpsertStatus, StoreFails, Finish, TypeOK
    <3>3. CASE p \in Handlers
      <4>1. p \notin Calls /\ UNCHANGED job
        BY <2>6, <3>3, ConstantsAssumption DEF UpsertStatus, StoreFails
      <4>2. \E step \in {"deadletter", "ack"} : pc' = [pc EXCEPT ![p] = step]
        BY <2>6, <4>1 DEF UpsertStatus, StoreFails, Goto
      <4>3. QED
        BY <3>1, <3>2, <4>1, <4>2, ForkProcess
    <3>4. CASE p \in Calls
      <4>1. p \notin Handlers
        BY <3>4, ConstantsAssumption
      <4>2. \E step \in {"returned", "rethrown", "aborted"} : pc' = [pc EXCEPT ![p] = step]
        BY <2>6, <4>1 DEF UpsertStatus, StoreFails, Finish
      <4>3. QED
        BY <3>1, <3>2, <4>1, <4>2, ForkProcess
    <3>5. QED
      BY <3>3, <3>4 DEF Procs
  <2>7. QED
    BY <2>1, <2>2, <2>3, <2>4, <2>5, <2>6, ForkBroker, ForkRequeue, ForkSchedule DEF Next, Step, CallerInv
<1>3. TypeOK /\ ForkInv => ForksOnlyByRedelivery
  <2> SUFFICES ASSUME TypeOK, ForkInv, NEW c \in Calls PROVE Chains(c) <= 1 + redeliveries
    BY DEF ForksOnlyByRedelivery
  <2>1. Chains(c) \in Int /\ redeliveries \in Int /\ Starting(c) \in Nat
    BY ChainParts DEF Starting
  <2>2. Chains(c) + Starting(c) <= 1 + redeliveries
    BY DEF ForkInv, ChainsCounted
  <2>3. QED
    BY <2>1, <2>2
<1>4. QED
  BY <1>1, <1>2, <1>3, TypeCorrect, CallerInvariant, PTL DEF Spec

-----------------------------------------------------------------------------
(* The refinement: RetryPipeline implements RetryContract, and its logs explain *)
(* its queues.                                                                  *)

\* Some configuration has the highest limit.
LastAttempt ==
    CHOOSE n \in {k.maxAttempts : k \in Configs} : \A k \in Configs : k.maxAttempts <= n

LimitsBounded ==
    \E n \in {k.maxAttempts : k \in Configs} : \A k \in Configs : k.maxAttempts <= n

\* The state the contract calls open.
Open(c) == promised[c] > 0 /\ c \notin served /\ ~DeadLettered(c) /\ c \notin lost

\* A message stands for the last attempt promised to an open call.
Granted(m) == Open(m.call) /\ m.attempt = promised[m.call] /\ m.max <= LastAttempt

Queued == QueuedMessages(retryQueue) \cup QueuedMessages(executeQueue)

Distinct(q) == \A i, j \in DOMAIN q : q[i].call = q[j].call => i = j

\* The channel dispatches to one handler at a time, whose acknowledgement counts.
HandlersTakeTurns ==
    /\ \A g, h \in Handlers : Busy(g) /\ Busy(h) => g = h
    /\ \A h \in Handlers : Busy(h) => ~job[h].acked

\* A call is in one place: once in a queue, or with a handler.
PlacesAreDistinct ==
    /\ Distinct(retryQueue) /\ Distinct(executeQueue)
    /\ \A m \in QueuedMessages(retryQueue), n \in QueuedMessages(executeQueue) : m.call # n.call
    /\ \A h \in Handlers, c \in Calls : Holds(h, c) => ~InQueues(c)

PlacesAreGranted ==
    /\ \A m \in Queued : Granted(m)
    /\ \A h \in Handlers, c \in Calls : Holds(h, c) => Granted(job[h].msg)

\* Before its outcome is known a handler holds its call, and so does one that is
\* about to dead-letter it.
HandlersHold ==
    \A h \in Handlers : /\ pc[h] \in {"run", "schedule"} => ~job[h].succeeded /\ ~job[h].queued
                        /\ pc[h] = "deadletter" => NeedsDeadLetter(h)

\* An interactive call that has not come past scheduling has no chain yet.
CallsBegin ==
    /\ \A c \in Calls : pc[c] \in {"idle", "run", "schedule"} =>
          promised[c] = 0 /\ c \notin served /\ c \notin lost /\ ~DeadLettered(c)
    /\ \A c \in Calls : pc[c] \in {"run", "schedule"} =>
          /\ job[c].msg.call = c /\ job[c].msg.attempt = 1
          /\ job[c].msg.max <= LastAttempt

OneChain ==
    /\ HandlersTakeTurns /\ PlacesAreDistinct /\ PlacesAreGranted
    /\ HandlersHold /\ CallsBegin

\* Until a delivery is repeated, every call has one chain of attempts at most.
ChainInv == redeliveries = 0 => OneChain

-----------------------------------------------------------------------------

LEMMA DistinctAppend ==
    ASSUME NEW q \in Seq(Message), NEW m \in Message, Distinct(q),
           \A n \in QueuedMessages(q) : n.call # m.call
    PROVE  Distinct(Append(q, m))
<1>1. DOMAIN Append(q, m) = DOMAIN q \cup {Len(q) + 1}
  OBVIOUS
<1>2. /\ \A i \in DOMAIN q : Append(q, m)[i] = q[i]
      /\ Append(q, m)[Len(q) + 1] = m
  OBVIOUS
<1>3. \A i \in DOMAIN q : q[i].call # m.call
  BY DEF QueuedMessages
<1>4. QED
  BY <1>1, <1>2, <1>3 DEF Distinct

LEMMA DistinctTail ==
    ASSUME NEW q \in Seq(Message), q # <<>>, Distinct(q)
    PROVE  /\ Distinct(Tail(q))
           /\ \A n \in QueuedMessages(Tail(q)) : n.call # Head(q).call
<1>1. /\ Tail(q) \in Seq(Message) /\ Len(q) \in Nat \ {0} /\ Len(Tail(q)) = Len(q) - 1
      /\ Head(q) = q[1] /\ \A i \in 1 .. Len(q) - 1 : Tail(q)[i] = q[i + 1]
  OBVIOUS
<1>2. \A i \in DOMAIN Tail(q) : i \in 1 .. Len(q) - 1 /\ i + 1 \in DOMAIN q /\ Tail(q)[i] = q[i + 1]
  BY <1>1
<1>3. 1 \in DOMAIN q /\ \A i \in DOMAIN Tail(q) : i \in Nat /\ i + 1 # 1
  BY <1>1, <1>2
<1>4. Distinct(Tail(q))
  <2>1. ASSUME NEW i \in DOMAIN Tail(q), NEW j \in DOMAIN Tail(q), Tail(q)[i].call = Tail(q)[j].call
        PROVE  i = j
    <3>1. i + 1 = j + 1
      BY <1>2, <2>1 DEF Distinct
    <3>2. QED
      BY <1>3, <2>1, <3>1
  <2>2. QED
    BY <2>1 DEF Distinct
<1>5. \A n \in QueuedMessages(Tail(q)) : n.call # Head(q).call
  BY <1>1, <1>2, <1>3 DEF QueuedMessages, Distinct
<1>6. QED
  BY <1>4, <1>5

LEMMA QueuedTypes == TypeOK => Queued \subseteq Message
  BY DEF TypeOK, Queued, QueuedMessages

LEMMA LastAttemptIsHighest ==
    ASSUME LimitsBounded
    PROVE  LastAttempt \in Nat /\ \A k \in Configs : k.maxAttempts <= LastAttempt
<1>1. \A k \in Configs : k.maxAttempts \in Nat
  BY ConstantsAssumption DEF Config
<1>2. /\ LastAttempt \in {k.maxAttempts : k \in Configs}
      /\ \A k \in Configs : k.maxAttempts <= LastAttempt
  BY DEF LimitsBounded, LastAttempt
<1>3. QED
  BY <1>1, <1>2

\* One call's fate changes.
LEMMA FateChanges ==
    ASSUME NEW c \in Calls, NEW f, Fate'[c] = f, \A d \in Calls \ {c} : Fate'[d] = Fate[d]
    PROVE  Fate' = [Fate EXCEPT ![c] = f]
<1>1. Fate = [d \in Calls |-> Fate[d]] /\ Fate' = [d \in Calls |-> Fate'[d]]
  BY DEF Fate
<1>2. QED
  BY <1>1

LEMMA HoldsMessage ==
    ASSUME TypeOK, NEW h \in Handlers, NEW c, Holds(h, c)
    PROVE  job[h] \in Job /\ job[h].msg \in Message /\ job[h].msg.call = c /\ c \in Calls
<1>1. job[h] \in Job
  BY DEF TypeOK, Holds, Procs
<1>2. QED
  BY <1>1 DEF Job, Message, Holds

LEMMA ChainInit == Init => OneChain
<1> SUFFICES ASSUME Init PROVE OneChain
  OBVIOUS
<1>1. Handlers \subseteq Procs /\ Calls \subseteq Procs
  BY DEF Procs
<1>2. \A h \in Handlers : ~Busy(h) /\ pc[h] = "idle"
  BY <1>1 DEF Init, Busy, Awaiting
<1>3. QueuedMessages(retryQueue) = {} /\ QueuedMessages(executeQueue) = {}
  BY DEF Init, QueuedMessages
<1>4. HandlersTakeTurns /\ HandlersHold
  BY <1>2 DEF HandlersTakeTurns, HandlersHold
<1>5. PlacesAreDistinct /\ PlacesAreGranted
  BY <1>2, <1>3 DEF Init, PlacesAreDistinct, PlacesAreGranted, Distinct, Holds, Queued
<1>6. CallsBegin
  BY <1>1 DEF Init, CallsBegin, DeadLettered
<1>7. QED
  BY <1>4, <1>5, <1>6 DEF OneChain

\* A step of a process that leaves queues and outcomes alone: it goes on with what
\* it holds, or has nothing left to hold.
LEMMA QuietStep ==
    ASSUME TypeOK, OneChain, NEW p \in Procs, Busy(p),
           NEW step \in Awaiting \cup Ends \cup {"idle"},
           pc' = [pc EXCEPT ![p] = step],
           \A q \in Procs \ {p} : job'[q] = job[q],
           step \in Awaiting => job'[p].msg = job[p].msg /\ job'[p].acked = job[p].acked,
           UNCHANGED <<retryQueue, executeQueue, deadQueue, promised, served, lost>>,
           p \in Handlers => \A c \in Calls : Holds(p, c)' => Holds(p, c),
           step = "run" => FALSE,
           step = "idle" => p \in Handlers,
           step = "schedule" => pc[p] = "run" /\ UNCHANGED job,
           step = "deadletter" => NeedsDeadLetter(p)'
    PROVE  OneChain'
<1> USE ConstantsAssumption
<1>1. /\ pc'[p] = step /\ \A q \in Procs \ {p} : pc'[q] = pc[q]
      /\ Handlers \subseteq Procs /\ Calls \subseteq Procs
  BY DEF TypeOK, Procs
<1>2. \A h \in Handlers : (Busy(h))' => Busy(h) /\ job'[h].acked = job[h].acked /\ job'[h].msg = job[h].msg
  BY <1>1 DEF Busy
<1>3. \A h \in Handlers, c \in Calls : Holds(h, c)' => Holds(h, c)
  BY <1>1 DEF Holds, Busy
<1>4. HandlersTakeTurns'
  BY <1>2 DEF OneChain, HandlersTakeTurns
<1>5. PlacesAreDistinct'
  BY <1>3 DEF OneChain, PlacesAreDistinct, InQueues
<1>6. PlacesAreGranted'
  <2>1. \A m : Granted(m)' <=> Granted(m)
    BY DEF Granted, Open, DeadLettered
  <2>2. \A h \in Handlers, c \in Calls : Holds(h, c)' => job'[h].msg = job[h].msg
    BY <1>2 DEF Holds
  <2>3. QED
    BY <1>3, <2>1, <2>2 DEF OneChain, PlacesAreGranted, Queued
<1>7. HandlersHold'
  <2>1. ASSUME NEW h \in Handlers, h # p
        PROVE  pc'[h] = pc[h] /\ job'[h] = job[h]
    BY <1>1, <2>1
  <2>2. QED
    BY <1>1, <2>1 DEF OneChain, HandlersHold, NeedsDeadLetter
<1>8. CallsBegin'
  <2>1. ASSUME NEW c \in Calls, pc'[c] \in {"idle", "run", "schedule"}
        PROVE  /\ pc[c] \in {"idle", "run", "schedule"}
               /\ pc'[c] # "idle" => job'[c] = job[c] /\ pc[c] \in {"run", "schedule"}
    BY <1>1, <2>1
  <2>2. QED
    BY <2>1 DEF OneChain, CallsBegin, DeadLettered
<1>9. QED
  BY <1>4, <1>5, <1>6, <1>7, <1>8 DEF OneChain

\* A step that ends the chain of an open call, or the interactive attempt of a
\* call without one: its process does not hold the call any more.
LEMMA SettleStep ==
    ASSUME TypeOK, OneChain, NEW p \in Procs, Busy(p), NEW c \in Calls, job[p].msg.call = c,
           (p \in Handlers /\ Holds(p, c)) \/ (p \in Calls /\ pc[p] = "run"),
           NEW step \in {"audit", "ack"}, pc' = [pc EXCEPT ![p] = step],
           \A q \in Procs \ {p} : job'[q] = job[q],
           job'[p].msg = job[p].msg /\ job'[p].acked = job[p].acked,
           step = "audit" => job'[p].succeeded,
           UNCHANGED <<retryQueue, executeQueue, promised>>,
           \A d \in Calls \ {c} : (d \in served' <=> d \in served) /\ (d \in lost' <=> d \in lost),
           deadQueue \subseteq deadQueue', \A n \in deadQueue' : n \in deadQueue \/ n.call = c
    PROVE  OneChain'
<1> USE ConstantsAssumption
<1>1. /\ pc'[p] = step /\ \A q \in Procs \ {p} : pc'[q] = pc[q]
      /\ Handlers \subseteq Procs /\ Calls \subseteq Procs
  BY DEF TypeOK, Procs
<1>2. \A h \in Handlers : (Busy(h))' => Busy(h) /\ job'[h].acked = job[h].acked /\ job'[h].msg = job[h].msg
  BY <1>1 DEF Busy
<1>3. \A h \in Handlers, d \in Calls : Holds(h, d)' => Holds(h, d) /\ h # p
  BY <1>1 DEF Holds, Busy
<1>4. \A h \in Handlers : Busy(h) /\ p \in Handlers => h = p
  BY DEF OneChain, HandlersTakeTurns
<1>5. p \in Calls => p = c /\ promised[c] = 0
  BY DEF OneChain, CallsBegin
\* Nothing else stands for the call.
<1>6. /\ ~InQueues(c)
      /\ \A h \in Handlers \ {p} : ~Holds(h, c)
  <2>1. CASE p \in Handlers
    BY <1>4, <2>1 DEF OneChain, PlacesAreDistinct, Holds
  <2>2. CASE p \in Calls
    <3>1. ASSUME NEW h \in Handlers, Holds(h, c) PROVE FALSE
      <4>1. Open(job[h].msg.call) /\ job[h].msg.call = c
        BY <3>1 DEF OneChain, PlacesAreGranted, Granted, Holds
      <4>2. promised[c] > 0
        BY <4>1 DEF Open
      <4>3. QED
        BY <1>5, <2>2, <4>2
    <3>2. ASSUME InQueues(c) PROVE FALSE
      <4>1. PICK m \in Queued : m.call = c
        BY <3>2 DEF InQueues, Queued
      <4>2. promised[c] > 0
        BY <4>1 DEF OneChain, PlacesAreGranted, Granted, Open
      <4>3. QED
        BY <1>5, <2>2, <4>2
    <3>3. QED
      BY <3>1, <3>2
  <2>3. QED
    BY <2>1, <2>2 DEF Procs
<1>7. \A d \in Calls \ {c} : (Open(d)' <=> Open(d)) /\ (DeadLettered(d)' <=> DeadLettered(d))
  BY DEF Open, DeadLettered
<1>8. HandlersTakeTurns'
  BY <1>2 DEF OneChain, HandlersTakeTurns
<1>9. PlacesAreDistinct'
  BY <1>3 DEF OneChain, PlacesAreDistinct, InQueues
<1>10. PlacesAreGranted'
  <2>1. ASSUME NEW m \in Queued PROVE Granted(m)'
    <3>1. m.call \in Calls \ {c}
      BY <1>6, QueuedTypes DEF Queued, InQueues, Message
    <3>2. Granted(m)
      BY DEF OneChain, PlacesAreGranted
    <3>3. QED
      BY <1>7, <3>1, <3>2 DEF Granted
  <2>2. ASSUME NEW h \in Handlers, NEW d \in Calls, Holds(h, d)' PROVE Granted(job[h].msg)'
    <3>1. Holds(h, d) /\ h # p /\ d # c
      BY <1>3, <1>6, <2>2
    <3>2. job[h].msg.call \in Calls \ {c} /\ Granted(job[h].msg) /\ job'[h] = job[h]
      BY <1>1, <3>1 DEF Holds, OneChain, PlacesAreGranted
    <3>3. QED
      BY <1>7, <3>2 DEF Granted
  <2>3. QED
    BY <2>1, <2>2 DEF PlacesAreGranted, Queued
<1>11. HandlersHold'
  <2>1. ASSUME NEW h \in Handlers, h # p
        PROVE  pc'[h] = pc[h] /\ job'[h] = job[h]
    BY <1>1, <2>1
  <2>2. QED
    BY <1>1, <2>1 DEF OneChain, HandlersHold, NeedsDeadLetter
<1>12. CallsBegin'
  <2>1. ASSUME NEW d \in Calls, pc'[d] \in {"idle", "run", "schedule"}
        PROVE  d # p /\ pc'[d] = pc[d] /\ job'[d] = job[d] /\ d # c
    <3>1. d # p /\ pc'[d] = pc[d] /\ job'[d] = job[d]
      BY <1>1, <2>1
    <3>2. promised[d] = 0
      BY <2>1, <3>1 DEF OneChain, CallsBegin
    <3>3. p \in Handlers => promised[c] > 0
      BY DEF OneChain, PlacesAreGranted, Granted, Open, Holds
    <3>4. QED
      BY <1>5, <3>1, <3>2, <3>3 DEF Procs
  <2>2. QED
    BY <1>7, <2>1 DEF OneChain, CallsBegin
<1>13. QED
  BY <1>8, <1>9, <1>10, <1>11, <1>12 DEF OneChain

\* A retry is promised for the call a process holds: it is in the retry queue, or
\* was lost on the way.
LEMMA GrantStep ==
    ASSUME LimitsBounded, TypeOK, OneChain, NEW p \in Procs, pc[p] = "schedule",
           NEW m \in Message, job[p].msg = m, NEW c \in Calls, m.call = c,
           pc' = [pc EXCEPT ![p] = "audit"], MayRetry(m),
           ReportQueued(p), UNCHANGED <<executeQueue, deadQueue, served>>,
           \/ retryQueue' = Append(retryQueue, NextMessage(m)) /\ UNCHANGED lost
           \/ retryQueue' = retryQueue /\ lost' = lost \cup {c}
    PROVE  OneChain' /\ Contract!Grant(c)
<1> USE ConstantsAssumption
<1>t. job[p] \in Job /\ m.attempt \in Nat \ {0} /\ m.max \in Nat
  <2>1. job[p] \in Job
    BY DEF TypeOK, Busy, Awaiting
  <2>2. QED
    BY <2>1 DEF Job, Message
<1>1. /\ pc'[p] = "audit" /\ \A q \in Procs \ {p} : pc'[q] = pc[q]
      /\ Handlers \subseteq Procs /\ Calls \subseteq Procs
  BY DEF TypeOK, Procs
<1>n. /\ NextMessage(m) \in Message /\ NextMessage(m).call = c
      /\ NextMessage(m).attempt = m.attempt + 1 /\ NextMessage(m).max = m.max
      /\ m.attempt < m.max
  BY <1>t DEF MayRetry, NextMessage, Message
<1>j. /\ job' = [job EXCEPT ![p].queued = TRUE]
      /\ \A q \in Procs \ {p} : job'[q] = job[q]
      /\ job'[p].msg = m /\ job'[p].acked = job[p].acked /\ job'[p].queued
  BY <1>t DEF ReportQueued, TypeOK, Job
<1>h. p \in Handlers => Holds(p, c)
  BY DEF OneChain, HandlersHold, Holds, Busy, Awaiting
<1>c. p \in Calls => p = c /\ m.attempt = 1 /\ promised[c] = 0 /\ c \notin served /\ c \notin lost
                     /\ ~DeadLettered(c) /\ m.max <= LastAttempt
  BY DEF OneChain, CallsBegin
<1>g. p \in Handlers => Granted(m)
  BY <1>t, <1>h DEF OneChain, PlacesAreGranted
<1>o. c \notin served /\ c \notin lost /\ ~DeadLettered(c) /\ m.max <= LastAttempt
  BY <1>c, <1>g DEF Granted, Open, Procs
<1>p. /\ promised[c] \in Nat
      /\ promised' = [promised EXCEPT ![c] = m.attempt + 1]
      /\ promised'[c] = IF promised[c] = 0 THEN 2 ELSE promised[c] + 1
  <2>1. promised \in [Calls -> Nat]
    BY DEF TypeOK
  <2>2. promised[c] = m.attempt \/ (promised[c] = 0 /\ m.attempt = 1)
    BY <1>c, <1>g DEF Granted, Procs
  <2>3. promised' = [promised EXCEPT ![c] = IF @ > m.attempt + 1 THEN @ ELSE m.attempt + 1]
    BY <1>n DEF ReportQueued
  <2>4. ~(promised[c] > m.attempt + 1) /\ promised[c] \in Nat
    BY <1>t, <2>1, <2>2
  <2>5. promised' = [promised EXCEPT ![c] = m.attempt + 1]
    BY <2>3, <2>4
  <2>6. QED
    BY <1>t, <2>1, <2>2, <2>4, <2>5
\* Nothing else stands for the call.
<1>6. /\ ~InQueues(c)
      /\ \A h \in Handlers \ {p} : ~Holds(h, c)
  <2>1. CASE p \in Handlers
    BY <1>h, <1>t, <2>1 DEF OneChain, PlacesAreDistinct, HandlersTakeTurns, Holds
  <2>2. CASE p \in Calls
    <3>1. ASSUME NEW h \in Handlers, Holds(h, c) PROVE FALSE
      <4>1. promised[c] > 0
        BY <1>t, <3>1 DEF OneChain, PlacesAreGranted, Granted, Open, Holds
      <4>2. QED
        BY <1>c, <2>2, <4>1
    <3>2. ASSUME InQueues(c) PROVE FALSE
      <4>1. PICK n \in Queued : n.call = c
        BY <3>2 DEF InQueues, Queued
      <4>2. promised[c] > 0
        BY <4>1 DEF OneChain, PlacesAreGranted, Granted, Open
      <4>3. QED
        BY <1>c, <2>2, <4>2
    <3>3. QED
      BY <3>1, <3>2
  <2>3. QED
    BY <2>1, <2>2 DEF Procs
<1>q. \/ QueuedMessages(retryQueue)' = QueuedMessages(retryQueue) /\ retryQueue' = retryQueue
      \/ /\ QueuedMessages(retryQueue)' = QueuedMessages(retryQueue) \cup {NextMessage(m)}
         /\ c \notin lost'
  <2>1. retryQueue \in Seq(Message)
    BY DEF TypeOK
  <2>2. QueuedMessages(Append(retryQueue, NextMessage(m)))
           = QueuedMessages(retryQueue) \cup {NextMessage(m)}
    BY <1>n, <2>1, QueueAppend
  <2>3. QED
    BY <1>o, <2>2 DEF QueuedMessages
<1>7. \A d \in Calls \ {c} :
         /\ promised'[d] = promised[d]
         /\ Open(d)' <=> Open(d)
         /\ DeadLettered(d)' <=> DeadLettered(d)
  <2>1. promised \in [Calls -> Nat]
    BY DEF TypeOK
  <2>2. QED
    BY <1>t, <1>p, <2>1 DEF Open, DeadLettered
<1>8. \A h \in Handlers, d \in Calls : Holds(h, d)' => Holds(h, d) /\ h # p
  BY <1>1, <1>j DEF Holds, Busy
<1>9. HandlersTakeTurns'
  BY <1>1, <1>j DEF OneChain, HandlersTakeTurns, Busy, Awaiting
<1>10. PlacesAreDistinct'
  <2>1. Distinct(retryQueue)'
    <3>1. \A n \in QueuedMessages(retryQueue) : n.call # NextMessage(m).call
      BY <1>n, <1>6 DEF InQueues
    <3>2. Distinct(retryQueue) /\ retryQueue \in Seq(Message)
      BY DEF OneChain, PlacesAreDistinct, TypeOK
    <3>3. Distinct(Append(retryQueue, NextMessage(m)))
      BY <1>n, <3>1, <3>2, DistinctAppend
    <3>4. QED
      BY <3>2, <3>3 DEF Distinct
  <2>2. \A n \in QueuedMessages(retryQueue)', k \in QueuedMessages(executeQueue) : n.call # k.call
    BY <1>n, <1>q, <1>6 DEF OneChain, PlacesAreDistinct, InQueues
  <2>3. ASSUME NEW h \in Handlers, NEW d \in Calls, Holds(h, d)' PROVE ~InQueues(d)'
    <3>1. ~InQueues(d) /\ d # c
      BY <1>6, <1>8, <2>3 DEF OneChain, PlacesAreDistinct
    <3>2. QED
      BY <1>n, <1>q, <3>1 DEF InQueues
  <2>4. QED
    BY <2>1, <2>2, <2>3 DEF OneChain, PlacesAreDistinct
<1>11. PlacesAreGranted'
  <2>1. ASSUME NEW n \in Queued PROVE Granted(n)'
    <3>1. n.call \in Calls \ {c}
      BY <1>6, QueuedTypes DEF Queued, InQueues, Message
    <3>2. Granted(n)
      BY DEF OneChain, PlacesAreGranted
    <3>3. QED
      BY <1>7, <3>1, <3>2 DEF Granted
  <2>2. ASSUME c \notin lost', NEW n, n = NextMessage(m) PROVE Granted(n)'
    <3>1. promised'[c] = m.attempt + 1 /\ m.attempt + 1 > 0
      BY <1>t, <1>p DEF TypeOK
    <3>2. Open(c)'
      BY <1>o, <2>2, <3>1 DEF Open, DeadLettered
    <3>3. QED
      BY <1>n, <1>o, <2>2, <3>1, <3>2 DEF Granted
  <2>3. ASSUME NEW h \in Handlers, NEW d \in Calls, Holds(h, d)' PROVE Granted(job[h].msg)'
    <3>1. Holds(h, d) /\ h # p /\ d # c
      BY <1>6, <1>8, <2>3
    <3>2. job[h].msg.call \in Calls \ {c} /\ Granted(job[h].msg) /\ job'[h] = job[h]
      BY <1>1, <1>j, <3>1 DEF Holds, OneChain, PlacesAreGranted
    <3>3. QED
      BY <1>7, <3>2 DEF Granted
  <2>4. ASSUME NEW n \in Queued' PROVE Granted(n)'
    BY <1>q, <2>1, <2>2, <2>4 DEF Queued
  <2>5. ASSUME NEW h \in Handlers, NEW d \in Calls, Holds(h, d)' PROVE Granted(job[h].msg)'
    BY <2>3, <2>5
  <2>6. QED
    BY <2>4, <2>5 DEF PlacesAreGranted
<1>12. HandlersHold'
  <2>1. ASSUME NEW h \in Handlers, h # p
        PROVE  pc'[h] = pc[h] /\ job'[h] = job[h]
    BY <1>1, <1>j, <2>1
  <2>2. QED
    BY <1>1, <2>1 DEF OneChain, HandlersHold, NeedsDeadLetter
<1>13. CallsBegin'
  <2>1. ASSUME NEW d \in Calls, pc'[d] \in {"idle", "run", "schedule"}
        PROVE  d # p /\ pc'[d] = pc[d] /\ job'[d] = job[d] /\ d # c
    <3>1. d # p /\ pc'[d] = pc[d] /\ job'[d] = job[d]
      BY <1>1, <1>j, <2>1
    <3>2. promised[d] = 0
      BY <2>1, <3>1 DEF OneChain, CallsBegin
    <3>3. p \in Handlers => promised[c] > 0
      BY <1>g DEF Granted, Open
    <3>4. QED
      BY <1>c, <3>1, <3>2, <3>3 DEF Procs
  <2>2. QED
    BY <1>7, <2>1 DEF OneChain, CallsBegin
<1>14. Contract!Grant(c)
  <2>1. Fate[c] \in {"none", "open"}
    BY <1>t, <1>o DEF Fate
  <2>2. promised' = [promised EXCEPT ![c] = IF @ = 0 THEN 2 ELSE @ + 1]
    BY <1>t, <1>p DEF TypeOK
  <2>3. promised'[c] <= LastAttempt
    <3>1. promised'[c] = m.attempt + 1
      BY <1>t, <1>p DEF TypeOK
    <3>2. LastAttempt \in Nat
      BY LastAttemptIsHighest
    <3>3. QED
      BY <1>t, <1>n, <1>o, <3>1, <3>2
  <2>4. \E f \in {"open", "lost"} : Fate' = [Fate EXCEPT ![c] = f]
    <3> DEFINE f == IF c \in lost' THEN "lost" ELSE "open"
    <3>1. Fate'[c] = f
      <4>1. promised'[c] # 0
        BY <1>p
      <4>2. c \notin served' /\ ~DeadLettered(c)'
        BY <1>o DEF DeadLettered
      <4>3. QED
        BY <1>t, <4>1, <4>2 DEF Fate
    <3>2. \A d \in Calls \ {c} : Fate'[d] = Fate[d]
      BY <1>7 DEF Fate
    <3>3. Fate' = [Fate EXCEPT ![c] = f]
      BY <3>1, <3>2, FateChanges
    <3>4. QED
      BY <3>3
  <2>5. QED
    BY <2>1, <2>2, <2>3, <2>4 DEF Contract!Grant, LastAttempt
<1>15. QED
  BY <1>9, <1>10, <1>11, <1>12, <1>13, <1>14 DEF OneChain

-----------------------------------------------------------------------------

Implements == OneChain' /\ [Contract!Next]_<<promised, Fate, redeliveries > 0>>

\* The chain of an open call ends.
LEMMA FateSettles ==
    ASSUME TypeOK, NEW c \in Calls, Open(c), UNCHANGED promised,
           \A d \in Calls \ {c} : (d \in served' <=> d \in served) /\ (d \in lost' <=> d \in lost),
           deadQueue \subseteq deadQueue', \A n \in deadQueue' : n \in deadQueue \/ n.call = c,
           c \in served' \/ c \in lost' \/ DeadLettered(c)'
    PROVE  Contract!Settle(c)
<1>1. promised[c] \in Nat /\ promised[c] > 0 /\ promised[c] # 0
  BY DEF TypeOK, Open
<1>2. Fate[c] = "open"
  BY <1>1 DEF Fate, Open
<1>3. PICK f \in {"served", "dead", "lost"} : Fate'[c] = f
  BY <1>1 DEF Fate
<1>4. \A d \in Calls \ {c} : DeadLettered(d)' <=> DeadLettered(d)
  BY DEF DeadLettered
<1>5. \A d \in Calls \ {c} : Fate'[d] = Fate[d]
  BY <1>4 DEF Fate
<1>6. Fate' = [Fate EXCEPT ![c] = f]
  BY <1>3, <1>5, FateChanges
<1>7. QED
  BY <1>2, <1>6 DEF Contract!Settle, Contract!Settled

\* A step that leaves promises and outcomes alone stutters.
LEMMA FateStays ==
    ASSUME UNCHANGED <<promised, served, lost, deadQueue, redeliveries>>
    PROVE  UNCHANGED <<promised, Fate, redeliveries > 0>>
  BY DEF Fate, DeadLettered

LEMMA CrashImplements ==
    ASSUME TypeOK, OneChain, redeliveries = 0, redeliveries' = 0,
           Crash \/ DropConnection
    PROVE  Implements
<1>f. IsFiniteSet(Unacked)
  BY ConstantsAssumption, FS_Subset DEF Unacked
<1>1. Unacked = {}
  <2>1. Cardinality(Unacked) = 0
    BY <1>f, FS_CardinalityType DEF Crash, DropConnection
  <2>2. QED
    BY <1>f, <2>1, FS_EmptySet
<1>2. Crash
  BY <1>1 DEF DropConnection
<1>3. UNCHANGED <<retryQueue, executeQueue, deadQueue, promised, served, lost, redeliveries>>
  BY <1>1, <1>2 DEF Crash, Requeued, history
<1>4. Handlers \subseteq Procs /\ Calls \subseteq Procs /\ Calls \cap Handlers = {}
  BY ConstantsAssumption DEF Procs
<1>5. /\ \A h \in Handlers : pc'[h] = "idle" /\ ~Busy(h)'
      /\ \A c \in Calls : pc'[c] = IF Busy(c) THEN "aborted" ELSE pc[c]
  BY <1>2, <1>4 DEF Crash, Busy, Awaiting
<1>6. HandlersTakeTurns' /\ HandlersHold'
  BY <1>5 DEF HandlersTakeTurns, HandlersHold
<1>7. PlacesAreDistinct'
  BY <1>3, <1>5 DEF OneChain, PlacesAreDistinct, Holds
<1>8. PlacesAreGranted'
  BY <1>3, <1>5 DEF OneChain, PlacesAreGranted, Holds, Queued, Granted, Open, DeadLettered
<1>9. CallsBegin'
  <2>1. \A c \in Calls : pc'[c] \in {"idle", "run", "schedule"} => pc'[c] = "idle" /\ pc[c] = "idle"
    BY <1>5 DEF Busy, Awaiting
  <2>2. QED
    BY <1>3, <2>1 DEF OneChain, CallsBegin, DeadLettered
<1>10. QED
  BY <1>3, <1>6, <1>7, <1>8, <1>9, FateStays DEF Implements, OneChain

LEMMA ExpireImplements ==
    ASSUME TypeOK, OneChain, Expire PROVE Implements
<1>1. /\ retryQueue # <<>> /\ retryQueue' = Tail(retryQueue)
      /\ executeQueue' = Append(executeQueue, Head(retryQueue))
      /\ UNCHANGED <<pc, job, deadQueue, promised, served, lost, redeliveries>>
  BY DEF Expire, history
<1>t. retryQueue \in Seq(Message) /\ executeQueue \in Seq(Message)
  BY DEF TypeOK
<1>2. PICK m \in Message : m = Head(retryQueue)
  BY <1>1, <1>t, QueueTail
<1>3. /\ QueuedMessages(retryQueue) = {m} \cup QueuedMessages(Tail(retryQueue))
      /\ QueuedMessages(Append(executeQueue, m)) = QueuedMessages(executeQueue) \cup {m}
      /\ Distinct(Tail(retryQueue)) /\ Distinct(Append(executeQueue, m))
      /\ \A n \in QueuedMessages(Tail(retryQueue)) : n.call # m.call
  <2>1. QueuedMessages(retryQueue) = {m} \cup QueuedMessages(Tail(retryQueue))
    BY <1>1, <1>t, <1>2, QueueTail
  <2>2. \A n \in QueuedMessages(executeQueue) : n.call # m.call
    BY <2>1 DEF OneChain, PlacesAreDistinct
  <2>3. Distinct(retryQueue) /\ Distinct(executeQueue)
    BY DEF OneChain, PlacesAreDistinct
  <2>4. QED
    BY <1>1, <1>t, <1>2, <2>1, <2>2, <2>3, QueueAppend, DistinctAppend, DistinctTail
<1>4. /\ QueuedMessages(retryQueue') = QueuedMessages(Tail(retryQueue))
      /\ QueuedMessages(executeQueue') = QueuedMessages(executeQueue) \cup {m}
      /\ Distinct(retryQueue') /\ Distinct(executeQueue')
  BY <1>1, <1>2, <1>3
<1>5. QueuedMessages(retryQueue') \cup QueuedMessages(executeQueue') = Queued
  BY <1>3, <1>4 DEF Queued
<1>6. PlacesAreDistinct'
  <2>1. \A n \in QueuedMessages(retryQueue'), k \in QueuedMessages(executeQueue') : n.call # k.call
    BY <1>3, <1>4 DEF OneChain, PlacesAreDistinct
  <2>2. \A c \in Calls : InQueues(c)' <=> InQueues(c)
    BY <1>5 DEF InQueues, Queued
  <2>3. \A h \in Handlers, c \in Calls : Holds(h, c)' <=> Holds(h, c)
    BY <1>1 DEF Holds, Busy
  <2>4. QED
    BY <1>4, <2>1, <2>2, <2>3 DEF OneChain, PlacesAreDistinct
<1>7. PlacesAreGranted'
  <2>1. Queued' = Queued
    BY <1>5 DEF Queued
  <2>2. QED
    BY <1>1, <2>1 DEF OneChain, PlacesAreGranted, Granted, Open, DeadLettered, Holds, Busy
<1>8. HandlersTakeTurns' /\ HandlersHold' /\ CallsBegin'
  BY <1>1 DEF OneChain, HandlersTakeTurns, HandlersHold, CallsBegin, Busy, NeedsDeadLetter, DeadLettered
<1>9. QED
  BY <1>1, <1>6, <1>7, <1>8, FateStays DEF Implements, OneChain

LEMMA ExecuteImplements ==
    ASSUME LimitsBounded, TypeOK, OneChain, NEW c \in Calls, ExecuteAsync(c) PROVE Implements
<1>1. /\ pc[c] = "idle" /\ UNCHANGED <<retryQueue, executeQueue, deadQueue, promised, served, lost, redeliveries>>
  BY DEF ExecuteAsync, queues, history
<1>2. Handlers \subseteq Procs /\ Calls \subseteq Procs /\ Calls \cap Handlers = {}
  BY ConstantsAssumption DEF Procs
<1>3. PICK step \in {"run", "bypassed"} : pc' = [pc EXCEPT ![c] = step]
  BY DEF ExecuteAsync, Goto, Finish
<1>4. \A q \in Procs \ {c} : pc'[q] = pc[q] /\ job'[q] = job[q]
  BY <1>3 DEF ExecuteAsync, Goto, Finish, TypeOK
<1>5. pc'[c] = step /\ (step = "run" => /\ job'[c].msg.call = c /\ job'[c].msg.attempt = 1
                                        /\ job'[c].msg.max = config.maxAttempts)
  BY <1>2, <1>3 DEF ExecuteAsync, Goto, Finish, TypeOK, NewJob
<1>6. config.maxAttempts <= LastAttempt
  BY LastAttemptIsHighest DEF TypeOK
<1>7. \A h \in Handlers : pc'[h] = pc[h] /\ job'[h] = job[h]
  BY <1>2, <1>4
<1>8. HandlersTakeTurns' /\ HandlersHold'
  BY <1>7 DEF OneChain, HandlersTakeTurns, HandlersHold, Busy, NeedsDeadLetter
<1>9. PlacesAreDistinct' /\ PlacesAreGranted'
  <2>1. \A h \in Handlers, d \in Calls : Holds(h, d)' <=> Holds(h, d)
    BY <1>7 DEF Holds, Busy
  <2>2. QED
    BY <1>1, <1>7, <2>1 DEF OneChain, PlacesAreDistinct, PlacesAreGranted, InQueues, Queued,
                            Granted, Open, DeadLettered
<1>10. CallsBegin'
  <2>1. \A d \in Calls \ {c} : pc'[d] = pc[d] /\ job'[d] = job[d]
    BY <1>2, <1>4
  <2>2. QED
    BY <1>1, <1>5, <1>6, <2>1 DEF OneChain, CallsBegin, DeadLettered
<1>11. QED
  BY <1>1, <1>8, <1>9, <1>10, FateStays DEF Implements, OneChain

LEMMA DeliverImplements ==
    ASSUME TypeOK, OneChain, NEW h \in Handlers, Deliver(h) PROVE Implements
<1>1. /\ Unacked = {} /\ executeQueue # <<>> /\ executeQueue' = Tail(executeQueue)
      /\ UNCHANGED <<retryQueue, deadQueue, promised, served, redeliveries>>
  BY DEF Deliver
<1>t. executeQueue \in Seq(Message)
  BY DEF TypeOK
<1>2. PICK m \in Message : m = Head(executeQueue)
  BY <1>1, <1>t, QueueTail
<1>3. PICK step \in {"run", "ack"} :
         /\ pc' = [pc EXCEPT ![h] = step] /\ job' = [job EXCEPT ![h] = NewJob(m)]
         /\ lost' = IF step = "ack" THEN lost \cup {m.call} ELSE lost
  BY <1>2 DEF Deliver, Goto
<1>4. Handlers \subseteq Procs /\ Calls \subseteq Procs /\ Calls \cap Handlers = {}
  BY ConstantsAssumption DEF Procs
<1>c. m.call \in Calls
  BY DEF Message
<1>5. /\ pc'[h] = step /\ job'[h] = NewJob(m)
      /\ \A q \in Procs \ {h} : pc'[q] = pc[q] /\ job'[q] = job[q]
  BY <1>3, <1>4 DEF TypeOK
<1>6. job'[h].msg = m /\ ~job'[h].acked /\ ~job'[h].succeeded /\ ~job'[h].queued
  BY <1>5 DEF NewJob
\* No other handler is busy.
<1>7. \A g \in Handlers : ~Busy(g)
  BY <1>1 DEF OneChain, HandlersTakeTurns, Unacked
<1>8. \A g \in Handlers \ {h} : ~Busy(g)'
  BY <1>4, <1>5, <1>7 DEF Busy
<1>9. \A g \in Handlers, d \in Calls : Holds(g, d)' => g = h /\ d = m.call /\ step = "run"
  BY <1>5, <1>6, <1>8 DEF Holds
<1>q. /\ QueuedMessages(executeQueue) = {m} \cup QueuedMessages(Tail(executeQueue))
      /\ Distinct(Tail(executeQueue))
      /\ \A n \in QueuedMessages(Tail(executeQueue)) : n.call # m.call
  BY <1>1, <1>t, <1>2, QueueTail, DistinctTail DEF OneChain, PlacesAreDistinct
<1>r. QueuedMessages(executeQueue') = QueuedMessages(Tail(executeQueue)) /\ Distinct(executeQueue')
  BY <1>1, <1>q
<1>n. /\ m \in Queued /\ Queued' \subseteq Queued
      /\ \A n \in Queued' : n.call # m.call
  BY <1>1, <1>q, <1>r DEF Queued, OneChain, PlacesAreDistinct
<1>10. HandlersTakeTurns' /\ HandlersHold'
  <2>1. \A g \in Handlers \ {h} : pc'[g] \notin {"run", "schedule", "deadletter"}
    BY <1>8 DEF Busy, Awaiting
  <2>2. QED
    BY <1>5, <1>6, <1>8, <2>1 DEF HandlersTakeTurns, HandlersHold
<1>11. PlacesAreDistinct'
  <2>1. \A n \in QueuedMessages(retryQueue'), k \in QueuedMessages(executeQueue') : n.call # k.call
    BY <1>1, <1>q, <1>r DEF OneChain, PlacesAreDistinct
  <2>2. Distinct(retryQueue')
    BY <1>1 DEF OneChain, PlacesAreDistinct
  <2>3. ~InQueues(m.call)'
    BY <1>n DEF InQueues, Queued
  <2>4. QED
    BY <1>9, <1>r, <2>1, <2>2, <2>3 DEF PlacesAreDistinct
<1>g. Granted(m)
  BY <1>n DEF OneChain, PlacesAreGranted
<1>12. PlacesAreGranted'
  <2>1. ASSUME NEW n \in Queued' PROVE Granted(n)'
    <3>1. Granted(n) /\ n.call # m.call
      BY <1>n DEF OneChain, PlacesAreGranted
    <3>2. QED
      BY <1>1, <1>3, <3>1 DEF Granted, Open, DeadLettered
  <2>2. step = "run" => Granted(m)'
    BY <1>1, <1>3, <1>g DEF Granted, Open, DeadLettered
  <2>3. ASSUME NEW g \in Handlers, NEW d \in Calls, Holds(g, d)' PROVE Granted(job[g].msg)'
    <3>1. g = h /\ step = "run" /\ job'[g].msg = m
      BY <1>6, <1>9, <2>3
    <3>2. QED
      BY <2>2, <3>1 DEF Granted, Open
  <2>4. QED
    BY <2>1, <2>3 DEF PlacesAreGranted
<1>13. CallsBegin'
  <2>1. \A d \in Calls : pc'[d] = pc[d] /\ job'[d] = job[d]
    BY <1>4, <1>5
  <2>2. promised[m.call] > 0
    BY <1>g DEF Granted, Open
  <2>3. QED
    BY <1>1, <1>3, <2>1, <2>2 DEF OneChain, CallsBegin, DeadLettered
<1>14. [Contract!Next]_<<promised, Fate, redeliveries > 0>>
  <2>1. CASE step = "run"
    BY <1>1, <1>3, <2>1, FateStays
  <2>2. CASE step = "ack"
    <3>1. Contract!Settle(m.call)
      BY <1>1, <1>3, <1>c, <1>g, <2>2, FateSettles DEF Granted
    <3>2. QED
      BY <1>1, <1>c, <3>1 DEF Contract!Next
  <2>3. QED
    BY <2>1, <2>2
<1>15. QED
  BY <1>10, <1>11, <1>12, <1>13, <1>14 DEF Implements, OneChain

\* The steps of a process that neither promise nor settle anything.
LEMMA QuietImplements ==
    ASSUME TypeOK, OneChain, NEW p \in Procs, Busy(p),
           NEW step \in Awaiting \cup Ends \cup {"idle"},
           pc' = [pc EXCEPT ![p] = step],
           \A q \in Procs \ {p} : job'[q] = job[q],
           step \in Awaiting => job'[p].msg = job[p].msg /\ job'[p].acked = job[p].acked,
           UNCHANGED <<retryQueue, executeQueue, deadQueue, promised, served, lost, redeliveries>>,
           p \in Handlers => \A c \in Calls : Holds(p, c)' => Holds(p, c),
           step # "run", step = "idle" => p \in Handlers,
           step = "schedule" => pc[p] = "run" /\ UNCHANGED job,
           step = "deadletter" => NeedsDeadLetter(p)'
    PROVE  Implements
<1>1. OneChain'
  BY QuietStep
<1>2. QED
  BY <1>1, FateStays DEF Implements

\* The steps of a process that end the chain it holds.
LEMMA SettleImplements ==
    ASSUME TypeOK, OneChain, NEW h \in Handlers, NEW c \in Calls, Holds(h, c),
           NEW step \in {"audit", "ack"}, pc' = [pc EXCEPT ![h] = step],
           \A q \in Procs \ {h} : job'[q] = job[q],
           job'[h].msg = job[h].msg /\ job'[h].acked = job[h].acked,
           step = "audit" => job'[h].succeeded,
           UNCHANGED <<retryQueue, executeQueue, promised, redeliveries>>,
           \A d \in Calls \ {c} : (d \in served' <=> d \in served) /\ (d \in lost' <=> d \in lost),
           deadQueue \subseteq deadQueue', \A n \in deadQueue' : n \in deadQueue \/ n.call = c,
           c \in served' \/ c \in lost' \/ DeadLettered(c)'
    PROVE  Implements
<1>1. h \in Procs /\ Busy(h) /\ job[h].msg.call = c
  BY DEF Procs, Holds
<1>2. OneChain'
  BY <1>1, SettleStep
<1>3. Open(c)
  BY <1>1 DEF OneChain, PlacesAreGranted, Granted
<1>4. Contract!Settle(c)
  BY <1>3, FateSettles
<1>5. QED
  BY <1>2, <1>4 DEF Implements, Contract!Next

LEMMA BusyJob ==
    ASSUME TypeOK, NEW p \in Procs, Busy(p)
    PROVE  job[p] \in Job /\ job[p].msg \in Message /\ job[p].msg.call \in Calls
<1>1. job[p] \in Job
  BY DEF TypeOK
<1>2. QED
  BY <1>1 DEF Job, Message

LEMMA AttemptImplements ==
    ASSUME TypeOK, OneChain, NEW p \in Procs, TryExecuteOperation(p) PROVE Implements
<1>1. pc[p] = "run" /\ Busy(p)
  BY DEF TryExecuteOperation, Busy, Awaiting
<1>2. UNCHANGED <<retryQueue, executeQueue, deadQueue, promised, lost, redeliveries>>
  BY DEF TryExecuteOperation, queues
<1>t. job \in [Procs -> Job \cup {NoJob}] /\ job[p] \in Job
  BY <1>1, BusyJob DEF TypeOK
<1>3. PICK c \in Calls : c = job[p].msg.call
  BY <1>1, BusyJob
<1>4. CASE /\ job' = [job EXCEPT ![p].succeeded = TRUE] /\ pc' = [pc EXCEPT ![p] = "audit"]
           /\ served' = served \cup {c}
  <2>1. /\ \A q \in Procs \ {p} : job'[q] = job[q]
        /\ job'[p].msg = job[p].msg /\ job'[p].acked = job[p].acked /\ job'[p].succeeded
    BY <1>t, <1>4 DEF Job
  <2>2. CASE p \in Handlers
    <3>1. Holds(p, c)
      BY <1>1, <1>3, <2>2 DEF OneChain, HandlersHold, Holds
    <3>2. QED
      BY <1>2, <1>4, <2>1, <2>2, <3>1, SettleImplements
  <2>3. CASE p \in Calls
    <3>1. OneChain'
      BY <1>1, <1>2, <1>3, <1>4, <2>1, <2>3, SettleStep
    <3>2. promised[c] = 0
      BY <1>1, <1>3, <2>3 DEF OneChain, CallsBegin
    <3>3. Fate' = Fate
      BY <1>2, <1>4, <3>2 DEF Fate, DeadLettered
    <3>4. QED
      BY <1>2, <3>1, <3>3 DEF Implements
  <2>4. QED
    BY <2>2, <2>3 DEF Procs
<1>5. CASE pc' = [pc EXCEPT ![p] = "schedule"] /\ UNCHANGED <<job, served>>
  <2>1. \A c_1 \in Calls : Holds(p, c_1)' => Holds(p, c_1)
    BY <1>1, <1>5 DEF Holds
  <2>2. QED
    BY <1>1, <1>2, <1>5, <2>1, QuietImplements DEF Awaiting
<1>6. QED
  BY <1>3, <1>4, <1>5 DEF TryExecuteOperation, Goto

LEMMA ScheduleImplements ==
    ASSUME LimitsBounded, TypeOK, OneChain, NEW p \in Procs, ScheduleNextAttempt(p)
    PROVE  Implements
<1>1. pc[p] = "schedule" /\ Busy(p) /\ pc' = [pc EXCEPT ![p] = "audit"]
  BY DEF ScheduleNextAttempt, Goto, Busy, Awaiting
<1>2. UNCHANGED <<executeQueue, deadQueue, served, redeliveries>>
  BY DEF ScheduleNextAttempt
<1>3. PICK m \in Message : m = job[p].msg
  BY <1>1, BusyJob
<1>4. PICK c \in Calls : c = m.call
  BY DEF Message
<1>5. CASE UNCHANGED <<job, retryQueue, promised, lost>>
  <2>1. \A d \in Calls : Holds(p, d)' => Holds(p, d)
    BY <1>1, <1>5 DEF Holds
  <2>2. QED
    BY <1>1, <1>2, <1>5, <2>1, QuietImplements DEF Awaiting
<1>6. CASE /\ MayRetry(m) /\ ReportQueued(p)
           /\ \/ retryQueue' = Append(retryQueue, NextMessage(m)) /\ UNCHANGED lost
              \/ retryQueue' = retryQueue /\ lost' = lost \cup {c}
  <2>1. OneChain' /\ Contract!Grant(c)
    BY <1>1, <1>2, <1>3, <1>4, <1>6, GrantStep
  <2>2. QED
    BY <1>2, <2>1 DEF Implements, Contract!Next
<1>7. QED
  BY <1>3, <1>4, <1>5, <1>6 DEF ScheduleNextAttempt

LEMMA RecordImplements ==
    ASSUME TypeOK, OneChain, NEW p \in Procs, AppendAudit(p) \/ GetStatus(p) \/ UpsertStatus(p)
    PROVE  Implements
<1>1. /\ pc[p] \in {"audit", "read", "write"} /\ Busy(p)
      /\ UNCHANGED <<retryQueue, executeQueue, deadQueue, promised, served, lost, redeliveries>>
  BY DEF AppendAudit, GetStatus, UpsertStatus, queues, history, Busy, Awaiting
<1>t. /\ job \in [Procs -> Job \cup {NoJob}] /\ job[p] \in Job
      /\ Calls \cap Handlers = {}
  BY <1>1, BusyJob, ConstantsAssumption DEF TypeOK
<1>2. CASE AppendAudit(p)
  <2>1. pc' = [pc EXCEPT ![p] = "read"] /\ UNCHANGED job
    BY <1>2 DEF AppendAudit, Goto
  <2>2. \A d \in Calls : Holds(p, d)' => Holds(p, d)
    BY <1>1, <2>1 DEF Holds
  <2>3. QED
    BY <1>1, <2>1, <2>2, QuietImplements DEF Awaiting
<1>3. CASE GetStatus(p)
  <2>1. /\ pc' = [pc EXCEPT ![p] = "write"]
        /\ \A q \in Procs \ {p} : job'[q] = job[q]
        /\ job'[p].msg = job[p].msg /\ job'[p].acked = job[p].acked
        /\ job'[p].succeeded = job[p].succeeded /\ job'[p].queued = job[p].queued
    BY <1>t, <1>3 DEF GetStatus, Goto, Job
  <2>2. \A d \in Calls : Holds(p, d)' => Holds(p, d)
    BY <1>1, <2>1 DEF Holds
  <2>3. QED
    BY <1>1, <2>1, <2>2, QuietImplements DEF Awaiting
<1>4. CASE UpsertStatus(p) /\ p \in Calls
  <2>1. PICK step \in {"returned", "rethrown"} : pc' = [pc EXCEPT ![p] = step]
    BY <1>t, <1>4 DEF UpsertStatus, Finish
  <2>2. \A q \in Procs \ {p} : job'[q] = job[q]
    BY <1>t, <1>4 DEF UpsertStatus, Finish
  <2>3. QED
    BY <1>1, <1>t, <1>4, <2>1, <2>2, QuietImplements DEF Awaiting, Ends
<1>5. CASE UpsertStatus(p) /\ p \in Handlers
  <2>1. PICK step \in {"deadletter", "ack"} :
           pc' = [pc EXCEPT ![p] = step] /\ (step = "deadletter" => NeedsDeadLetter(p)) /\ UNCHANGED job
    BY <1>t, <1>5 DEF UpsertStatus, Goto
  <2>2. \A d \in Calls : Holds(p, d)' => Holds(p, d)
    BY <1>1, <2>1 DEF Holds
  <2>3. step = "deadletter" => NeedsDeadLetter(p)'
    BY <2>1 DEF NeedsDeadLetter
  <2>4. QED
    BY <1>1, <2>1, <2>2, <2>3, QuietImplements DEF Awaiting
<1>6. QED
  BY <1>2, <1>3, <1>4, <1>5 DEF Procs

LEMMA StoreFailsImplements ==
    ASSUME TypeOK, OneChain, NEW p \in Procs, StoreFails(p) PROVE Implements
<1>1. /\ pc[p] \in {"audit", "read", "write"} /\ Busy(p)
      /\ UNCHANGED <<retryQueue, executeQueue, deadQueue, promised, served, redeliveries>>
  BY DEF StoreFails, queues, Busy, Awaiting
<1>t. /\ job \in [Procs -> Job \cup {NoJob}] /\ Calls \cap Handlers = {}
  BY ConstantsAssumption DEF TypeOK
<1>2. CASE p \in Calls
  <2>1. /\ pc' = [pc EXCEPT ![p] = "aborted"] /\ UNCHANGED lost
        /\ \A q \in Procs \ {p} : job'[q] = job[q]
    BY <1>t, <1>2 DEF StoreFails, Finish
  <2>2. QED
    BY <1>1, <1>t, <1>2, <2>1, QuietImplements DEF Awaiting, Ends
<1>3. CASE p \in Handlers
  <2>1. PICK c \in Calls : c = job[p].msg.call
    BY <1>1, BusyJob
  <2>2. /\ pc' = [pc EXCEPT ![p] = "ack"] /\ UNCHANGED job
        /\ lost' = IF NeedsDeadLetter(p) THEN lost \cup {c} ELSE lost
    BY <1>t, <1>3, <2>1 DEF StoreFails, Goto
  <2>3. CASE NeedsDeadLetter(p)
    <3>1. Holds(p, c)
      BY <1>1, <2>1, <2>3 DEF Holds, NeedsDeadLetter
    <3>2. QED
      BY <1>1, <1>3, <2>2, <2>3, <3>1, SettleImplements
  <2>4. CASE ~NeedsDeadLetter(p)
    <3>1. \A d \in Calls : Holds(p, d)' => Holds(p, d)
      BY <1>1, <2>2 DEF Holds
    <3>2. QED
      BY <1>1, <2>2, <2>4, <3>1, QuietImplements DEF Awaiting
  <2>5. QED
    BY <2>3, <2>4
<1>4. QED
  BY <1>2, <1>3 DEF Procs

LEMMA EndImplements ==
    ASSUME TypeOK, OneChain, NEW p \in Procs,
           (p \in Calls /\ CallerCancels(p)) \/ (p \in Handlers /\ (Ack(p) \/ PublishDeadLetter(p)))
    PROVE  Implements
<1>t. /\ job \in [Procs -> Job \cup {NoJob}] /\ Calls \cap Handlers = {}
  BY ConstantsAssumption DEF TypeOK
<1>1. CASE p \in Calls /\ CallerCancels(p)
  <2>1. /\ Busy(p) /\ pc' = [pc EXCEPT ![p] = "aborted"]
        /\ \A q \in Procs \ {p} : job'[q] = job[q]
        /\ UNCHANGED <<retryQueue, executeQueue, deadQueue, promised, served, lost, redeliveries>>
    BY <1>t, <1>1 DEF CallerCancels, Finish, queues, history
  <2>2. QED
    BY <1>t, <1>1, <2>1, QuietImplements DEF Awaiting, Ends
<1>2. CASE p \in Handlers /\ Ack(p)
  <2>1. /\ Busy(p) /\ pc' = [pc EXCEPT ![p] = "idle"]
        /\ \A q \in Procs \ {p} : job'[q] = job[q]
        /\ UNCHANGED <<retryQueue, executeQueue, deadQueue, promised, served, lost, redeliveries>>
    BY <1>t, <1>2 DEF Ack, Finish, queues, history, Busy, Awaiting
  <2>2. \A d \in Calls : ~Holds(p, d)'
    BY <2>1 DEF Holds, Busy, Awaiting, TypeOK
  <2>3. QED
    BY <1>2, <2>1, <2>2, QuietImplements DEF Awaiting
<1>3. CASE p \in Handlers /\ PublishDeadLetter(p)
  <2>1. pc[p] = "deadletter" /\ Busy(p) /\ pc' = [pc EXCEPT ![p] = "ack"]
        /\ UNCHANGED <<job, retryQueue, executeQueue, promised, served, redeliveries>>
    BY <1>3 DEF PublishDeadLetter, Goto, Busy, Awaiting
  <2>2. PICK c \in Calls : c = job[p].msg.call
    BY <2>1, BusyJob
  <2>3. Holds(p, c)
    BY <1>3, <2>1, <2>2 DEF OneChain, HandlersHold, NeedsDeadLetter, Holds
  <2>4. \/ deadQueue' = deadQueue \cup {job[p].msg} /\ UNCHANGED lost
        \/ deadQueue' = deadQueue /\ lost' = lost \cup {c}
    BY <1>3, <2>2 DEF PublishDeadLetter
  <2>5. c \in lost' \/ DeadLettered(c)'
    BY <2>2, <2>4 DEF DeadLettered
  <2>6. /\ deadQueue \subseteq deadQueue' /\ \A n \in deadQueue' : n \in deadQueue \/ n.call = c
        /\ \A d \in Calls \ {c} : d \in lost' <=> d \in lost
    BY <2>2, <2>4
  <2>7. QED
    BY <1>3, <2>1, <2>3, <2>5, <2>6, SettleImplements
<1>4. QED
  BY <1>1, <1>2, <1>3

\* Every step implements a step of the contract, or stutters.
LEMMA StepImplements ==
    ASSUME LimitsBounded, TypeOK, TypeOK', ChainInv, [Next]_vars
    PROVE  ChainInv' /\ [Contract!Next]_<<promised, Fate, redeliveries > 0>>
<1>1. CASE redeliveries' # 0
  <2>1. redeliveries' > 0
    BY <1>1 DEF TypeOK
  <2>2. QED
    BY <1>1, <2>1 DEF ChainInv, Contract!Next
<1>2. CASE redeliveries' = 0
  <2>1. redeliveries = 0
    <3>1. Cardinality(Unacked) \in Nat
      BY ConstantsAssumption, FS_Subset, FS_CardinalityType DEF Unacked
    <3>2. redeliveries' = redeliveries \/ redeliveries' = redeliveries + Cardinality(Unacked)
      BY DEF Next, vars, Step, StartConsumer, Crash, Restart, DropConnection, Expire, ExecuteAsync,
             CallerCancels, Deliver, PublishDeadLetter, Ack, TryExecuteOperation, ScheduleNextAttempt,
             AppendAudit, GetStatus, UpsertStatus, StoreFails
    <3>3. QED
      BY <1>2, <3>1, <3>2 DEF TypeOK
  <2>2. OneChain
    BY <2>1 DEF ChainInv
  <2>3. CASE StartConsumer \/ Restart \/ UNCHANGED vars
    <3>1. UNCHANGED <<pc, job, retryQueue, executeQueue, deadQueue, promised, served, lost, redeliveries>>
      BY <2>3 DEF StartConsumer, Restart, vars, queues, history
    <3>2. OneChain'
      BY <2>2, <3>1 DEF OneChain, HandlersTakeTurns, PlacesAreDistinct, PlacesAreGranted, HandlersHold,
         CallsBegin, Busy, Holds, InQueues, Queued, Granted, Open, DeadLettered, NeedsDeadLetter
    <3>3. UNCHANGED <<promised, Fate, redeliveries > 0>>
      BY <3>1, FateStays
    <3>4. QED
      BY <3>2, <3>3 DEF ChainInv
  <2>4. CASE Crash \/ DropConnection
    BY <1>2, <2>1, <2>2, <2>4, CrashImplements DEF Implements, ChainInv
  <2>5. CASE Expire
    BY <2>2, <2>5, ExpireImplements DEF Implements, ChainInv
  <2>6. ASSUME NEW c \in Calls, ExecuteAsync(c) \/ CallerCancels(c) PROVE Implements
    BY <2>2, <2>6, ExecuteImplements, EndImplements DEF Procs
  <2>7. ASSUME NEW h \in Handlers, Deliver(h) \/ PublishDeadLetter(h) \/ Ack(h) PROVE Implements
    BY <2>2, <2>7, DeliverImplements, EndImplements DEF Procs
  <2>8. ASSUME NEW p \in Procs, Step(p) \/ StoreFails(p) PROVE Implements
    BY <2>2, <2>8, AttemptImplements, ScheduleImplements, RecordImplements, StoreFailsImplements DEF Step
  <2>9. QED
    BY <2>3, <2>4, <2>5, <2>6, <2>7, <2>8 DEF Next, Implements, ChainInv
<1>3. QED
  BY <1>1, <1>2

LEMMA ChainInvariant == ASSUME LimitsBounded PROVE Spec => []ChainInv
<1>1. Init => ChainInv
  BY ChainInit DEF ChainInv
<1>2. TypeOK /\ TypeOK' /\ ChainInv /\ [Next]_vars => ChainInv'
  BY StepImplements
<1>3. QED
  BY <1>1, <1>2, TypeCorrect, PTL DEF Spec

\* The pipeline with its queues, handlers and faults implements the contract: until
\* the broker repeats a delivery, each call is granted one further attempt at a time,
\* none beyond the limit, and its chain ends once.
THEOREM PipelineImplementsContract == ASSUME LimitsBounded PROVE Spec => ImplementsContract
<1>1. Init => Contract!Init
  BY DEF Init, Contract!Init, Fate
<1>2. TypeOK /\ TypeOK' /\ ChainInv /\ [Next]_vars
         => [Contract!Next]_<<promised, Fate, redeliveries > 0>>
  BY StepImplements
<1>3. QED
  BY <1>1, <1>2, TypeCorrect, ChainInvariant, PTL DEF Spec, ImplementsContract, Contract!Spec

-----------------------------------------------------------------------------
(* The logs and the queues                                                 *)

\* A process keeps what it works for and what it knows of the outcome.
SameJob(p) ==
    /\ job'[p].msg = job[p].msg
    /\ job'[p].queued = job[p].queued
    /\ job'[p].succeeded = job[p].succeeded

\* A process queues the next attempt.
Queues(p) ==
    /\ pc[p] = "schedule" /\ pc'[p] = "audit" /\ job'[p].queued
    /\ job'[p].msg = job[p].msg /\ job'[p].succeeded = job[p].succeeded
    /\ MayRetry(job[p].msg)
    /\ job[p].msg.attempt < promised'[job[p].msg.call]

\* What one step of the system may do to a process: nothing, end, begin, go on.
ProcessStep(p) ==
    \/ pc'[p] = pc[p] /\ SameJob(p)
    \/ ~Busy(p)' /\ (pc'[p] = "idle" => p \in Handlers \/ pc[p] = "idle")
    \/ /\ p \in Calls /\ pc[p] = "idle" /\ pc'[p] = "run"
       /\ job'[p] = NewJob([call |-> p, attempt |-> 1, max |-> config.maxAttempts])
    \/ /\ p \in Handlers /\ pc[p] = "idle" /\ pc'[p] \in {"run", "ack"}
       /\ executeQueue # <<>> /\ job'[p] = NewJob(Head(executeQueue))
    \/ /\ pc[p] = "run" /\ pc'[p] = "audit" /\ job'[p].succeeded
       /\ job'[p].msg = job[p].msg /\ job'[p].queued = job[p].queued
       /\ job[p].msg.call \in served'
    \/ pc[p] = "run" /\ pc'[p] = "schedule" /\ SameJob(p)
    \/ /\ pc[p] = "schedule" /\ pc'[p] = "audit" /\ SameJob(p)
       /\ ~MayRetry(job[p].msg) \/ faults' > 0
    \/ Queues(p)
    \/ /\ pc[p] \in {"audit", "read", "write", "deadletter"}
       /\ pc'[p] \in {"read", "write", "deadletter", "ack"} /\ SameJob(p)
       /\ pc'[p] = "deadletter" => NeedsDeadLetter(p)

LEMMA OthersStay ==
    ASSUME TypeOK, NEW p \in Procs, NEW step, pc' = [pc EXCEPT ![p] = step],
           \A q \in Procs \ {p} : job'[q] = job[q], ProcessStep(p)
    PROVE  \A q \in Procs : ProcessStep(q)
<1> SUFFICES ASSUME NEW q \in Procs, q # p PROVE ProcessStep(q)
  OBVIOUS
<1>1. pc'[q] = pc[q] /\ SameJob(q)
  BY DEF TypeOK, SameJob
<1>2. QED
  BY <1>1 DEF ProcessStep

\* Who is told that its retry is queued has promised the next attempt.
LEMMA ReportedQueues ==
    ASSUME TypeOK, NEW p \in Procs, ScheduleNextAttempt(p), ReportQueued(p), MayRetry(job[p].msg)
    PROVE  /\ Queues(p)
           /\ job' = [job EXCEPT ![p].queued = TRUE]
           /\ \A c \in Calls : promised[c] <= promised'[c]
           /\ \A c \in Calls : c # job[p].msg.call => promised'[c] = promised[c]
<1>1. pc[p] = "schedule" /\ Busy(p) /\ pc' = [pc EXCEPT ![p] = "audit"]
  BY DEF ScheduleNextAttempt, Goto, Busy, Awaiting
<1>2. job[p] \in Job /\ job[p].msg \in Message /\ job[p].msg.call \in Calls
  BY <1>1, BusyTypes
<1>3. /\ NextMessage(job[p].msg).attempt = job[p].msg.attempt + 1
      /\ NextMessage(job[p].msg).call = job[p].msg.call
      /\ job[p].msg.attempt \in Nat
  BY <1>2 DEF NextMessage, Message
<1>4. promised \in [Calls -> Nat]
  BY DEF TypeOK
<1>5. /\ job' = [job EXCEPT ![p].queued = TRUE]
      /\ promised' = [promised EXCEPT ![job[p].msg.call] =
            IF @ > job[p].msg.attempt + 1 THEN @ ELSE job[p].msg.attempt + 1]
  BY <1>3 DEF ReportQueued
<1>6. /\ promised'[job[p].msg.call] > job[p].msg.attempt
      /\ promised[job[p].msg.call] <= promised'[job[p].msg.call]
  BY <1>2, <1>3, <1>4, <1>5
<1>7. \A c \in Calls : c # job[p].msg.call => promised'[c] = promised[c] /\ promised[c] \in Nat
  BY <1>4, <1>5
<1>8. Queues(p)
  BY <1>1, <1>2, <1>5, <1>6 DEF Queues, TypeOK, Job
<1>9. QED
  BY <1>5, <1>6, <1>7, <1>8

LEMMA ProcessSteps ==
    ASSUME TypeOK, [Next]_vars
    PROVE  \A p \in Procs : ProcessStep(p)
<1>1. CASE StartConsumer \/ Restart \/ Expire \/ UNCHANGED vars
  BY <1>1 DEF StartConsumer, Restart, Expire, vars, ProcessStep, SameJob
<1>2. CASE Crash
  <2>1. \A p \in Procs : pc'[p] = (IF p \in Handlers THEN "idle" ELSE IF Busy(p) THEN "aborted" ELSE pc[p])
    BY <1>2 DEF Crash
  <2>2. QED
    BY <2>1 DEF ProcessStep, Busy, Awaiting
<1>3. CASE DropConnection
  <2>1. /\ UNCHANGED pc
        /\ job' = [p \in Procs |-> IF p \in Unacked THEN [job[p] EXCEPT !.acked = TRUE] ELSE job[p]]
    BY <1>3 DEF DropConnection
  <2>2. \A p \in Procs : p \in Unacked => job[p] \in Job
    BY DEF TypeOK, Unacked
  <2>3. \A p \in Procs : SameJob(p)
    BY <2>1, <2>2 DEF SameJob, Job
  <2>4. QED
    BY <2>1, <2>3 DEF ProcessStep
<1>4. ASSUME NEW c \in Calls, ExecuteAsync(c) \/ CallerCancels(c)
      PROVE  \A p \in Procs : ProcessStep(p)
  <2>1. c \in Procs
    BY DEF Procs
  <2>2. \/ pc' = [pc EXCEPT ![c] = "run"]
        \/ pc' = [pc EXCEPT ![c] = "bypassed"]
        \/ pc' = [pc EXCEPT ![c] = "aborted"]
    BY <1>4 DEF ExecuteAsync, CallerCancels, Goto, Finish
  <2>3. \A q \in Procs \ {c} : job'[q] = job[q]
    BY <1>4 DEF ExecuteAsync, CallerCancels, Finish, TypeOK
  <2>4. CASE pc' = [pc EXCEPT ![c] = "run"]
    <3>1. pc'[c] = "run"
      BY <2>1, <2>4 DEF TypeOK
    <3>2. /\ pc[c] = "idle"
          /\ job' = [job EXCEPT ![c] = NewJob([call |-> c, attempt |-> 1, max |-> config.maxAttempts])]
      BY <1>4, <2>1, <3>1 DEF ExecuteAsync, CallerCancels, Finish, TypeOK
    <3>3. ProcessStep(c)
      BY <2>1, <3>1, <3>2 DEF ProcessStep, TypeOK
    <3>4. QED
      BY <2>1, <2>3, <2>4, <3>3, OthersStay
  <2>5. CASE pc' = [pc EXCEPT ![c] = "bypassed"] \/ pc' = [pc EXCEPT ![c] = "aborted"]
    <3>1. ProcessStep(c)
      BY <2>1, <2>5 DEF ProcessStep, TypeOK, Busy, Awaiting
    <3>2. QED
      BY <2>1, <2>3, <2>5, <3>1, OthersStay
  <2>6. QED
    BY <2>2, <2>4, <2>5
<1>5. ASSUME NEW h \in Handlers, Deliver(h)
      PROVE  \A p \in Procs : ProcessStep(p)
  <2>1. h \in Procs /\ pc[h] = "idle" /\ executeQueue # <<>>
    BY <1>5 DEF Procs, Deliver
  <2>2. job' = [job EXCEPT ![h] = NewJob(Head(executeQueue))]
    BY <1>5 DEF Deliver
  <2>3. PICK step \in {"run", "ack"} : pc' = [pc EXCEPT ![h] = step]
    BY <1>5 DEF Deliver, Goto
  <2>4. ProcessStep(h)
    BY <2>1, <2>2, <2>3 DEF ProcessStep, TypeOK
  <2>5. QED
    BY <2>1, <2>2, <2>3, <2>4, OthersStay DEF TypeOK
<1>6. ASSUME NEW h \in Handlers, PublishDeadLetter(h) \/ Ack(h)
      PROVE  \A p \in Procs : ProcessStep(p)
  <2>1. h \in Procs /\ \A q \in Procs \ {h} : job'[q] = job[q]
    BY <1>6 DEF Procs, PublishDeadLetter, Ack, Finish, TypeOK
  <2>2. \/ pc[h] = "deadletter" /\ pc' = [pc EXCEPT ![h] = "ack"] /\ UNCHANGED job
        \/ pc' = [pc EXCEPT ![h] = "idle"]
    BY <1>6 DEF PublishDeadLetter, Ack, Goto, Finish
  <2>3. CASE pc[h] = "deadletter" /\ pc' = [pc EXCEPT ![h] = "ack"] /\ UNCHANGED job
    <3>1. ProcessStep(h)
      BY <2>1, <2>3 DEF ProcessStep, TypeOK, SameJob
    <3>2. QED
      BY <2>1, <2>3, <3>1, OthersStay
  <2>4. CASE pc' = [pc EXCEPT ![h] = "idle"]
    <3>1. ProcessStep(h)
      BY <2>1, <2>4 DEF ProcessStep, TypeOK, Busy, Awaiting
    <3>2. QED
      BY <2>1, <2>4, <3>1, OthersStay
  <2>5. QED
    BY <2>2, <2>3, <2>4
<1>7. ASSUME NEW p \in Procs, TryExecuteOperation(p)
      PROVE  \A q \in Procs : ProcessStep(q)
  <2>1. pc[p] = "run" /\ Busy(p)
    BY <1>7 DEF TryExecuteOperation, Busy, Awaiting
  <2>2. job[p] \in Job /\ job[p].msg.call \in Calls
    BY <2>1, BusyTypes
  <2>3. CASE job' = [job EXCEPT ![p].succeeded = TRUE] /\ pc' = [pc EXCEPT ![p] = "audit"]
             /\ served' = served \cup {job[p].msg.call}
    <3>1. ProcessStep(p)
      BY <2>1, <2>2, <2>3 DEF ProcessStep, TypeOK, Job
    <3>2. QED
      BY <2>3, <3>1, OthersStay DEF TypeOK
  <2>4. CASE pc' = [pc EXCEPT ![p] = "schedule"] /\ UNCHANGED job
    <3>1. ProcessStep(p)
      BY <2>1, <2>4 DEF ProcessStep, TypeOK, SameJob
    <3>2. QED
      BY <2>4, <3>1, OthersStay
  <2>5. QED
    BY <1>7, <2>3, <2>4 DEF TryExecuteOperation, Goto
<1>8. ASSUME NEW p \in Procs, ScheduleNextAttempt(p)
      PROVE  \A q \in Procs : ProcessStep(q)
  <2>1. pc[p] = "schedule" /\ Busy(p) /\ pc' = [pc EXCEPT ![p] = "audit"]
    BY <1>8 DEF ScheduleNextAttempt, Goto, Busy, Awaiting
  <2>2. job[p] \in Job /\ job[p].msg \in Message /\ job[p].msg.call \in Calls
    BY <2>1, BusyTypes
  <2>3. CASE UNCHANGED job /\ (~MayRetry(job[p].msg) \/ faults' = faults + 1)
    <3>1. ~MayRetry(job[p].msg) \/ faults' > 0
      BY <2>3 DEF TypeOK
    <3>2. ProcessStep(p)
      BY <2>1, <2>3, <3>1 DEF ProcessStep, TypeOK, SameJob
    <3>3. QED
      BY <2>1, <2>3, <3>2, OthersStay
  <2>4. CASE MayRetry(job[p].msg) /\ ReportQueued(p)
    <3>1. Queues(p) /\ job' = [job EXCEPT ![p].queued = TRUE]
      BY <1>8, <2>4, ReportedQueues
    <3>2. QED
      BY <2>1, <3>1, OthersStay DEF ProcessStep, TypeOK
  <2>5. QED
    BY <1>8, <2>3, <2>4 DEF ScheduleNextAttempt, Fault
<1>9. ASSUME NEW p \in Procs, AppendAudit(p) \/ GetStatus(p)
      PROVE  \A q \in Procs : ProcessStep(q)
  <2>1. pc[p] \in {"audit", "read"} /\ Busy(p)
    BY <1>9 DEF AppendAudit, GetStatus, Busy, Awaiting
  <2>2. job[p] \in Job
    BY <2>1, BusyTypes
  <2>3. PICK step \in {"read", "write"} : pc' = [pc EXCEPT ![p] = step]
    BY <1>9 DEF AppendAudit, GetStatus, Goto
  <2>4. SameJob(p) /\ \A q \in Procs \ {p} : job'[q] = job[q]
    BY <1>9, <2>2 DEF AppendAudit, GetStatus, TypeOK, Job, SameJob
  <2>5. ProcessStep(p)
    BY <2>1, <2>3, <2>4 DEF ProcessStep, TypeOK
  <2>6. QED
    BY <2>3, <2>4, <2>5, OthersStay
<1>10. ASSUME NEW p \in Procs, UpsertStatus(p) \/ StoreFails(p)
       PROVE  \A q \in Procs : ProcessStep(q)
  <2>1. pc[p] \in {"audit", "read", "write"} /\ \A q \in Procs \ {p} : job'[q] = job[q]
    BY <1>10 DEF UpsertStatus, StoreFails, Finish, TypeOK
  <2>2. CASE p \in Handlers
    <3>1. p \notin Calls /\ UNCHANGED job
      BY <1>10, <2>2, ConstantsAssumption DEF UpsertStatus, StoreFails
    <3>2. PICK step \in {"deadletter", "ack"} :
             pc' = [pc EXCEPT ![p] = step] /\ (step = "deadletter" => NeedsDeadLetter(p))
      BY <1>10, <3>1 DEF UpsertStatus, StoreFails, Goto
    <3>3. ProcessStep(p)
      BY <2>1, <3>1, <3>2 DEF ProcessStep, TypeOK, SameJob
    <3>4. QED
      BY <2>1, <3>2, <3>3, OthersStay
  <2>3. CASE p \in Calls
    <3>1. p \notin Handlers
      BY <2>3, ConstantsAssumption
    <3>2. PICK step \in {"returned", "rethrown", "aborted"} : pc' = [pc EXCEPT ![p] = step]
      BY <1>10, <3>1 DEF UpsertStatus, StoreFails, Finish
    <3>3. ProcessStep(p)
      BY <3>2 DEF ProcessStep, TypeOK, Busy, Awaiting
    <3>4. QED
      BY <2>1, <3>2, <3>3, OthersStay
  <2>4. QED
    BY <2>2, <2>3 DEF Procs
<1>11. QED
  BY <1>1, <1>2, <1>3, <1>4, <1>5, <1>6, <1>7, <1>8, <1>9, <1>10 DEF Next, Step

\* What no step takes back; only a fault takes the process down, and only then can it
\* get another configuration.
LEMMA HistoryGrows ==
    ASSUME TypeOK, TypeOK', [Next]_vars
    PROVE  /\ served \subseteq served' /\ audited \subseteq audited'
           /\ faults <= faults' /\ redeliveries <= redeliveries'
           /\ consumer' = "down" => consumer = "down" \/ faults' > 0
           /\ config' = config \/ consumer = "down"
<1>1. faults \in Nat /\ faults' \in Nat /\ redeliveries \in Nat
  BY DEF TypeOK
<1>2. Cardinality(Unacked) \in Nat
  BY ConstantsAssumption, FS_Subset, FS_CardinalityType DEF Unacked
<1>3. faults' = faults \/ faults' = faults + 1
  BY DEF Next, vars, Step, StartConsumer, Crash, Restart, DropConnection, Expire, ExecuteAsync,
         CallerCancels, Deliver, PublishDeadLetter, Ack, TryExecuteOperation, ScheduleNextAttempt,
         AppendAudit, GetStatus, UpsertStatus, StoreFails, Fault
<1>4. redeliveries' = redeliveries \/ redeliveries' = redeliveries + Cardinality(Unacked)
  BY DEF Next, vars, Step, StartConsumer, Crash, Restart, DropConnection, Expire, ExecuteAsync,
         CallerCancels, Deliver, PublishDeadLetter, Ack, TryExecuteOperation, ScheduleNextAttempt,
         AppendAudit, GetStatus, UpsertStatus, StoreFails
<1>5. served \subseteq served' /\ audited \subseteq audited'
  BY DEF Next, vars, store, history, Step, StartConsumer, Crash, Restart, DropConnection, Expire,
         ExecuteAsync, CallerCancels, Deliver, PublishDeadLetter, Ack, TryExecuteOperation,
         ScheduleNextAttempt, AppendAudit, GetStatus, UpsertStatus, StoreFails
<1>6. consumer' = "down" => consumer = "down" \/ faults' = faults + 1
  BY DEF Next, vars, Step, StartConsumer, Crash, Restart, DropConnection, Expire, ExecuteAsync,
         CallerCancels, Deliver, PublishDeadLetter, Ack, TryExecuteOperation, ScheduleNextAttempt,
         AppendAudit, GetStatus, UpsertStatus, StoreFails, Fault
<1>7. config' = config \/ consumer = "down"
  BY DEF Next, vars, Step, StartConsumer, Crash, Restart, DropConnection, Expire, ExecuteAsync,
         CallerCancels, Deliver, PublishDeadLetter, Ack, TryExecuteOperation, ScheduleNextAttempt,
         AppendAudit, GetStatus, UpsertStatus, StoreFails
<1>8. QED
  BY <1>1, <1>2, <1>3, <1>4, <1>5, <1>6, <1>7

\* Only who queues an attempt promises it.
LEMMA PromiseSteps ==
    ASSUME TypeOK, [Next]_vars, NEW c \in Calls
    PROVE  /\ promised[c] <= promised'[c]
           /\ \/ promised'[c] = promised[c]
              \/ \E p \in Procs : Queues(p) /\ job[p].msg.call = c
<1>1. promised \in [Calls -> Nat]
  BY DEF TypeOK
<1>2. CASE UNCHANGED promised
  BY <1>1, <1>2
<1>3. ASSUME NEW p \in Procs, ScheduleNextAttempt(p), ReportQueued(p), MayRetry(job[p].msg)
      PROVE  /\ promised[c] <= promised'[c]
             /\ promised'[c] = promised[c] \/ (Queues(p) /\ job[p].msg.call = c)
  <2>1. Queues(p) /\ promised[c] <= promised'[c]
    BY <1>3, ReportedQueues
  <2>2. c # job[p].msg.call => promised'[c] = promised[c]
    BY <1>3, ReportedQueues
  <2>3. QED
    BY <2>1, <2>2
<1>4. \/ UNCHANGED promised
      \/ \E p \in Procs : ScheduleNextAttempt(p) /\ ReportQueued(p) /\ MayRetry(job[p].msg)
  BY DEF Next, vars, history, Step, StartConsumer, Crash, Restart, DropConnection, Expire, ExecuteAsync,
         CallerCancels, Deliver, PublishDeadLetter, Ack, TryExecuteOperation, ScheduleNextAttempt,
         AppendAudit, GetStatus, UpsertStatus, StoreFails
<1>5. QED
  BY <1>2, <1>3, <1>4

\* A message in a queue was there, or came back, or is the next attempt of the process
\* that queued it.
LEMMA QueueSteps ==
    ASSUME TypeOK, [Next]_vars, NEW m \in Queued'
    PROVE  \/ m \in Queued
           \/ redeliveries' > redeliveries /\ faults' > faults
           \/ \E p \in Procs : Queues(p) /\ m = NextMessage(job[p].msg)
<1> USE DEF Queued
<1>1. retryQueue \in Seq(Message) /\ executeQueue \in Seq(Message)
  BY DEF TypeOK
<1>2. CASE UNCHANGED <<retryQueue, executeQueue>>
  BY <1>2
<1>3. CASE Crash \/ DropConnection
  <2>1. CASE Unacked = {}
    BY <1>3, <2>1 DEF Crash, DropConnection, Requeued
  <2>2. CASE Unacked # {}
    <3>1. IsFiniteSet(Unacked) /\ Cardinality(Unacked) \in Nat /\ Cardinality(Unacked) # 0
      BY <2>2, ConstantsAssumption, FS_Subset, FS_CardinalityType, FS_EmptySet DEF Unacked
    <3>2. redeliveries' = redeliveries + Cardinality(Unacked) /\ faults' = faults + 1
      BY <1>3 DEF Crash, DropConnection, Fault
    <3>3. QED
      BY <3>1, <3>2 DEF TypeOK
  <2>3. QED
    BY <2>1, <2>2
<1>4. CASE Expire
  <2>1. /\ retryQueue # <<>> /\ retryQueue' = Tail(retryQueue)
        /\ executeQueue' = Append(executeQueue, Head(retryQueue))
    BY <1>4 DEF Expire
  <2>2. /\ QueuedMessages(retryQueue) = {Head(retryQueue)} \cup QueuedMessages(retryQueue)'
        /\ Head(retryQueue) \in Message
    BY <1>1, <2>1, QueueTail
  <2>3. QueuedMessages(executeQueue)' = QueuedMessages(executeQueue) \cup {Head(retryQueue)}
    BY <1>1, <2>1, <2>2, QueueAppend
  <2>4. QED
    BY <2>2, <2>3
<1>5. CASE \E h \in Handlers : Deliver(h)
  <2>1. executeQueue # <<>> /\ executeQueue' = Tail(executeQueue) /\ UNCHANGED retryQueue
    BY <1>5 DEF Deliver
  <2>2. QueuedMessages(executeQueue)' \subseteq QueuedMessages(executeQueue)
    BY <1>1, <2>1, QueueTail
  <2>3. QED
    BY <2>1, <2>2
<1>6. ASSUME NEW p \in Procs, ScheduleNextAttempt(p)
      PROVE  m \in Queued \/ (Queues(p) /\ m = NextMessage(job[p].msg))
  <2>1. pc[p] = "schedule" /\ Busy(p) /\ UNCHANGED executeQueue
    BY <1>6 DEF ScheduleNextAttempt, Busy, Awaiting
  <2>2. job[p] \in Job /\ job[p].msg \in Message /\ job[p].msg.call \in Calls
    BY <2>1, BusyTypes
  <2>3. CASE UNCHANGED retryQueue
    <3>1. Queued' = Queued
      BY <2>1, <2>3 DEF QueuedMessages
    <3>2. QED
      BY <3>1
  <2>4. CASE /\ MayRetry(job[p].msg) /\ ReportQueued(p)
             /\ retryQueue' = Append(retryQueue, NextMessage(job[p].msg))
    <3>1. NextMessage(job[p].msg) \in Message
      BY <2>2, <2>4, NextMessageType DEF MayRetry
    <3>2. QueuedMessages(retryQueue)' = QueuedMessages(retryQueue) \cup {NextMessage(job[p].msg)}
      BY <1>1, <2>4, <3>1, QueueAppend
    <3>3. Queues(p)
      BY <1>6, <2>4, ReportedQueues
    <3>4. Queued' = Queued \cup {NextMessage(job[p].msg)}
      BY <2>1, <3>2 DEF QueuedMessages
    <3>5. QED
      BY <3>3, <3>4
  <2>5. QED
    BY <1>6, <2>3, <2>4 DEF ScheduleNextAttempt
<1>7. \/ UNCHANGED <<retryQueue, executeQueue>> \/ Crash \/ DropConnection \/ Expire
      \/ \E h \in Handlers : Deliver(h)
      \/ \E p \in Procs : ScheduleNextAttempt(p)
  BY DEF Next, vars, queues, Step, StartConsumer, Restart, ExecuteAsync, CallerCancels,
         PublishDeadLetter, Ack, TryExecuteOperation, AppendAudit, GetStatus, UpsertStatus, StoreFails
<1>8. QED
  BY <1>2, <1>3, <1>4, <1>5, <1>6, <1>7

\* A row is written by the process that is at its append, a dead letter by its handler.
LEMMA RecordSteps ==
    ASSUME [Next]_vars
    PROVE  /\ UNCHANGED audited \/ \E p \in Procs : AppendAudit(p)
           /\ \/ UNCHANGED deadQueue
              \/ \E h \in Handlers : pc[h] = "deadletter" /\ deadQueue' = deadQueue \cup {job[h].msg}
BY DEF Next, vars, store, queues, Step, StartConsumer, Crash, Restart, DropConnection, Expire,
       ExecuteAsync, CallerCancels, Deliver, PublishDeadLetter, Ack, TryExecuteOperation,
       ScheduleNextAttempt, AppendAudit, GetStatus, UpsertStatus, StoreFails

\* What a process knows of its outcome is so, and so is every row.
OutcomesAreEarned ==
    /\ \A p \in Procs : Busy(p) =>
          /\ job[p].queued => job[p].msg.attempt < promised[job[p].msg.call]
          /\ job[p].succeeded => job[p].msg.call \in served
    /\ \A r \in audited :
          /\ r.outcome = "failed_queued" => promised[r.call] > r.attempt
          /\ r.outcome = "succeeded" => r.call \in served

\* The configuration lets the message's call be retried.
Retried(m) == config.enabled /\ config.useRabbit /\ ServiceOf[m.call] \in config.migrated

\* Without a fault the configuration is the one that queued the messages, so that an
\* attempt that queues no other was the last.
RetriedAsBefore ==
    /\ consumer = "down" => faults > 0
    /\ faults = 0 => /\ \A m \in Queued : Retried(m)
                     /\ \A h \in Handlers : Busy(h) => Retried(job[h].msg)

LastOrFaulty(m) == m.attempt >= m.max \/ faults > 0

DeadLettersAreLast ==
    /\ \A h \in Handlers : pc[h] = "deadletter" => NeedsDeadLetter(h)
    /\ \A h \in Handlers : pc[h] \in {"audit", "read", "write", "deadletter"} /\ NeedsDeadLetter(h)
                               => LastOrFaulty(job[h].msg)

\* While no delivery was repeated: a row is of an attempt that is over, of which
\* nothing in a queue or with a process is a repetition, and a failed one is the last.
RowsArePast ==
    /\ \A r \in audited : r.attempt <= 1 \/ r.attempt <= promised[r.call]
    /\ \A h \in Handlers : Busy(h) => job[h].msg.attempt <= promised[job[h].msg.call]
    /\ \A c \in Calls : pc[c] = "audit" /\ ~job[c].queued => promised[c] = 0
    /\ \A r \in audited, p \in Procs :
          pc[p] \in {"run", "schedule", "audit"} /\ r.call = job[p].msg.call =>
              /\ r.attempt # job[p].msg.attempt
              /\ pc[p] # "audit" => r.outcome # "failed"
    /\ \A r \in audited, m \in Queued :
          r.call = m.call => r.attempt # m.attempt /\ r.outcome # "failed"
    /\ \A r \in audited : pc[r.call] # "idle"
    /\ \A r \in audited : r.outcome = "failed" => promised[r.call] <= r.attempt
    /\ \A r1, r2 \in audited : r1.call = r2.call /\ r1.attempt = r2.attempt => r1 = r2

LogInv ==
    /\ OutcomesAreEarned /\ DeadLetterExplained /\ RetriedAsBefore /\ DeadLettersAreLast
    /\ redeliveries = 0 => RowsArePast

LEMMA NewJobFields ==
    ASSUME NEW m
    PROVE  /\ NewJob(m).msg = m /\ ~NewJob(m).queued /\ ~NewJob(m).succeeded
  BY DEF NewJob

LEMMA HeadIsQueued ==
    ASSUME TypeOK, executeQueue # <<>>
    PROVE  Head(executeQueue) \in Queued /\ Head(executeQueue) \in Message
  BY QueueTail DEF TypeOK, Queued

LEMMA RowFields ==
    ASSUME TypeOK, NEW p \in Procs, Busy(p)
    PROVE  /\ RowOf(p) \in Row
           /\ RowOf(p).call = job[p].msg.call /\ RowOf(p).attempt = job[p].msg.attempt
           /\ RowOf(p).outcome = "succeeded" <=> job[p].succeeded
           /\ RowOf(p).outcome = "failed" <=> NeedsDeadLetter(p)
           /\ RowOf(p).outcome = "failed_queued" => job[p].queued
           /\ RowOf(p).outcome = "failed_queued" => ~job[p].succeeded
<1>1. job[p] \in Job /\ job[p].msg \in Message
  BY BusyTypes
<1>2. QED
  BY <1>1 DEF RowOf, NeedsDeadLetter, Job, Message, Row, Outcomes

LEMMA OutcomesStayEarned ==
    ASSUME TypeOK, TypeOK', [Next]_vars, OutcomesAreEarned
    PROVE  OutcomesAreEarned'
<1>1. \A c \in Calls : promised[c] <= promised'[c] /\ promised[c] \in Nat /\ promised'[c] \in Nat
  BY PromiseSteps DEF TypeOK
<1>2. served \subseteq served'
  BY HistoryGrows
<1>3. ASSUME NEW p \in Procs, Busy(p)'
      PROVE  /\ job'[p].queued => job'[p].msg.attempt < promised'[job'[p].msg.call]
             /\ job'[p].succeeded => job'[p].msg.call \in served'
  <2>1. ProcessStep(p)
    BY ProcessSteps
  <2>2. CASE Busy(p) /\ SameJob(p)
    <3>1. job[p].msg.call \in Calls /\ job[p].msg.attempt \in Nat
      BY <2>2, BusyTypes DEF Message
    <3>2. QED
      BY <1>1, <1>2, <2>2, <3>1 DEF SameJob, OutcomesAreEarned
  <2>3. CASE ~job'[p].queued /\ ~job'[p].succeeded
    BY <2>3
  <2>4. CASE /\ pc[p] = "run" /\ job'[p].succeeded
             /\ job'[p].msg = job[p].msg /\ job'[p].queued = job[p].queued
             /\ job[p].msg.call \in served'
    <3>1. Busy(p)
      BY <2>4 DEF Busy, Awaiting
    <3>2. job[p].msg.call \in Calls /\ job[p].msg.attempt \in Nat
      BY <3>1, BusyTypes DEF Message
    <3>3. QED
      BY <1>1, <2>4, <3>1, <3>2 DEF OutcomesAreEarned
  <2>5. CASE Queues(p)
    <3>1. Busy(p)
      BY <2>5 DEF Queues, Busy, Awaiting
    <3>2. QED
      BY <1>2, <2>5, <3>1 DEF Queues, OutcomesAreEarned
  <2>6. QED
    BY <1>3, <2>1, <2>2, <2>3, <2>4, <2>5, NewJobFields DEF ProcessStep, Busy, Awaiting
<1>4. ASSUME NEW r \in audited'
      PROVE  /\ r.outcome = "failed_queued" => promised'[r.call] > r.attempt
             /\ r.outcome = "succeeded" => r.call \in served'
  <2>1. CASE r \in audited
    <3>1. r.call \in Calls /\ r.attempt \in Nat
      BY <2>1 DEF TypeOK, Row
    <3>2. QED
      BY <1>1, <1>2, <2>1, <3>1 DEF OutcomesAreEarned
  <2>2. CASE r \notin audited
    <3>1. PICK p \in Procs : AppendAudit(p)
      BY <2>2, RecordSteps
    <3>2. Busy(p) /\ r = RowOf(p) /\ UNCHANGED <<promised, served>>
      BY <2>2, <3>1 DEF AppendAudit, Busy, Awaiting, history
    <3>3. job[p].msg.call \in Calls /\ job[p].msg.attempt \in Nat
      BY <3>2, BusyTypes DEF Message
    <3>4. /\ job[p].queued => promised'[job[p].msg.call] > job[p].msg.attempt
          /\ job[p].succeeded => job[p].msg.call \in served'
      BY <1>1, <3>2, <3>3 DEF OutcomesAreEarned
    <3>5. QED
      BY <3>2, <3>4, RowFields
  <2>3. QED
    BY <2>1, <2>2
<1>5. QED
  BY <1>3, <1>4 DEF OutcomesAreEarned

LEMMA StaysRetried ==
    ASSUME TypeOK, TypeOK', [Next]_vars, RetriedAsBefore
    PROVE  RetriedAsBefore'
<1>1. /\ faults \in Nat /\ faults' \in Nat /\ faults <= faults'
      /\ consumer' = "down" => consumer = "down" \/ faults' > 0
      /\ config' = config \/ consumer = "down"
  BY HistoryGrows DEF TypeOK
<1>2. consumer' = "down" => faults' > 0
  BY <1>1 DEF RetriedAsBefore
<1>3. ASSUME faults' = 0
      PROVE  /\ \A m \in Queued' : Retried(m)'
             /\ \A h \in Handlers : Busy(h)' => (Retried(job[h].msg))'
  <2>1. faults = 0 /\ config' = config
    BY <1>1, <1>3 DEF RetriedAsBefore
  <2>2. \A m : Retried(m)' <=> Retried(m)
    BY <2>1 DEF Retried
  <2>3. ASSUME NEW p \in Procs, MayRetry(job[p].msg)
        PROVE  Retried(NextMessage(job[p].msg)) /\ Retried(job[p].msg)
    BY <2>3 DEF MayRetry, Retried, NextMessage
  <2>4. ASSUME NEW m \in Queued' PROVE Retried(m)
    <3>1. m \in Queued \/ \E p \in Procs : Queues(p) /\ m = NextMessage(job[p].msg)
      BY <1>1, <1>3, <2>1, QueueSteps
    <3>2. QED
      BY <2>1, <2>3, <3>1 DEF RetriedAsBefore, Queues
  <2>5. ASSUME NEW h \in Handlers, Busy(h)' PROVE Retried(job'[h].msg)
    <3>1. ProcessStep(h) /\ h \notin Calls
      BY ProcessSteps, ConstantsAssumption DEF Procs
    <3>2. CASE Busy(h) /\ job'[h].msg = job[h].msg
      BY <2>1, <3>2 DEF RetriedAsBefore
    <3>3. CASE executeQueue # <<>> /\ job'[h] = NewJob(Head(executeQueue))
      BY <2>1, <3>3, HeadIsQueued, NewJobFields DEF RetriedAsBefore
    <3>4. QED
      BY <2>5, <3>1, <3>2, <3>3 DEF ProcessStep, Queues, SameJob, Busy, Awaiting
  <2>6. QED
    BY <2>2, <2>4, <2>5
<1>4. QED
  BY <1>2, <1>3 DEF RetriedAsBefore

LEMMA DeadLettersStayLast ==
    ASSUME TypeOK, TypeOK', [Next]_vars, RetriedAsBefore, DeadLettersAreLast
    PROVE  DeadLettersAreLast'
<1>1. faults \in Nat /\ faults' \in Nat /\ faults <= faults'
  BY HistoryGrows DEF TypeOK
<1>2. ASSUME NEW h \in Handlers, pc'[h] \in {"audit", "read", "write", "deadletter"}
      PROVE  /\ pc'[h] = "deadletter" => NeedsDeadLetter(h)'
             /\ NeedsDeadLetter(h)' => LastOrFaulty(job[h].msg)'
  <2>1. ProcessStep(h) /\ h \notin Calls /\ h \in Procs /\ Busy(h)'
    BY <1>2, ProcessSteps, ConstantsAssumption DEF Procs, Busy, Awaiting
  <2>2. CASE /\ pc[h] \in {"audit", "read", "write", "deadletter"} /\ SameJob(h)
             /\ pc'[h] = "deadletter" => pc[h] = "deadletter" \/ NeedsDeadLetter(h)
    BY <1>1, <2>2 DEF SameJob, NeedsDeadLetter, DeadLettersAreLast, LastOrFaulty
  <2>3. CASE pc'[h] = "audit" /\ (job'[h].succeeded \/ job'[h].queued)
    BY <2>3 DEF NeedsDeadLetter
  <2>4. CASE /\ pc[h] = "schedule" /\ pc'[h] = "audit" /\ SameJob(h)
             /\ ~MayRetry(job[h].msg) \/ faults' > 0
    <3>1. Busy(h)
      BY <2>4 DEF Busy, Awaiting
    <3>2. job[h].msg.attempt \in Nat /\ job[h].msg.max \in Nat
      BY <2>1, <3>1, BusyTypes DEF Message
    <3>3. faults = 0 => Retried(job[h].msg)
      BY <3>1 DEF RetriedAsBefore
    <3>4. job'[h].msg = job[h].msg
      BY <2>4 DEF SameJob
    <3>5. QED
      BY <1>1, <2>4, <3>2, <3>3, <3>4 DEF LastOrFaulty, MayRetry, Retried
  <2>5. QED
    BY <1>2, <2>1, <2>2, <2>3, <2>4 DEF ProcessStep, Queues, Busy, Awaiting
<1>3. QED
  BY <1>2 DEF DeadLettersAreLast

Explained(m) ==
    /\ [call |-> m.call, attempt |-> m.attempt, outcome |-> "failed"] \in audited
    /\ m.attempt >= m.max \/ faults > 0

LEMMA DeadLettersStayExplained ==
    ASSUME TypeOK, TypeOK', [Next]_vars, CallerInv, DeadLettersAreLast, DeadLetterExplained
    PROVE  DeadLetterExplained'
<1>1. /\ faults \in Nat /\ faults' \in Nat /\ faults <= faults'
      /\ audited \subseteq audited'
  BY HistoryGrows DEF TypeOK
<1>2. ASSUME NEW m \in deadQueue
      PROVE  /\ [call |-> m.call, attempt |-> m.attempt, outcome |-> "failed"] \in audited'
             /\ m.attempt >= m.max \/ faults' > 0
  BY <1>1 DEF DeadLetterExplained
<1>3. ASSUME NEW m \in deadQueue', m \notin deadQueue
      PROVE  /\ [call |-> m.call, attempt |-> m.attempt, outcome |-> "failed"] \in audited'
             /\ m.attempt >= m.max \/ faults' > 0
  <2>1. PICK h \in Handlers : pc[h] = "deadletter" /\ m = job[h].msg
    BY <1>3, RecordSteps
  <2>2. NeedsDeadLetter(h) /\ LastOrFaulty(m)
    BY <2>1 DEF DeadLettersAreLast
  <2>3. RowOf(h) \in audited
    BY <2>1 DEF CallerInv, RowsAreWritten, Procs
  <2>4. RowOf(h) = [call |-> m.call, attempt |-> m.attempt, outcome |-> "failed"]
    BY <2>1, <2>2 DEF RowOf, NeedsDeadLetter
  <2>5. QED
    BY <1>1, <2>2, <2>3, <2>4 DEF LastOrFaulty
<1>4. ASSUME NEW m \in deadQueue' PROVE Explained(m)'
  BY <1>2, <1>3 DEF Explained
<1>5. (\A m \in deadQueue : Explained(m))'
  BY <1>4
<1>6. QED
  BY <1>5, Zenon DEF DeadLetterExplained, Explained

\* While no delivery is repeated.
LEMMA RowsStayPast ==
    ASSUME TypeOK, TypeOK', [Next]_vars, redeliveries = 0, redeliveries' = 0,
           OneChain, AttemptsBounded, CallsAreFirst, OutcomesAreEarned, RowsArePast
    PROVE  RowsArePast'
<1>1. \A c \in Calls : promised[c] <= promised'[c] /\ promised[c] \in Nat /\ promised'[c] \in Nat
  BY PromiseSteps DEF TypeOK
<1>2. \A p \in Procs : ProcessStep(p)
  BY ProcessSteps
<1>3. \A h \in Handlers : h \in Procs /\ h \notin Calls
  BY ConstantsAssumption DEF Procs
<1>4. \A c \in Calls : c \in Procs /\ c \notin Handlers
  BY ConstantsAssumption DEF Procs
<1>5. \A p \in Procs : p \in Calls \/ p \in Handlers
  BY DEF Procs
\* What a busy handler has is a retry, within what was promised.
<1>6. ASSUME NEW h \in Handlers, Busy(h)
      PROVE  /\ job[h].msg \in Message /\ job[h].msg.attempt \in Nat /\ job[h].msg.call \in Calls
             /\ 2 <= job[h].msg.attempt /\ job[h].msg.attempt <= promised[job[h].msg.call]
  <2>1. job[h].msg \in Message
    BY <1>3, <1>6, BusyTypes
  <2>2. 2 <= job[h].msg.attempt
    BY <1>6 DEF AttemptsBounded
  <2>3. job[h].msg.attempt <= promised[job[h].msg.call]
    BY <1>6 DEF RowsArePast
  <2>4. QED
    BY <2>1, <2>2, <2>3 DEF Message
\* So is what a queue has, and it stands for the last promise.
<1>7. ASSUME NEW m \in Queued
      PROVE  /\ m \in Message /\ m.attempt \in Nat /\ m.call \in Calls
             /\ 2 <= m.attempt /\ m.attempt = promised[m.call] /\ m.call \notin served
  <2>1. m \in Message
    BY QueuedTypes
  <2>2. 2 <= m.attempt
    BY DEF AttemptsBounded, Queued
  <2>3. Granted(m)
    BY DEF OneChain, PlacesAreGranted
  <2>4. QED
    BY <2>1, <2>2, <2>3 DEF Message, Granted, Open
\* An attempt that is under way or about to be recorded as failed.
<1>8. ASSUME NEW h \in Handlers, Busy(h), NeedsDeadLetter(h), pc[h] # "ack"
      PROVE  /\ job[h].msg.attempt = promised[job[h].msg.call]
             /\ \A m \in Queued : m.call # job[h].msg.call
  <2>1. Holds(h, job[h].msg.call)
    BY <1>8 DEF Holds, NeedsDeadLetter
  <2>2. Granted(job[h].msg) /\ ~InQueues(job[h].msg.call)
    BY <1>6, <1>8, <2>1 DEF OneChain, PlacesAreGranted, PlacesAreDistinct
  <2>3. QED
    BY <2>2 DEF Granted, InQueues, Queued
<1>9. ASSUME NEW c \in Calls, pc[c] \in {"idle", "run", "schedule"}
      PROVE  promised[c] = 0
  BY <1>9 DEF OneChain, CallsBegin
<1>10. ASSUME NEW h \in Handlers, pc[h] \in {"run", "schedule"}
       PROVE  Busy(h) /\ NeedsDeadLetter(h) /\ pc[h] # "ack"
  BY <1>10 DEF OneChain, HandlersHold, NeedsDeadLetter, Busy, Awaiting
<1>11. ASSUME NEW c \in Calls, Busy(c)
       PROVE  job[c].msg.call = c /\ job[c].msg.attempt = 1
  BY <1>11 DEF CallsAreFirst
\* Who queues an attempt promises one more than was promised.
<1>12. ASSUME NEW p \in Procs, Queues(p)
       PROVE  /\ job[p].msg \in Message /\ job[p].msg.attempt \in Nat \ {0} /\ job[p].msg.call \in Calls
              /\ promised[job[p].msg.call] <= job[p].msg.attempt
              /\ \A r \in audited : r.call = job[p].msg.call => r.outcome # "failed"
  <2>1. pc[p] = "schedule" /\ Busy(p)
    BY <1>12 DEF Queues, Busy, Awaiting
  <2>2. job[p].msg \in Message
    BY <2>1, BusyTypes
  <2>3. job[p].msg.attempt \in Nat \ {0} /\ job[p].msg.call \in Calls
    BY <2>2 DEF Message
  <2>4. \A r \in audited : r.call = job[p].msg.call => r.outcome # "failed"
    BY <2>1 DEF RowsArePast
  <2>5. CASE p \in Calls
    BY <1>9, <1>11, <2>1, <2>2, <2>3, <2>4, <2>5
  <2>6. CASE p \in Handlers
    BY <1>1, <1>8, <1>10, <2>1, <2>2, <2>3, <2>4, <2>6
  <2>7. QED
    BY <1>5, <2>5, <2>6
\* The step may have written one row: its process changes nothing else.
<1>13. ASSUME NEW r \in audited', r \notin audited
       PROVE  \E p \in Procs :
                 /\ Busy(p) /\ pc[p] = "audit" /\ pc'[p] = "read" /\ r = RowOf(p)
                 /\ r.call = job[p].msg.call /\ r.call \in Calls /\ r.attempt = job[p].msg.attempt
                 /\ r.attempt \in Nat
                 /\ r.outcome = "failed" <=> NeedsDeadLetter(p)
                 /\ r.outcome = "succeeded" <=> job[p].succeeded
                 /\ audited' = audited \cup {r}
                 /\ UNCHANGED <<job, promised, retryQueue, executeQueue, served>>
                 /\ \A q \in Procs \ {p} : pc'[q] = pc[q]
  <2>1. PICK p \in Procs : AppendAudit(p)
    BY <1>13, RecordSteps
  <2>2. /\ Busy(p) /\ pc[p] = "audit" /\ pc' = [pc EXCEPT ![p] = "read"] /\ r = RowOf(p)
        /\ audited' = audited \cup {RowOf(p)}
        /\ UNCHANGED <<job, promised, retryQueue, executeQueue, served>>
    BY <1>13, <2>1 DEF AppendAudit, Busy, Awaiting, Goto, history, queues
  <2>3. job[p].msg.call \in Calls /\ job[p].msg.attempt \in Nat
    BY <2>2, BusyTypes DEF Message
  <2>4. pc'[p] = "read" /\ \A q \in Procs \ {p} : pc'[q] = pc[q]
    BY <2>2 DEF TypeOK
  <2>5. /\ r.call = job[p].msg.call /\ r.attempt = job[p].msg.attempt
        /\ r.outcome = "succeeded" <=> job[p].succeeded
        /\ r.outcome = "failed" <=> NeedsDeadLetter(p)
    BY <2>2, RowFields
  <2>6. QED
    BY <2>2, <2>3, <2>4, <2>5
<1>14. \A r \in audited' : r.call \in Calls /\ r.attempt \in Nat
  BY DEF TypeOK, Row
\* Rows of later attempts than were promised there are none.
<1>15. ASSUME NEW r \in audited'
       PROVE  r.attempt <= 1 \/ r.attempt <= promised'[r.call]
  <2>1. CASE r \in audited
    BY <1>1, <1>14, <2>1 DEF RowsArePast
  <2>2. CASE r \notin audited
    <3>1. PICK p \in Procs : /\ Busy(p) /\ r.call = job[p].msg.call /\ r.call \in Calls
                             /\ r.attempt = job[p].msg.attempt
      BY <1>13, <2>2
    <3>2. CASE p \in Calls
      BY <1>11, <3>1, <3>2
    <3>3. CASE p \in Handlers
      BY <1>1, <1>6, <3>1, <3>3
    <3>4. QED
      BY <1>5, <3>2, <3>3
  <2>3. QED
    BY <2>1, <2>2
<1>16. ASSUME NEW h \in Handlers, Busy(h)'
       PROVE  job'[h].msg.attempt <= promised'[job'[h].msg.call]
  <2>1. CASE Busy(h) /\ job'[h].msg = job[h].msg
    BY <1>1, <1>6, <2>1
  <2>2. CASE executeQueue # <<>> /\ job'[h] = NewJob(Head(executeQueue))
    BY <1>1, <1>7, <2>2, HeadIsQueued, NewJobFields
  <2>3. QED
    BY <1>2, <1>3, <1>16, <2>1, <2>2 DEF ProcessStep, Queues, SameJob, Busy, Awaiting
<1>17. ASSUME NEW c \in Calls, pc'[c] = "audit", ~job'[c].queued
       PROVE  promised'[c] = 0
  <2>1. promised[c] = 0 /\ ~Queues(c)
    BY <1>2, <1>4, <1>9, <1>17 DEF ProcessStep, Queues, SameJob, RowsArePast, Busy, Awaiting
  <2>2. CASE promised'[c] = promised[c]
    BY <2>1, <2>2
  <2>3. ASSUME NEW p \in Procs, Queues(p), job[p].msg.call = c PROVE FALSE
    <3>1. pc[p] = "schedule" /\ Busy(p)
      BY <2>3 DEF Queues, Busy, Awaiting
    <3>2. CASE p \in Calls
      BY <1>11, <2>1, <2>3, <3>1, <3>2
    <3>3. CASE p \in Handlers
      BY <1>6, <2>1, <2>3, <3>1, <3>3
    <3>4. QED
      BY <1>5, <3>2, <3>3
  <2>4. QED
    BY <2>2, <2>3, PromiseSteps
<1>18. ASSUME NEW r \in audited', NEW p \in Procs,
              pc'[p] \in {"run", "schedule", "audit"}, r.call = job'[p].msg.call
       PROVE  /\ r.attempt # job'[p].msg.attempt
              /\ pc'[p] # "audit" => r.outcome # "failed"
  <2>1. CASE r \in audited /\ pc[p] \in {"run", "schedule", "audit"} /\ job'[p].msg = job[p].msg
             /\ (pc'[p] # "audit" => pc[p] # "audit")
    BY <1>18, <2>1 DEF RowsArePast
  <2>2. CASE r \in audited /\ p \in Calls /\ pc[p] = "idle"
             /\ job'[p] = NewJob([call |-> p, attempt |-> 1, max |-> config.maxAttempts])
    <3>1. r.call = p
      BY <1>18, <2>2, NewJobFields
    <3>2. QED
      BY <2>2, <3>1 DEF RowsArePast
  <2>3. CASE r \in audited /\ executeQueue # <<>> /\ job'[p] = NewJob(Head(executeQueue))
    <3>1. job'[p].msg = Head(executeQueue) /\ Head(executeQueue) \in Queued
      BY <2>3, HeadIsQueued, NewJobFields
    <3>2. QED
      BY <1>18, <2>3, <3>1 DEF RowsArePast
  <2>4. CASE r \notin audited
    <3>1. PICK q \in Procs :
             /\ Busy(q) /\ pc[q] = "audit" /\ pc'[q] = "read"
             /\ r.call = job[q].msg.call /\ r.call \in Calls /\ r.attempt = job[q].msg.attempt
             /\ r.outcome = "failed" <=> NeedsDeadLetter(q)
             /\ UNCHANGED job
             /\ \A z \in Procs \ {q} : pc'[z] = pc[z]
      BY <1>13, <2>4
    <3>2. p # q /\ pc[p] = pc'[p] /\ Busy(p) /\ job[p].msg.call = r.call /\ job'[p] = job[p]
      BY <1>18, <3>1 DEF Busy, Awaiting
    <3>3. CASE p \in Calls /\ q \in Calls
      BY <1>11, <3>1, <3>2, <3>3
    <3>4. CASE p \in Handlers /\ q \in Handlers
      BY <3>1, <3>2, <3>4 DEF OneChain, HandlersTakeTurns
    <3>5. CASE p \in Handlers /\ q \in Calls
      <4>1. r.attempt = 1 /\ r.call = q /\ 2 <= job[p].msg.attempt /\ job[p].msg.attempt \in Nat
        BY <1>6, <1>11, <3>1, <3>2, <3>5
      <4>2. ASSUME r.outcome = "failed" PROVE FALSE
        <5>1. promised[q] = 0
          BY <3>1, <3>5, <4>2 DEF RowsArePast, NeedsDeadLetter
        <5>2. job[p].msg.attempt <= promised[q]
          BY <1>6, <3>2, <3>5, <4>1
        <5>3. QED
          BY <4>1, <5>1, <5>2
      <4>3. QED
        BY <3>2, <4>1, <4>2
    <3>6. CASE p \in Calls /\ q \in Handlers
      <4>1. /\ job[p].msg.attempt = 1 /\ r.call = p /\ 2 <= r.attempt /\ r.attempt \in Nat
            /\ r.attempt <= promised[p]
        BY <1>6, <1>11, <3>1, <3>2, <3>6
      <4>2. pc[p] = "audit"
        <5>1. promised[p] # 0
          BY <4>1
        <5>2. QED
          BY <1>9, <1>18, <3>2, <3>6, <5>1
      <4>3. QED
        BY <3>2, <4>1, <4>2
    <3>7. QED
      BY <1>5, <3>3, <3>4, <3>5, <3>6
  <2>5. QED
    <3>1. ProcessStep(p)
      BY <1>2
    <3>2. QED
      BY <1>18, <2>1, <2>2, <2>3, <2>4, <3>1 DEF ProcessStep, Queues, SameJob, Busy, Awaiting
<1>19. ASSUME NEW r \in audited', NEW m \in Queued', r.call = m.call
       PROVE  r.attempt # m.attempt /\ r.outcome # "failed"
  <2>1. CASE r \in audited /\ m \in Queued
    BY <1>19, <2>1 DEF RowsArePast
  <2>2. ASSUME r \in audited, NEW p \in Procs, Queues(p), m = NextMessage(job[p].msg)
        PROVE  r.attempt # m.attempt /\ r.outcome # "failed"
    <3>1. /\ job[p].msg \in Message /\ job[p].msg.attempt \in Nat \ {0}
          /\ promised[job[p].msg.call] <= job[p].msg.attempt /\ job[p].msg.call \in Calls
          /\ r.call = job[p].msg.call => r.outcome # "failed"
      BY <1>12, <2>2
    <3>2. m.call = job[p].msg.call /\ m.attempt = job[p].msg.attempt + 1
      BY <2>2, <3>1 DEF NextMessage, Message
    <3>3. r.attempt <= 1 \/ r.attempt <= promised[r.call]
      BY <2>2 DEF RowsArePast
    <3>4. r.attempt \in Nat /\ promised[r.call] \in Nat
      BY <1>1, <1>14
    <3>5. QED
      BY <1>19, <3>1, <3>2, <3>3, <3>4
  <2>3. CASE r \notin audited
    <3>1. PICK p \in Procs :
             /\ Busy(p) /\ pc[p] = "audit"
             /\ r.call = job[p].msg.call /\ r.call \in Calls /\ r.attempt = job[p].msg.attempt
             /\ r.attempt \in Nat
             /\ r.outcome = "failed" <=> NeedsDeadLetter(p)
             /\ UNCHANGED <<retryQueue, executeQueue>>
      BY <1>13, <2>3
    <3>2. m \in Queued
      BY <3>1 DEF Queued, QueuedMessages
    <3>3. /\ m.attempt \in Nat /\ 2 <= m.attempt /\ m.attempt = promised[r.call]
          /\ r.call \notin served
      BY <1>7, <1>19, <3>2
    <3>4. CASE p \in Calls
      <4>1. r.call = p /\ r.attempt = 1
        BY <1>11, <3>1, <3>4
      <4>2. ~NeedsDeadLetter(p)
        BY <3>1, <3>3, <3>4, <4>1 DEF RowsArePast, NeedsDeadLetter
      <4>3. QED
        BY <3>1, <3>3, <4>1, <4>2
    <3>5. CASE p \in Handlers
      <4>1. ~NeedsDeadLetter(p)
        BY <1>8, <1>19, <3>1, <3>2, <3>5
      <4>2. ~job[p].succeeded
        BY <3>1, <3>3 DEF OutcomesAreEarned
      <4>3. job[p].msg.attempt < promised[r.call]
        BY <3>1, <4>1, <4>2 DEF OutcomesAreEarned, NeedsDeadLetter
      <4>4. QED
        BY <3>1, <3>3, <4>1, <4>3
    <3>6. QED
      BY <1>5, <3>4, <3>5
  <2>4. QED
    BY <2>1, <2>2, <2>3, QueueSteps
<1>20. ASSUME NEW r \in audited' PROVE pc'[r.call] # "idle"
  <2>1. CASE r \in audited
    <3>1. pc[r.call] # "idle" /\ r.call \in Calls
      BY <1>14, <2>1 DEF RowsArePast
    <3>2. QED
      BY <1>2, <1>4, <3>1 DEF ProcessStep, Queues, Busy, Awaiting
  <2>2. CASE r \notin audited
    <3>1. PICK p \in Procs :
             /\ Busy(p) /\ pc'[p] = "read" /\ r.call = job[p].msg.call /\ r.call \in Calls
             /\ \A z \in Procs \ {p} : pc'[z] = pc[z]
      BY <1>13, <2>2
    <3>2. CASE p \in Calls
      BY <1>11, <3>1, <3>2
    <3>3. CASE p \in Handlers
      <4>1. promised[r.call] # 0
        BY <1>6, <3>1, <3>3
      <4>2. pc[r.call] # "idle" /\ r.call # p /\ r.call \in Procs
        BY <1>4, <1>9, <3>1, <3>3, <4>1
      <4>3. QED
        BY <3>1, <4>2
    <3>4. QED
      BY <1>5, <3>2, <3>3
  <2>3. QED
    BY <2>1, <2>2
<1>21. ASSUME NEW r \in audited', r.outcome = "failed" PROVE promised'[r.call] <= r.attempt
  <2>1. CASE r \in audited
    <3>1. promised[r.call] <= r.attempt
      BY <1>21, <2>1 DEF RowsArePast
    <3>2. \A p \in Procs : Queues(p) => job[p].msg.call # r.call
      BY <1>12, <1>21, <2>1
    <3>3. promised'[r.call] = promised[r.call]
      BY <1>14, <3>2, PromiseSteps
    <3>4. QED
      BY <3>1, <3>3
  <2>2. CASE r \notin audited
    <3>1. PICK p \in Procs :
             /\ Busy(p) /\ pc[p] = "audit"
             /\ r.call = job[p].msg.call /\ r.call \in Calls /\ r.attempt = job[p].msg.attempt
             /\ NeedsDeadLetter(p) /\ r.attempt \in Nat
             /\ UNCHANGED promised
      BY <1>13, <1>21, <2>2
    <3>2. CASE p \in Calls
      <4>1. promised[p] = 0 /\ r.call = p
        BY <1>11, <3>1, <3>2 DEF RowsArePast, NeedsDeadLetter
      <4>2. QED
        BY <3>1, <4>1
    <3>3. CASE p \in Handlers
      BY <1>8, <3>1, <3>3
    <3>4. QED
      BY <1>5, <3>2, <3>3
  <2>3. QED
    BY <2>1, <2>2
<1>22. ASSUME NEW r1 \in audited', NEW r2 \in audited', r1.call = r2.call, r1.attempt = r2.attempt
       PROVE  r1 = r2
  <2>1. CASE r1 \in audited /\ r2 \in audited
    BY <1>22, <2>1 DEF RowsArePast
  <2>2. ASSUME NEW r \in audited', NEW s \in audited', r \notin audited, r # s,
               r.call = s.call, r.attempt = s.attempt
        PROVE  FALSE
    <3>1. PICK p \in Procs :
             /\ Busy(p) /\ pc[p] = "audit"
             /\ r.call = job[p].msg.call /\ r.attempt = job[p].msg.attempt
             /\ audited' = audited \cup {r}
      BY <1>13, <2>2
    <3>2. s \in audited
      BY <2>2, <3>1
    <3>3. QED
      BY <2>2, <3>1, <3>2 DEF RowsArePast
  <2>3. QED
    BY <1>22, <2>1, <2>2
<1>23. QED
  BY <1>15, <1>16, <1>17, <1>18, <1>19, <1>20, <1>21, <1>22 DEF RowsArePast

LEMMA LogInvInit == Init => LogInv
<1> SUFFICES ASSUME Init PROVE LogInv
  OBVIOUS
<1>1. /\ \A p \in Procs : pc[p] = "idle" /\ ~Busy(p)
      /\ audited = {} /\ deadQueue = {} /\ consumer # "down" /\ Queued = {}
  BY DEF Init, Busy, Awaiting, Queued, QueuedMessages
<1>2. \A h \in Handlers : h \in Procs
  BY DEF Procs
<1>3. \A c \in Calls : c \in Procs
  BY DEF Procs
<1>4. OutcomesAreEarned /\ DeadLetterExplained
  BY <1>1 DEF OutcomesAreEarned, DeadLetterExplained
<1>5. RetriedAsBefore /\ DeadLettersAreLast
  BY <1>1, <1>2 DEF RetriedAsBefore, DeadLettersAreLast
<1>6. RowsArePast
  BY <1>1, <1>2, <1>3 DEF RowsArePast
<1>7. QED
  BY <1>4, <1>5, <1>6 DEF LogInv

\* What is on record of the attempts agrees with what became of them: rows with the
\* queues and the services' answers, dead letters with the limits and the faults; and
\* while no delivery was repeated no attempt has two outcomes and a final one is final.
THEOREM LogsAlwaysExplained == ASSUME LimitsBounded PROVE Spec => []LogsExplainQueue
<1>1. Init => LogInv
  BY LogInvInit
<1>2. TypeOK /\ TypeOK' /\ ChainInv /\ AttemptsBounded /\ CallerInv /\ LogInv /\ [Next]_vars => LogInv'
  <2> SUFFICES ASSUME TypeOK, TypeOK', ChainInv, AttemptsBounded, CallerInv, LogInv, [Next]_vars
               PROVE  LogInv'
    OBVIOUS
  <2>1. OutcomesAreEarned'
    BY OutcomesStayEarned DEF LogInv
  <2>2. DeadLetterExplained'
    BY DeadLettersStayExplained DEF LogInv
  <2>3. RetriedAsBefore' /\ DeadLettersAreLast'
    BY StaysRetried, DeadLettersStayLast DEF LogInv
  <2>4. ASSUME redeliveries' = 0 PROVE RowsArePast'
    <3>1. redeliveries = 0
      BY <2>4, HistoryGrows DEF TypeOK
    <3>2. OneChain /\ CallsAreFirst /\ OutcomesAreEarned /\ RowsArePast
      BY <3>1 DEF ChainInv, CallerInv, LogInv
    <3>3. QED
      BY <2>4, <3>1, <3>2, RowsStayPast
  <2>5. QED
    BY <2>1, <2>2, <2>3, <2>4 DEF LogInv
<1>3. TypeOK /\ LogInv => LogsExplainQueue
  BY DEF LogInv, LogsExplainQueue, AuditMatchesQueue, OutcomesAreEarned, RowsArePast
<1>4. QED
  BY <1>1, <1>2, <1>3, TypeCorrect, ChainInvariant, AttemptsStayBounded, CallerInvariant, PTL DEF Spec

=============================================================================
