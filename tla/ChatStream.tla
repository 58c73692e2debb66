----------------------------- MODULE ChatStream -----------------------------
(***************************************************************************)
(* One chat request from end to end: the agent's pipeline produces events  *)
(* (MIBO.LangChainService/main.py), ChatController.StreamChatAsync of the  *)
(* ConversationService forwards them to the client, records what became of *)
(* the request and persists the assistant's reply, and the client may stop *)
(* reading at any time.                                                    *)
(*                                                                         *)
(* An event travels as two pieces, because a read of the network need not  *)
(* end where an event ends. The agent sends text beyond ASCII as it is, and *)
(* each read is decoded on its own: one that ends within a character turns *)
(* that character into replacement characters. Of an event's text only its *)
(* kind is kept, and whether it still reads as it was sent. The steps of   *)
(* the conversation store are the module ConversationStore's.              *)
(***************************************************************************)
EXTENDS Naturals, Sequences, SequencesExt

CONSTANT MaxEvents  \* bound: status and chunk events of one answer

ASSUME MaxEventsAssumption == MaxEvents \in Nat

VARIABLES
    pc,        \* where StreamChatAsync is
    synthetic, \* the request came without a conversation id
    rawBuffer, \* what StreamChatAsync has read and not yet forwarded
    reply,     \* assistantPayload and assistantText: the "done" event's content
    forwarded, \* history: how many events were taken off rawBuffer
    cuts,      \* history: the events of the answer, by number, that a read cut
               \* within a character
    agent,     \* the pipeline task of the agent
    queue,     \* events the pipeline emitted, not yet sent
    wire,      \* pieces sent by the agent, not yet read
    sending,   \* what the agent still does with the connection
    client,    \* the client: reading, or gone
    delivered, \* events written to a client that was reading
    emitted,   \* history: every event the pipeline emitted
    stored,    \* assistant messages of this request in the store
    recorded   \* outcomes recorded for the agent and for the platform

controllerVars == <<pc, rawBuffer, reply, forwarded, cuts, delivered, stored, recorded>>
agentVars == <<agent, queue, sending, emitted>>
vars == <<controllerVars, agentVars, synthetic, wire, client>>

-----------------------------------------------------------------------------

Contents == {"answer", "fallback"}
Events == [type: {"session", "status", "chunk"}] \cup [type: {"done"}, content: Contents]
\* A piece is intact unless a read ended at its end and within a character.
Pieces == [event: Events, last: BOOLEAN, intact: BOOLEAN]
\* What the client is shown, and what is kept of the last event.
Shown == [event: Events, intact: BOOLEAN]
Replies == [content: Contents, intact: BOOLEAN]
NoReply == [content |-> "none", intact |-> TRUE]

Done(content) == [type |-> "done", content |-> content]
Event(type) == [type |-> type]

Components == {"ai", "platform"}

\* Awaits of StreamChatAsync, in the order of the code. After "stream" the
\* request ends along one of four paths of recording steps.
Steps == {"create", "append", "send", "refused", "start", "session", "flush", "open", "stream",
          "refused_ai", "refused_platform", "ai_failure", "platform_failure",
          "cancelled_ai", "cancelled_platform",
          "ai_success", "persist", "persist_failure", "platform_success"}

\* How a request ends.
Ends == {"rejected", "not_found", "error", "cancelled", "proxied", "completed"}

Goto(step) == pc' = step

Gone == client = "gone"

-----------------------------------------------------------------------------
(* The client                                                              *)

\* The user stops the answer, or the connection to the client breaks. From now
\* on any await that takes the request's token may throw.
Leave ==
    /\ client = "reading"
    /\ client' = "gone"
    /\ UNCHANGED <<controllerVars, agentVars, synthetic, wire>>

-----------------------------------------------------------------------------
(* The agent                                                               *)

\* emit(): the queue between the pipeline and event_stream has no limit.
Emit(event) ==
    /\ queue' = Append(queue, event)
    /\ emitted' = Append(emitted, event)

EmitProgress ==
    /\ agent = "running"
    /\ Len(emitted) < MaxEvents
    /\ \E type \in {"status", "chunk"} : Emit(Event(type))
    /\ UNCHANGED <<controllerVars, agent, sending, synthetic, wire, client>>

\* Mutant of EmitDone: an exception of the pipeline ends the task only.
EmitDoneOrDie ==
    /\ agent = "running"
    /\ \/ agent' = "finished" /\ Emit(Done("answer"))
       \/ agent' = "crashed" /\ UNCHANGED <<queue, emitted>>
    /\ UNCHANGED <<controllerVars, sending, synthetic, wire, client>>

\* The pipeline's result, or the fallback when any node of it raised. The None
\* that ends the queue follows at once.
EmitDone ==
    /\ agent = "running"
    /\ agent' = "finished"
    /\ \E content \in Contents : Emit(Done(content))
    /\ UNCHANGED <<controllerVars, sending, synthetic, wire, client>>

\* event_stream takes an event off the queue and sends it.
Send ==
    /\ sending = "open"
    /\ queue # <<>>
    /\ wire' = wire \o <<[event |-> Head(queue), last |-> FALSE, intact |-> TRUE],
                         [event |-> Head(queue), last |-> TRUE, intact |-> TRUE]>>
    /\ queue' = Tail(queue)
    /\ UNCHANGED <<controllerVars, agent, sending, emitted, synthetic, client>>

\* event_stream takes None: the response ends properly.
Close ==
    /\ sending = "open"
    /\ queue = <<>>
    /\ agent = "finished"
    /\ sending' = "closed"
    /\ UNCHANGED <<controllerVars, agent, queue, emitted, synthetic, wire, client>>

\* The agent's process dies; the response breaks off, maybe within an event.
AgentCrash ==
    /\ sending = "open"
    /\ agent' = IF agent = "running" THEN "crashed" ELSE agent
    /\ sending' = "broken"
    /\ queue' = <<>>
    /\ \E n \in 0 .. Len(wire) : wire' = SubSeq(wire, 1, n)
    /\ UNCHANGED <<controllerVars, emitted, synthetic, client>>

\* The controller has dropped the connection: event_stream cancels the task.
AgentCancelled ==
    /\ sending = "open"
    /\ pc \in Ends \cup {"cancelled_ai", "cancelled_platform"}
    /\ agent' = IF agent = "running" THEN "cancelled" ELSE agent
    /\ sending' = "closed"
    /\ queue' = <<>>
    /\ UNCHANGED <<controllerVars, emitted, synthetic, wire, client>>

-----------------------------------------------------------------------------
(* StreamChatAsync until the answer streams                                *)

\* A blank prompt is rejected; a blank conversation id gets a conversation.
Validate ==
    /\ pc = "idle"
    /\ \/ Goto("rejected") /\ UNCHANGED synthetic
       \/ Goto("create") /\ synthetic' = TRUE
       \/ Goto("append") /\ UNCHANGED synthetic
    /\ UNCHANGED <<rawBuffer, reply, forwarded, cuts, delivered, stored, recorded, agentVars, wire, client>>

\* CreateConversationAsync, or an exception of it.
Create ==
    /\ pc = "create"
    /\ Goto("append") \/ Goto("error")
    /\ UNCHANGED <<rawBuffer, reply, forwarded, cuts, delivered, stored, recorded, agentVars,
                   synthetic, wire, client>>

\* AppendUserMessageAsync: done, someone else's conversation, or an exception.
AppendUserMessage ==
    /\ pc = "append"
    /\ Goto("send") \/ Goto("not_found") \/ Goto("error")
    /\ UNCHANGED <<rawBuffer, reply, forwarded, cuts, delivered, stored, recorded, agentVars,
                   synthetic, wire, client>>

\* SendAsync until the response's head: accepted, refused with an error status,
\* failed, or cancelled by the client.
SendRequest ==
    /\ pc = "send"
    /\ \/ /\ Goto("start")
          /\ agent' = "running"
          /\ sending' = "open"
       \/ /\ Goto("refused") \/ Goto("ai_failure")
          /\ UNCHANGED <<agent, sending>>
       \/ /\ Gone
          /\ Goto("cancelled")
          /\ UNCHANGED <<agent, sending>>
    /\ UNCHANGED <<rawBuffer, reply, forwarded, cuts, delivered, stored, recorded, queue, emitted,
                   synthetic, wire, client>>

\* The body of an error response is read before anything is recorded; the
\* connection may break or the client leave meanwhile.
ReadRefusal ==
    /\ pc = "refused"
    /\ Goto("refused_ai") \/ Goto("error")
    /\ UNCHANGED <<rawBuffer, reply, forwarded, cuts, delivered, stored, recorded, agentVars,
                   synthetic, wire, client>>

\* An event as it was decoded is written to the client, if that still reads.
Write(event, intact) ==
    delivered' = IF Gone THEN delivered ELSE Append(delivered, [event |-> event, intact |-> intact])

\* The awaits between the accepted answer and the first read. Each takes the
\* request's token outside the try block, so that a cancellation at any of them
\* leaves without recording anything.
OpeningStep(step, next) ==
    /\ pc = step
    /\ Goto(next) \/ (Gone /\ Goto("cancelled"))
    /\ UNCHANGED <<rawBuffer, reply, forwarded, cuts, delivered, stored, recorded, agentVars,
                   synthetic, wire, client>>

\* The session event of a new conversation is written, or the write is cancelled.
WriteSession ==
    /\ pc = "session"
    /\ \/ Goto("flush") /\ Write(Event("session"), TRUE)
       \/ Gone /\ Goto("cancelled") /\ UNCHANGED delivered
    /\ UNCHANGED <<rawBuffer, reply, forwarded, cuts, stored, recorded, agentVars,
                   synthetic, wire, client>>

StartResponse ==
    \/ OpeningStep("start", IF synthetic THEN "session" ELSE "open")
    \/ WriteSession
    \/ OpeningStep("flush", "open")
    \/ OpeningStep("open", "stream")

-----------------------------------------------------------------------------
(* The read loop                                                           *)

\* An event boundary is in the buffer.
Complete == \E i \in DOMAIN rawBuffer : rawBuffer[i].last

\* The piece that ends the first event in the buffer.
Boundary == CHOOSE i \in DOMAIN rawBuffer :
                rawBuffer[i].last /\ \A j \in 1 .. i - 1 : ~rawBuffer[j].last

\* Mutant of Remainder: what was read after the event is dropped with it.
RemainderEmpty == <<>>

\* The buffer after its first event.
Remainder == SubSeq(rawBuffer, Boundary + 1, Len(rawBuffer))

\* ReadAsync returns some of what has arrived. Encoding.UTF8.GetString keeps no
\* state from one read to the next: when the read ends within a character, both
\* parts of it become replacement characters.
Read ==
    /\ pc = "stream"
    /\ ~Complete
    /\ \E n \in 1 .. Len(wire) :
          LET read == rawBuffer \o SubSeq(wire, 1, n)
          IN  /\ wire' = SubSeq(wire, n + 1, Len(wire))
              /\ \/ rawBuffer' = read /\ UNCHANGED cuts
                 \/ /\ ~read[Len(read)].last
                    /\ rawBuffer' = [read EXCEPT ![Len(read)].intact = FALSE]
                    /\ cuts' = cuts \cup {forwarded + (Len(read) + 1) \div 2}
    /\ UNCHANGED <<pc, reply, forwarded, delivered, stored, recorded, agentVars, synthetic, client>>

\* The first event in the buffer: a "done" is remembered, then it is written.
\* Replacement characters do not disturb the parsing, they are within a string.
Forward ==
    /\ pc = "stream"
    /\ Complete
    /\ LET event == Head(rawBuffer).event
           intact == \A i \in 1 .. Boundary : rawBuffer[i].intact
       IN  /\ reply' = IF event.type = "done"
                       THEN [content |-> event.content, intact |-> intact] ELSE reply
           /\ Write(event, intact)
    /\ rawBuffer' = Remainder
    /\ forwarded' = forwarded + 1
    /\ UNCHANGED <<pc, cuts, stored, recorded, agentVars, synthetic, wire, client>>

\* A read or a write notices that the client left. What was being forwarded has
\* been taken off the buffer and its reply remembered, but none is persisted.
NoticeCancellation ==
    /\ pc = "stream"
    /\ Gone
    /\ Goto("cancelled_ai")
    /\ UNCHANGED <<rawBuffer, reply, forwarded, cuts, delivered, stored, recorded, agentVars,
                   synthetic, wire, client>>

\* The response breaks off, or the controller's own timeout throws.
ReadFails ==
    /\ pc = "stream"
    /\ ~Complete
    /\ sending = "broken" /\ wire = <<>>
    /\ Goto("ai_failure")
    /\ UNCHANGED <<rawBuffer, reply, forwarded, cuts, delivered, stored, recorded, agentVars,
                   synthetic, wire, client>>

\* ReadAsync returns 0: an event without its end is dropped.
EndOfStream ==
    /\ pc = "stream"
    /\ ~Complete
    /\ sending = "closed" /\ wire = <<>>
    /\ Goto("ai_success")
    /\ UNCHANGED <<rawBuffer, reply, forwarded, cuts, delivered, stored, recorded, agentVars,
                   synthetic, wire, client>>

-----------------------------------------------------------------------------
(* After the stream                                                        *)

\* aiRecorded and platformRecorded: only the first outcome counts. Recording
\* uses no token and catches its own exceptions.
Record(component, outcome) ==
    recorded' = IF recorded[component] = <<>>
                THEN [recorded EXCEPT ![component] = <<outcome>>]
                ELSE recorded

RecordStep(step, component, outcome, next) ==
    /\ pc = step
    /\ Record(component, outcome)
    /\ Goto(next)
    /\ UNCHANGED <<rawBuffer, reply, forwarded, cuts, delivered, stored, agentVars,
                   synthetic, wire, client>>

RecordFailures ==
    \/ RecordStep("ai_failure", "ai", "failed", "platform_failure")
    \/ RecordStep("platform_failure", "platform", "failed", "error")
    \/ RecordStep("refused_ai", "ai", "failed", "refused_platform")
    \/ RecordStep("refused_platform", "platform", "failed", "proxied")

\* Mutant of RecordCancellation: only the agent's outcome is recorded.
RecordCancellationOfAgent == RecordStep("cancelled_ai", "ai", "succeeded", "cancelled")

\* A client that left is not a failure of anybody.
RecordCancellation ==
    \/ RecordStep("cancelled_ai", "ai", "succeeded", "cancelled_platform")
    \/ RecordStep("cancelled_platform", "platform", "succeeded", "cancelled")

RecordSuccess ==
    \/ RecordStep("ai_success", "ai", "succeeded",
                  IF reply = NoReply THEN "platform_success" ELSE "persist")
    \/ RecordStep("platform_success", "platform", "succeeded", "completed")

\* AppendAssistantMessageAsync. It may throw after the message was inserted, as
\* it does when the client left meanwhile.
Persist ==
    /\ pc = "persist"
    /\ \/ /\ stored' = stored \cup {reply}
          /\ Goto("platform_success")
       \/ /\ \E kept \in SUBSET {reply} : stored' = stored \cup kept
          /\ Goto("persist_failure")
    /\ UNCHANGED <<rawBuffer, reply, forwarded, cuts, delivered, recorded, agentVars,
                   synthetic, wire, client>>

RecordPersistFailure ==
    RecordStep("persist_failure", "platform", "failed", "error")

-----------------------------------------------------------------------------

Init ==
    /\ pc = "idle"
    /\ synthetic = FALSE
    /\ rawBuffer = <<>>
    /\ reply = NoReply
    /\ forwarded = 0
    /\ cuts = {}
    /\ agent = "waiting"
    /\ queue = <<>>
    /\ wire = <<>>
    /\ sending = "none"
    /\ client = "reading"
    /\ delivered = <<>>
    /\ emitted = <<>>
    /\ stored = {}
    /\ recorded = [c \in Components |-> <<>>]

Controller ==
    \/ Validate \/ Create \/ AppendUserMessage \/ SendRequest \/ ReadRefusal \/ StartResponse
    \/ Read \/ Forward \/ ReadFails \/ EndOfStream
    \/ RecordFailures \/ RecordCancellation \/ RecordSuccess
    \/ Persist \/ RecordPersistFailure

Agent == EmitDone \/ Send \/ Close \/ AgentCancelled

Next ==
    \/ Controller
    \/ NoticeCancellation
    \/ Agent
    \/ EmitProgress
    \/ AgentCrash
    \/ Leave

Spec == Init /\ [][Next]_vars

\* Each process goes on: every await of it is answered or fails. The client
\* need not leave, and nothing need crash.
FairSpec == Spec /\ WF_vars(Controller) /\ WF_vars(Agent)

-----------------------------------------------------------------------------
(* What must hold                                                          *)

\* Every variable has its type.
TypeOK ==
    /\ pc \in {"idle"} \cup Steps \cup Ends
    /\ synthetic \in BOOLEAN
    /\ rawBuffer \in Seq(Pieces) /\ wire \in Seq(Pieces)
    /\ queue \in Seq(Events) /\ delivered \in Seq(Shown) /\ emitted \in Seq(Events)
    /\ reply \in {NoReply} \cup Replies
    /\ forwarded \in Nat /\ cuts \subseteq Nat
    /\ stored \subseteq Replies
    /\ agent \in {"waiting", "running", "finished", "crashed", "cancelled"}
    /\ sending \in {"none", "open", "closed", "broken"}
    /\ client \in {"reading", "gone"}
    /\ recorded \in [Components -> Seq({"succeeded", "failed"})]

\* What the client is to be sent: the session event of a new conversation, then
\* the agent's events.
Upstream == IF synthetic THEN <<Event("session")>> \o emitted ELSE emitted

\* The place of the agent's first event among them.
Offset == IF synthetic THEN 1 ELSE 0

\* The i-th event as the client is shown it.
AsRead(i) == [event |-> Upstream[i], intact |-> i - Offset \notin cuts]

\* However the network cuts the stream into pieces, the client is sent the
\* agent's events in order, without gaps and each in one piece; the text of an
\* event is as the agent sent it, unless a read cut that very event within a
\* character, and then it is not.
ForwardedInOrder ==
    /\ Len(delivered) <= Len(Upstream)
    /\ \A i \in 1 .. Len(delivered) : delivered[i] = AsRead(i)

\* A request that is over has recorded one outcome for the agent and one for the
\* platform, or none at all: because it never reached the agent, or left before
\* any of the agent's answer was read; a session event may have been sent then.
OneOutcomeEach ==
    pc \in Ends =>
        \/ \A c \in Components : Len(recorded[c]) = 1
        \/ /\ \A c \in Components : recorded[c] = <<>>
           /\ pc \in {"rejected", "not_found", "error", "cancelled"}
           /\ forwarded = 0 /\ rawBuffer = <<>>
           /\ \A i \in 1 .. Len(delivered) : delivered[i].event = Event("session")
           /\ stored = {}

\* What is recorded is what happened. A completed request succeeded, and its
\* reply is stored; the platform fails alone only when storing the reply threw;
\* and where the agent failed it is not at work on an answer, and none is stored.
OutcomeIsTrue ==
    /\ pc = "completed" =>
          /\ \A c \in Components : recorded[c] = <<"succeeded">>
          /\ \E kept \in stored : stored = {kept} /\ Done(kept.content) = emitted[Len(emitted)]
    /\ recorded["ai"] = <<"succeeded">> /\ recorded["platform"] = <<"failed">> =>
          pc = "error" /\ agent = "finished" /\ reply # NoReply
    /\ recorded["ai"] = <<"failed">> => agent # "running" /\ stored = {}

\* The stored reply is the one the agent finished with, damaged only when a read
\* cut it, and it was written to the client in the same form first, if the client
\* was still there.
StoredReplyWasShown ==
    \A kept \in stored :
        /\ agent = "finished"
        /\ emitted[Len(emitted)] = Done(kept.content)
        /\ kept.intact <=> Len(emitted) \notin cuts
        /\ \/ Gone
           \/ /\ Len(delivered) = Len(Upstream)
              /\ delivered[Len(delivered)] = [event |-> Done(kept.content), intact |-> kept.intact]

\* A request that reaches the agent ends, and the pipeline does not outlive it.
StreamEnds == pc = "send" ~> pc \in Ends /\ agent # "running"

\* The client sees what the agent sent and what is kept: the events in order, each
\* as it was read, and the stored reply among them.
ShownAsSent == TypeOK /\ ForwardedInOrder /\ StoredReplyWasShown

\* A request that is over has one outcome on record, and it is the true one.
OutcomeIsRecorded == OneOutcomeEach /\ OutcomeIsTrue

=============================================================================
