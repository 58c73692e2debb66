---------------------------- MODULE ContextMemory ----------------------------
(***************************************************************************)
(* The agent's memory of a conversation (agent/memory.py and the budget    *)
(* check of agent/agents/intent_agent.py). A chat loads a window: a        *)
(* summary and the messages created after its cutoff. If the prompt is too *)
(* long, the older half of the messages is summarised first and the window *)
(* loaded again. Chats on one conversation overlap: every read, the call of*)
(* the model and the update of the document are steps of their own.        *)
(*                                                                         *)
(* A summary is the set of messages it tells. The text it is made from is  *)
(* cut to a number of tokens, and texts have any length: what is left may  *)
(* be any beginning of it. Legacy messages are those embedded in a document*)
(* of an earlier schema, numbered in their order. The document exists: the *)
(* chat's prompt was appended before the agent was called.                 *)
(***************************************************************************)
EXTENDS Integers, FiniteSets, FiniteSetsExt

CONSTANTS
    Chats,          \* chats the agent serves; one is served again when ready
    Legacy,         \* how many embedded messages there are at the start
    MaxMessages,    \* bound: messages created
    MaxClock,       \* bound: milliseconds
    CompactFrom,    \* messages needed for a compaction (4)
    ReadLimit,      \* messages a compaction reads (400)
    WindowBudget,   \* messages that fit a window (6000 tokens)
    SummaryBudgets  \* messages that may fit a summary (prompt 6000, fallback 800 tokens)

\* A message: its number in the order of creation, and when it was created.
Message == [id : 1..MaxMessages, at : 0..MaxClock]

\* A legacy message has a number and no time that matters.
LegacyMessages == [id : 1..Legacy, at : {-1}]

VARIABLES
    clock,       \* milliseconds, the precision of a stored time
    created,     \* messages ConversationService has made
    stored,      \* those in the messages collection
    doc,         \* the conversation document: summary, cutoff, legacy messages
    pc,          \* where a chat is
    read,        \* the document as a chat read it last
    older,       \* the messages a chat is summarising
    window,      \* the conversation_history of a chat, and (history) what was stored then
    excused,     \* history: messages inserted late, left out of a half that ends in their
                 \* millisecond, or cut off the text to be summarised
    mixed        \* history: messages between compactions of different kinds

history == <<excused, mixed>>
vars == <<clock, created, stored, doc, pc, read, older, window, history>>

AnyMessage == Message \cup LegacyMessages
Document == [summary : SUBSET AnyMessage, cutoff : -1..MaxClock, legacy : SUBSET LegacyMessages]
EmptyDoc == [summary |-> {}, cutoff |-> -1, legacy |-> {}]
Window == [summary : SUBSET AnyMessage, messages : SUBSET AnyMessage, seen : SUBSET Message]
EmptyWindow == [summary |-> {}, messages |-> {}, seen |-> {}]

Goto(c, step) == pc' = [pc EXCEPT ![c] = step]

\* The n (or all) oldest of S, by time and for legacy messages by number;
\* messages of one time come in any order.
Before(m, n) == m.at < n.at \/ (m.at = n.at /\ (m.at >= 0 \/ m.id < n.id))
Oldest(S, n) == {T \in kSubset(IF n < Cardinality(S) THEN n ELSE Cardinality(S), S) :
                    \A m \in T, o \in S \ T : Before(m, o)}
Newest(S, n) == {S \ T : T \in Oldest(S, IF n < Cardinality(S) THEN Cardinality(S) - n ELSE 0)}

\* _build_message_filter
LiveMessages(d) == {m \in stored : m.at > d.cutoff}

-----------------------------------------------------------------------------
(* ConversationService                                                     *)

Tick ==
    /\ clock < MaxClock
    /\ clock' = clock + 1
    /\ UNCHANGED <<created, stored, doc, pc, read, older, window, history>>

\* AppendUserMessageAsync and AppendAssistantMessageAsync take the time first ...
CreateMessage ==
    /\ Cardinality(created) < MaxMessages
    /\ created' = created \cup {[id |-> Cardinality(created) + 1, at |-> clock]}
    /\ UNCHANGED <<clock, stored, doc, pc, read, older, window, history>>

\* A cutoff at or after the time t is saved, was read, or will be saved.
Passed(t) == \/ t <= doc.cutoff
             \/ \E c \in Chats : t <= read[c].cutoff \/ \E o \in older[c] : t <= o.at

\* ... and insert the message then.
StoreMessage(m) ==
    /\ stored' = stored \cup {m}
    /\ excused' = IF Passed(m.at) THEN excused \cup {m} ELSE excused
    /\ UNCHANGED <<clock, created, doc, pc, read, older, window, mixed>>

-----------------------------------------------------------------------------
(* load_conversation_window, for memory_loader_node and after a compaction *)

LoadDocument(c) ==
    /\ \/ pc[c] = "idle" /\ Goto(c, "load")
       \/ pc[c] = "reload_document" /\ Goto(c, "reload")
    /\ read' = [read EXCEPT ![c] = doc]
    /\ UNCHANGED <<clock, created, stored, doc, older, window, history>>

LoadMessages(c) ==
    /\ \/ pc[c] = "load" /\ Goto(c, "loaded")
       \/ pc[c] = "reload" /\ Goto(c, "trim")
    /\ LET live == LiveMessages(read[c])
       IN  \E chosen \in Newest(IF live # {} THEN live ELSE read[c].legacy, WindowBudget) :
              window' = [window EXCEPT ![c] =
                  [summary |-> read[c].summary, messages |-> chosen, seen |-> stored]]
    /\ read' = [read EXCEPT ![c] = EmptyDoc]
    /\ UNCHANGED <<clock, created, stored, doc, older, history>>

-----------------------------------------------------------------------------
(* _ensure_context_budget                                                  *)

\* The payload is too long: a compaction begins that will replace the window.
CheckBudget(c) ==
    /\ pc[c] = "loaded"
    /\ Goto(c, "read_document")
    /\ window' = [window EXCEPT ![c] = EmptyWindow]
    /\ UNCHANGED <<clock, created, stored, doc, read, older, history>>

\* The oldest messages are dropped until the payload fits; a summary stays, and
\* without one the last message does.
TrimWindow(c) ==
    /\ pc[c] = "trim"
    /\ \E n \in 0..Cardinality(window[c].messages) :
          /\ n > 0 \/ window[c].summary # {} \/ window[c].messages = {}
          /\ \E kept \in Newest(window[c].messages, n) :
                window' = [window EXCEPT ![c].messages = kept]
    /\ Goto(c, "ready")
    /\ UNCHANGED <<clock, created, stored, doc, read, older, history>>

\* The chat's pipeline goes on with the window and ends, or it has failed or been
\* cancelled at any await.
Finish(c) ==
    /\ pc[c] # "idle"
    /\ Goto(c, "idle")
    /\ read' = [read EXCEPT ![c] = EmptyDoc]
    /\ older' = [older EXCEPT ![c] = {}]
    /\ window' = [window EXCEPT ![c] = EmptyWindow]
    /\ UNCHANGED <<clock, created, stored, doc, history>>

-----------------------------------------------------------------------------
(* compact_context                                                         *)

ReadDocument(c) ==
    /\ pc[c] = "read_document"
    /\ read' = [read EXCEPT ![c] = doc]
    /\ Goto(c, "read_messages")
    /\ UNCHANGED <<clock, created, stored, doc, older, window, history>>

\* The older half of S; none if S is too small to compact.
OlderHalf(S) == IF Cardinality(S) >= CompactFrom
                THEN Oldest(S, IF Cardinality(S) < 2 THEN 1 ELSE Cardinality(S) \div 2)
                ELSE {{}}

\* Stored messages are compacted before legacy ones.
SelectOlder(c) ==
    /\ pc[c] = "read_messages"
    /\ \E live \in Oldest(LiveMessages(read[c]), ReadLimit) :
       \E half \in IF Cardinality(live) >= CompactFrom THEN OlderHalf(live)
                   ELSE OlderHalf(read[c].legacy) :
          /\ older' = [older EXCEPT ![c] = half]
          /\ excused' = excused \cup {m \in LiveMessages(read[c]) \ half : \E o \in half : m.at <= o.at}
          /\ Goto(c, IF half = {} THEN "reload_document" ELSE "summarise")
    /\ UNCHANGED <<clock, created, stored, doc, read, window, mixed>>

\* What may be left of the existing summary and the older messages after it when
\* their text is cut to n messages; a summary tells its own in any order.
CutTo(n, summary, half) ==
    IF n < Cardinality(summary) THEN kSubset(n, summary)
    ELSE {summary \cup first : first \in Oldest(half, n - Cardinality(summary))}

OfLegacy(half) == \E m \in half : m.at < 0

\* Mutant of NewDocument: a cutoff never goes back.
NewDocumentMaxCutoff(c, told) ==
    IF OfLegacy(older[c])
    THEN [doc EXCEPT !.summary = told, !.legacy = read[c].legacy \ older[c]]
    ELSE [doc EXCEPT !.summary = told, !.cutoff = Max({m.at : m \in older[c]} \cup {doc.cutoff})]

\* What is saved with the summary: the cutoff, or the newer legacy messages as read.
NewDocument(c, told) ==
    IF OfLegacy(older[c])
    THEN [doc EXCEPT !.summary = told, !.legacy = read[c].legacy \ older[c]]
    ELSE [doc EXCEPT !.summary = told, !.cutoff = Max({m.at : m \in older[c]})]

\* A compaction of one kind saves the summary beside what the other kind saved
\* since the document was read: messages of which the two know different things.
Overtaken(c) ==
    IF OfLegacy(older[c])
    THEN {m \in stored : (m.at <= doc.cutoff) # (m.at <= read[c].cutoff)}
    ELSE (doc.legacy \ read[c].legacy) \cup (read[c].legacy \ doc.legacy)

\* _summarise_or_truncate and the update of the document.
SaveSummary(c) ==
    /\ pc[c] = "summarise"
    /\ \E n \in SummaryBudgets : \E told \in CutTo(n, read[c].summary, older[c]) :
          /\ doc' = NewDocument(c, told)
          /\ excused' = excused \cup ((read[c].summary \cup older[c]) \ told)
    /\ mixed' = mixed \cup Overtaken(c)
    /\ Goto(c, "reload_document")
    /\ read' = [read EXCEPT ![c] = EmptyDoc]
    /\ older' = [older EXCEPT ![c] = {}]
    /\ UNCHANGED <<clock, created, stored, window>>

-----------------------------------------------------------------------------

Init ==
    /\ clock = 0
    /\ created = {}
    /\ stored = {}
    /\ doc = [EmptyDoc EXCEPT !.legacy = LegacyMessages]
    /\ pc = [c \in Chats |-> "idle"]
    /\ read = [c \in Chats |-> EmptyDoc]
    /\ older = [c \in Chats |-> {}]
    /\ window = [c \in Chats |-> EmptyWindow]
    /\ excused = {} /\ mixed = {}

Next ==
    \/ Tick
    \/ CreateMessage
    \/ \E m \in created \ stored : StoreMessage(m)
    \/ \E c \in Chats :
          \/ LoadDocument(c) \/ LoadMessages(c)
          \/ CheckBudget(c) \/ TrimWindow(c)
          \/ ReadDocument(c) \/ SelectOlder(c) \/ SaveSummary(c)
          \/ Finish(c)

Spec == Init /\ [][Next]_vars

-----------------------------------------------------------------------------
(* What must hold                                                          *)

\* Every variable has its type.
TypeOK ==
    /\ clock \in 0..MaxClock
    /\ created \subseteq Message
    /\ stored \subseteq created
    /\ doc \in Document
    /\ pc \in [Chats -> {"idle", "load", "loaded", "read_document", "read_messages", "summarise",
                         "reload_document", "reload", "trim", "ready"}]
    /\ read \in [Chats -> Document]
    /\ older \in [Chats -> SUBSET AnyMessage]
    /\ \A c \in Chats : older[c] # {} <=> pc[c] = "summarise"
    /\ window \in [Chats -> Window]
    /\ excused \cup mixed \subseteq stored \cup LegacyMessages

Excepted == excused \cup mixed

\* The memory of a conversation loses nothing of itself: every stored message is in
\* the summary or has the cutoff before it, and every legacy message is in the
\* summary or still embedded, although compactions overlap and the last to save
\* may bring back an older summary. Lost are at most: a message inserted after a
\* compaction chose a later cutoff, or left out of a half that ends in its
\* millisecond; what a cut of the text to be summarised dropped; and what a
\* compaction of legacy messages and one of stored messages save over another.
NothingForgotten ==
    /\ \A m \in stored \ Excepted : m \in doc.summary \/ m.at > doc.cutoff
    /\ \A m \in LegacyMessages \ Excepted : m \in doc.summary \/ m \in doc.legacy

\* The history of a chat has no message twice, in the summary and as itself, even
\* if another chat compacts between the two reads of a load; only compactions of
\* different kinds that overlap may lead to it.
NothingTwice == \A c \in Chats : window[c].summary \cap window[c].messages \subseteq mixed

\* A chat's history has no gap: of the messages stored when it was loaded, those
\* neither told nor in it are older than all that are in it, or among those excepted.
HistoryHasNoGap ==
    \A c \in Chats : \A m \in window[c].seen \ Excepted :
        \/ m \in window[c].summary \cup window[c].messages
        \/ \A o \in window[c].messages : m.at <= o.at

\* The summary and the messages loaded beside it tell every message once.
MemoryIsAccountedFor == TypeOK /\ NothingForgotten /\ NothingTwice /\ HistoryHasNoGap

=============================================================================
