-------------------------- MODULE ConversationStore --------------------------
(***************************************************************************)
(* MongoConversationStore: conversation documents and messages are kept in *)
(* two collections without transactions. Requests of the ConversationService*)
(* (ChatController) work on them concurrently, one database operation at a *)
(* time, and may end between two of them (an exception, a client that      *)
(* leaves, a crash).                                                       *)
(*                                                                         *)
(* Of a title only its origin is kept, of a message its author and request.*)
(* Read-only operations and the UI instances no service writes are left    *)
(* out.                                                                    *)
(***************************************************************************)
EXTENDS Naturals, FiniteSets

CONSTANTS
    Conversations,  \* conversation ids
    Users,          \* user ids
    Nobody,         \* the blank user id of documents of an earlier schema
    Requests,       \* requests; a chat's name is its correlation id
    InitialDocs     \* documents a conversation may have at the start

Titles == {"default", "auto", "chosen"}

\* owner = Nobody and count = 0 for a conversation that does not exist.
Doc == [exists: BOOLEAN, owner: Users \cup {Nobody}, title: Titles, count: Nat]

NoDoc == [exists |-> FALSE, owner |-> Nobody, title |-> "default", count |-> 0]

NewDoc(user, title) == [exists |-> TRUE, owner |-> user, title |-> title, count |-> 0]

VARIABLES
    doc,       \* the conversations collection
    messages,  \* the messages collection
    pc,        \* where a request is
    job,       \* the locals of a request
    known,     \* conversation ids somebody has used: a generated id is none of them
    \* history variables, read by no guard of the code
    raced,     \* conversations of which a deletion overlapped an append or ended half-way
    counted,   \* messages counted in their conversation's document
    firstUse,  \* requests that found no document with an owner
    erased,    \* chats under way when the messages of their conversation were deleted
    renamed    \* conversations whose title the user chose last

history == <<known, raced, counted, firstUse, erased, renamed>>
vars == <<doc, messages, pc, job, history>>

Message == [conversation: Conversations, user: Users, role: {"user", "assistant"},
            request: Requests]

Job == [conversation: Conversations, user: Users, role: {"user", "assistant"}, found: Doc]

Appending == {"upsert", "insert", "touch", "title_find", "title_set"}
Busy(r) == pc[r] \in Appending \cup {"find", "answering", "delete_messages"}

Goto(r, step) == pc' = [pc EXCEPT ![r] = step]

\* Filter of the code: the conversation's id and its user's.
Matches(d, user) == d.exists /\ d.owner = user

MessageOf(r) == [conversation |-> job[r].conversation, user |-> job[r].user,
                 role |-> job[r].role, request |-> r]

\* The chats under way on a conversation.
ChatsOn(c) == {q \in Requests : Busy(q) /\ pc[q] # "delete_messages" /\ job[q].conversation = c}

NewJob(c, user) == [conversation |-> c, user |-> user, role |-> "user", found |-> NoDoc]

-----------------------------------------------------------------------------
(* Creating, renaming and deleting                                         *)

\* CreateConversationAsync inserts a document under a new id.
CreateConversation(c, user, title) ==
    /\ c \notin known
    /\ ~doc[c].exists
    /\ doc' = [doc EXCEPT ![c] = NewDoc(user, title)]
    /\ known' = known \cup {c}
    /\ renamed' = IF title = "chosen" THEN renamed \cup {c} ELSE renamed
    /\ UNCHANGED <<messages, pc, job, raced, counted, firstUse, erased>>

\* RenameConversationAsync is one update.
RenameConversation(r, c, user) ==
    /\ pc[r] = "idle"
    /\ IF Matches(doc[c], user)
       THEN /\ doc' = [doc EXCEPT ![c].title = "chosen"]
            /\ Goto(r, "done")
            /\ renamed' = IF \E q \in Requests : pc[q] = "title_set" /\ job[q].conversation = c
                          THEN renamed ELSE renamed \cup {c}
       ELSE /\ Goto(r, "missing")
            /\ UNCHANGED <<doc, renamed>>
    /\ UNCHANGED <<messages, job, known, raced, counted, firstUse, erased>>

\* DeleteConversationAsync deletes the document first, ...
DeleteConversation(r, c, user) ==
    /\ pc[r] = "idle"
    /\ IF Matches(doc[c], user)
       THEN /\ doc' = [doc EXCEPT ![c] = NoDoc]
            /\ Goto(r, "delete_messages")
            /\ job' = [job EXCEPT ![r] = NewJob(c, user)]
            /\ raced' = IF \E q \in Requests : pc[q] \in Appending /\ job[q].conversation = c
                        THEN raced \cup {c} ELSE raced
            /\ counted' = {m \in counted : m.conversation # c}
            /\ renamed' = renamed \ {c}
       ELSE /\ Goto(r, "missing")
            /\ UNCHANGED <<doc, job, raced, counted, renamed>>
    /\ UNCHANGED <<messages, known, firstUse, erased>>

\* ... and the user's messages after it.
DeleteMessages(r) ==
    /\ pc[r] = "delete_messages"
    /\ messages' = {m \in messages : ~(/\ m.conversation = job[r].conversation
                                       /\ m.user = job[r].user)}
    /\ Goto(r, "done")
    /\ erased' = erased \cup ChatsOn(job[r].conversation)
    /\ UNCHANGED <<doc, job, known, raced, counted, firstUse, renamed>>

-----------------------------------------------------------------------------
(* Appending a message                                                     *)

\* A chat on an id the client sent.
StartChat(r, c, user) ==
    /\ pc[r] = "idle"
    /\ Goto(r, "find")
    /\ job' = [job EXCEPT ![r] = NewJob(c, user)]
    /\ known' = known \cup {c}
    /\ UNCHANGED <<doc, messages, raced, counted, firstUse, erased, renamed>>

\* EnsureConversationAsync throws ConversationOwnershipException.
OwnedByAnother(d, user) == d.exists /\ d.owner \notin {Nobody, user}

\* EnsureConversationAsync: read the document, ...
FindConversation(r) ==
    LET c == job[r].conversation
    IN  /\ pc[r] = "find"
        /\ job' = [job EXCEPT ![r].found = doc[c]]
        /\ Goto(r, IF OwnedByAnother(doc[c], job[r].user) THEN "denied"
                   ELSE IF Matches(doc[c], job[r].user) THEN "insert" ELSE "upsert")
        /\ firstUse' = IF doc[c].owner = Nobody THEN firstUse \cup {r} ELSE firstUse
        /\ raced' = IF \E q \in Requests : pc[q] = "delete_messages" /\ job[q].conversation = c
                    THEN raced \cup {c} ELSE raced
        /\ UNCHANGED <<doc, messages, known, counted, erased, renamed>>

\* ... and create it unless somebody did meanwhile, or claim one without a user.
UpsertConversation(r) ==
    LET c == job[r].conversation
    IN  /\ pc[r] = "upsert"
        /\ \/ /\ ~job[r].found.exists
              /\ doc' = IF doc[c].exists THEN doc
                        ELSE [doc EXCEPT ![c] = NewDoc(job[r].user, "default")]
           \/ /\ job[r].found.exists
              /\ doc' = IF doc[c].exists THEN [doc EXCEPT ![c].owner = job[r].user] ELSE doc
        /\ Goto(r, "insert")
        /\ UNCHANGED <<messages, job, history>>

\* Mutant of InsertMessage: the message that begins a conversation is not kept.
InsertReplyOnly(r) ==
    /\ pc[r] = "insert"
    /\ messages' = IF job[r].found.exists THEN messages \cup {MessageOf(r)} ELSE messages
    /\ Goto(r, "touch")
    /\ UNCHANGED <<doc, job, history>>

\* AppendUserMessageAsync, AppendAssistantMessageAsync: the message is kept
\* whatever has become of the document meanwhile.
InsertMessage(r) ==
    /\ pc[r] = "insert"
    /\ messages' = messages \cup {MessageOf(r)}
    /\ Goto(r, "touch")
    /\ UNCHANGED <<doc, job, history>>

\* Mutant of TouchConversation: the count is set from the document found earlier.
TouchFromFound(r) ==
    LET c == job[r].conversation
    IN  /\ pc[r] = "touch"
        /\ IF Matches(doc[c], job[r].user)
           THEN /\ doc' = [doc EXCEPT ![c].count = job[r].found.count + 1]
                /\ counted' = counted \cup {MessageOf(r)}
           ELSE UNCHANGED <<doc, counted>>
        /\ Goto(r, IF job[r].role = "user" THEN "title_find" ELSE "done")
        /\ UNCHANGED <<messages, job, known, raced, firstUse, erased, renamed>>

\* TouchConversationAsync counts the message in the document.
TouchConversation(r) ==
    LET c == job[r].conversation
    IN  /\ pc[r] = "touch"
        /\ IF Matches(doc[c], job[r].user)
           THEN /\ doc' = [doc EXCEPT ![c].count = @ + 1]
                /\ counted' = counted \cup {MessageOf(r)}
           ELSE UNCHANGED <<doc, counted>>
        /\ Goto(r, IF job[r].role = "user" THEN "title_find" ELSE "done")
        /\ UNCHANGED <<messages, job, known, raced, firstUse, erased, renamed>>

\* TryAutoSetConversationTitleAsync: only a default title is replaced ...
FindTitle(r) ==
    /\ pc[r] = "title_find"
    /\ Goto(r, IF /\ Matches(doc[job[r].conversation], job[r].user)
                  /\ doc[job[r].conversation].title = "default"
               THEN "title_set" ELSE "answering")
    /\ UNCHANGED <<doc, messages, job, history>>

\* ... by the prompt. What was found is not checked again.
SetTitle(r) ==
    LET c == job[r].conversation
    IN  /\ pc[r] = "title_set"
        /\ doc' = IF Matches(doc[c], job[r].user)
                  THEN [doc EXCEPT ![c].title = "auto"] ELSE doc
        /\ Goto(r, "answering")
        /\ UNCHANGED <<messages, job, history>>

\* The answer has streamed: its reply is appended the same way, without a title;
\* or there is nothing to append.
Answer(r) ==
    /\ pc[r] = "answering"
    /\ \/ /\ job' = [job EXCEPT ![r].role = "assistant"]
          /\ Goto(r, "find")
       \/ /\ Goto(r, "done")
          /\ UNCHANGED job
    /\ UNCHANGED <<doc, messages, history>>

\* An exception, a client that left, or a crash.
Abort(r) ==
    /\ Busy(r)
    /\ Goto(r, "aborted")
    /\ raced' = IF pc[r] = "delete_messages" THEN raced \cup {job[r].conversation} ELSE raced
    /\ UNCHANGED <<doc, messages, job, known, counted, firstUse, erased, renamed>>

-----------------------------------------------------------------------------

Init ==
    /\ doc \in [Conversations -> InitialDocs]
    /\ messages = {}
    /\ pc = [r \in Requests |-> "idle"]
    /\ job \in [Requests -> {NewJob(c, u) : c \in Conversations, u \in Users}]
    /\ known = {c \in Conversations : doc[c].exists}
    /\ raced = {}
    /\ counted = {}
    /\ firstUse = {}
    /\ erased = {}
    /\ renamed = {}

Next ==
    \/ \E c \in Conversations, u \in Users :
          \/ \E title \in {"default", "chosen"} : CreateConversation(c, u, title)
          \/ \E r \in Requests :
                StartChat(r, c, u) \/ RenameConversation(r, c, u) \/ DeleteConversation(r, c, u)
    \/ \E r \in Requests :
          \/ FindConversation(r) \/ UpsertConversation(r)
          \/ InsertMessage(r) \/ TouchConversation(r)
          \/ FindTitle(r) \/ SetTitle(r)
          \/ Answer(r)
          \/ DeleteMessages(r)
          \/ Abort(r)

Spec == Init /\ [][Next]_vars

-----------------------------------------------------------------------------
(* What must hold                                                          *)

\* Every variable has its type.
TypeOK ==
    /\ doc \in [Conversations -> Doc]
    /\ messages \subseteq Message
    /\ pc \in [Requests -> {"idle", "find", "answering", "delete_messages"} \cup Appending
                           \cup {"done", "missing", "denied", "aborted"}]
    /\ job \in [Requests -> Job]
    /\ counted \subseteq Message

\* Two users sent the first message of the conversation at once.
Contested(c) ==
    \E r, q \in firstUse : /\ job[r].conversation = c /\ job[q].conversation = c
                          /\ job[r].user # job[q].user

\* The message count of a document is the number of its user's messages, less
\* those whose request has not counted them yet or ended before it could.
\* Appends that overlap do not disturb it; a deletion that overlaps one does, and
\* so do two users who contend for the conversation.
CountMatchesMessages ==
    \A c \in Conversations \ raced : doc[c].exists /\ ~Contested(c) =>
        LET mine == {m \in messages : m.conversation = c /\ m.user = doc[c].owner}
        IN  /\ doc[c].count = Cardinality(counted \cap mine)
            /\ \A m \in mine \ counted :
                  \/ pc[m.request] = "touch" /\ job[m.request].role = m.role
                  \/ pc[m.request] = "aborted"

\* Once a deletion is through, no message of the deleted conversation is left,
\* however it interleaved with the prompts and replies of other requests, unless
\* it came in the middle of an append or ended half-way itself, or two users
\* contended for the conversation.
DeletedWithItsMessages ==
    \A m \in messages :
        \/ doc[m.conversation].exists
        \/ m.conversation \in raced
        \/ Contested(m.conversation)
        \/ \E r \in Requests :
              pc[r] = "delete_messages" /\ job[r].conversation = m.conversation

\* A stored reply has its prompt stored with it, unless the conversation was
\* deleted while the chat was under way.
ReplyHasPrompt ==
    \A m \in messages : m.role = "assistant" =>
        \/ [m EXCEPT !.role = "user"] \in messages
        \/ m.request \in erased

\* A title the user chose is not replaced by a prompt, unless it was chosen just
\* between the reading of the default title and its replacement.
ChosenTitleStays == \A c \in renamed : doc[c].exists /\ doc[c].title = "chosen"

\* Somebody else's message gets into a user's conversation only from a user who
\* came before the conversation had one, or when a deletion in the middle of an
\* append freed the conversation's id.
ForeignMessageOnlyByFirstUse ==
    \A m \in messages : doc[m.conversation].exists /\ doc[m.conversation].owner # m.user =>
        \/ \E r \in firstUse : job[r].conversation = m.conversation /\ job[r].user = m.user
        \/ m.conversation \in raced

\* A conversation's document agrees with the messages stored: it counts them, and
\* they go with it.
CountsAndDeletionsHold == TypeOK /\ CountMatchesMessages /\ DeletedWithItsMessages

\* What a user finds in a conversation is what was put there: prompts with their
\* replies, the title chosen, and nobody else's messages.
HistoryHolds == ReplyHasPrompt /\ ChosenTitleStays /\ ForeignMessageOnlyByFirstUse

=============================================================================
