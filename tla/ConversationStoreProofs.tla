------------------------- MODULE ConversationStoreProofs -------------------------
(***************************************************************************)
(* Proofs about ConversationStore, for any number of users, conversations  *)
(* and requests that overlap and end between two operations.               *)
(***************************************************************************)
EXTENDS ConversationStore, FiniteSetTheorems, TLAPS

\* Conversations start with documents of the collection's schema, untitled by users.
Parameters == InitialDocs \subseteq Doc

Steps == {"idle", "find", "answering", "delete_messages"} \cup Appending
         \cup {"done", "missing", "denied", "aborted"}

Types ==
    /\ doc \in [Conversations -> Doc]
    /\ messages \subseteq Message
    /\ pc \in [Requests -> Steps]
    /\ job \in [Requests -> Job]

\* A chat under way, before and after its prompt was appended.
Chatting(r) == Busy(r) /\ pc[r] # "delete_messages"
Replying(r) ==
    /\ Chatting(r)
    /\ pc[r] \in {"touch", "title_find", "title_set", "answering"} \/ job[r].role = "assistant"

PromptOf(r) == [conversation |-> job[r].conversation, user |-> job[r].user,
                role |-> "user", request |-> r]

\* A message is that of a chat, which keeps its conversation and user.
MessagesAreOfChats ==
    \A m \in messages : /\ pc[m.request] # "idle"
                        /\ job[m.request].conversation = m.conversation
                        /\ job[m.request].user = m.user

\* A chat that is beyond its prompt has stored it, or met a deletion.
PromptsAreStored == \A r \in Requests : Replying(r) => PromptOf(r) \in messages \/ r \in erased

\* A chat that found a default title is not about a conversation whose title was
\* chosen, and its conversation's id is in use.
TitlesAreSafe ==
    /\ \A r \in Requests : Chatting(r) => job[r].conversation \in known
    /\ \A r \in Requests : pc[r] = "title_set" => job[r].conversation \notin renamed
    /\ renamed \subseteq Conversations

IInv ==
    /\ Types /\ MessagesAreOfChats /\ PromptsAreStored /\ ReplyHasPrompt
    /\ TitlesAreSafe /\ ChosenTitleStays

-----------------------------------------------------------------------------

LEMMA NewJobType ==
    \A c \in Conversations, u \in Users : NewJob(c, u) \in Job
<1>1. NoDoc \in Doc
  BY DEF NoDoc, Doc, Titles
<1>2. QED
  BY <1>1 DEF NewJob, Job

LEMMA IInvInit == ASSUME Parameters PROVE Init => IInv
<1> SUFFICES ASSUME Init PROVE IInv
  OBVIOUS
<1>1. Types
  <2>1. doc \in [Conversations -> Doc]
    BY DEF Parameters, Init
  <2>2. job \in [Requests -> Job]
    BY NewJobType DEF Init
  <2>3. QED
    BY <2>1, <2>2 DEF Init, Types, Steps
<1>2. \A r \in Requests : ~Chatting(r)
  BY DEF Init, Chatting, Busy, Appending
<1>3. QED
  BY <1>1, <1>2 DEF Init, IInv, MessagesAreOfChats, PromptsAreStored, Replying, ReplyHasPrompt,
                    TitlesAreSafe, ChosenTitleStays

\* A message's prompt is the one of its chat.
LEMMA PromptOfMessage ==
    ASSUME Types, MessagesAreOfChats, NEW m \in messages
    PROVE  /\ m \in Message /\ m.request \in Requests
           /\ [m EXCEPT !.role = "user"] = PromptOf(m.request)
<1>1. m \in Message
  BY DEF Types
<1>2. m = [conversation |-> m.conversation, user |-> m.user, role |-> m.role, request |-> m.request]
      /\ m.request \in Requests
  BY <1>1 DEF Message
<1>3. QED
  BY <1>1, <1>2 DEF PromptOf, MessagesAreOfChats, Message

\* The step of a chat that stays one, and neither appends nor deletes anything,
\* keeps what is known of prompts and replies.
LEMMA ChatStep ==
    ASSUME IInv, NEW r \in Requests, NEW step \in Steps \ {"idle"},
           pc' = [pc EXCEPT ![r] = step], pc[r] # "idle", UNCHANGED <<messages, erased>>,
           job' \in [Requests -> Job],
           \A q \in Requests : /\ job'[q].conversation = job[q].conversation
                               /\ job'[q].user = job[q].user
                               /\ q # r => job'[q] = job[q],
           Replying(r)' => Replying(r)
    PROVE  MessagesAreOfChats' /\ PromptsAreStored' /\ ReplyHasPrompt'
<1>t. Types
  BY DEF IInv
<1>1. MessagesAreOfChats'
  <2>1. ASSUME NEW m \in messages
        PROVE  /\ pc'[m.request] # "idle" /\ job'[m.request].conversation = m.conversation
               /\ job'[m.request].user = m.user
    <3>1. m.request \in Requests
      BY <1>t, PromptOfMessage DEF IInv
    <3>2. QED
      BY <1>t, <3>1 DEF IInv, MessagesAreOfChats, Types
  <2>2. QED
    BY <2>1 DEF MessagesAreOfChats
<1>2. PromptsAreStored'
  <2>1. ASSUME NEW q \in Requests, Replying(q)' PROVE Replying(q)
    BY <1>t, <2>1 DEF Replying, Chatting, Busy, Types
  <2>2. \A q \in Requests : PromptOf(q)' = PromptOf(q)
    BY DEF PromptOf
  <2>3. QED
    BY <2>1, <2>2 DEF IInv, PromptsAreStored
<1>3. ReplyHasPrompt'
  BY DEF IInv, ReplyHasPrompt
<1>4. QED
  BY <1>1, <1>2, <1>3

\* The same for the properties of titles, when the step also leaves the titles,
\* and the ids in use, alone.
LEMMA TitleStep ==
    ASSUME IInv, NEW r \in Requests, NEW step \in Steps \ {"title_set"},
           pc' = [pc EXCEPT ![r] = step], UNCHANGED <<known, renamed>>,
           \A q \in Requests : Chatting(q)' => Chatting(q) /\ job'[q].conversation = job[q].conversation,
           \A c \in renamed : doc'[c].exists = doc[c].exists /\ doc'[c].title = doc[c].title
    PROVE  TitlesAreSafe' /\ ChosenTitleStays'
<1>t. Types
  BY DEF IInv
<1>1. ASSUME NEW q \in Requests, pc'[q] = "title_set" PROVE job'[q].conversation \notin renamed
  <2>1. pc[q] = "title_set" /\ Chatting(q)'
    BY <1>t, <1>1 DEF Types, Chatting, Busy, Appending
  <2>2. QED
    BY <2>1 DEF IInv, TitlesAreSafe
<1>2. QED
  BY <1>1 DEF IInv, TitlesAreSafe, ChosenTitleStays

-----------------------------------------------------------------------------

LEMMA CreateKeeps ==
    ASSUME IInv, NEW c \in Conversations, NEW u \in Users, NEW title \in {"default", "chosen"},
           CreateConversation(c, u, title)
    PROVE  IInv'
<1>t. Types
  BY DEF IInv
<1>1. Types'
  <2>1. NewDoc(u, title) \in Doc
    BY DEF NewDoc, Doc, Titles
  <2>2. QED
    BY <2>1, <1>t DEF CreateConversation, Types
<1>2. MessagesAreOfChats' /\ PromptsAreStored' /\ ReplyHasPrompt'
  BY DEF IInv, CreateConversation, MessagesAreOfChats, PromptsAreStored, ReplyHasPrompt, PromptOf,
         Replying, Chatting, Busy
<1>3. TitlesAreSafe'
  <2>1. \A r \in Requests : Chatting(r)' <=> Chatting(r)
    BY DEF CreateConversation, Chatting, Busy
  <2>2. \A r \in Requests : pc[r] = "title_set" => Chatting(r)
    BY DEF Chatting, Busy, Appending
  <2>3. QED
    BY <2>1, <2>2 DEF IInv, CreateConversation, TitlesAreSafe
<1>4. ChosenTitleStays'
  BY <1>t DEF IInv, CreateConversation, ChosenTitleStays, NewDoc, Types, TitlesAreSafe
<1>5. QED
  BY <1>1, <1>2, <1>3, <1>4 DEF IInv

\* A request that was idle has no message, and is no chat beyond its prompt.
LEMMA IdleStep ==
    ASSUME IInv, NEW r \in Requests, NEW step \in Steps \ {"idle"}, pc[r] = "idle",
           pc' = [pc EXCEPT ![r] = step], UNCHANGED <<messages, erased>>,
           \A q \in Requests \ {r} : job'[q] = job[q],
           ~Replying(r)'
    PROVE  MessagesAreOfChats' /\ PromptsAreStored' /\ ReplyHasPrompt'
<1>t. Types
  BY DEF IInv
<1>1. MessagesAreOfChats'
  <2>1. ASSUME NEW m \in messages
        PROVE  /\ pc'[m.request] # "idle" /\ job'[m.request].conversation = m.conversation
               /\ job'[m.request].user = m.user
    <3>1. m.request \in Requests \ {r}
      BY <1>t, PromptOfMessage DEF IInv, MessagesAreOfChats
    <3>2. QED
      BY <1>t, <3>1 DEF IInv, MessagesAreOfChats, Types
  <2>2. QED
    BY <2>1 DEF MessagesAreOfChats
<1>2. PromptsAreStored'
  <2>1. ASSUME NEW q \in Requests, Replying(q)' PROVE Replying(q) /\ PromptOf(q)' = PromptOf(q)
    <3>1. q # r
      BY <2>1
    <3>2. QED
      BY <1>t, <2>1, <3>1 DEF Replying, Chatting, Busy, Types, PromptOf
  <2>2. QED
    BY <2>1 DEF IInv, PromptsAreStored
<1>3. ReplyHasPrompt'
  BY DEF IInv, ReplyHasPrompt
<1>4. QED
  BY <1>1, <1>2, <1>3

LEMMA RenameKeeps ==
    ASSUME IInv, NEW r \in Requests, NEW c \in Conversations, NEW u \in Users,
           RenameConversation(r, c, u)
    PROVE  IInv'
<1>t. Types
  BY DEF IInv
<1>1. PICK step \in {"done", "missing"} : pc' = [pc EXCEPT ![r] = step]
  BY DEF RenameConversation, Goto
<1>2. Types'
  <2>1. [doc EXCEPT ![c].title = "chosen"] \in [Conversations -> Doc]
    BY <1>t DEF Types, Doc, Titles
  <2>2. doc' \in [Conversations -> Doc]
    BY <1>t, <2>1 DEF RenameConversation, Types
  <2>3. QED
    BY <1>t, <1>1, <2>2 DEF RenameConversation, Types, Steps
<1>3. ~Chatting(r)' /\ ~Replying(r)'
  BY <1>t, <1>1 DEF Types, Chatting, Replying, Busy, Appending
<1>4. MessagesAreOfChats' /\ PromptsAreStored' /\ ReplyHasPrompt'
  BY <1>1, <1>3, IdleStep DEF RenameConversation, Steps
<1>5. TitlesAreSafe'
  <2>1. ASSUME NEW q \in Requests, Chatting(q)' PROVE Chatting(q)
    BY <1>t, <1>1, <1>3, <2>1 DEF Types, Chatting, Busy
  <2>2. ASSUME NEW q \in Requests, pc'[q] = "title_set" PROVE job[q].conversation \notin renamed'
    <3>1. pc[q] = "title_set"
      BY <1>t, <1>1, <2>2 DEF Types
    <3>2. QED
      BY <3>1 DEF RenameConversation, IInv, TitlesAreSafe
  <2>3. QED
    BY <2>1, <2>2 DEF RenameConversation, IInv, TitlesAreSafe
<1>6. ChosenTitleStays'
  BY <1>t DEF RenameConversation, IInv, ChosenTitleStays, Types, Doc, Matches, TitlesAreSafe
<1>7. QED
  BY <1>2, <1>4, <1>5, <1>6 DEF IInv

LEMMA DeleteKeeps ==
    ASSUME IInv, NEW r \in Requests, NEW c \in Conversations, NEW u \in Users,
           DeleteConversation(r, c, u)
    PROVE  IInv'
<1>t. Types
  BY DEF IInv
<1>1. PICK step \in {"delete_messages", "missing"} : pc' = [pc EXCEPT ![r] = step]
  BY DEF DeleteConversation, Goto
<1>j. job' = job \/ job' = [job EXCEPT ![r] = NewJob(c, u)]
  BY DEF DeleteConversation
<1>2. Types'
  <2>1. NoDoc \in Doc
    BY DEF NoDoc, Doc, Titles
  <2>2. doc' \in [Conversations -> Doc]
    BY <1>t, <2>1 DEF DeleteConversation, Types
  <2>3. job' \in [Requests -> Job]
    BY <1>t, <1>j, NewJobType DEF Types
  <2>4. QED
    BY <1>t, <1>1, <2>2, <2>3 DEF DeleteConversation, Types, Steps
<1>3. ~Chatting(r)' /\ ~Replying(r)'
  BY <1>t, <1>1 DEF Types, Chatting, Replying, Busy, Appending
<1>4. \A q \in Requests \ {r} : job'[q] = job[q]
  BY <1>t, <1>j DEF Types
<1>5. MessagesAreOfChats' /\ PromptsAreStored' /\ ReplyHasPrompt'
  BY <1>1, <1>3, <1>4, IdleStep DEF DeleteConversation, Steps
<1>6. TitlesAreSafe'
  <2>1. ASSUME NEW q \in Requests, Chatting(q)' PROVE Chatting(q) /\ job'[q] = job[q]
    BY <1>t, <1>1, <1>3, <1>4, <2>1 DEF Types, Chatting, Busy
  <2>2. ASSUME NEW q \in Requests, pc'[q] = "title_set"
        PROVE  pc[q] = "title_set" /\ job'[q] = job[q]
    BY <1>t, <1>1, <1>4, <2>2 DEF Types
  <2>3. QED
    BY <2>1, <2>2 DEF DeleteConversation, IInv, TitlesAreSafe
<1>7. ChosenTitleStays'
  BY <1>t DEF DeleteConversation, IInv, ChosenTitleStays, Types, TitlesAreSafe
<1>8. QED
  BY <1>2, <1>5, <1>6, <1>7 DEF IInv

LEMMA StartKeeps ==
    ASSUME IInv, NEW r \in Requests, NEW c \in Conversations, NEW u \in Users, StartChat(r, c, u)
    PROVE  IInv'
<1>t. Types
  BY DEF IInv
<1>1. pc' = [pc EXCEPT ![r] = "find"] /\ job' = [job EXCEPT ![r] = NewJob(c, u)]
  BY DEF StartChat, Goto
<1>2. Types'
  BY <1>t, <1>1, NewJobType DEF StartChat, Types, Steps
<1>3. ~Replying(r)' /\ job'[r].conversation = c
  BY <1>t, <1>1 DEF Types, Replying, NewJob
<1>4. \A q \in Requests \ {r} : job'[q] = job[q]
  BY <1>t, <1>1 DEF Types
<1>5. MessagesAreOfChats' /\ PromptsAreStored' /\ ReplyHasPrompt'
  BY <1>1, <1>3, <1>4, IdleStep DEF StartChat, Steps
<1>6. TitlesAreSafe'
  <2>1. ASSUME NEW q \in Requests, Chatting(q)', q # r PROVE Chatting(q)
    BY <1>t, <1>1, <2>1 DEF Types, Chatting, Busy
  <2>2. ASSUME NEW q \in Requests, pc'[q] = "title_set" PROVE pc[q] = "title_set" /\ q # r
    BY <1>t, <1>1, <2>2 DEF Types
  <2>3. \A q \in Requests : Chatting(q)' => job'[q].conversation \in known'
    BY <1>3, <1>4, <2>1 DEF StartChat, IInv, TitlesAreSafe
  <2>4. QED
    BY <1>4, <2>2, <2>3 DEF StartChat, IInv, TitlesAreSafe
<1>7. ChosenTitleStays'
  BY DEF StartChat, IInv, ChosenTitleStays
<1>8. QED
  BY <1>2, <1>5, <1>6, <1>7 DEF IInv


LEMMA DeleteMessagesKeeps ==
    ASSUME IInv, NEW r \in Requests, DeleteMessages(r) PROVE IInv'
<1>t. Types
  BY DEF IInv
<1>1. /\ pc' = [pc EXCEPT ![r] = "done"] /\ UNCHANGED <<doc, job, known, renamed>>
      /\ messages' \subseteq messages /\ erased \subseteq erased'
  BY DEF DeleteMessages, Goto
<1>2. Types'
  BY <1>t, <1>1 DEF Types, Steps
<1>3. \A q \in Requests : Chatting(q)' => Chatting(q)
  BY <1>t, <1>1 DEF Types, Chatting, Busy, Appending
<1>4. MessagesAreOfChats'
  <2>1. ASSUME NEW m \in messages' PROVE pc'[m.request] # "idle"
    BY <1>t, <1>1, PromptOfMessage DEF IInv, MessagesAreOfChats, Types
  <2>2. QED
    BY <1>1, <2>1 DEF IInv, MessagesAreOfChats
<1>5. PromptsAreStored'
  <2>1. SUFFICES ASSUME NEW q \in Requests, Replying(q)', PromptOf(q) \notin messages', q \notin erased'
                 PROVE  FALSE
    BY <1>1 DEF PromptsAreStored, PromptOf
  <2>2. Replying(q) /\ Chatting(q)
    BY <1>t, <1>1, <1>3, <2>1 DEF Replying, Types
  <2>3. PromptOf(q) \in messages
    BY <1>1, <2>1, <2>2 DEF IInv, PromptsAreStored
  <2>4. PromptOf(q).conversation = job[r].conversation
    BY <2>1, <2>3 DEF DeleteMessages
  <2>5. q \in ChatsOn(job[r].conversation)
    BY <2>2, <2>4 DEF ChatsOn, Chatting, PromptOf
  <2>6. QED
    BY <2>1, <2>5 DEF DeleteMessages
<1>6. ReplyHasPrompt'
  <2>1. SUFFICES ASSUME NEW m \in messages', m.role = "assistant", m.request \notin erased'
                 PROVE  [m EXCEPT !.role = "user"] \in messages'
    BY DEF ReplyHasPrompt
  <2>2. m \in Message /\ [m EXCEPT !.role = "user"] \in messages
    BY <1>t, <1>1, <2>1 DEF IInv, ReplyHasPrompt, Types
  <2>3. /\ [m EXCEPT !.role = "user"].conversation = m.conversation
        /\ [m EXCEPT !.role = "user"].user = m.user
    BY <2>2 DEF Message
  <2>4. QED
    BY <2>1, <2>2, <2>3 DEF DeleteMessages
<1>7. TitlesAreSafe' /\ ChosenTitleStays'
  BY <1>1, <1>3, TitleStep DEF Steps
<1>8. QED
  BY <1>2, <1>4, <1>5, <1>6, <1>7 DEF IInv

LEMMA FindKeeps ==
    ASSUME IInv, NEW r \in Requests, FindConversation(r) PROVE IInv'
<1>t. Types
  BY DEF IInv
<1>1. PICK step \in {"denied", "insert", "upsert"} : pc' = [pc EXCEPT ![r] = step]
  BY DEF FindConversation, Goto
<1>2. /\ pc[r] = "find" /\ job' = [job EXCEPT ![r].found = doc[job[r].conversation]]
      /\ UNCHANGED <<doc, messages, known, erased, renamed>>
  BY DEF FindConversation
<1>3. /\ job' \in [Requests -> Job]
      /\ \A q \in Requests : /\ job'[q].conversation = job[q].conversation
                             /\ job'[q].user = job[q].user
                             /\ job'[q].role = job[q].role
                             /\ q # r => job'[q] = job[q]
  <2>1. doc[job[r].conversation] \in Doc
    BY <1>t DEF Types, Job
  <2>2. QED
    BY <1>t, <1>2, <2>1 DEF Types, Job
<1>4. Types'
  BY <1>t, <1>1, <1>2, <1>3 DEF Types, Steps, Appending
<1>5. Replying(r)' => Replying(r)
  BY <1>t, <1>1, <1>2, <1>3 DEF Types, Replying, Chatting, Busy
<1>6. MessagesAreOfChats' /\ PromptsAreStored' /\ ReplyHasPrompt'
  BY <1>1, <1>2, <1>3, <1>5, ChatStep DEF Steps, Appending
<1>7. \A q \in Requests : Chatting(q)' => Chatting(q)
  BY <1>t, <1>1, <1>2 DEF Types, Chatting, Busy
<1>8. TitlesAreSafe' /\ ChosenTitleStays'
  BY <1>1, <1>2, <1>3, <1>7, TitleStep DEF Steps, Appending
<1>9. QED
  BY <1>4, <1>6, <1>8 DEF IInv

LEMMA UpsertKeeps ==
    ASSUME IInv, NEW r \in Requests, UpsertConversation(r) PROVE IInv'
<1>t. Types
  BY DEF IInv
<1>1. /\ pc[r] = "upsert" /\ pc' = [pc EXCEPT ![r] = "insert"]
      /\ UNCHANGED <<messages, job, known, erased, renamed>>
  BY DEF UpsertConversation, Goto, history
<1>d. job[r].conversation \in Conversations /\ job[r].user \in Users
  BY <1>t DEF Types, Job
<1>2. doc' \in [Conversations -> Doc]
  <2>1. NewDoc(job[r].user, "default") \in Doc
    BY <1>d DEF NewDoc, Doc, Titles
  <2>2. [doc EXCEPT ![job[r].conversation].owner = job[r].user] \in [Conversations -> Doc]
    BY <1>t, <1>d DEF Types, Doc
  <2>3. QED
    BY <1>t, <2>1, <2>2 DEF UpsertConversation, Types
<1>3. Types'
  BY <1>t, <1>1, <1>2 DEF Types, Steps, Appending
<1>4. Replying(r)' => Replying(r)
  BY <1>t, <1>1 DEF Types, Replying, Chatting, Busy, Appending
<1>5. MessagesAreOfChats' /\ PromptsAreStored' /\ ReplyHasPrompt'
  BY <1>t, <1>1, <1>4, ChatStep DEF Steps, Appending, Types
<1>6. \A q \in Requests : Chatting(q)' => Chatting(q)
  BY <1>t, <1>1 DEF Types, Chatting, Busy, Appending
<1>7. \A c \in renamed : doc'[c].exists = doc[c].exists /\ doc'[c].title = doc[c].title
  <2>1. TAKE c \in renamed
  <2>2. c \in Conversations /\ doc[c].exists
    BY DEF IInv, TitlesAreSafe, ChosenTitleStays
  <2> DEFINE k == job[r].conversation
  <2>3. \/ doc' = doc
        \/ ~doc[k].exists /\ doc' = [doc EXCEPT ![k] = NewDoc(job[r].user, "default")]
        \/ doc' = [doc EXCEPT ![k].owner = job[r].user]
    BY DEF UpsertConversation
  <2>4. CASE ~doc[k].exists /\ doc' = [doc EXCEPT ![k] = NewDoc(job[r].user, "default")]
    BY <1>t, <2>2, <2>4 DEF Types
  <2>5. CASE doc' = [doc EXCEPT ![k].owner = job[r].user]
    <3>1. doc[c] \in Doc
      BY <1>t, <2>2 DEF Types
    <3>2. doc'[c] = doc[c] \/ doc'[c] = [doc[c] EXCEPT !.owner = job[r].user]
      BY <1>t, <2>2, <2>5 DEF Types
    <3>3. QED
      BY <3>1, <3>2 DEF Doc
  <2>6. QED
    BY <2>3, <2>4, <2>5
<1>8. TitlesAreSafe' /\ ChosenTitleStays'
  BY <1>1, <1>6, <1>7, TitleStep DEF Steps, Appending
<1>9. QED
  BY <1>3, <1>5, <1>8 DEF IInv

LEMMA InsertKeeps ==
    ASSUME IInv, NEW r \in Requests, InsertMessage(r) PROVE IInv'
<1>t. Types
  BY DEF IInv
<1>1. /\ pc[r] = "insert" /\ pc' = [pc EXCEPT ![r] = "touch"]
      /\ messages' = messages \cup {MessageOf(r)}
      /\ UNCHANGED <<doc, job, known, erased, renamed>>
  BY DEF InsertMessage, Goto, history
<1>m. MessageOf(r) \in Message
  BY <1>t DEF MessageOf, Message, Types, Job
<1>2. Types'
  BY <1>t, <1>1, <1>m DEF Types, Steps, Appending
<1>3. MessagesAreOfChats'
  <2>1. ASSUME NEW m \in messages
        PROVE  /\ pc'[m.request] # "idle" /\ job'[m.request].conversation = m.conversation
               /\ job'[m.request].user = m.user
    BY <1>t, <1>1, PromptOfMessage DEF IInv, MessagesAreOfChats, Types
  <2>2. /\ pc'[MessageOf(r).request] # "idle"
        /\ job'[MessageOf(r).request].conversation = MessageOf(r).conversation
        /\ job'[MessageOf(r).request].user = MessageOf(r).user
    BY <1>t, <1>1 DEF MessageOf, Types
  <2>3. QED
    BY <1>1, <2>1, <2>2 DEF MessagesAreOfChats
<1>4. \A q \in Requests : Chatting(q)' => Chatting(q)
  BY <1>t, <1>1 DEF Types, Chatting, Busy, Appending
<1>r. job[r].role = "user" => MessageOf(r) = PromptOf(r)
  BY DEF MessageOf, PromptOf
<1>a. job[r].role \in {"user", "assistant"}
  BY <1>t DEF Types, Job
<1>c. job[r].role = "assistant" => Replying(r)
  BY <1>1 DEF Replying, Chatting, Busy, Appending
<1>5. PromptsAreStored'
  <2>1. ASSUME NEW q \in Requests, Replying(q)', q # r PROVE Replying(q)
    BY <1>t, <1>1, <1>4, <2>1 DEF Types, Replying
  <2>2. PromptOf(r) \in messages' \/ r \in erased
    BY <1>1, <1>r, <1>a, <1>c DEF IInv, PromptsAreStored
  <2>3. \A q \in Requests : PromptOf(q)' = PromptOf(q)
    BY <1>1 DEF PromptOf
  <2>4. QED
    BY <1>1, <2>1, <2>2, <2>3 DEF IInv, PromptsAreStored
<1>6. ReplyHasPrompt'
  <2>1. [MessageOf(r) EXCEPT !.role = "user"] = PromptOf(r)
    BY DEF MessageOf, PromptOf
  <2>2. MessageOf(r).role = "assistant" => PromptOf(r) \in messages \/ MessageOf(r).request \in erased
    BY <1>c DEF MessageOf, IInv, PromptsAreStored
  <2>3. QED
    BY <1>1, <2>1, <2>2 DEF IInv, ReplyHasPrompt
<1>7. TitlesAreSafe' /\ ChosenTitleStays'
  BY <1>1, <1>4, TitleStep DEF Steps, Appending
<1>8. QED
  BY <1>2, <1>3, <1>5, <1>6, <1>7 DEF IInv

LEMMA TouchKeeps ==
    ASSUME IInv, NEW r \in Requests, TouchConversation(r) PROVE IInv'
<1>t. Types
  BY DEF IInv
<1>1. PICK step \in {"title_find", "done"} : pc' = [pc EXCEPT ![r] = step]
  BY DEF TouchConversation, Goto
<1>2. pc[r] = "touch" /\ UNCHANGED <<messages, job, known, erased, renamed>>
  BY DEF TouchConversation
<1>d. job[r].conversation \in Conversations
  BY <1>t DEF Types, Job
<1>3. doc' \in [Conversations -> Doc]
  <2>1. [doc EXCEPT ![job[r].conversation].count = @ + 1] \in [Conversations -> Doc]
    BY <1>t, <1>d DEF Types, Doc
  <2>2. QED
    BY <1>t, <2>1 DEF TouchConversation, Types
<1>4. Types'
  BY <1>t, <1>1, <1>2, <1>3 DEF Types, Steps, Appending
<1>5. Replying(r)' => Replying(r)
  BY <1>t, <1>1, <1>2 DEF Types, Replying, Chatting, Busy, Appending
<1>6. MessagesAreOfChats' /\ PromptsAreStored' /\ ReplyHasPrompt'
  BY <1>t, <1>1, <1>2, <1>5, ChatStep DEF Steps, Appending, Types
<1>7. \A q \in Requests : Chatting(q)' => Chatting(q)
  BY <1>t, <1>1, <1>2 DEF Types, Chatting, Busy, Appending
<1>8. \A c \in renamed : doc'[c].exists = doc[c].exists /\ doc'[c].title = doc[c].title
  BY <1>t, <1>d DEF TouchConversation, IInv, TitlesAreSafe, Types, Doc
<1>9. TitlesAreSafe' /\ ChosenTitleStays'
  BY <1>1, <1>2, <1>7, <1>8, TitleStep DEF Steps, Appending
<1>10. QED
  BY <1>4, <1>6, <1>9 DEF IInv

LEMMA FindTitleKeeps ==
    ASSUME IInv, NEW r \in Requests, FindTitle(r) PROVE IInv'
<1>t. Types
  BY DEF IInv
<1>1. PICK step \in {"title_set", "answering"} : pc' = [pc EXCEPT ![r] = step]
  BY DEF FindTitle, Goto
<1>2. pc[r] = "title_find" /\ UNCHANGED <<doc, messages, job, known, erased, renamed>>
  BY DEF FindTitle, history
<1>3. Types'
  BY <1>t, <1>1, <1>2 DEF Types, Steps, Appending
<1>4. Replying(r)' => Replying(r)
  BY <1>t, <1>1, <1>2 DEF Types, Replying, Chatting, Busy, Appending
<1>5. MessagesAreOfChats' /\ PromptsAreStored' /\ ReplyHasPrompt'
  BY <1>t, <1>1, <1>2, <1>4, ChatStep DEF Steps, Appending, Types
<1>6. TitlesAreSafe'
  <2>1. \A q \in Requests : Chatting(q)' => Chatting(q)
    BY <1>t, <1>1, <1>2 DEF Types, Chatting, Busy, Appending
  <2>2. pc'[r] = "title_set" => job[r].conversation \notin renamed
    BY <1>t DEF FindTitle, Goto, Types, IInv, ChosenTitleStays
  <2>3. \A q \in Requests \ {r} : pc'[q] = pc[q]
    BY <1>t, <1>1 DEF Types
  <2>4. QED
    BY <1>2, <2>1, <2>2, <2>3 DEF IInv, TitlesAreSafe
<1>7. ChosenTitleStays'
  BY <1>2 DEF IInv, ChosenTitleStays
<1>8. QED
  BY <1>3, <1>5, <1>6, <1>7 DEF IInv

LEMMA SetTitleKeeps ==
    ASSUME IInv, NEW r \in Requests, SetTitle(r) PROVE IInv'
<1>t. Types
  BY DEF IInv
<1>1. /\ pc[r] = "title_set" /\ pc' = [pc EXCEPT ![r] = "answering"]
      /\ UNCHANGED <<messages, job, known, erased, renamed>>
  BY DEF SetTitle, Goto, history
<1>d. job[r].conversation \in Conversations
  BY <1>t DEF Types, Job
<1>2. doc' \in [Conversations -> Doc]
  <2>1. [doc EXCEPT ![job[r].conversation].title = "auto"] \in [Conversations -> Doc]
    BY <1>t, <1>d DEF Types, Doc, Titles
  <2>2. QED
    BY <1>t, <2>1 DEF SetTitle, Types
<1>3. Types'
  BY <1>t, <1>1, <1>2 DEF Types, Steps
<1>4. Replying(r)' => Replying(r)
  BY <1>t, <1>1 DEF Types, Replying, Chatting, Busy, Appending
<1>5. MessagesAreOfChats' /\ PromptsAreStored' /\ ReplyHasPrompt'
  BY <1>t, <1>1, <1>4, ChatStep DEF Steps, Types
<1>6. \A q \in Requests : Chatting(q)' => Chatting(q)
  BY <1>t, <1>1 DEF Types, Chatting, Busy, Appending
<1>7. \A c \in renamed : doc'[c].exists = doc[c].exists /\ doc'[c].title = doc[c].title
  <2>1. job[r].conversation \notin renamed
    BY <1>1 DEF IInv, TitlesAreSafe
  <2>2. QED
    BY <1>t, <1>d, <2>1 DEF SetTitle, IInv, TitlesAreSafe, Types
<1>8. TitlesAreSafe' /\ ChosenTitleStays'
  BY <1>1, <1>6, <1>7, TitleStep DEF Steps
<1>9. QED
  BY <1>3, <1>5, <1>8 DEF IInv

LEMMA AnswerKeeps ==
    ASSUME IInv, NEW r \in Requests, Answer(r) PROVE IInv'
<1>t. Types
  BY DEF IInv
<1>1. PICK step \in {"find", "done"} : pc' = [pc EXCEPT ![r] = step]
  BY DEF Answer, Goto
<1>2. /\ pc[r] = "answering" /\ UNCHANGED <<doc, messages, known, erased, renamed>>
      /\ job' = job \/ job' = [job EXCEPT ![r].role = "assistant"]
  BY DEF Answer, history
<1>3. /\ job' \in [Requests -> Job]
      /\ \A q \in Requests : /\ job'[q].conversation = job[q].conversation
                             /\ job'[q].user = job[q].user
                             /\ q # r => job'[q] = job[q]
  BY <1>t, <1>2 DEF Types, Job
<1>4. Types'
  BY <1>t, <1>1, <1>2, <1>3 DEF Types, Steps
<1>5. Replying(r)' => Replying(r)
  BY <1>t, <1>2 DEF Types, Replying, Chatting, Busy
<1>6. MessagesAreOfChats' /\ PromptsAreStored' /\ ReplyHasPrompt'
  BY <1>1, <1>2, <1>3, <1>5, ChatStep DEF Steps
<1>7. \A q \in Requests : Chatting(q)' => Chatting(q)
  BY <1>t, <1>1, <1>2 DEF Types, Chatting, Busy
<1>8. TitlesAreSafe' /\ ChosenTitleStays'
  BY <1>1, <1>2, <1>3, <1>7, TitleStep DEF Steps
<1>9. QED
  BY <1>4, <1>6, <1>8 DEF IInv

LEMMA AbortKeeps ==
    ASSUME IInv, NEW r \in Requests, Abort(r) PROVE IInv'
<1>t. Types
  BY DEF IInv
<1>1. /\ Busy(r) /\ pc[r] # "idle" /\ pc' = [pc EXCEPT ![r] = "aborted"]
      /\ UNCHANGED <<doc, messages, job, known, erased, renamed>>
  BY DEF Abort, Goto, Busy, Appending
<1>2. Types'
  BY <1>t, <1>1 DEF Types, Steps
<1>3. ~Chatting(r)' /\ ~Replying(r)'
  BY <1>t, <1>1 DEF Types, Replying, Chatting, Busy, Appending
<1>4. MessagesAreOfChats' /\ PromptsAreStored' /\ ReplyHasPrompt'
  BY <1>t, <1>1, <1>3, ChatStep DEF Steps, Types
<1>5. \A q \in Requests : Chatting(q)' => Chatting(q)
  BY <1>t, <1>1, <1>3 DEF Types, Chatting, Busy
<1>6. TitlesAreSafe' /\ ChosenTitleStays'
  BY <1>1, <1>5, TitleStep DEF Steps
<1>7. QED
  BY <1>2, <1>4, <1>6 DEF IInv

LEMMA StutterKeeps == ASSUME IInv, UNCHANGED vars PROVE IInv'
  BY DEF IInv, vars, history, Types, MessagesAreOfChats, PromptsAreStored, ReplyHasPrompt,
         TitlesAreSafe, ChosenTitleStays, Replying, Chatting, Busy, PromptOf

-----------------------------------------------------------------------------

\* Every step of the specification keeps it.
LEMMA IInvStep ==
    ASSUME IInv, [Next]_vars PROVE IInv'
<1>1. ASSUME NEW c \in Conversations, NEW u \in Users, NEW title \in {"default", "chosen"},
             CreateConversation(c, u, title)
      PROVE  IInv'
  BY <1>1, CreateKeeps
<1>2. ASSUME NEW c \in Conversations, NEW u \in Users, NEW r \in Requests,
             StartChat(r, c, u) \/ RenameConversation(r, c, u) \/ DeleteConversation(r, c, u)
      PROVE  IInv'
  BY <1>2, StartKeeps, RenameKeeps, DeleteKeeps
<1>3. ASSUME NEW r \in Requests,
             FindConversation(r) \/ UpsertConversation(r) \/ InsertMessage(r) \/ TouchConversation(r)
      PROVE  IInv'
  BY <1>3, FindKeeps, UpsertKeeps, InsertKeeps, TouchKeeps
<1>4. ASSUME NEW r \in Requests,
             FindTitle(r) \/ SetTitle(r) \/ Answer(r) \/ DeleteMessages(r) \/ Abort(r)
      PROVE  IInv'
  BY <1>4, FindTitleKeeps, SetTitleKeeps, AnswerKeeps, DeleteMessagesKeeps, AbortKeeps
<1>5. CASE UNCHANGED vars
  BY <1>5, StutterKeeps
<1>6. QED
  BY <1>1, <1>2, <1>3, <1>4, <1>5 DEF Next

LEMMA IInvAlways == ASSUME Parameters PROVE Spec => []IInv
<1>1. Init => IInv
  BY IInvInit
<1>2. IInv /\ [Next]_vars => IInv'
  BY IInvStep
<1>3. QED
  BY <1>1, <1>2, PTL DEF Spec

\* Whatever requests overlap or end half-way, a stored reply has its prompt stored
\* with it unless the conversation was deleted while the chat was under way.
THEOREM RepliesAlwaysHavePrompts == ASSUME Parameters PROVE Spec => []ReplyHasPrompt
<1>1. IInv => ReplyHasPrompt
  BY DEF IInv
<1>2. QED
  BY <1>1, IInvAlways, PTL

\* No prompt replaces a title the user chose, except in the one window in which a
\* default title was read and is about to be replaced.
THEOREM ChosenTitlesAlwaysStay == ASSUME Parameters PROVE Spec => []ChosenTitleStays
<1>1. IInv => ChosenTitleStays
  BY DEF IInv
<1>2. QED
  BY <1>1, IInvAlways, PTL

-----------------------------------------------------------------------------
(* Whose messages a conversation has                                       *)

\* No document without a user's conversation has a user, and the blank id is no user's.
OwnedByUsers == (\A d \in InitialDocs : ~d.exists => d.owner = Nobody) /\ Nobody \notin Users

\* A deletion overlapped an append, or the user came before there was an owner.
Explained(c, u) ==
    c \in raced \/ \E r \in firstUse : job[r].conversation = c /\ job[r].user = u

\* The user's messages are about to go.
Deleting(c, u) ==
    \E q \in Requests : pc[q] = "delete_messages" /\ job[q].conversation = c /\ job[q].user = u

FirstUsesBegan == firstUse \subseteq {r \in Requests : pc[r] # "idle"}

GoneIsUnowned == \A c \in Conversations : ~doc[c].exists => doc[c].owner = Nobody

MessagesAreExplained ==
    \A m \in messages :
        /\ m.conversation \in known
        /\ \/ Explained(m.conversation, m.user)
           \/ Matches(doc[m.conversation], m.user)
           \/ ~doc[m.conversation].exists /\ Deleting(m.conversation, m.user)

InsertsAreExplained ==
    \A r \in Requests : pc[r] = "insert" =>
        \/ Explained(job[r].conversation, job[r].user)
        \/ Matches(doc[job[r].conversation], job[r].user)

\* An owner that came between a read and the upsert came by a first use as well.
UpsertsAreFirstUses ==
    \A r \in Requests : pc[r] = "upsert" =>
        /\ r \in firstUse
        /\ doc[job[r].conversation].owner # Nobody =>
              Explained(job[r].conversation, doc[job[r].conversation].owner)

OverlapsAreRaced ==
    \A q, r \in Requests :
        /\ pc[q] = "delete_messages" /\ pc[r] \in Appending
        /\ job[q].conversation = job[r].conversation
        => job[r].conversation \in raced

ForeignInv ==
    /\ FirstUsesBegan /\ GoneIsUnowned /\ MessagesAreExplained
    /\ InsertsAreExplained /\ UpsertsAreFirstUses /\ OverlapsAreRaced

LEMMA ForeignInit == ASSUME OwnedByUsers PROVE Init => ForeignInv
<1> SUFFICES ASSUME Init PROVE ForeignInv
  OBVIOUS
<1>1. GoneIsUnowned
  BY DEF OwnedByUsers, Init, GoneIsUnowned
<1>2. QED
  BY <1>1 DEF Init, ForeignInv, FirstUsesBegan, MessagesAreExplained, InsertsAreExplained,
              UpsertsAreFirstUses, OverlapsAreRaced, Appending

\* What is explained stays so.
LEMMA ExplainedStays ==
    ASSUME raced \subseteq raced', firstUse \subseteq firstUse',
           \A q \in firstUse : job'[q].conversation = job[q].conversation /\ job'[q].user = job[q].user,
           NEW c, NEW u, Explained(c, u)
    PROVE  Explained(c, u)'
  BY DEF Explained

\* The step of a request that leaves owners and messages alone and does not arrive
\* at an insert, an upsert or the deletion of messages.
LEMMA ForeignStep ==
    ASSUME IInv, ForeignInv, NEW r \in Requests,
           NEW step \in Steps \ {"idle", "insert", "upsert", "delete_messages"},
           pc' = [pc EXCEPT ![r] = step],
           messages' = messages, firstUse' = firstUse,
           known \subseteq known', raced \subseteq raced',
           \A c \in Conversations : doc'[c].exists = doc[c].exists /\ doc'[c].owner = doc[c].owner,
           \A q \in Requests : q # r \/ pc[r] # "idle" =>
               job'[q].conversation = job[q].conversation /\ job'[q].user = job[q].user,
           step \in Appending => pc[r] \in Appending,
           pc[r] = "delete_messages" => job[r].conversation \in raced'
    PROVE  ForeignInv'
<1>t. Types
  BY DEF IInv
<1>p. pc'[r] = step /\ \A q \in Requests \ {r} : pc'[q] = pc[q]
  BY <1>t DEF Types
<1>j. \A q \in firstUse : job'[q].conversation = job[q].conversation /\ job'[q].user = job[q].user
  BY DEF ForeignInv, FirstUsesBegan
<1>e. \A c, u : Explained(c, u) => Explained(c, u)'
  BY <1>j, ExplainedStays
<1>1. FirstUsesBegan'
  BY <1>p DEF ForeignInv, FirstUsesBegan
<1>2. GoneIsUnowned'
  BY DEF ForeignInv, GoneIsUnowned
<1>3. MessagesAreExplained'
  <2>1. SUFFICES ASSUME NEW m \in messages
                 PROVE  /\ m.conversation \in known'
                        /\ \/ Explained(m.conversation, m.user)'
                           \/ Matches(doc'[m.conversation], m.user)
                           \/ ~doc'[m.conversation].exists /\ Deleting(m.conversation, m.user)'
    BY DEF MessagesAreExplained
  <2>2. m.conversation \in Conversations /\ m.conversation \in known
    BY <1>t DEF Types, Message, ForeignInv, MessagesAreExplained
  <2>3. Deleting(m.conversation, m.user) =>
           Deleting(m.conversation, m.user)' \/ m.conversation \in raced'
    BY <1>p DEF Deleting
  <2>4. QED
    BY SMTT(30), <1>e, <2>2, <2>3 DEF ForeignInv, MessagesAreExplained, Matches, Explained
<1>4. InsertsAreExplained'
  <2>1. ASSUME NEW q \in Requests, pc'[q] = "insert"
        PROVE  (\/ Explained(job[q].conversation, job[q].user)
                \/ Matches(doc[job[q].conversation], job[q].user))'
    <3>1. q # r /\ pc[q] = "insert" /\ job[q].conversation \in Conversations
      BY <1>t, <1>p, <2>1 DEF Types, Job
    <3>2. job'[q].conversation = job[q].conversation /\ job'[q].user = job[q].user
      BY <3>1
    <3>3. \/ Explained(job[q].conversation, job[q].user)
          \/ Matches(doc[job[q].conversation], job[q].user)
      BY <3>1 DEF ForeignInv, InsertsAreExplained
    <3>4. Explained(job[q].conversation, job[q].user) => Explained(job[q].conversation, job[q].user)'
      <4>1. Explained(job[q].conversation, job[q].user) =>
               \/ job[q].conversation \in raced'
               \/ \E s \in firstUse' : /\ job'[s].conversation = job[q].conversation
                                       /\ job'[s].user = job[q].user
        BY <1>j DEF Explained
      <4>2. QED
        BY <3>2, <4>1 DEF Explained
    <3>5. Matches(doc[job[q].conversation], job[q].user) =>
             Matches(doc[job[q].conversation], job[q].user)'
      BY <3>1, <3>2 DEF Matches
    <3>6. QED
      BY <3>3, <3>4, <3>5
  <2>2. QED
    BY <2>1 DEF InsertsAreExplained
<1>5. UpsertsAreFirstUses'
  <2>1. ASSUME NEW q \in Requests, pc'[q] = "upsert"
        PROVE  (/\ q \in firstUse
                /\ doc[job[q].conversation].owner # Nobody =>
                     Explained(job[q].conversation, doc[job[q].conversation].owner))'
    <3>1. q # r /\ pc[q] = "upsert" /\ job[q].conversation \in Conversations
      BY <1>t, <1>p, <2>1 DEF Types, Job
    <3>2. /\ job'[q].conversation = job[q].conversation
          /\ doc'[job[q].conversation].owner = doc[job[q].conversation].owner
      BY <3>1
    <3>3. /\ q \in firstUse
          /\ doc[job[q].conversation].owner # Nobody =>
               \/ job[q].conversation \in raced'
               \/ \E s \in firstUse' :
                     /\ job'[s].conversation = job[q].conversation
                     /\ job'[s].user = doc[job[q].conversation].owner
      BY <1>j, <3>1 DEF ForeignInv, UpsertsAreFirstUses, Explained
    <3>4. QED
      BY <3>2, <3>3 DEF Explained
  <2>2. QED
    BY <2>1 DEF UpsertsAreFirstUses
<1>6. OverlapsAreRaced'
  <2>1. SUFFICES ASSUME NEW q \in Requests, NEW s \in Requests,
                        pc'[q] = "delete_messages", pc'[s] \in Appending,
                        job'[q].conversation = job'[s].conversation
                 PROVE  job'[s].conversation \in raced'
    BY DEF OverlapsAreRaced
  <2>2. q # r /\ pc[q] = "delete_messages" /\ pc[s] \in Appending
    BY <1>p, <2>1
  <2>3. job'[q].conversation = job[q].conversation /\ job'[s].conversation = job[s].conversation
    BY <2>2 DEF Appending
  <2>4. QED
    BY <2>1, <2>2, <2>3 DEF ForeignInv, OverlapsAreRaced
<1>7. QED
  BY <1>1, <1>2, <1>3, <1>4, <1>5, <1>6 DEF ForeignInv

LEMMA CreateKeepsForeign ==
    ASSUME IInv, ForeignInv, NEW c \in Conversations, NEW u \in Users,
           NEW title \in {"default", "chosen"}, CreateConversation(c, u, title)
    PROVE  ForeignInv'
<1>t. Types
  BY DEF IInv
<1>1. /\ UNCHANGED <<messages, pc, job, raced, firstUse>> /\ c \notin known
      /\ known \subseteq known' /\ doc'[c].exists
      /\ \A k \in Conversations \ {c} : doc'[k] = doc[k]
  BY <1>t DEF CreateConversation, NewDoc, Types
<1>2. \A q \in Requests : pc[q] \in {"insert", "upsert"} => job[q].conversation \in Conversations \ {c}
  BY <1>t, <1>1 DEF IInv, TitlesAreSafe, Chatting, Busy, Appending, Types, Job
<1>3. \A m \in messages : m.conversation \in Conversations \ {c}
  BY <1>t, <1>1 DEF ForeignInv, MessagesAreExplained, Types, Message
<1>4. FirstUsesBegan' /\ OverlapsAreRaced'
  BY <1>1 DEF ForeignInv, FirstUsesBegan, OverlapsAreRaced
<1>5. GoneIsUnowned'
  BY <1>1 DEF ForeignInv, GoneIsUnowned
<1>6. MessagesAreExplained'
  BY <1>1, <1>3 DEF ForeignInv, MessagesAreExplained, Explained, Deleting
<1>7. InsertsAreExplained'
  BY <1>1, <1>2 DEF ForeignInv, InsertsAreExplained, Explained
<1>8. UpsertsAreFirstUses'
  BY <1>1, <1>2 DEF ForeignInv, UpsertsAreFirstUses, Explained
<1>9. QED
  BY <1>4, <1>5, <1>6, <1>7, <1>8 DEF ForeignInv

LEMMA DeleteKeepsForeign ==
    ASSUME IInv, ForeignInv, NEW r \in Requests, NEW c \in Conversations, NEW u \in Users,
           DeleteConversation(r, c, u), Matches(doc[c], u)
    PROVE  ForeignInv'
<1>t. Types
  BY DEF IInv
<1>1. /\ pc[r] = "idle" /\ UNCHANGED <<messages, known, firstUse>>
      /\ pc' = [pc EXCEPT ![r] = "delete_messages"]
      /\ job' = [job EXCEPT ![r] = NewJob(c, u)]
      /\ doc' = [doc EXCEPT ![c] = NoDoc]
      /\ raced' = IF \E q \in Requests : pc[q] \in Appending /\ job[q].conversation = c
                  THEN raced \cup {c} ELSE raced
  BY DEF DeleteConversation, Goto
<1>p. /\ pc'[r] = "delete_messages" /\ job'[r].conversation = c /\ job'[r].user = u
      /\ \A q \in Requests \ {r} : pc'[q] = pc[q] /\ job'[q] = job[q]
      /\ ~doc'[c].exists /\ doc'[c].owner = Nobody
      /\ \A k \in Conversations \ {c} : doc'[k] = doc[k]
  BY <1>t, <1>1 DEF Types, NewJob, NoDoc
<1>f. r \notin firstUse /\ firstUse \subseteq Requests
  BY <1>1 DEF ForeignInv, FirstUsesBegan
<1>e. \A k, v : Explained(k, v) => Explained(k, v)'
  BY <1>1, <1>p, <1>f, ExplainedStays
<1>2. FirstUsesBegan' /\ GoneIsUnowned'
  BY <1>1, <1>p DEF ForeignInv, FirstUsesBegan, GoneIsUnowned
<1>3. MessagesAreExplained'
  <2>1. SUFFICES ASSUME NEW m \in messages
                 PROVE  /\ m.conversation \in known'
                        /\ \/ Explained(m.conversation, m.user)'
                           \/ Matches(doc'[m.conversation], m.user)
                           \/ ~doc'[m.conversation].exists /\ Deleting(m.conversation, m.user)'
    BY <1>1 DEF MessagesAreExplained
  <2>2. m.conversation \in Conversations /\ m.conversation \in known
    BY <1>t DEF Types, Message, ForeignInv, MessagesAreExplained
  <2>3. Deleting(m.conversation, m.user) => Deleting(m.conversation, m.user)'
    BY <1>1, <1>p DEF Deleting
  <2>4. m.conversation = c /\ m.user = u => Deleting(m.conversation, m.user)'
    BY <1>p DEF Deleting
  <2>5. QED
    BY <1>e, <1>1, <1>p, <2>2, <2>3, <2>4 DEF ForeignInv, MessagesAreExplained, Matches
<1>4. InsertsAreExplained'
  <2>1. ASSUME NEW q \in Requests, pc'[q] = "insert"
        PROVE  (\/ Explained(job[q].conversation, job[q].user)
                \/ Matches(doc[job[q].conversation], job[q].user))'
    <3>1. pc[q] = "insert" /\ job'[q] = job[q] /\ job[q].conversation \in Conversations
      BY <1>t, <1>p, <2>1 DEF Types, Job
    <3>2. job[q].conversation = c => c \in raced'
      BY <1>1, <3>1 DEF Appending
    <3>3. \/ Explained(job[q].conversation, job[q].user)'
          \/ Matches(doc[job[q].conversation], job[q].user)
      <4>1. Explained(job[q].conversation, job[q].user) =>
               \/ job[q].conversation \in raced'
               \/ \E s \in firstUse' : /\ job'[s].conversation = job[q].conversation
                                       /\ job'[s].user = job[q].user
        BY <1>1, <1>p, <1>f DEF Explained
      <4>2. QED
        BY <3>1, <4>1 DEF Explained, ForeignInv, InsertsAreExplained
    <3>4. QED
      BY <1>p, <3>1, <3>2, <3>3 DEF Explained
  <2>2. QED
    BY <2>1 DEF InsertsAreExplained
<1>5. UpsertsAreFirstUses'
  <2>1. ASSUME NEW q \in Requests, pc'[q] = "upsert"
        PROVE  (/\ q \in firstUse
                /\ doc[job[q].conversation].owner # Nobody =>
                     Explained(job[q].conversation, doc[job[q].conversation].owner))'
    <3>1. pc[q] = "upsert" /\ job'[q] = job[q] /\ job[q].conversation \in Conversations
      BY <1>t, <1>p, <2>1 DEF Types, Job
    <3>2. job[q].conversation # c => doc'[job[q].conversation].owner = doc[job[q].conversation].owner
      BY <1>p, <3>1
    <3>3. /\ q \in firstUse
          /\ doc[job[q].conversation].owner # Nobody =>
               \/ job[q].conversation \in raced'
               \/ \E s \in firstUse' :
                     /\ job'[s].conversation = job[q].conversation
                     /\ job'[s].user = doc[job[q].conversation].owner
      BY <1>1, <1>p, <1>f, <3>1 DEF ForeignInv, UpsertsAreFirstUses, Explained
    <3>4. QED
      BY <1>1, <1>p, <3>1, <3>2, <3>3 DEF Explained
  <2>2. QED
    BY <2>1 DEF UpsertsAreFirstUses
<1>6. OverlapsAreRaced'
  <2>1. SUFFICES ASSUME NEW q \in Requests, NEW s \in Requests,
                        pc'[q] = "delete_messages", pc'[s] \in Appending,
                        job'[q].conversation = job'[s].conversation
                 PROVE  job'[s].conversation \in raced'
    BY DEF OverlapsAreRaced
  <2>2. s # r /\ pc[s] \in Appending /\ job'[s] = job[s]
    BY <1>p, <2>1 DEF Appending
  <2>3. CASE q = r
    BY <1>1, <1>p, <2>1, <2>2, <2>3
  <2>4. CASE q # r
    BY <1>1, <1>p, <2>1, <2>2, <2>4 DEF ForeignInv, OverlapsAreRaced
  <2>5. QED
    BY <2>3, <2>4
<1>7. QED
  BY <1>2, <1>3, <1>4, <1>5, <1>6 DEF ForeignInv

LEMMA DeleteMessagesKeepsForeign ==
    ASSUME IInv, ForeignInv, NEW r \in Requests, DeleteMessages(r) PROVE ForeignInv'
<1>t. Types
  BY DEF IInv
<1>1. /\ pc[r] = "delete_messages" /\ UNCHANGED <<doc, job, known, raced, firstUse>>
      /\ messages' = {m \in messages : ~(/\ m.conversation = job[r].conversation
                                         /\ m.user = job[r].user)}
      /\ pc'[r] = "done" /\ \A q \in Requests \ {r} : pc'[q] = pc[q]
  BY <1>t DEF DeleteMessages, Goto, Types
<1>2. FirstUsesBegan' /\ GoneIsUnowned'
  BY <1>1 DEF ForeignInv, FirstUsesBegan, GoneIsUnowned
<1>3. MessagesAreExplained'
  <2>1. ASSUME NEW m \in messages' PROVE Deleting(m.conversation, m.user) => Deleting(m.conversation, m.user)'
    BY <1>1 DEF Deleting
  <2>2. QED
    BY <1>1, <2>1 DEF ForeignInv, MessagesAreExplained, Explained
<1>4. InsertsAreExplained' /\ UpsertsAreFirstUses'
  BY <1>1 DEF ForeignInv, InsertsAreExplained, UpsertsAreFirstUses, Explained
<1>5. OverlapsAreRaced'
  BY <1>1 DEF ForeignInv, OverlapsAreRaced, Appending
<1>6. QED
  BY <1>2, <1>3, <1>4, <1>5 DEF ForeignInv

LEMMA FindKeepsForeign ==
    ASSUME IInv, ForeignInv, NEW r \in Requests, FindConversation(r) PROVE ForeignInv'
<1>t. Types
  BY DEF IInv
<1> DEFINE c == job[r].conversation
<1>1. /\ pc[r] = "find" /\ UNCHANGED <<doc, messages, known>>
      /\ firstUse' = IF doc[c].owner = Nobody THEN firstUse \cup {r} ELSE firstUse
      /\ raced' = IF \E q \in Requests : pc[q] = "delete_messages" /\ job[q].conversation = c
                  THEN raced \cup {c} ELSE raced
  BY DEF FindConversation
<1>d. c \in Conversations /\ doc[c] \in Doc
  BY <1>t DEF Types, Job
<1>p. /\ pc'[r] = IF OwnedByAnother(doc[c], job[r].user) THEN "denied"
                  ELSE IF Matches(doc[c], job[r].user) THEN "insert" ELSE "upsert"
      /\ \A q \in Requests \ {r} : pc'[q] = pc[q]
  BY <1>t DEF FindConversation, Goto, Types
<1>j. \A q \in Requests : job'[q].conversation = job[q].conversation /\ job'[q].user = job[q].user
  <2>1. job' = [job EXCEPT ![r].found = doc[c]]
    BY DEF FindConversation
  <2>2. QED
    BY <1>t, <1>d, <2>1 DEF Types, Job
<1>f. firstUse \subseteq Requests
  BY DEF ForeignInv, FirstUsesBegan
<1>e. \A k, v : Explained(k, v) => Explained(k, v)'
  BY <1>1, <1>j, <1>f, ExplainedStays
<1>2. FirstUsesBegan' /\ GoneIsUnowned'
  BY <1>1, <1>p DEF ForeignInv, FirstUsesBegan, GoneIsUnowned
<1>3. MessagesAreExplained'
  <2>1. \A m \in messages : Deleting(m.conversation, m.user) => Deleting(m.conversation, m.user)'
    BY <1>1, <1>p, <1>j DEF Deleting
  <2>2. QED
    BY <1>1, <1>e, <2>1 DEF ForeignInv, MessagesAreExplained
<1>4. InsertsAreExplained'
  <2>1. ASSUME NEW q \in Requests, pc'[q] = "insert"
        PROVE  (\/ Explained(job[q].conversation, job[q].user)
                \/ Matches(doc[job[q].conversation], job[q].user))'
    <3>1. CASE q = r
      BY <1>1, <1>p, <1>j, <2>1, <3>1
    <3>2. CASE q # r
      <4>1. \/ Explained(job[q].conversation, job[q].user)
            \/ Matches(doc[job[q].conversation], job[q].user)
        BY <1>p, <2>1, <3>2 DEF ForeignInv, InsertsAreExplained
      <4>2. Explained(job[q].conversation, job[q].user) =>
               \/ job[q].conversation \in raced'
               \/ \E s \in firstUse' : /\ job'[s].conversation = job[q].conversation
                                       /\ job'[s].user = job[q].user
        BY <1>1, <1>j, <1>f DEF Explained
      <4>3. QED
        BY <1>1, <1>j, <4>1, <4>2 DEF Explained
    <3>3. QED
      BY <3>1, <3>2
  <2>2. QED
    BY <2>1 DEF InsertsAreExplained
<1>5. UpsertsAreFirstUses'
  <2>1. ASSUME NEW q \in Requests, pc'[q] = "upsert"
        PROVE  (/\ q \in firstUse
                /\ doc[job[q].conversation].owner # Nobody =>
                     Explained(job[q].conversation, doc[job[q].conversation].owner))'
    <3>1. CASE q = r
      <4>1. doc[c].owner = Nobody
        BY <1>d, <1>p, <2>1, <3>1 DEF OwnedByAnother, Matches, ForeignInv, GoneIsUnowned
      <4>2. QED
        BY <1>1, <1>j, <3>1, <4>1
    <3>2. CASE q # r
      <4>1. /\ q \in firstUse'
            /\ doc[job[q].conversation].owner # Nobody =>
                 \/ job[q].conversation \in raced'
                 \/ \E s \in firstUse' :
                       /\ job'[s].conversation = job[q].conversation
                       /\ job'[s].user = doc[job[q].conversation].owner
        BY <1>1, <1>p, <1>j, <1>f, <2>1, <3>2 DEF ForeignInv, UpsertsAreFirstUses, Explained
      <4>2. QED
        BY <1>1, <1>j, <4>1 DEF Explained
    <3>3. QED
      BY <3>1, <3>2
  <2>2. QED
    BY <2>1 DEF UpsertsAreFirstUses
<1>6. OverlapsAreRaced'
  <2>1. SUFFICES ASSUME NEW q \in Requests, NEW s \in Requests,
                        pc'[q] = "delete_messages", pc'[s] \in Appending,
                        job'[q].conversation = job'[s].conversation
                 PROVE  job'[s].conversation \in raced'
    BY DEF OverlapsAreRaced
  <2>2. pc[q] = "delete_messages" /\ job[q].conversation = job[s].conversation
    BY <1>p, <1>j, <2>1
  <2>3. CASE s = r
    BY <1>1, <1>j, <2>2, <2>3
  <2>4. CASE s # r
    BY <1>1, <1>p, <1>j, <2>1, <2>2, <2>4 DEF ForeignInv, OverlapsAreRaced
  <2>5. QED
    BY <2>3, <2>4
<1>7. QED
  BY <1>2, <1>3, <1>4, <1>5, <1>6 DEF ForeignInv

LEMMA UpsertKeepsForeign ==
    ASSUME OwnedByUsers, IInv, ForeignInv, NEW r \in Requests, UpsertConversation(r)
    PROVE  ForeignInv'
<1>t. Types
  BY DEF IInv
<1> DEFINE c == job[r].conversation
           u == job[r].user
<1>1. pc[r] = "upsert" /\ UNCHANGED <<messages, job, known, raced, firstUse>>
  BY DEF UpsertConversation, history
<1>p. pc'[r] = "insert" /\ \A q \in Requests \ {r} : pc'[q] = pc[q]
  BY <1>t DEF UpsertConversation, Goto, Types
<1>d. c \in Conversations /\ u \in Users
  BY <1>t DEF Types, Job
<1>f. r \in firstUse /\ Explained(c, u)
  BY <1>1 DEF ForeignInv, UpsertsAreFirstUses, Explained
<1>o. /\ \A k \in Conversations \ {c} : doc'[k] = doc[k]
      /\ doc' = doc \/ (doc'[c].exists /\ doc'[c].owner = u)
  <2>1. \/ doc' = doc
        \/ doc' = [doc EXCEPT ![c] = NewDoc(u, "default")]
        \/ doc[c].exists /\ doc' = [doc EXCEPT ![c].owner = u]
    BY DEF UpsertConversation
  <2>2. doc[c] \in Doc
    BY <1>t, <1>d DEF Types
  <2>3. QED
    BY <1>t, <1>d, <2>1, <2>2 DEF Types, NewDoc, Doc
\* Whoever the conversation belonged to came by a first use.
<1>w. \A v \in Users : Matches(doc[c], v) => Explained(c, v)
  BY <1>1 DEF OwnedByUsers, Matches, ForeignInv, UpsertsAreFirstUses
<1>e. \A k, v : Explained(k, v) => Explained(k, v)'
  BY <1>1 DEF Explained
<1>2. FirstUsesBegan' /\ GoneIsUnowned'
  BY <1>d, <1>1, <1>p, <1>o DEF ForeignInv, FirstUsesBegan, GoneIsUnowned
<1>3. MessagesAreExplained'
  <2>1. SUFFICES ASSUME NEW m \in messages
                 PROVE  /\ m.conversation \in known'
                        /\ \/ Explained(m.conversation, m.user)'
                           \/ Matches(doc'[m.conversation], m.user)
                           \/ ~doc'[m.conversation].exists /\ Deleting(m.conversation, m.user)'
    BY <1>1 DEF MessagesAreExplained
  <2>2. m.conversation \in Conversations /\ m.user \in Users
    BY <1>t DEF Types, Message
  <2>3. /\ m.conversation \in known
        /\ \/ Explained(m.conversation, m.user)
           \/ Matches(doc[m.conversation], m.user)
           \/ ~doc[m.conversation].exists /\ Deleting(m.conversation, m.user)
    BY DEF ForeignInv, MessagesAreExplained
  <2>4. Deleting(m.conversation, m.user) => Deleting(m.conversation, m.user)'
    BY <1>1, <1>p DEF Deleting
  <2>5. m.conversation = c /\ Deleting(m.conversation, m.user) => Explained(m.conversation, m.user)
    BY <1>1 DEF Deleting, Appending, ForeignInv, OverlapsAreRaced, Explained
  <2>6. CASE m.conversation = c
    BY <1>e, <1>w, <1>1, <2>2, <2>3, <2>5, <2>6
  <2>7. CASE m.conversation # c
    BY <1>e, <1>1, <1>o, <2>2, <2>3, <2>4, <2>7
  <2>8. QED
    BY <2>6, <2>7
<1>4. InsertsAreExplained'
  <2>1. ASSUME NEW q \in Requests, pc'[q] = "insert"
        PROVE  \/ Explained(job[q].conversation, job[q].user)
               \/ Matches(doc'[job[q].conversation], job[q].user)
    <3>1. job[q].conversation \in Conversations /\ job[q].user \in Users
      BY <1>t DEF Types, Job
    <3>2. CASE q = r
      BY <1>f, <3>2
    <3>3. CASE q # r
      <4>1. \/ Explained(job[q].conversation, job[q].user)
            \/ Matches(doc[job[q].conversation], job[q].user)
        BY <1>p, <2>1, <3>3 DEF ForeignInv, InsertsAreExplained
      <4>2. QED
        BY <1>w, <1>o, <3>1, <4>1
    <3>4. QED
      BY <3>2, <3>3
  <2>2. QED
    BY <1>1, <2>1 DEF InsertsAreExplained, Explained
<1>5. UpsertsAreFirstUses'
  <2>1. ASSUME NEW q \in Requests, pc'[q] = "upsert"
        PROVE  /\ q \in firstUse
               /\ doc'[job[q].conversation].owner # Nobody =>
                    Explained(job[q].conversation, doc'[job[q].conversation].owner)
    <3>1. job[q].conversation \in Conversations /\ pc[q] = "upsert"
      BY <1>t, <1>p, <2>1 DEF Types, Job
    <3>2. CASE doc'[job[q].conversation] = doc[job[q].conversation]
      BY <3>1, <3>2 DEF ForeignInv, UpsertsAreFirstUses
    <3>3. CASE job[q].conversation = c /\ doc'[c].owner = u
      BY <1>f, <3>1, <3>3 DEF ForeignInv, UpsertsAreFirstUses
    <3>4. QED
      BY <1>o, <3>1, <3>2, <3>3
  <2>2. QED
    BY <1>1, <2>1 DEF UpsertsAreFirstUses, Explained
<1>6. OverlapsAreRaced'
  BY <1>1, <1>p DEF ForeignInv, OverlapsAreRaced, Appending
<1>7. QED
  BY <1>2, <1>3, <1>4, <1>5, <1>6 DEF ForeignInv

LEMMA InsertKeepsForeign ==
    ASSUME IInv, ForeignInv, NEW r \in Requests, InsertMessage(r) PROVE ForeignInv'
<1>t. Types
  BY DEF IInv
<1>1. /\ pc[r] = "insert" /\ messages' = messages \cup {MessageOf(r)}
      /\ UNCHANGED <<doc, job, known, raced, firstUse>>
  BY DEF InsertMessage, history
<1>p. pc'[r] = "touch" /\ \A q \in Requests \ {r} : pc'[q] = pc[q]
  BY <1>t DEF InsertMessage, Goto, Types
<1>2. FirstUsesBegan' /\ GoneIsUnowned'
  BY <1>1, <1>p DEF ForeignInv, FirstUsesBegan, GoneIsUnowned
<1>3. MessagesAreExplained'
  <2>1. MessageOf(r).conversation = job[r].conversation /\ MessageOf(r).user = job[r].user
    BY DEF MessageOf
  <2>2. job[r].conversation \in known
    BY <1>1 DEF IInv, TitlesAreSafe, Chatting, Busy, Appending
  <2>3. \/ Explained(job[r].conversation, job[r].user)
        \/ Matches(doc[job[r].conversation], job[r].user)
    BY <1>1 DEF ForeignInv, InsertsAreExplained
  <2>4. \A m \in messages : Deleting(m.conversation, m.user) => Deleting(m.conversation, m.user)'
    BY <1>1, <1>p DEF Deleting
  <2>5. QED
    BY <1>1, <2>1, <2>2, <2>3, <2>4 DEF ForeignInv, MessagesAreExplained, Explained
<1>4. InsertsAreExplained' /\ UpsertsAreFirstUses'
  BY <1>1, <1>p DEF ForeignInv, InsertsAreExplained, UpsertsAreFirstUses, Explained
<1>5. OverlapsAreRaced'
  BY <1>1, <1>p DEF ForeignInv, OverlapsAreRaced, Appending
<1>6. QED
  BY <1>2, <1>3, <1>4, <1>5 DEF ForeignInv

\* The other steps leave owners and messages alone.
LEMMA OthersKeepForeign ==
    ASSUME IInv, ForeignInv, NEW r \in Requests,
           \/ \E c \in Conversations, u \in Users :
                 \/ StartChat(r, c, u) \/ RenameConversation(r, c, u)
                 \/ DeleteConversation(r, c, u) /\ ~Matches(doc[c], u)
           \/ TouchConversation(r) \/ FindTitle(r) \/ SetTitle(r) \/ Answer(r) \/ Abort(r)
    PROVE  ForeignInv'
<1>t. Types
  BY DEF IInv
<1>d. \A c \in Conversations : doc[c] \in Doc
  BY <1>t DEF Types
<1>c. job[r] \in Job /\ job[r].conversation \in Conversations
  BY <1>t DEF Types, Job
<1>1. ASSUME NEW c \in Conversations, NEW u \in Users, StartChat(r, c, u) PROVE ForeignInv'
  <2>1. /\ pc[r] = "idle" /\ pc' = [pc EXCEPT ![r] = "find"]
        /\ job' = [job EXCEPT ![r] = NewJob(c, u)]
        /\ UNCHANGED <<doc, messages, raced, firstUse>> /\ known \subseteq known'
    BY <1>1 DEF StartChat, Goto
  <2>2. QED
    BY <1>t, <2>1, ForeignStep DEF Steps, Appending, Types
<1>2. ASSUME NEW c \in Conversations, NEW u \in Users, RenameConversation(r, c, u) PROVE ForeignInv'
  <2>1. PICK step \in {"done", "missing"} : pc' = [pc EXCEPT ![r] = step]
    BY <1>2 DEF RenameConversation, Goto
  <2>2. pc[r] = "idle" /\ UNCHANGED <<messages, job, known, raced, firstUse>>
    BY <1>2 DEF RenameConversation
  <2>3. \A k \in Conversations : doc'[k].exists = doc[k].exists /\ doc'[k].owner = doc[k].owner
    BY <1>t, <1>d, <1>2 DEF RenameConversation, Types, Doc
  <2>4. QED
    BY <2>1, <2>2, <2>3, ForeignStep DEF Steps, Appending
<1>3. ASSUME NEW c \in Conversations, NEW u \in Users,
             DeleteConversation(r, c, u), ~Matches(doc[c], u)
      PROVE  ForeignInv'
  <2>1. /\ pc[r] = "idle" /\ pc' = [pc EXCEPT ![r] = "missing"]
        /\ UNCHANGED <<doc, messages, job, known, raced, firstUse>>
    BY <1>3 DEF DeleteConversation, Goto
  <2>2. QED
    BY <2>1, ForeignStep DEF Steps, Appending
<1>4. ASSUME TouchConversation(r) PROVE ForeignInv'
  <2>1. PICK step \in {"title_find", "done"} : pc' = [pc EXCEPT ![r] = step]
    BY <1>4 DEF TouchConversation, Goto
  <2>2. pc[r] = "touch" /\ UNCHANGED <<messages, job, known, raced, firstUse>>
    BY <1>4 DEF TouchConversation
  <2>3. \A k \in Conversations : doc'[k].exists = doc[k].exists /\ doc'[k].owner = doc[k].owner
    BY <1>t, <1>c, <1>d, <1>4 DEF TouchConversation, Types, Doc
  <2>4. QED
    BY <2>1, <2>2, <2>3, ForeignStep DEF Steps, Appending
<1>5. ASSUME FindTitle(r) PROVE ForeignInv'
  <2>1. PICK step \in {"title_set", "answering"} : pc' = [pc EXCEPT ![r] = step]
    BY <1>5 DEF FindTitle, Goto
  <2>2. pc[r] = "title_find" /\ UNCHANGED <<doc, messages, job, known, raced, firstUse>>
    BY <1>5 DEF FindTitle, history
  <2>3. QED
    BY <2>1, <2>2, ForeignStep DEF Steps, Appending
<1>6. ASSUME SetTitle(r) PROVE ForeignInv'
  <2>1. /\ pc[r] = "title_set" /\ pc' = [pc EXCEPT ![r] = "answering"]
        /\ UNCHANGED <<messages, job, known, raced, firstUse>>
    BY <1>6 DEF SetTitle, Goto, history
  <2>2. \A k \in Conversations : doc'[k].exists = doc[k].exists /\ doc'[k].owner = doc[k].owner
    BY <1>t, <1>c, <1>d, <1>6 DEF SetTitle, Types, Doc
  <2>3. QED
    BY <2>1, <2>2, ForeignStep DEF Steps, Appending
<1>7. ASSUME Answer(r) PROVE ForeignInv'
  <2>1. PICK step \in {"find", "done"} : pc' = [pc EXCEPT ![r] = step]
    BY <1>7 DEF Answer, Goto
  <2>2. pc[r] = "answering" /\ UNCHANGED <<doc, messages, known, raced, firstUse>>
    BY <1>7 DEF Answer, history
  <2>3. \A q \in Requests : job'[q].conversation = job[q].conversation /\ job'[q].user = job[q].user
    BY <1>t, <1>c, <1>7 DEF Answer, Types, Job
  <2>4. QED
    BY <2>1, <2>2, <2>3, ForeignStep DEF Steps, Appending
<1>8. ASSUME Abort(r) PROVE ForeignInv'
  <2>1. /\ pc[r] # "idle" /\ pc' = [pc EXCEPT ![r] = "aborted"]
        /\ UNCHANGED <<doc, messages, job, known, firstUse>> /\ raced \subseteq raced'
        /\ pc[r] = "delete_messages" => job[r].conversation \in raced'
    BY <1>8 DEF Abort, Goto, Busy, Appending
  <2>2. QED
    BY <2>1, ForeignStep DEF Steps, Appending
<1>9. QED
  BY <1>1, <1>2, <1>3, <1>4, <1>5, <1>6, <1>7, <1>8

\* Every step of the specification keeps it.
LEMMA ForeignInvStep ==
    ASSUME OwnedByUsers, IInv, ForeignInv, [Next]_vars PROVE ForeignInv'
<1>1. ASSUME NEW c \in Conversations, NEW u \in Users, NEW title \in {"default", "chosen"},
             CreateConversation(c, u, title)
      PROVE  ForeignInv'
  BY <1>1, CreateKeepsForeign
<1>2. ASSUME NEW c \in Conversations, NEW u \in Users, NEW r \in Requests,
             StartChat(r, c, u) \/ RenameConversation(r, c, u) \/ DeleteConversation(r, c, u)
      PROVE  ForeignInv'
  BY <1>2, DeleteKeepsForeign, OthersKeepForeign
<1>3. ASSUME NEW r \in Requests,
             FindConversation(r) \/ UpsertConversation(r) \/ InsertMessage(r) \/ DeleteMessages(r)
      PROVE  ForeignInv'
  BY <1>3, FindKeepsForeign, UpsertKeepsForeign, InsertKeepsForeign, DeleteMessagesKeepsForeign
<1>4. ASSUME NEW r \in Requests,
             TouchConversation(r) \/ FindTitle(r) \/ SetTitle(r) \/ Answer(r) \/ Abort(r)
      PROVE  ForeignInv'
  BY <1>4, OthersKeepForeign
<1>5. CASE UNCHANGED vars
  BY <1>5 DEF vars, history, ForeignInv, FirstUsesBegan, GoneIsUnowned, MessagesAreExplained,
              InsertsAreExplained, UpsertsAreFirstUses, OverlapsAreRaced, Explained, Deleting
<1>6. QED
  BY <1>1, <1>2, <1>3, <1>4, <1>5 DEF Next

LEMMA ForeignInvAlways == ASSUME Parameters, OwnedByUsers PROVE Spec => []ForeignInv
<1>1. Init => ForeignInv
  BY ForeignInit
<1>2. IInv /\ ForeignInv /\ [Next]_vars => ForeignInv'
  BY ForeignInvStep
<1>3. QED
  BY <1>1, <1>2, IInvAlways, PTL DEF Spec

LEMMA HistoryFollows == ASSUME IInv, ForeignInv PROVE HistoryHolds
<1>1. SUFFICES ASSUME NEW m \in messages, doc[m.conversation].exists, doc[m.conversation].owner # m.user
               PROVE  Explained(m.conversation, m.user)
  BY DEF IInv, HistoryHolds, ForeignMessageOnlyByFirstUse, Explained
<1>2. QED
  BY <1>1 DEF ForeignInv, MessagesAreExplained, Matches

\* What a user finds in a conversation is what was put there: prompts with their
\* replies, the title chosen, and somebody else's messages only where two users
\* came before the conversation had one, or a deletion freed its id.
THEOREM HistoryAlwaysHolds == ASSUME Parameters, OwnedByUsers PROVE Spec => []HistoryHolds
<1>1. IInv /\ ForeignInv => HistoryHolds
  BY HistoryFollows
<1>2. QED
  BY <1>1, IInvAlways, ForeignInvAlways, PTL

-----------------------------------------------------------------------------
(* Counting messages and deleting them with their conversation             *)

\* Conversations of an earlier schema come without messages, and count none.
FreshDocs == \A d \in InitialDocs : d.count = 0

\* Nothing happened to the conversation that the counts do not survive.
Quiet(c) == c \notin raced /\ ~Contested(c)

PendingOn(q, c) == pc[q] = "delete_messages" /\ job[q].conversation = c

\* Between finding a conversation and counting its message a chat has the document.
AppendsMatch ==
    \A r \in Requests : pc[r] \in {"insert", "touch"} /\ Quiet(job[r].conversation) =>
        Matches(doc[job[r].conversation], job[r].user)

\* A document that was found is still there; one that was not has an owner now.
UpsertsFind ==
    \A r \in Requests : pc[r] = "upsert" /\ job[r].conversation \notin raced =>
        /\ job[r].found.exists => doc[job[r].conversation].exists
        /\ ~job[r].found.exists /\ doc[job[r].conversation].exists =>
              doc[job[r].conversation].owner # Nobody

TouchesAreStored ==
    \A r \in Requests : pc[r] = "touch" /\ job[r].conversation \notin raced => MessageOf(r) \in messages

\* A message is counted once, by its chat, and no longer when the document is gone.
CountedOnce ==
    /\ counted \subseteq Message /\ IsFiniteSet(counted)
    /\ \A m \in counted :
          /\ doc[m.conversation].exists /\ pc[m.request] # "idle"
          /\ pc[m.request] \in {"find", "upsert", "insert", "touch"} => job[m.request].role = "assistant"
          /\ pc[m.request] \in {"find", "upsert", "insert", "touch", "title_find", "title_set", "answering"}
                => m.role = "user"

\* A deletion under way has removed the document.
PendingAreGone ==
    \A q \in Requests : pc[q] = "delete_messages" =>
        /\ job[q].conversation \in known
        /\ job[q].conversation \notin raced => ~doc[job[q].conversation].exists

\* The messages of a conversation are its owner's, or those of the one who deletes it.
MessagesAreOwners ==
    \A m \in messages : Quiet(m.conversation) =>
        /\ \/ Matches(doc[m.conversation], m.user)
           \/ /\ ~doc[m.conversation].exists
              /\ \E q \in Requests : PendingOn(q, m.conversation)
        /\ \A q \in Requests : PendingOn(q, m.conversation) => job[q].user = m.user

CountedIn(c) == {m \in counted \cap messages : m.conversation = c}

CountsAreTrue ==
    \A c \in Conversations : Quiet(c) /\ doc[c].exists => doc[c].count = Cardinality(CountedIn(c))

\* What is not counted is about to be, or its request ended before it could.
RestIsUnderWay ==
    \A m \in messages \ counted : Quiet(m.conversation) /\ doc[m.conversation].exists =>
        \/ pc[m.request] = "touch" /\ job[m.request].role = m.role
        \/ pc[m.request] = "aborted"

DocsAreKnown == \A c \in Conversations : doc[c].exists => c \in known

CountInv ==
    /\ AppendsMatch /\ UpsertsFind /\ TouchesAreStored /\ CountedOnce /\ PendingAreGone
    /\ MessagesAreOwners /\ CountsAreTrue /\ RestIsUnderWay /\ DocsAreKnown

LEMMA CountInit == ASSUME Parameters, FreshDocs PROVE Init => CountInv
<1> SUFFICES ASSUME Init PROVE CountInv
  OBVIOUS
<1>1. /\ messages = {} /\ counted = {} /\ \A r \in Requests : pc[r] = "idle"
      /\ \A c \in Conversations : doc[c].count = 0
  BY DEF Init, FreshDocs
<1>2. \A c \in Conversations : CountedIn(c) = {}
  BY <1>1 DEF CountedIn
<1>3. CountsAreTrue
  BY <1>1, <1>2, FS_EmptySet DEF CountsAreTrue
<1>4. CountedOnce
  BY <1>1, FS_EmptySet DEF CountedOnce
<1>5. DocsAreKnown
  BY DEF Init, DocsAreKnown
<1>6. QED
  BY <1>1, <1>3, <1>4, <1>5 DEF CountInv, AppendsMatch, UpsertsFind, TouchesAreStored, PendingAreGone,
     MessagesAreOwners, RestIsUnderWay

\* What disturbs the counts is never undone.
LEMMA QuietWas ==
    ASSUME raced \subseteq raced', firstUse \subseteq firstUse',
           \A q \in firstUse : job'[q].conversation = job[q].conversation /\ job'[q].user = job[q].user
    PROVE  \A c : Quiet(c)' => Quiet(c)
<1>1. ASSUME NEW c, Contested(c) PROVE Contested(c)'
  <2>1. PICK r \in firstUse, q \in firstUse :
           job[r].conversation = c /\ job[q].conversation = c /\ job[r].user # job[q].user
    BY <1>1 DEF Contested
  <2>2. /\ r \in firstUse' /\ q \in firstUse'
        /\ job'[r].conversation = c /\ job'[q].conversation = c /\ job'[r].user # job'[q].user
    BY <2>1
  <2>3. QED
    BY <2>2 DEF Contested
<1>2. QED
  BY <1>1 DEF Quiet

\* Documents keep everything but their titles.
DocsAreSame ==
    \A c \in Conversations : /\ doc'[c].exists = doc[c].exists /\ doc'[c].owner = doc[c].owner
                             /\ doc'[c].count = doc[c].count

\* The step of a request that leaves documents, messages and counts alone and does
\* not arrive where a message is appended or a conversation deleted.
LEMMA CountStep ==
    ASSUME IInv, ForeignInv, CountInv, NEW r \in Requests,
           NEW step \in Steps \ {"idle", "insert", "upsert", "touch", "delete_messages"},
           pc' = [pc EXCEPT ![r] = step],
           UNCHANGED <<messages, counted>>, firstUse \subseteq firstUse',
           known \subseteq known', raced \subseteq raced',
           DocsAreSame,
           \A q \in Requests \ {r} : job'[q] = job[q],
           pc[r] # "idle" => job'[r].conversation = job[r].conversation /\ job'[r].user = job[r].user,
           pc[r] # "aborted", pc[r] = "touch" => step = "aborted",
           pc[r] = "delete_messages" => job[r].conversation \in raced',
           \A m \in counted : m.request = r =>
               /\ step = "find" => job'[r].role = "assistant"
               /\ step \in {"find", "title_find", "title_set", "answering"} => m.role = "user"
    PROVE  CountInv'
<1> USE DEF DocsAreSame
<1>t. Types
  BY DEF IInv
<1>p. pc'[r] = step /\ \A q \in Requests \ {r} : pc'[q] = pc[q]
  BY <1>t DEF Types
<1>q. \A c : Quiet(c)' => Quiet(c)
  <2>1. \A q \in firstUse : job'[q].conversation = job[q].conversation /\ job'[q].user = job[q].user
    BY DEF ForeignInv, FirstUsesBegan
  <2>2. QED
    BY <2>1, QuietWas
<1>c. \A q \in Requests : job[q].conversation \in Conversations
  BY <1>t DEF Types, Job
<1>m. \A m \in messages \cup counted : m.conversation \in Conversations /\ m.request \in Requests
  BY <1>t DEF Types, Message, CountInv, CountedOnce
<1>1. AppendsMatch'
  <2>1. SUFFICES ASSUME NEW q \in Requests, pc'[q] \in {"insert", "touch"}, Quiet(job[q].conversation)'
                 PROVE  Matches(doc[job[q].conversation], job[q].user)'
    BY DEF AppendsMatch
  <2>2. q # r /\ pc[q] \in {"insert", "touch"} /\ job'[q] = job[q]
    BY <1>p, <2>1
  <2>3. Quiet(job'[q].conversation)
    <3> DEFINE c == job[q].conversation
    <3>1. Quiet(c')
      BY <1>q, <2>1, <2>2 DEF Quiet, Contested
    <3>2. QED
      BY <3>1
  <2>5. Matches(doc[job[q].conversation], job[q].user)
    BY <2>2, <2>3 DEF CountInv, AppendsMatch
  <2>4. QED
    BY <1>c, <2>2, <2>5 DEF Matches
<1>2. UpsertsFind'
  BY <1>p, <1>c DEF CountInv, UpsertsFind
<1>3. TouchesAreStored'
  BY <1>p DEF CountInv, TouchesAreStored, MessageOf
<1>4. CountedOnce'
  <2>1. ASSUME NEW m \in counted
        PROVE  /\ doc'[m.conversation].exists /\ pc'[m.request] # "idle"
               /\ pc'[m.request] \in {"find", "upsert", "insert", "touch"} => job'[m.request].role = "assistant"
               /\ pc'[m.request] \in {"find", "upsert", "insert", "touch", "title_find", "title_set", "answering"}
                     => m.role = "user"
    <3>1. CASE m.request = r
      BY <1>p, <1>m, <3>1 DEF CountInv, CountedOnce
    <3>2. CASE m.request # r
      BY <1>p, <1>m, <3>2 DEF CountInv, CountedOnce
    <3>3. QED
      BY <3>1, <3>2
  <2>2. QED
    BY <2>1 DEF CountInv, CountedOnce
<1>5. PendingAreGone'
  BY <1>p, <1>c DEF CountInv, PendingAreGone
<1>6. MessagesAreOwners'
  <2>1. SUFFICES ASSUME NEW m \in messages, Quiet(m.conversation)'
                 PROVE  (/\ \/ Matches(doc[m.conversation], m.user)
                            \/ /\ ~doc[m.conversation].exists
                               /\ \E q \in Requests : PendingOn(q, m.conversation)
                         /\ \A q \in Requests : PendingOn(q, m.conversation) => job[q].user = m.user)'
    BY DEF MessagesAreOwners
  <2>2. /\ \/ Matches(doc[m.conversation], m.user)
           \/ /\ ~doc[m.conversation].exists
              /\ \E q \in Requests : PendingOn(q, m.conversation)
        /\ \A q \in Requests : PendingOn(q, m.conversation) => job[q].user = m.user
    BY <1>q, <2>1 DEF CountInv, MessagesAreOwners
  <2>3. \A q \in Requests : PendingOn(q, m.conversation) => q # r
    BY <2>1 DEF PendingOn, Quiet
  <2>4. \A q \in Requests : PendingOn(q, m.conversation)' <=> PendingOn(q, m.conversation)
    BY <1>p, <2>3 DEF PendingOn
  <2>5. QED
    BY <1>m, <1>p, <2>2, <2>3, <2>4 DEF Matches
<1>7. CountsAreTrue'
  <2>1. \A c : CountedIn(c)' = CountedIn(c)
    BY DEF CountedIn
  <2>2. QED
    BY <1>q, <2>1 DEF CountInv, CountsAreTrue
<1>8. RestIsUnderWay'
  <2>1. SUFFICES ASSUME NEW m \in messages \ counted, Quiet(m.conversation)', doc'[m.conversation].exists
                 PROVE  \/ pc'[m.request] = "touch" /\ job'[m.request].role = m.role
                        \/ pc'[m.request] = "aborted"
    BY DEF RestIsUnderWay
  <2>2. \/ pc[m.request] = "touch" /\ job[m.request].role = m.role
        \/ pc[m.request] = "aborted"
    BY <1>q, <1>m, <2>1 DEF CountInv, RestIsUnderWay
  <2>3. CASE m.request # r
    BY <1>m, <1>p, <2>2, <2>3
  <2>4. CASE m.request = r /\ pc[r] = "touch"
    BY <1>p, <2>4
  <2>5. QED
    BY <2>2, <2>3, <2>4
<1>9. DocsAreKnown'
  BY DEF CountInv, DocsAreKnown
<1>10. QED
  BY <1>1, <1>2, <1>3, <1>4, <1>5, <1>6, <1>7, <1>8, <1>9 DEF CountInv

LEMMA CreateKeepsCounts ==
    ASSUME IInv, ForeignInv, CountInv, NEW c \in Conversations, NEW u \in Users,
           NEW title \in {"default", "chosen"}, CreateConversation(c, u, title)
    PROVE  CountInv'
<1>t. Types
  BY DEF IInv
<1>1. /\ UNCHANGED <<messages, pc, job, raced, counted, firstUse>> /\ c \notin known
      /\ known' = known \cup {c} /\ ~doc[c].exists /\ doc'[c].count = 0
      /\ \A k \in Conversations \ {c} : doc'[k] = doc[k]
  BY <1>t DEF CreateConversation, NewDoc, Types
<1>2. \A k : Quiet(k)' <=> Quiet(k)
  BY <1>1 DEF Quiet, Contested
<1>3. \A q \in Requests : pc[q] \in {"insert", "touch", "upsert", "delete_messages"} =>
         job[q].conversation \in Conversations \ {c}
  BY <1>t, <1>1 DEF IInv, TitlesAreSafe, Chatting, Busy, Appending, Types, Job, CountInv, PendingAreGone
<1>4. \A m \in messages \cup counted : m.conversation \in Conversations \ {c}
  BY <1>t, <1>1 DEF ForeignInv, MessagesAreExplained, Types, Message, CountInv, CountedOnce
<1>5. \A k : CountedIn(k)' = CountedIn(k)
  BY <1>1 DEF CountedIn
<1>6. AppendsMatch' /\ UpsertsFind' /\ TouchesAreStored'
  BY <1>1, <1>2, <1>3 DEF CountInv, AppendsMatch, UpsertsFind, TouchesAreStored, MessageOf
<1>7. CountedOnce' /\ PendingAreGone'
  BY <1>1, <1>3, <1>4 DEF CountInv, CountedOnce, PendingAreGone
<1>8. MessagesAreOwners' /\ RestIsUnderWay'
  BY <1>1, <1>2, <1>4 DEF CountInv, MessagesAreOwners, RestIsUnderWay, PendingOn
<1>9. CountsAreTrue'
  <2>1. CountedIn(c) = {}
    BY <1>4 DEF CountedIn
  <2>2. QED
    BY <1>1, <1>2, <1>5, <2>1, FS_EmptySet DEF CountInv, CountsAreTrue
<1>10. DocsAreKnown'
  BY <1>1 DEF CountInv, DocsAreKnown
<1>11. QED
  BY <1>6, <1>7, <1>8, <1>9, <1>10 DEF CountInv

LEMMA DeleteKeepsCounts ==
    ASSUME IInv, ForeignInv, CountInv, NEW r \in Requests, NEW c \in Conversations, NEW u \in Users,
           DeleteConversation(r, c, u), Matches(doc[c], u)
    PROVE  CountInv'
<1>t. Types
  BY DEF IInv
<1>1. /\ UNCHANGED <<messages, known, firstUse>> /\ pc[r] = "idle"
      /\ doc' = [doc EXCEPT ![c] = NoDoc]
      /\ pc' = [pc EXCEPT ![r] = "delete_messages"] /\ job' = [job EXCEPT ![r] = NewJob(c, u)]
      /\ raced \subseteq raced'
      /\ (\E q \in Requests : pc[q] \in Appending /\ job[q].conversation = c) => c \in raced'
      /\ counted' = {m \in counted : m.conversation # c}
  BY DEF DeleteConversation, Goto
<1>2. /\ pc'[r] = "delete_messages" /\ job'[r].conversation = c /\ job'[r].user = u
      /\ \A q \in Requests \ {r} : pc'[q] = pc[q] /\ job'[q] = job[q]
      /\ ~doc'[c].exists /\ \A k \in Conversations \ {c} : doc'[k] = doc[k]
      /\ doc[c].exists /\ doc[c].owner = u
  BY <1>t, <1>1 DEF Types, NewJob, NoDoc, Matches
<1>q. \A k : Quiet(k)' => Quiet(k)
  <2>1. \A q \in firstUse : job'[q].conversation = job[q].conversation /\ job'[q].user = job[q].user
    BY <1>1, <1>2 DEF ForeignInv, FirstUsesBegan
  <2>2. QED
    BY <1>1, <2>1, QuietWas
<1>c. \A q \in Requests : job[q].conversation \in Conversations
  BY <1>t DEF Types, Job
<1>m. /\ \A m \in messages \cup counted : m.conversation \in Conversations /\ m.request \in Requests
      /\ \A m \in messages \cup counted : m.request # r
  BY <1>t, <1>1 DEF Types, Message, CountInv, CountedOnce, IInv, MessagesAreOfChats
<1>a. \A q \in Requests : pc'[q] \in Appending /\ job[q].conversation \notin raced' =>
         q # r /\ job[q].conversation # c
  BY <1>1, <1>2 DEF Appending
<1>3. AppendsMatch'
  <2>1. SUFFICES ASSUME NEW q \in Requests, pc'[q] \in {"insert", "touch"}, Quiet(job[q].conversation)'
                 PROVE  Matches(doc[job[q].conversation], job[q].user)'
    BY DEF AppendsMatch
  <2>2. q # r
    BY <1>2, <2>1
  <2>3. job'[q] = job[q] /\ pc[q] = pc'[q] /\ job'[q].conversation \notin raced'
    BY <1>2, <2>1, <2>2 DEF Quiet
  <2>4. job[q].conversation \in Conversations \ {c}
    BY <1>a, <1>c, <2>1, <2>3 DEF Appending
  <2>5. Quiet(job'[q].conversation)
    BY <1>q, <2>1, <2>3 DEF Quiet, Contested
  <2>6. QED
    BY <1>2, <2>1, <2>3, <2>4, <2>5 DEF CountInv, AppendsMatch, Matches
<1>4. UpsertsFind' /\ TouchesAreStored'
  BY <1>1, <1>2, <1>a, <1>c DEF CountInv, UpsertsFind, TouchesAreStored, MessageOf, Appending
<1>5. CountedOnce'
  <2>1. IsFiniteSet(counted') /\ counted' \subseteq counted
    BY <1>1, FS_Subset DEF CountInv, CountedOnce
  <2>2. \A m \in counted' : m.conversation # c
    BY <1>1
  <2>3. QED
    BY <1>2, <1>m, <2>1, <2>2 DEF CountInv, CountedOnce
<1>6. PendingAreGone'
  <2>1. c \in known
    BY <1>2 DEF CountInv, DocsAreKnown
  <2>2. QED
    BY <1>1, <1>2, <1>c, <2>1 DEF CountInv, PendingAreGone
<1>7. MessagesAreOwners'
  <2>1. SUFFICES ASSUME NEW m \in messages, Quiet(m.conversation)'
                 PROVE  (/\ \/ Matches(doc[m.conversation], m.user)
                            \/ /\ ~doc[m.conversation].exists
                               /\ \E q \in Requests : PendingOn(q, m.conversation)
                         /\ \A q \in Requests : PendingOn(q, m.conversation) => job[q].user = m.user)'
    BY <1>1 DEF MessagesAreOwners
  <2>2. /\ \/ Matches(doc[m.conversation], m.user)
           \/ /\ ~doc[m.conversation].exists
              /\ \E q \in Requests : PendingOn(q, m.conversation)
        /\ \A q \in Requests : PendingOn(q, m.conversation) => job[q].user = m.user
    BY <1>q, <2>1 DEF CountInv, MessagesAreOwners
  <2>3. \A q \in Requests \ {r} : PendingOn(q, m.conversation)' <=> PendingOn(q, m.conversation)
    BY <1>2 DEF PendingOn
  <2>4. PendingOn(r, c)' /\ (m.conversation # c => ~PendingOn(r, m.conversation)') /\ ~PendingOn(r, m.conversation)
    BY <1>1, <1>2 DEF PendingOn
  <2>5. CASE m.conversation = c
    <3>1. m.user = u
      BY <1>2, <2>2, <2>5 DEF Matches
    <3>2. QED
      BY <1>2, <2>2, <2>3, <2>4, <2>5, <3>1
  <2>6. CASE m.conversation # c
    BY <1>2, <1>m, <2>2, <2>3, <2>4, <2>6 DEF Matches
  <2>7. QED
    BY <2>5, <2>6
<1>8. CountsAreTrue'
  <2>1. SUFFICES ASSUME NEW k \in Conversations, Quiet(k)', doc'[k].exists
                 PROVE  doc'[k].count = Cardinality(CountedIn(k)')
    BY DEF CountsAreTrue
  <2>2. k # c
    BY <1>2, <2>1
  <2>3. CountedIn(k)' = CountedIn(k)
    BY <1>1, <2>2 DEF CountedIn
  <2>4. QED
    BY <1>2, <1>q, <2>1, <2>2, <2>3 DEF CountInv, CountsAreTrue
<1>9. RestIsUnderWay'
  <2>1. SUFFICES ASSUME NEW m \in messages \ counted', Quiet(m.conversation)', doc'[m.conversation].exists
                 PROVE  \/ pc'[m.request] = "touch" /\ job'[m.request].role = m.role
                        \/ pc'[m.request] = "aborted"
    BY <1>1 DEF RestIsUnderWay
  <2>2. m.conversation # c /\ m \notin counted
    BY <1>1, <1>2, <2>1
  <2>3. QED
    BY <1>2, <1>m, <1>q, <2>1, <2>2 DEF CountInv, RestIsUnderWay
<1>10. DocsAreKnown'
  BY <1>1, <1>2 DEF CountInv, DocsAreKnown
<1>11. QED
  BY <1>3, <1>4, <1>5, <1>6, <1>7, <1>8, <1>9, <1>10 DEF CountInv

LEMMA DeleteMessagesKeepsCounts ==
    ASSUME IInv, ForeignInv, CountInv, NEW r \in Requests, DeleteMessages(r)
    PROVE  CountInv'
<1> DEFINE c == job[r].conversation
<1>t. Types
  BY DEF IInv
<1>1. /\ UNCHANGED <<doc, job, known, raced, counted, firstUse>> /\ pc[r] = "delete_messages"
      /\ pc' = [pc EXCEPT ![r] = "done"] /\ messages' \subseteq messages
      /\ \A m \in messages : m \in messages' <=> ~(m.conversation = c /\ m.user = job[r].user)
  BY DEF DeleteMessages, Goto
<1>2. pc'[r] = "done" /\ \A q \in Requests \ {r} : pc'[q] = pc[q]
  BY <1>t, <1>1 DEF Types
<1>q. \A k : Quiet(k)' <=> Quiet(k)
  BY <1>1 DEF Quiet, Contested
<1>m. \A m \in messages \cup counted : m.conversation \in Conversations /\ m.request \in Requests
  BY <1>t DEF Types, Message, CountInv, CountedOnce
<1>3. AppendsMatch' /\ UpsertsFind'
  BY <1>1, <1>2, <1>q DEF CountInv, AppendsMatch, UpsertsFind
<1>4. TouchesAreStored'
  <2>1. ASSUME NEW q \in Requests, pc'[q] = "touch", job[q].conversation \notin raced
        PROVE  MessageOf(q) \in messages'
    <3>1. pc[q] = "touch" /\ MessageOf(q) \in messages
      BY <1>2, <2>1 DEF CountInv, TouchesAreStored
    <3>2. job[q].conversation # c
      BY <1>1, <2>1, <3>1 DEF ForeignInv, OverlapsAreRaced, Appending
    <3>3. MessageOf(q).conversation # c
      BY <3>2 DEF MessageOf
    <3>4. QED
      BY <1>1, <3>1, <3>3
  <2>2. \A q \in Requests : MessageOf(q)' = MessageOf(q)
    BY <1>1 DEF MessageOf
  <2>3. QED
    BY <1>1, <2>1, <2>2 DEF TouchesAreStored
<1>5. CountedOnce' /\ PendingAreGone'
  BY <1>1, <1>2, <1>m DEF CountInv, CountedOnce, PendingAreGone
<1>6. ASSUME NEW m \in messages', Quiet(m.conversation) PROVE m \in messages /\ m.conversation # c
  BY <1>1, <1>6 DEF CountInv, MessagesAreOwners, PendingOn
<1>7. MessagesAreOwners'
  <2>1. SUFFICES ASSUME NEW m \in messages', Quiet(m.conversation)
                 PROVE  (/\ \/ Matches(doc[m.conversation], m.user)
                            \/ /\ ~doc[m.conversation].exists
                               /\ \E q \in Requests : PendingOn(q, m.conversation)
                         /\ \A q \in Requests : PendingOn(q, m.conversation) => job[q].user = m.user)'
    BY <1>q DEF MessagesAreOwners
  <2>2. m \in messages /\ m.conversation # c
    BY <1>6, <2>1
  <2>3. \A q \in Requests : PendingOn(q, m.conversation)' <=> PendingOn(q, m.conversation)
    BY <1>1, <1>2, <2>2 DEF PendingOn
  <2>4. QED
    BY <1>1, <2>1, <2>2, <2>3 DEF CountInv, MessagesAreOwners
<1>8. CountsAreTrue'
  <2>1. SUFFICES ASSUME NEW k \in Conversations, Quiet(k), doc[k].exists
                 PROVE  doc[k].count = Cardinality(CountedIn(k)')
    BY <1>1, <1>q DEF CountsAreTrue
  <2>2. k # c
    BY <1>1, <2>1 DEF CountInv, PendingAreGone, Quiet
  <2>3. CountedIn(k)' = CountedIn(k)
    BY <1>1, <2>2 DEF CountedIn
  <2>4. QED
    BY <2>1, <2>3 DEF CountInv, CountsAreTrue
<1>9. RestIsUnderWay'
  BY <1>1, <1>2, <1>m, <1>q DEF CountInv, RestIsUnderWay
<1>10. DocsAreKnown'
  BY <1>1 DEF CountInv, DocsAreKnown
<1>11. QED
  BY <1>3, <1>4, <1>5, <1>7, <1>8, <1>9, <1>10 DEF CountInv

LEMMA FindKeepsCounts ==
    ASSUME IInv, ForeignInv, CountInv, NEW r \in Requests, FindConversation(r),
           ~OwnedByAnother(doc[job[r].conversation], job[r].user)
    PROVE  CountInv'
<1> DEFINE c == job[r].conversation
<1>t. Types
  BY DEF IInv
<1>1. /\ UNCHANGED <<doc, messages, known, counted>> /\ pc[r] = "find"
      /\ job' = [job EXCEPT ![r].found = doc[c]]
      /\ pc' = [pc EXCEPT ![r] = IF Matches(doc[c], job[r].user) THEN "insert" ELSE "upsert"]
      /\ firstUse \subseteq firstUse' /\ raced \subseteq raced'
      /\ (\E q \in Requests : PendingOn(q, c)) => c \in raced'
  BY DEF FindConversation, Goto, PendingOn
<1>2. /\ pc'[r] = IF Matches(doc[c], job[r].user) THEN "insert" ELSE "upsert"
      /\ \A q \in Requests \ {r} : pc'[q] = pc[q] /\ job'[q] = job[q]
      /\ job'[r].conversation = c /\ job'[r].user = job[r].user /\ job'[r].role = job[r].role
      /\ job'[r].found = doc[c]
  BY <1>t, <1>1 DEF Types, Job
<1>j. \A q \in Requests : /\ job'[q].conversation = job[q].conversation /\ job'[q].user = job[q].user
                          /\ job'[q].role = job[q].role
  BY <1>2
<1>q. \A k : Quiet(k)' => Quiet(k)
  BY <1>1, <1>j, QuietWas DEF ForeignInv, FirstUsesBegan
<1>c. \A q \in Requests : job[q].conversation \in Conversations
  BY <1>t DEF Types, Job
<1>m. \A m \in messages \cup counted : m.conversation \in Conversations /\ m.request \in Requests
  BY <1>t DEF Types, Message, CountInv, CountedOnce
<1>3. AppendsMatch'
  <2>1. SUFFICES ASSUME NEW q \in Requests, pc'[q] \in {"insert", "touch"}, Quiet(job[q].conversation)'
                 PROVE  Matches(doc[job[q].conversation], job[q].user)'
    BY DEF AppendsMatch
  <2>2. CASE q = r
    BY <1>1, <1>2, <2>1, <2>2 DEF Matches
  <2>3. CASE q # r
    <3>1. job'[q] = job[q] /\ pc[q] = pc'[q]
      BY <1>2, <2>3
    <3>2. Quiet(job'[q].conversation)
      BY <1>q, <2>1, <3>1 DEF Quiet, Contested
    <3>3. QED
      BY <1>1, <2>1, <3>1, <3>2 DEF CountInv, AppendsMatch, Matches
  <2>4. QED
    BY <2>2, <2>3
<1>4. UpsertsFind'
  <2>1. ASSUME NEW q \in Requests, pc'[q] = "upsert", job'[q].conversation \notin raced'
        PROVE  /\ job'[q].found.exists => doc'[job'[q].conversation].exists
               /\ ~job'[q].found.exists /\ doc'[job'[q].conversation].exists =>
                     doc'[job'[q].conversation].owner # Nobody
    <3>1. CASE q = r
      BY <1>1, <1>2, <3>1
    <3>2. CASE q # r
      BY <1>1, <1>2, <2>1, <3>2 DEF CountInv, UpsertsFind
    <3>3. QED
      BY <3>1, <3>2
  <2>2. QED
    BY <2>1 DEF UpsertsFind
<1>5. TouchesAreStored'
  <2>1. \A q \in Requests : MessageOf(q)' = MessageOf(q)
    BY <1>j DEF MessageOf
  <2>2. QED
    BY <1>1, <1>2, <2>1 DEF CountInv, TouchesAreStored
<1>6. CountedOnce' /\ PendingAreGone'
  <2>1. \A m \in counted : \/ pc'[m.request] = pc[m.request]
                           \/ (pc[m.request] = "find" /\ pc'[m.request] \in {"insert", "upsert"})
    <3>1. pc'[r] \in {"insert", "upsert"} /\ pc[r] = "find"
      BY <1>1, <1>2
    <3>2. ASSUME NEW m \in counted, m.request # r PROVE pc'[m.request] = pc[m.request]
      BY <1>2, <1>m, <3>2
    <3>3. QED
      BY <3>1, <3>2
  <2>2. CountedOnce'
    BY <1>1, <1>j, <1>m, <2>1 DEF CountInv, CountedOnce
  <2>3. PendingAreGone'
    BY <1>1, <1>2 DEF CountInv, PendingAreGone
  <2>4. QED
    BY <2>2, <2>3
<1>7. MessagesAreOwners'
  <2>1. \A q \in Requests, k \in Conversations : PendingOn(q, k)' <=> PendingOn(q, k)
    BY <1>1, <1>2 DEF PendingOn
  <2>2. QED
    BY <1>1, <1>j, <1>q, <1>m, <2>1 DEF CountInv, MessagesAreOwners
<1>8. CountsAreTrue'
  BY <1>1, <1>q DEF CountInv, CountsAreTrue, CountedIn
<1>9. RestIsUnderWay'
  BY <1>1, <1>2, <1>q, <1>m DEF CountInv, RestIsUnderWay
<1>10. DocsAreKnown'
  BY <1>1 DEF CountInv, DocsAreKnown
<1>11. QED
  BY <1>3, <1>4, <1>5, <1>6, <1>7, <1>8, <1>9, <1>10 DEF CountInv

\* Unless two users contend for a conversation, claiming it changes no owner there is.
LEMMA ClaimKeepsOwner ==
    ASSUME IInv, ForeignInv, CountInv, Nobody \notin Users, NEW r \in Requests, pc[r] = "upsert",
           Quiet(job[r].conversation), doc[job[r].conversation].exists,
           doc[job[r].conversation].owner # Nobody
    PROVE  doc[job[r].conversation].owner = job[r].user
<1>1. r \in firstUse /\ Explained(job[r].conversation, doc[job[r].conversation].owner)
  BY DEF ForeignInv, UpsertsAreFirstUses
<1>2. QED
  BY <1>1 DEF Explained, Quiet, Contested

LEMMA UpsertKeepsCounts ==
    ASSUME IInv, ForeignInv, CountInv, Nobody \notin Users, NEW r \in Requests, UpsertConversation(r)
    PROVE  CountInv'
<1> DEFINE c == job[r].conversation
           u == job[r].user
<1>t. Types
  BY DEF IInv
<1>1. /\ UNCHANGED <<messages, job, known, raced, counted, firstUse>> /\ pc[r] = "upsert"
      /\ pc' = [pc EXCEPT ![r] = "insert"]
  BY DEF UpsertConversation, Goto, history
<1>2. pc'[r] = "insert" /\ \A q \in Requests \ {r} : pc'[q] = pc[q]
  BY <1>t, <1>1 DEF Types
<1>c. /\ \A q \in Requests : job[q].conversation \in Conversations
      /\ u \in Users /\ c \in Conversations
      /\ \A k \in Conversations : doc[k] \in Doc
  BY <1>t DEF Types, Job
<1>d. /\ \A k \in Conversations \ {c} : doc'[k] = doc[k]
      /\ ~job[r].found.exists /\ ~doc[c].exists =>
            doc'[c].exists /\ doc'[c].owner = u /\ doc'[c].count = 0
      /\ ~job[r].found.exists /\ doc[c].exists => doc'[c] = doc[c]
      /\ job[r].found.exists /\ doc[c].exists =>
            doc'[c].exists /\ doc'[c].owner = u /\ doc'[c].count = doc[c].count
      /\ job[r].found.exists /\ ~doc[c].exists => doc'[c] = doc[c]
  <2>1. doc[c] \in Doc
    BY <1>c
  <2>2. QED
    BY <1>t, <1>c, <2>1 DEF UpsertConversation, Types, NewDoc, Doc
<1>q. \A k : Quiet(k)' <=> Quiet(k)
  BY <1>1 DEF Quiet, Contested
<1>m. \A m \in messages \cup counted : /\ m.conversation \in Conversations /\ m.request \in Requests
                                       /\ m.user \in Users
  BY <1>t DEF Types, Message, CountInv, CountedOnce
<1>r. c \notin raced => \A q \in Requests : ~PendingOn(q, c)
  BY <1>1 DEF ForeignInv, OverlapsAreRaced, PendingOn, Appending
\* The conversation has its document now, with the owner it had.
<1>3. ASSUME Quiet(c)
      PROVE  /\ doc'[c].exists /\ doc'[c].owner = u
             /\ doc[c].exists => doc'[c].count = doc[c].count
             /\ doc[c].exists /\ doc[c].owner # Nobody => doc[c].owner = u
             /\ ~doc[c].exists => doc'[c].count = 0
  <2>1. job[r].found.exists => doc[c].exists
    BY <1>1, <1>3 DEF CountInv, UpsertsFind, Quiet
  <2>2. ~job[r].found.exists /\ doc[c].exists => doc[c].owner # Nobody
    BY <1>1, <1>3 DEF CountInv, UpsertsFind, Quiet
  <2>3. doc[c].exists /\ doc[c].owner # Nobody => doc[c].owner = u
    BY <1>1, <1>3, ClaimKeepsOwner
  <2>4. QED
    BY <1>d, <2>1, <2>2, <2>3
<1>4. AppendsMatch'
  <2>1. SUFFICES ASSUME NEW q \in Requests, pc'[q] \in {"insert", "touch"}, Quiet(job[q].conversation)
                 PROVE  Matches(doc'[job[q].conversation], job[q].user)
    BY <1>1, <1>q DEF AppendsMatch
  <2>2. CASE q = r
    BY <1>3, <2>1, <2>2 DEF Matches
  <2>3. CASE q # r
    <3>1. Matches(doc[job[q].conversation], job[q].user) /\ job[q].user \in Users
      BY <1>t, <1>2, <2>1, <2>3 DEF CountInv, AppendsMatch, Types, Job
    <3>2. CASE job[q].conversation = c
      BY <1>3, <2>1, <3>1, <3>2 DEF Matches
    <3>3. CASE job[q].conversation # c
      BY <1>c, <1>d, <3>1, <3>3
    <3>4. QED
      BY <3>2, <3>3
  <2>4. QED
    BY <2>2, <2>3
<1>5. UpsertsFind'
  <2>1. ASSUME NEW q \in Requests, pc'[q] = "upsert", job[q].conversation \notin raced
        PROVE  /\ job[q].found.exists => doc'[job[q].conversation].exists
               /\ ~job[q].found.exists /\ doc'[job[q].conversation].exists =>
                     doc'[job[q].conversation].owner # Nobody
    <3>1. /\ job[q].found.exists => doc[job[q].conversation].exists
          /\ ~job[q].found.exists /\ doc[job[q].conversation].exists =>
                doc[job[q].conversation].owner # Nobody
      BY <1>2, <2>1 DEF CountInv, UpsertsFind
    <3>2. CASE job[q].conversation = c
      BY <1>c, <1>d, <3>1, <3>2
    <3>3. CASE job[q].conversation # c
      BY <1>c, <1>d, <3>1, <3>3
    <3>4. QED
      BY <3>2, <3>3
  <2>2. QED
    BY <1>1, <2>1 DEF UpsertsFind
<1>e. \A k \in Conversations : doc[k].exists => doc'[k].exists
  BY <1>d
<1>6. TouchesAreStored' /\ CountedOnce'
  <2>1. TouchesAreStored'
    BY <1>1, <1>2 DEF CountInv, TouchesAreStored, MessageOf
  <2>2. \A m \in counted : pc'[m.request] = pc[m.request] \/ (pc[m.request] = "upsert" /\ pc'[m.request] = "insert")
    BY <1>1, <1>2, <1>m
  <2>3. CountedOnce'
    BY <1>1, <1>e, <1>m, <2>2 DEF CountInv, CountedOnce
  <2>4. QED
    BY <2>1, <2>3
<1>7. PendingAreGone'
  <2>1. ASSUME NEW q \in Requests, pc'[q] = "delete_messages"
        PROVE  /\ job[q].conversation \in known
               /\ job[q].conversation \notin raced => ~doc'[job[q].conversation].exists
    <3>1. q # r /\ pc[q] = "delete_messages"
      BY <1>2, <2>1
    <3>2. job[q].conversation \notin raced => job[q].conversation # c
      BY <1>r, <3>1 DEF PendingOn
    <3>3. QED
      BY <1>c, <1>d, <3>1, <3>2 DEF CountInv, PendingAreGone
  <2>2. QED
    BY <1>1, <2>1 DEF PendingAreGone
<1>8. MessagesAreOwners'
  <2>1. SUFFICES ASSUME NEW m \in messages, Quiet(m.conversation)
                 PROVE  (/\ \/ Matches(doc[m.conversation], m.user)
                            \/ /\ ~doc[m.conversation].exists
                               /\ \E q \in Requests : PendingOn(q, m.conversation)
                         /\ \A q \in Requests : PendingOn(q, m.conversation) => job[q].user = m.user)'
    BY <1>1, <1>q DEF MessagesAreOwners
  <2>2. /\ \/ Matches(doc[m.conversation], m.user)
           \/ /\ ~doc[m.conversation].exists
              /\ \E q \in Requests : PendingOn(q, m.conversation)
        /\ \A q \in Requests : PendingOn(q, m.conversation) => job[q].user = m.user
    BY <2>1 DEF CountInv, MessagesAreOwners
  <2>3. \A q \in Requests : PendingOn(q, m.conversation)' <=> PendingOn(q, m.conversation)
    BY <1>1, <1>2 DEF PendingOn
  <2>4. CASE m.conversation = c
    <3>1. Matches(doc[c], m.user) /\ m.user # Nobody
      BY <1>m, <1>r, <2>1, <2>2, <2>4 DEF Quiet
    <3>2. Matches(doc'[c], m.user)
      BY <1>3, <2>1, <2>4, <3>1 DEF Matches
    <3>3. QED
      BY <1>1, <2>2, <2>3, <2>4, <3>2
  <2>5. CASE m.conversation # c
    BY <1>1, <1>d, <1>m, <2>2, <2>3, <2>5
  <2>6. QED
    BY <2>4, <2>5
<1>9. CountsAreTrue'
  <2>1. SUFFICES ASSUME NEW k \in Conversations, Quiet(k), doc'[k].exists
                 PROVE  doc'[k].count = Cardinality(CountedIn(k))
    BY <1>1, <1>q DEF CountsAreTrue, CountedIn
  <2>2. CASE k # c \/ doc[k].exists
    BY <1>3, <1>d, <2>1, <2>2 DEF CountInv, CountsAreTrue
  <2>3. CASE k = c /\ ~doc[k].exists
    <3>1. CountedIn(c) = {}
      BY <2>3 DEF CountInv, CountedOnce, CountedIn
    <3>2. QED
      BY <1>3, <2>1, <2>3, <3>1, FS_EmptySet
  <2>4. QED
    BY <2>2, <2>3
<1>10. RestIsUnderWay'
  <2>1. SUFFICES ASSUME NEW m \in messages \ counted, Quiet(m.conversation), doc'[m.conversation].exists
                 PROVE  \/ pc'[m.request] = "touch" /\ job[m.request].role = m.role
                        \/ pc'[m.request] = "aborted"
    BY <1>1, <1>q DEF RestIsUnderWay
  <2>2. doc[m.conversation].exists
    <3>1. CASE m.conversation = c
      BY <1>r, <2>1, <3>1 DEF CountInv, MessagesAreOwners, Quiet, Matches
    <3>2. CASE m.conversation # c
      BY <1>d, <1>m, <2>1, <3>2
    <3>3. QED
      BY <3>1, <3>2
  <2>3. QED
    BY <1>1, <1>2, <1>m, <2>1, <2>2 DEF CountInv, RestIsUnderWay
<1>11. DocsAreKnown'
  <2>1. c \in known
    BY <1>1 DEF IInv, TitlesAreSafe, Chatting, Busy, Appending
  <2>2. QED
    BY <1>1, <1>d, <2>1 DEF CountInv, DocsAreKnown
<1>12. QED
  BY <1>4, <1>5, <1>6, <1>7, <1>8, <1>9, <1>10, <1>11 DEF CountInv

LEMMA InsertKeepsCounts ==
    ASSUME IInv, ForeignInv, CountInv, NEW r \in Requests, InsertMessage(r)
    PROVE  CountInv'
<1> DEFINE c == job[r].conversation
           new == MessageOf(r)
<1>t. Types
  BY DEF IInv
<1>1. /\ UNCHANGED <<doc, job, known, raced, counted, firstUse>> /\ pc[r] = "insert"
      /\ pc' = [pc EXCEPT ![r] = "touch"] /\ messages' = messages \cup {new}
  BY DEF InsertMessage, Goto, history
<1>2. pc'[r] = "touch" /\ \A q \in Requests \ {r} : pc'[q] = pc[q]
  BY <1>t, <1>1 DEF Types
<1>n. /\ new.conversation = c /\ new.user = job[r].user /\ new.role = job[r].role /\ new.request = r
      /\ c \in Conversations /\ job[r].role \in {"user", "assistant"}
  BY <1>t DEF MessageOf, Types, Job
<1>q. \A k : Quiet(k)' <=> Quiet(k)
  BY <1>1 DEF Quiet, Contested
<1>m. \A m \in messages \cup counted : m.conversation \in Conversations /\ m.request \in Requests
  BY <1>t DEF Types, Message, CountInv, CountedOnce
<1>k. new \notin counted
  BY <1>1, <1>n DEF CountInv, CountedOnce
<1> HIDE DEF new
<1>3. AppendsMatch' /\ UpsertsFind'
  BY <1>1, <1>2, <1>q DEF CountInv, AppendsMatch, UpsertsFind
<1>4. TouchesAreStored'
  <2>1. \A q \in Requests : MessageOf(q)' = MessageOf(q)
    BY <1>1 DEF MessageOf
  <2>2. QED
    BY <1>1, <1>2, <2>1 DEF CountInv, TouchesAreStored, new
<1>5. CountedOnce' /\ PendingAreGone'
  <2>1. \A m \in counted : pc'[m.request] = pc[m.request] \/ (pc[m.request] = "insert" /\ pc'[m.request] = "touch")
    BY <1>1, <1>2, <1>m
  <2>2. CountedOnce'
    BY <1>1, <1>m, <2>1 DEF CountInv, CountedOnce
  <2>3. PendingAreGone'
    BY <1>1, <1>2 DEF CountInv, PendingAreGone
  <2>4. QED
    BY <2>2, <2>3
<1>6. MessagesAreOwners'
  <2>1. \A q \in Requests, k \in Conversations : PendingOn(q, k)' <=> PendingOn(q, k)
    BY <1>1, <1>2 DEF PendingOn
  <2>2. ASSUME Quiet(c)
        PROVE  Matches(doc[c], new.user) /\ \A q \in Requests : ~PendingOn(q, c)
    BY <1>1, <1>n, <2>2 DEF CountInv, AppendsMatch, ForeignInv, OverlapsAreRaced, PendingOn, Quiet, Appending
  <2>3. QED
    BY <1>1, <1>q, <1>m, <1>n, <2>1, <2>2 DEF CountInv, MessagesAreOwners
<1>7. CountsAreTrue'
  <2>1. \A k : CountedIn(k)' = CountedIn(k)
    BY <1>1, <1>k DEF CountedIn
  <2>2. QED
    BY <1>1, <1>q, <2>1 DEF CountInv, CountsAreTrue
<1>8. RestIsUnderWay'
  <2>1. SUFFICES ASSUME NEW m \in messages' \ counted, Quiet(m.conversation), doc[m.conversation].exists
                 PROVE  \/ pc'[m.request] = "touch" /\ job[m.request].role = m.role
                        \/ pc'[m.request] = "aborted"
    BY <1>1, <1>q DEF RestIsUnderWay
  <2>2. CASE m = new
    BY <1>2, <1>n, <2>2
  <2>3. CASE m \in messages
    <3>1. \/ pc[m.request] = "touch" /\ job[m.request].role = m.role
          \/ pc[m.request] = "aborted"
      BY <2>1, <2>3 DEF CountInv, RestIsUnderWay
    <3>2. QED
      BY <1>1, <1>2, <1>m, <2>3, <3>1
  <2>4. QED
    BY <1>1, <2>1, <2>2, <2>3
<1>9. DocsAreKnown'
  BY <1>1 DEF CountInv, DocsAreKnown
<1>10. QED
  BY <1>3, <1>4, <1>5, <1>6, <1>7, <1>8, <1>9 DEF CountInv

LEMMA TouchKeepsCounts ==
    ASSUME IInv, ForeignInv, CountInv, NEW r \in Requests, TouchConversation(r)
    PROVE  CountInv'
<1> DEFINE c == job[r].conversation
           new == MessageOf(r)
           added == Matches(doc[c], job[r].user)
<1>t. Types
  BY DEF IInv
<1>1. /\ UNCHANGED <<messages, job, known, raced, firstUse>> /\ pc[r] = "touch"
      /\ pc' = [pc EXCEPT ![r] = IF job[r].role = "user" THEN "title_find" ELSE "done"]
      /\ added => doc' = [doc EXCEPT ![c].count = @ + 1] /\ counted' = counted \cup {new}
      /\ ~added => doc' = doc /\ counted' = counted
  BY DEF TouchConversation, Goto
<1>2. /\ pc'[r] = IF job[r].role = "user" THEN "title_find" ELSE "done"
      /\ \A q \in Requests \ {r} : pc'[q] = pc[q]
  BY <1>t, <1>1 DEF Types
<1>n. /\ new.conversation = c /\ new.user = job[r].user /\ new.role = job[r].role /\ new.request = r
      /\ c \in Conversations /\ new \in Message
  BY <1>t DEF MessageOf, Types, Job, Message
<1>d. \A k \in Conversations :
         /\ doc'[k].exists = doc[k].exists /\ doc'[k].owner = doc[k].owner
         /\ doc'[k].count = IF k = c /\ added THEN doc[k].count + 1 ELSE doc[k].count
  <2>1. \A k \in Conversations : doc[k] \in Doc
    BY <1>t DEF Types
  <2>2. QED
    BY <1>t, <1>1, <1>n, <2>1 DEF Types, Doc
<1>q. \A k : Quiet(k)' <=> Quiet(k)
  BY <1>1 DEF Quiet, Contested
<1>m. \A m \in messages \cup counted : m.conversation \in Conversations /\ m.request \in Requests
  BY <1>t DEF Types, Message, CountInv, CountedOnce
<1>k. new \notin counted
  BY <1>1, <1>n DEF CountInv, CountedOnce
<1>a. Quiet(c) => added /\ new \in messages
  BY <1>1 DEF CountInv, AppendsMatch, TouchesAreStored, Quiet
<1> HIDE DEF new, added
<1>3. AppendsMatch'
  BY <1>1, <1>2, <1>d, <1>q, <1>t DEF CountInv, AppendsMatch, Matches, Types, Job
<1>4. UpsertsFind' /\ TouchesAreStored'
  <2>1. \A q \in Requests : MessageOf(q)' = MessageOf(q)
    BY <1>1 DEF MessageOf
  <2>2. \A q \in Requests : job[q].conversation \in Conversations
    BY <1>t DEF Types, Job
  <2>3. QED
    BY <1>1, <1>2, <1>d, <2>1, <2>2 DEF CountInv, UpsertsFind, TouchesAreStored
<1>5. CountedOnce'
  <2>1. counted' \subseteq Message /\ IsFiniteSet(counted')
    BY <1>1, <1>n, FS_AddElement DEF CountInv, CountedOnce
  <2>2. ASSUME NEW m \in counted'
        PROVE  /\ doc'[m.conversation].exists /\ pc'[m.request] # "idle"
               /\ pc'[m.request] \in {"find", "upsert", "insert", "touch"} => job[m.request].role = "assistant"
               /\ pc'[m.request] \in {"find", "upsert", "insert", "touch", "title_find", "title_set", "answering"}
                     => m.role = "user"
    <3>1. CASE m \in counted /\ m.request # r
      BY <1>2, <1>d, <1>m, <3>1 DEF CountInv, CountedOnce
    <3>2. CASE m \in counted /\ m.request = r
      <4>1. job[r].role = "assistant" /\ doc[m.conversation].exists
        BY <1>1, <3>2 DEF CountInv, CountedOnce
      <4>2. QED
        BY <1>2, <1>d, <1>m, <3>2, <4>1
    <3>3. CASE m = new /\ added
      <4>1. doc[c].exists
        BY <3>3 DEF added, Matches
      <4>2. QED
        BY <1>2, <1>d, <1>n, <3>3, <4>1
    <3>4. QED
      BY <1>1, <2>2, <3>1, <3>2, <3>3
  <2>3. QED
    BY <1>1, <2>1, <2>2 DEF CountedOnce
<1>6. PendingAreGone'
  <2>1. \A q \in Requests : job[q].conversation \in Conversations
    BY <1>t DEF Types, Job
  <2>2. QED
    BY <1>1, <1>2, <1>d, <2>1 DEF CountInv, PendingAreGone
<1>7. MessagesAreOwners'
  <2>1. \A q \in Requests, k \in Conversations : PendingOn(q, k)' <=> PendingOn(q, k)
    BY <1>1, <1>2 DEF PendingOn
  <2>2. QED
    BY <1>1, <1>d, <1>q, <1>m, <2>1 DEF CountInv, MessagesAreOwners, Matches
<1>8. CountsAreTrue'
  <2>1. SUFFICES ASSUME NEW k \in Conversations, Quiet(k), doc[k].exists
                 PROVE  doc'[k].count = Cardinality(CountedIn(k)')
    BY <1>d, <1>q DEF CountsAreTrue
  <2>2. doc[k].count = Cardinality(CountedIn(k))
    BY <2>1 DEF CountInv, CountsAreTrue
  <2>3. CASE k = c
    <3>1. CountedIn(k)' = CountedIn(k) \cup {new}
      BY <1>1, <1>a, <1>n, <2>1, <2>3 DEF CountedIn
    <3>2. new \notin CountedIn(k)
      BY <1>k DEF CountedIn
    <3>3. IsFiniteSet(CountedIn(k))
      <4>1. CountedIn(k) \subseteq counted
        BY DEF CountedIn
      <4>2. QED
        BY <4>1, FS_Subset DEF CountInv, CountedOnce
    <3>4. Cardinality(CountedIn(k)') = Cardinality(CountedIn(k)) + 1
      BY <3>1, <3>2, <3>3, FS_AddElement
    <3>5. QED
      BY <1>a, <1>d, <2>1, <2>2, <2>3, <3>4
  <2>4. CASE k # c
    <3>1. CountedIn(k)' = CountedIn(k)
      BY <1>1, <1>n, <2>4 DEF CountedIn
    <3>2. QED
      BY <1>d, <2>2, <2>4, <3>1
  <2>5. QED
    BY <2>3, <2>4
<1>9. RestIsUnderWay'
  <2>1. SUFFICES ASSUME NEW m \in messages \ counted', Quiet(m.conversation), doc[m.conversation].exists
                 PROVE  \/ pc'[m.request] = "touch" /\ job[m.request].role = m.role
                        \/ pc'[m.request] = "aborted"
    BY <1>1, <1>d, <1>m, <1>q DEF RestIsUnderWay
  <2>2. \/ pc[m.request] = "touch" /\ job[m.request].role = m.role
        \/ pc[m.request] = "aborted"
    BY <1>1, <2>1 DEF CountInv, RestIsUnderWay
  <2>3. CASE m.request # r
    BY <1>2, <1>m, <2>2, <2>3
  <2>4. CASE m.request = r
    <3>1. /\ m.conversation = c /\ m.user = job[r].user /\ m.role = job[r].role
          /\ m \in Message
      BY <1>1, <1>t, <2>2, <2>4 DEF IInv, MessagesAreOfChats, Types
    <3>2. m = new
      BY <2>4, <3>1, <1>n DEF Message
    <3>3. QED
      BY <1>1, <1>a, <2>1, <3>1, <3>2
  <2>5. QED
    BY <2>3, <2>4
<1>10. DocsAreKnown'
  BY <1>1, <1>d DEF CountInv, DocsAreKnown
<1>11. QED
  BY <1>3, <1>4, <1>5, <1>6, <1>7, <1>8, <1>9, <1>10 DEF CountInv

\* The other steps leave documents' owners and counts, and messages, alone.
LEMMA OthersKeepCounts ==
    ASSUME IInv, ForeignInv, CountInv, NEW r \in Requests,
           \/ \E c \in Conversations, u \in Users :
                 \/ StartChat(r, c, u) \/ RenameConversation(r, c, u)
                 \/ DeleteConversation(r, c, u) /\ ~Matches(doc[c], u)
           \/ FindConversation(r) /\ OwnedByAnother(doc[job[r].conversation], job[r].user)
           \/ FindTitle(r) \/ SetTitle(r) \/ Answer(r) \/ Abort(r)
    PROVE  CountInv'
<1>t. Types
  BY DEF IInv
<1>d. \A c \in Conversations : doc[c] \in Doc
  BY <1>t DEF Types
<1>c. job[r] \in Job /\ job[r].conversation \in Conversations
  BY <1>t DEF Types, Job
\* What is counted of an idle request, and of one that has counted its prompt.
<1>i. pc[r] = "idle" => \A m \in counted : m.request # r
  BY DEF CountInv, CountedOnce
<1>p. pc[r] \in {"title_find", "title_set", "answering"} => \A m \in counted : m.request = r => m.role = "user"
  BY DEF CountInv, CountedOnce
<1>1. ASSUME NEW c \in Conversations, NEW u \in Users, StartChat(r, c, u) PROVE CountInv'
  <2>1. /\ pc[r] = "idle" /\ pc' = [pc EXCEPT ![r] = "find"]
        /\ job' = [job EXCEPT ![r] = NewJob(c, u)]
        /\ UNCHANGED <<doc, messages, counted, raced, firstUse>> /\ known \subseteq known'
    BY <1>1 DEF StartChat, Goto
  <2>2. \A q \in Requests \ {r} : job'[q] = job[q]
    BY <1>t, <2>1 DEF Types
  <2>3. QED
    BY ZenonT(60), <1>i, <2>1, <2>2, CountStep DEF Steps, Appending, DocsAreSame
<1>2. ASSUME NEW c \in Conversations, NEW u \in Users, RenameConversation(r, c, u) PROVE CountInv'
  <2>1. PICK step \in {"done", "missing"} : pc' = [pc EXCEPT ![r] = step]
    BY <1>2 DEF RenameConversation, Goto
  <2>2. pc[r] = "idle" /\ UNCHANGED <<messages, job, known, counted, raced, firstUse>>
    BY <1>2 DEF RenameConversation
  <2>3. DocsAreSame
    BY <1>t, <1>d, <1>2 DEF RenameConversation, Types, Doc, DocsAreSame
  <2>4. QED
    BY <1>i, <2>1, <2>2, <2>3, CountStep DEF Steps, Appending
<1>3. ASSUME NEW c \in Conversations, NEW u \in Users,
             DeleteConversation(r, c, u), ~Matches(doc[c], u)
      PROVE  CountInv'
  <2>1. /\ pc[r] = "idle" /\ pc' = [pc EXCEPT ![r] = "missing"]
        /\ UNCHANGED <<doc, messages, job, known, counted, raced, firstUse>>
    BY <1>3 DEF DeleteConversation, Goto
  <2>2. QED
    BY <1>i, <2>1, CountStep DEF Steps, Appending, DocsAreSame
<1>4. ASSUME FindConversation(r), OwnedByAnother(doc[job[r].conversation], job[r].user) PROVE CountInv'
  <2>1. /\ pc[r] = "find" /\ pc' = [pc EXCEPT ![r] = "denied"]
        /\ UNCHANGED <<doc, messages, known, counted>>
        /\ raced \subseteq raced' /\ firstUse \subseteq firstUse'
        /\ job' = [job EXCEPT ![r].found = doc[job[r].conversation]]
    BY <1>4 DEF FindConversation, Goto
  <2>2. /\ \A q \in Requests \ {r} : job'[q] = job[q]
        /\ job'[r].conversation = job[r].conversation /\ job'[r].user = job[r].user
    BY <1>t, <1>c, <2>1 DEF Types, Job
  <2>3. "denied" \in Steps \ {"idle", "insert", "upsert", "touch", "delete_messages"}
    BY DEF Steps
  <2>4. DocsAreSame
    BY <2>1 DEF DocsAreSame
  <2>5. pc[r] # "idle" /\ pc[r] # "aborted" /\ pc[r] # "touch" /\ pc[r] # "delete_messages"
    BY <2>1
  <2>6. "denied" \notin {"find", "title_find", "title_set", "answering"}
    OBVIOUS
  <2>7. QED
    BY <2>1, <2>2, <2>3, <2>4, <2>5, <2>6, CountStep
<1>5. ASSUME FindTitle(r) \/ SetTitle(r) PROVE CountInv'
  <2>1. PICK step \in {"title_set", "answering"} : pc' = [pc EXCEPT ![r] = step]
    BY <1>5 DEF FindTitle, SetTitle, Goto
  <2>2. /\ pc[r] \in {"title_find", "title_set"}
        /\ UNCHANGED <<messages, job, known, counted, raced, firstUse>>
    BY <1>5 DEF FindTitle, SetTitle, history
  <2>3. DocsAreSame
    BY <1>t, <1>c, <1>d, <1>5 DEF FindTitle, SetTitle, Types, Doc, DocsAreSame
  <2>4. QED
    BY ZenonT(60), <1>p, <2>1, <2>2, <2>3, CountStep DEF Steps, Appending
<1>6. ASSUME Answer(r) PROVE CountInv'
  <2>1. PICK step \in {"find", "done"} : /\ pc' = [pc EXCEPT ![r] = step]
                                         /\ step = "find" => job' = [job EXCEPT ![r].role = "assistant"]
                                         /\ step = "done" => job' = job
    BY <1>6 DEF Answer, Goto
  <2>2. pc[r] = "answering" /\ UNCHANGED <<doc, messages, known, counted, raced, firstUse>>
    BY <1>6 DEF Answer, history
  <2>3. /\ \A q \in Requests \ {r} : job'[q] = job[q]
        /\ job'[r].conversation = job[r].conversation /\ job'[r].user = job[r].user
        /\ step = "find" => job'[r].role = "assistant"
    BY <1>t, <1>c, <2>1 DEF Types, Job
  <2>4. QED
    BY ZenonT(60), <1>p, <2>1, <2>2, <2>3, CountStep DEF Steps, Appending, DocsAreSame
<1>7. ASSUME Abort(r) PROVE CountInv'
  <2>1. /\ pc[r] \notin {"idle", "aborted"} /\ pc' = [pc EXCEPT ![r] = "aborted"]
        /\ UNCHANGED <<doc, messages, job, known, counted, firstUse>> /\ raced \subseteq raced'
        /\ pc[r] = "delete_messages" => job[r].conversation \in raced'
    BY <1>7 DEF Abort, Goto, Busy, Appending
  <2>2. "aborted" \in Steps \ {"idle", "insert", "upsert", "touch", "delete_messages"}
    BY DEF Steps
  <2>3. DocsAreSame
    BY <2>1 DEF DocsAreSame
  <2>4. "aborted" \notin {"find", "title_find", "title_set", "answering"}
    OBVIOUS
  <2>5. QED
    BY <2>1, <2>2, <2>3, <2>4, CountStep
<1>8. QED
  BY <1>1, <1>2, <1>3, <1>4, <1>5, <1>6, <1>7

\* Every step of the specification keeps it.
LEMMA CountInvStep ==
    ASSUME Nobody \notin Users, IInv, ForeignInv, CountInv, [Next]_vars PROVE CountInv'
<1>1. ASSUME NEW c \in Conversations, NEW u \in Users, NEW title \in {"default", "chosen"},
             CreateConversation(c, u, title)
      PROVE  CountInv'
  BY <1>1, CreateKeepsCounts
<1>2. ASSUME NEW c \in Conversations, NEW u \in Users, NEW r \in Requests,
             StartChat(r, c, u) \/ RenameConversation(r, c, u) \/ DeleteConversation(r, c, u)
      PROVE  CountInv'
  BY <1>2, DeleteKeepsCounts, OthersKeepCounts
<1>3. ASSUME NEW r \in Requests, FindConversation(r) PROVE CountInv'
  BY <1>3, FindKeepsCounts, OthersKeepCounts
<1>4. ASSUME NEW r \in Requests,
             \/ UpsertConversation(r) \/ InsertMessage(r) \/ TouchConversation(r) \/ DeleteMessages(r)
      PROVE  CountInv'
  BY <1>4, UpsertKeepsCounts, InsertKeepsCounts, TouchKeepsCounts, DeleteMessagesKeepsCounts
<1>5. ASSUME NEW r \in Requests, FindTitle(r) \/ SetTitle(r) \/ Answer(r) \/ Abort(r) PROVE CountInv'
  BY <1>5, OthersKeepCounts
<1>6. CASE UNCHANGED vars
  BY <1>6 DEF vars, history, CountInv, AppendsMatch, UpsertsFind, TouchesAreStored, CountedOnce,
              PendingAreGone, MessagesAreOwners, CountsAreTrue, RestIsUnderWay, DocsAreKnown, Quiet,
              Contested, PendingOn, MessageOf, CountedIn
<1>7. QED
  BY <1>1, <1>2, <1>3, <1>4, <1>5, <1>6 DEF Next

LEMMA CountInvAlways == ASSUME Parameters, OwnedByUsers, FreshDocs PROVE Spec => []CountInv
<1>1. Init => CountInv
  BY CountInit
<1>2. IInv /\ ForeignInv /\ CountInv /\ [Next]_vars => CountInv'
  BY CountInvStep DEF OwnedByUsers
<1>3. QED
  BY <1>1, <1>2, IInvAlways, ForeignInvAlways, PTL DEF Spec

LEMMA CountsFollow == ASSUME IInv, CountInv PROVE CountsAndDeletionsHold
<1>1. TypeOK
  BY DEF IInv, Types, TypeOK, Steps, CountInv, CountedOnce
<1>2. ASSUME NEW c \in Conversations \ raced, doc[c].exists, ~Contested(c),
             NEW mine, mine = {m \in messages : m.conversation = c /\ m.user = doc[c].owner}
      PROVE  /\ doc[c].count = Cardinality(counted \cap mine)
             /\ \A m \in mine \ counted :
                   \/ pc[m.request] = "touch" /\ job[m.request].role = m.role
                   \/ pc[m.request] = "aborted"
  <2>1. Quiet(c)
    BY <1>2 DEF Quiet
  <2>2. \A m \in messages : m.conversation = c => m.user = doc[c].owner
    BY <1>2, <2>1 DEF CountInv, MessagesAreOwners, Matches
  <2>3. counted \cap mine = CountedIn(c)
    BY <1>2, <2>2 DEF CountedIn
  <2>4. QED
    BY <1>2, <2>1, <2>3 DEF CountInv, CountsAreTrue, RestIsUnderWay
<1>3. CountMatchesMessages
  BY <1>2 DEF CountMatchesMessages
<1>4. DeletedWithItsMessages
  BY DEF CountInv, MessagesAreOwners, DeletedWithItsMessages, Quiet, Matches, PendingOn
<1>5. QED
  BY <1>1, <1>3, <1>4 DEF CountsAndDeletionsHold

\* A conversation's document agrees with the messages stored, however prompts,
\* replies and deletions overlap: it counts them, and they go with it.
THEOREM CountsAndDeletionsAlwaysHold ==
    ASSUME Parameters, OwnedByUsers, FreshDocs PROVE Spec => []CountsAndDeletionsHold
<1>1. IInv /\ CountInv => CountsAndDeletionsHold
  BY CountsFollow
<1>2. QED
  BY <1>1, IInvAlways, CountInvAlways, PTL

=============================================================================
