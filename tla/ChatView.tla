------------------------------ MODULE ChatView ------------------------------
(***************************************************************************)
(* The chat page of the client (hooks/useChat.ts with the components that  *)
(* show its state): the list of conversations, the details fetched when    *)
(* one becomes active, and the sends whose answers are streamed into it.   *)
(*                                                                         *)
(* Everything runs in one browser tab. A step is what runs between two     *)
(* awaits: an input of the user, an answer of the network, or the effects  *)
(* React runs after a render. A turn is one use of send: a prompt and its  *)
(* answer. Texts, titles and times are left out, and with them the order   *)
(* of events within a stream (ChatStream has it).                          *)
(***************************************************************************)
EXTENDS Integers, Sequences, FiniteSets, SequencesExt

CONSTANTS
    Turns,          \* uses of send
    Existing,       \* conversations stored before the page opens
    New,            \* conversations the server may create
    OldTurn,        \* the turn stored in each existing conversation
    None,
    Waiting         \* a request for the list that is not answered yet

\* None and Waiting are nothing else, a stored turn is not one of those sent, and
\* the conversations are finitely many.
ASSUME ConstantsAssumption ==
    /\ IsFiniteSet(Existing) /\ IsFiniteSet(New)
    /\ None \notin Existing \cup New \cup Turns \cup {Waiting}
    /\ \A shown \in SUBSET (Turns \cup {OldTurn}) : None # shown
    /\ \A listed \in SUBSET (Existing \cup New) : None # listed /\ Waiting # listed
    /\ OldTurn \notin Turns

Conversations == Existing \cup New
AllTurns == Turns \cup {OldTurn}

VARIABLES
    conversations,  \* what the sidebar lists: a sequence of ids
    activeId,
    isTyping,
    abortRef,       \* the turn whose controller abortRef holds
    loaded,         \* loadedConversationIdsRef
    loading,        \* loadingConversationIdsRef
    messages,       \* the turns shown in a conversation
    effectDue,      \* activeId changed and its effects have not run yet
    listFetch,      \* the list's request: waiting, answered with ids, or over
    fetches,        \* requests for details, with the stored turns once answered
    creating,       \* the new-chat button's request is under way
    change,         \* the rename or deletion asked for; bound: one in a behaviour
    phase,          \* where a turn is
    conversationOf, \* a turn's conversation
    aborted,        \* turns whose controller was aborted
    stored,         \* the server: stored turns of a conversation, or None
    \* history variables, read by no guard of the code
    overtaken,      \* conversations a turn was sent in before their details came
    disturbed,      \* turns that ran while another one ended
    removed         \* conversations the user deleted

hookVars == <<conversations, activeId, isTyping, abortRef, loaded, loading, messages>>
networkVars == <<listFetch, fetches, creating, change, stored>>
turnVars == <<phase, conversationOf, aborted>>
history == <<overtaken, disturbed, removed>>
vars == <<hookVars, effectDue, networkVars, turnVars, history>>

Listed(c) == Contains(conversations, c)

\* A turn whose stream is under way.
Running(t) == phase[t] \in {"fetching", "reading"}

Activate(c) ==
    /\ activeId' = c
    /\ effectDue' = (effectDue \/ c # activeId)

NoChange == [kind |-> "none", conversation |-> None, step |-> "none"]

\* updateConversation: what it updates moves to the front; an id that is not
\* listed is ignored.
UpdateConversation(c) ==
    conversations' = IF Listed(c) THEN <<c>> \o RemoveFirst(conversations, c) ELSE conversations

-----------------------------------------------------------------------------
(* The list and its details                                                *)

\* The server answers the request for the list.
AnswerList ==
    /\ listFetch = Waiting
    /\ listFetch' = {c \in Conversations : stored[c] # None}
    /\ UNCHANGED <<hookVars, effectDue, fetches, creating, change, stored, turnVars, history>>

\* The answer replaces the list. Messages of a conversation that was listed
\* already are kept; one created after the answer is not in it.
MergeConversationSummaries ==
    /\ listFetch \notin {Waiting, None}
    /\ conversations' = SetToSeq(listFetch)
    /\ messages' = [c \in Conversations |->
                        IF Listed(c) /\ c \in listFetch THEN messages[c] ELSE {}]
    /\ listFetch' = None
    /\ UNCHANGED <<activeId, isTyping, abortRef, loaded, loading, effectDue,
                   fetches, creating, change, stored, turnVars, history>>

ListFails ==
    /\ listFetch # None
    /\ listFetch' = None
    /\ conversations' = <<>>
    /\ messages' = [c \in Conversations |-> {}]
    /\ UNCHANGED <<activeId, isTyping, abortRef, loaded, loading, effectDue,
                   fetches, creating, change, stored, turnVars, history>>

\* The effect that keeps a listed conversation active.
FollowList ==
    /\ ~Listed(activeId)
    /\ activeId' = IF conversations = <<>> THEN None ELSE Head(conversations)
    /\ activeId' # activeId
    /\ effectDue' = TRUE
    /\ UNCHANGED <<conversations, isTyping, abortRef, loaded, loading, messages,
                   networkVars, turnVars, history>>

\* The effect of a new active conversation: fetch its details, unless they were
\* fetched or are being fetched.
LoadConversationDetail ==
    /\ effectDue
    /\ effectDue' = FALSE
    /\ \/ /\ activeId # None
          /\ activeId \notin loaded \cup loading
          /\ loading' = loading \cup {activeId}
          /\ fetches' = fetches \cup {[conversation |-> activeId, turns |-> None]}
       \/ /\ activeId \in loaded \cup loading \cup {None}
          /\ UNCHANGED <<loading, fetches>>
    /\ UNCHANGED <<conversations, activeId, isTyping, abortRef, loaded, messages,
                   listFetch, creating, change, stored, turnVars, history>>

\* The server reads the conversation.
AnswerDetails(f) ==
    /\ f.turns = None
    /\ stored[f.conversation] # None
    /\ fetches' = (fetches \ {f}) \cup {[f EXCEPT !.turns = stored[f.conversation]]}
    /\ UNCHANGED <<hookVars, effectDue, listFetch, creating, change, stored, turnVars, history>>

\* Mutant of Discard: whether the details are still wanted is not asked again.
DiscardNever(c) == FALSE

\* Details that come after the conversation was marked as loaded are dropped.
Discard(c) == c \in loaded

\* The details are shown, and put a conversation that is not listed in the list.
ShowDetails(f) ==
    /\ f.turns # None
    /\ fetches' = fetches \ {f}
    /\ loading' = loading \ {f.conversation}
    /\ \/ /\ Discard(f.conversation)
          /\ UNCHANGED <<loaded, conversations, messages>>
       \/ /\ ~Discard(f.conversation)
          /\ loaded' = loaded \cup {f.conversation}
          /\ conversations' = <<f.conversation>> \o RemoveFirst(conversations, f.conversation)
          /\ messages' = [messages EXCEPT ![f.conversation] = f.turns]
    /\ UNCHANGED <<activeId, isTyping, abortRef, effectDue, listFetch, creating, change,
                   stored, turnVars, history>>

DetailsFail(f) ==
    /\ fetches' = fetches \ {f}
    /\ loading' = loading \ {f.conversation}
    /\ UNCHANGED <<conversations, activeId, isTyping, abortRef, loaded, messages, effectDue,
                   listFetch, creating, change, stored, turnVars, history>>

-----------------------------------------------------------------------------
(* Inputs of the user. React has run the effects of earlier ones.          *)

SelectConversation(c) ==
    /\ ~effectDue /\ Listed(c)
    /\ Activate(c)
    /\ UNCHANGED <<conversations, isTyping, abortRef, loaded, loading, messages,
                   networkVars, turnVars, history>>

NewChat ==
    /\ ~effectDue /\ ~creating
    /\ creating' = TRUE
    /\ UNCHANGED <<hookVars, effectDue, listFetch, fetches, change, stored, turnVars, history>>

\* Ask for a rename or a deletion of a listed conversation.
RequestChange(kind, c) ==
    /\ ~effectDue /\ Listed(c)
    /\ change = NoChange
    /\ change' = [kind |-> kind, conversation |-> c, step |-> "asked"]
    /\ UNCHANGED <<hookVars, effectDue, listFetch, fetches, creating, stored, turnVars, history>>

\* stop, which no component offers to the user yet.
Stop ==
    /\ ~effectDue /\ abortRef # None
    /\ aborted' = aborted \cup {abortRef}
    /\ abortRef' = None
    /\ isTyping' = FALSE
    /\ UNCHANGED <<conversations, activeId, loaded, loading, messages, effectDue,
                   networkVars, phase, conversationOf, history>>

-----------------------------------------------------------------------------
(* Answers to them                                                         *)

\* What newChat does with the conversation the server created.
AddCreated(c) ==
    /\ c \in New /\ stored[c] = None
    /\ \A t \in Turns : conversationOf[t] # c
    /\ ~Listed(c) /\ c \notin loaded
    /\ stored' = [stored EXCEPT ![c] = {}]

ChatCreated(c) ==
    /\ creating
    /\ AddCreated(c)
    /\ creating' = FALSE
    /\ loaded' = loaded \cup {c}
    /\ conversations' = <<c>> \o conversations
    /\ Activate(c)
    /\ UNCHANGED <<isTyping, abortRef, loading, messages, listFetch, fetches, change,
                   turnVars, history>>

CreationFails ==
    /\ creating
    /\ creating' = FALSE
    /\ UNCHANGED <<hookVars, effectDue, listFetch, fetches, change, stored, turnVars, history>>

\* renameConversation ends: the conversation moves to the front.
Renamed ==
    /\ change.kind = "rename" /\ change.step = "asked"
    /\ change' = [change EXCEPT !.step = "over"]
    /\ UpdateConversation(change.conversation)
    /\ UNCHANGED <<activeId, isTyping, abortRef, loaded, loading, messages, effectDue,
                   listFetch, fetches, creating, stored, turnVars, history>>

\* The server deletes the conversation.
DeleteStored ==
    /\ change.kind = "delete" /\ change.step = "asked"
    /\ change' = [change EXCEPT !.step = "deleted"]
    /\ stored' = [stored EXCEPT ![change.conversation] = None]
    /\ UNCHANGED <<hookVars, effectDue, listFetch, fetches, creating, turnVars, history>>

\* deleteConversation ends. The filter takes one entry away: an id is listed once.
Deleted ==
    LET c == change.conversation IN
    /\ change.step = "deleted"
    /\ change' = [change EXCEPT !.step = "over"]
    /\ loaded' = loaded \ {c}
    /\ loading' = loading \ {c}
    /\ conversations' = RemoveFirst(conversations, c)
    /\ messages' = [messages EXCEPT ![c] = {}]
    /\ Activate(IF activeId = c THEN None ELSE activeId)
    /\ removed' = removed \cup {c}
    /\ UNCHANGED <<isTyping, abortRef, listFetch, fetches, creating, stored, turnVars,
                   overtaken, disturbed>>

ChangeFails ==
    /\ change.step \in {"asked", "deleted"}
    /\ change' = [change EXCEPT !.step = "over"]
    /\ UNCHANGED <<hookVars, effectDue, listFetch, fetches, creating, stored, turnVars, history>>

-----------------------------------------------------------------------------
(* Sending                                                                 *)

\* The details of the conversation must not replace the messages sent now.
MarkLoaded(c) == loaded' = loaded \cup {c}

\* Mutant of AbortPrevious: the next send lets the stream under way run on.
AbortPreviousNever == aborted' = aborted

AbortPrevious == aborted' = IF abortRef = None THEN aborted ELSE aborted \cup {abortRef}

\* The prompt and an empty answer are shown, a stream under way is aborted and
\* the request is sent.
Begin(t, c) ==
    /\ MarkLoaded(c)
    /\ messages' = IF Listed(c) \/ stored'[c] # stored[c]
                   THEN [messages EXCEPT ![c] = @ \cup {t}] ELSE messages
    /\ isTyping' = TRUE
    /\ AbortPrevious
    /\ abortRef' = t
    /\ phase' = [phase EXCEPT ![t] = "fetching"]
    /\ conversationOf' = [conversationOf EXCEPT ![t] = c]
    /\ overtaken' = IF c \in loaded \/ stored'[c] # stored[c] THEN overtaken ELSE overtaken \cup {c}
    /\ Activate(c)
    /\ UNCHANGED <<loading, listFetch, fetches, change, disturbed, removed>>

\* The composer and the examples of an empty conversation send only while no
\* answer is awaited.
ComposerDisabled == isTyping

\* In the active conversation.
Send(t) ==
    /\ ~effectDue /\ phase[t] = "idle" /\ ~ComposerDisabled /\ Listed(activeId)
    /\ UpdateConversation(activeId)
    /\ UNCHANGED <<creating, stored>>
    /\ Begin(t, activeId)

\* Without one, a conversation is created first; isTyping is not set meanwhile.
SendFirst(t) ==
    /\ ~effectDue /\ phase[t] = "idle" /\ ~ComposerDisabled /\ ~Listed(activeId)
    /\ phase' = [phase EXCEPT ![t] = "creating"]
    /\ UNCHANGED <<hookVars, effectDue, networkVars, conversationOf,
                   aborted, history>>

FirstCreated(t, c) ==
    /\ phase[t] = "creating"
    /\ AddCreated(c)
    /\ UNCHANGED creating
    /\ conversations' = <<c>> \o conversations
    /\ Begin(t, c)

\* The finally of send, whichever turn is running by now.
Settle(t) ==
    /\ isTyping' = FALSE
    /\ abortRef' = None

\* A turn ends.
End(t) ==
    /\ Settle(t)
    /\ phase' = [phase EXCEPT ![t] = "ended"]
    /\ disturbed' = disturbed \cup {u \in Turns \ {t} : Running(u)}
    /\ UNCHANGED <<activeId, loaded, loading, messages, effectDue, listFetch, fetches, change,
                   conversationOf, aborted, overtaken, removed>>

\* No conversation could be created: there is no message to show the error in.
FirstFails(t) ==
    /\ phase[t] = "creating"
    /\ End(t)
    /\ UNCHANGED <<conversations, creating, stored>>

\* The server stores the prompt, also in a conversation deleted meanwhile.
Accept(t) ==
    /\ phase[t] = "fetching"
    /\ phase' = [phase EXCEPT ![t] = "reading"]
    /\ stored' = [stored EXCEPT ![conversationOf[t]] =
                      IF @ = None THEN {t} ELSE @ \cup {t}]
    /\ UNCHANGED <<hookVars, effectDue, listFetch, fetches, creating, change, conversationOf,
                   aborted, history>>

\* A status event, or pieces of the answer.
Progress(t) ==
    /\ phase[t] = "reading" /\ t \notin aborted
    /\ UpdateConversation(conversationOf[t])
    /\ UNCHANGED <<activeId, isTyping, abortRef, loaded, loading, messages, effectDue,
                   networkVars, turnVars, history>>

\* The final answer.
Done(t) ==
    /\ phase[t] = "reading" /\ t \notin aborted
    /\ UpdateConversation(conversationOf[t])
    /\ End(t)
    /\ UNCHANGED <<creating, stored>>

\* The request is refused, the stream has an error event, an answer that does
\* not parse, or no final answer: the message shows the error.
Fail(t) ==
    /\ Running(t) /\ t \notin aborted
    /\ UpdateConversation(conversationOf[t])
    /\ End(t)
    /\ UNCHANGED <<creating, stored>>

\* Mutant of NoticeAbort: only the turn of the current controller is asked.
NoticeAbortOfCurrent(t) ==
    /\ Running(t) /\ t \in aborted /\ abortRef = t
    /\ End(t)
    /\ UNCHANGED <<conversations, creating, stored>>

\* The abort is noticed: at once by a fetch or a read, but after the refresh of
\* the token if the request waits for one. The message keeps its status.
NoticeAbort(t) ==
    /\ Running(t) /\ t \in aborted
    /\ End(t)
    /\ UNCHANGED <<conversations, creating, stored>>

-----------------------------------------------------------------------------

Init ==
    /\ conversations = <<>> /\ activeId = None
    /\ isTyping = FALSE /\ abortRef = None
    /\ loaded = {} /\ loading = {}
    /\ messages = [c \in Conversations |-> {}]
    /\ effectDue = FALSE
    /\ listFetch = Waiting
    /\ fetches = {} /\ creating = FALSE /\ change = NoChange
    /\ phase = [t \in Turns |-> "idle"]
    /\ conversationOf = [t \in Turns |-> None]
    /\ aborted = {}
    /\ stored = [c \in Conversations |-> IF c \in Existing THEN {OldTurn} ELSE None]
    /\ overtaken = {} /\ disturbed = {} /\ removed = {}

Network ==
    \/ AnswerList \/ MergeConversationSummaries \/ ListFails
    \/ \E f \in fetches : AnswerDetails(f) \/ ShowDetails(f) \/ DetailsFail(f)
    \/ \E c \in New : ChatCreated(c)
    \/ CreationFails
    \/ Renamed \/ DeleteStored \/ Deleted \/ ChangeFails

Effects == FollowList \/ LoadConversationDetail

Stream(t) ==
    \/ \E c \in New : FirstCreated(t, c)
    \/ FirstFails(t) \/ Accept(t) \/ Done(t) \/ Fail(t) \/ NoticeAbort(t)

User ==
    \/ \E c \in Conversations : SelectConversation(c)
    \/ \E c \in Conversations, kind \in {"rename", "delete"} : RequestChange(kind, c)
    \/ NewChat \/ Stop
    \/ \E t \in Turns : Send(t) \/ SendFirst(t)

Next ==
    \/ Network \/ Effects \/ User
    \/ \E t \in Turns : Stream(t) \/ Progress(t)

Spec == Init /\ [][Next]_vars

\* The browser settles every request, and React runs the effects of a render.
Fairness ==
    /\ \A t \in Turns : WF_vars(Stream(t))
    /\ WF_vars(Effects)

FairSpec == Spec /\ Fairness

-----------------------------------------------------------------------------
(* What must hold                                                          *)

\* Every variable has its type, and the list has no conversation twice.
TypeOK ==
    /\ conversations \in Seq(Conversations) /\ IsInjective(conversations)
    /\ activeId \in Conversations \cup {None}
    /\ isTyping \in BOOLEAN /\ effectDue \in BOOLEAN
    /\ abortRef \in Turns \cup {None}
    /\ loaded \subseteq Conversations /\ loading \subseteq Conversations
    /\ messages \in [Conversations -> SUBSET AllTurns]
    /\ phase \in [Turns -> {"idle", "creating", "fetching", "reading", "ended"}]
    /\ \A t \in Turns : Running(t) => conversationOf[t] \in Conversations
    /\ aborted \subseteq Turns
    /\ creating \in BOOLEAN

\* The typing indicator, which also disables the composer, is shown only while
\* an answer is streamed: no way a turn can end leaves the composer disabled.
TypingHasStream == isTyping => \E t \in Turns : Running(t)

\* A stream that is neither aborted nor finished can be stopped and keeps the
\* composer disabled, unless another turn ended while it ran.
StreamCanBeStopped ==
    \A t \in Turns :
        Running(t) /\ t \notin aborted /\ t \notin disturbed => isTyping /\ abortRef = t

\* A prompt stays on screen: the details of its conversation, requested before
\* it was sent and answered after, do not replace it.
PromptStaysShown ==
    \A t \in Turns :
        Running(t) /\ Listed(conversationOf[t]) /\ conversationOf[t] \notin removed =>
            t \in messages[conversationOf[t]]

\* A conversation that counts as loaded shows all its stored turns, unless a
\* turn was sent in it before its details came, or after they failed to come.
LoadedIsComplete ==
    \A c \in loaded \ (overtaken \cup removed) :
        Listed(c) /\ stored[c] # None => stored[c] \subseteq messages[c]

\* Every send ends if the browser settles its requests: a turn is sent once, so
\* that none is streamed any more from some time on.
EverySendEnds == <>[](\A t \in Turns : ~Running(t))

\* The typing flag, the abort controller and the streams that run agree: the user can
\* stop what runs, and can type when nothing does.
StreamUnderControl == TypeOK /\ TypingHasStream /\ StreamCanBeStopped

\* What was sent stays on screen, whatever is loaded around it.
NothingSentDisappears == PromptStaysShown /\ LoadedIsComplete

=============================================================================
