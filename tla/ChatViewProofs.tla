--------------------------- MODULE ChatViewProofs ---------------------------
(***************************************************************************)
(* Proofs about the chat page: for any conversations and any number of     *)
(* sends, what the user is shown of the streams, and of what was sent,     *)
(* holds. The invariant adds what the page relies on without checking it:  *)
(* a conversation something was sent in counts as loaded, what counts as   *)
(* loaded is in the list until the list's request is over, and details     *)
(* that will be shown are still all that is stored.                        *)
(***************************************************************************)
EXTENDS ChatView, FiniteSetTheorems, SequenceTheorems, TLAPS

Changes == [kind : {"none", "rename", "delete"}, conversation : Conversations \cup {None},
            step : {"none", "asked", "deleted", "over"}]

Fetches == [conversation : Conversations, turns : (SUBSET AllTurns) \cup {None}]

\* Types of the variables that TypeOK leaves out.
NetworkTypes ==
    /\ listFetch \in {Waiting, None} \cup SUBSET Conversations
    /\ fetches \subseteq Fetches
    /\ change \in Changes
    /\ change.step # "none" => change.conversation \in Conversations
    /\ conversationOf \in [Turns -> Conversations \cup {None}]
    /\ stored \in [Conversations -> (SUBSET AllTurns) \cup {None}]
    /\ overtaken \subseteq Conversations /\ removed \subseteq Conversations
    /\ disturbed \subseteq Turns

Types == TypeOK /\ NetworkTypes

\* A conversation that something was sent in counts as loaded until it is deleted.
TurnsAreLoaded ==
    \A t \in Turns : conversationOf[t] # None => conversationOf[t] \in loaded \cup removed

\* Until the request for the list is over, what counts as loaded is in the list.
LoadedAreListed == listFetch # None => \A c \in loaded \ removed : Listed(c)

\* Answered details that will be shown are what is stored.
DetailsAreComplete ==
    \A f \in fetches :
        /\ f.turns # None /\ stored[f.conversation] # None
        /\ f.conversation \notin loaded \cup removed
        => stored[f.conversation] \subseteq f.turns

Shown ==
    /\ TypingHasStream /\ StreamCanBeStopped /\ PromptStaysShown /\ LoadedIsComplete
    /\ TurnsAreLoaded /\ LoadedAreListed /\ DetailsAreComplete

IInv == Types /\ Shown

-----------------------------------------------------------------------------
(* The list                                                                *)

\* Without an entry, a list that has none twice has all the others.
LEMMA RemoveFirstKeepsOthers ==
    ASSUME NEW S, NEW s \in Seq(S), IsInjective(s), NEW c
    PROVE  /\ RemoveFirst(s, c) \in Seq(S) /\ IsInjective(RemoveFirst(s, c))
           /\ \A d : Contains(RemoveFirst(s, c), d) <=> Contains(s, d) /\ d # c
<1> DEFINE t == RemoveFirst(s, c)
<1>1. CASE \A i \in 1..Len(s) : s[i] # c
  <2>1. t = s
    BY <1>1 DEF RemoveFirst
  <2>2. QED
    BY <1>1, <2>1 DEF Contains
<1>2. CASE \E i \in 1..Len(s) : s[i] = c
  <2>1. PICK k \in 1..Len(s) : s[k] = c
    BY <1>2
  <2>2. {i \in 1..Len(s) : s[i] = c} = {k}
    BY <2>1 DEF IsInjective
  <2>3. Min({k}) = k
    BY DEF Min
  <2>4. SelectInSeq(s, LAMBDA v : v = c) = k
    BY <2>2, <2>3 DEF SelectInSeq
  <2>5. t = RemoveAt(s, k)
    BY <1>2, <2>4 DEF RemoveFirst
  <2>6. t = SubSeq(s, 1, k - 1) \o SubSeq(s, k + 1, Len(s))
    BY <2>5 DEF RemoveAt
  <2>7. /\ SubSeq(s, 1, k - 1) \in Seq(S) /\ Len(SubSeq(s, 1, k - 1)) = k - 1
        /\ \A i \in 1..(k - 1) : SubSeq(s, 1, k - 1)[i] = s[i]
    BY <2>1
  <2>8. /\ SubSeq(s, k + 1, Len(s)) \in Seq(S) /\ Len(SubSeq(s, k + 1, Len(s))) = Len(s) - k
        /\ \A i \in 1..(Len(s) - k) : SubSeq(s, k + 1, Len(s))[i] = s[i + k]
    BY <2>1
  <2> DEFINE before == SubSeq(s, 1, k - 1)
             after == SubSeq(s, k + 1, Len(s))
  <2>9. /\ t \in Seq(S) /\ Len(t) = Len(s) - 1
        /\ \A i \in 1..Len(t) : t[i] = IF i < k THEN s[i] ELSE s[i + 1]
    <3> HIDE DEF before, after, t
    <3>1. /\ t = before \o after /\ k \in Nat /\ Len(s) \in Nat
          /\ before \in Seq(S) /\ after \in Seq(S)
          /\ Len(before) = k - 1 /\ Len(after) = Len(s) - k
      BY <2>1, <2>6, <2>7, <2>8 DEF before, after
    <3>2. t \in Seq(S) /\ Len(t) = Len(s) - 1
      <4>1. t \in Seq(S) /\ Len(t) = Len(before) + Len(after)
        BY <3>1, ConcatProperties
      <4>2. QED
        BY <3>1, <4>1
    <3>3. ASSUME NEW i \in 1..Len(t), i < k PROVE t[i] = s[i]
      <4>1. i \in 1..Len(before) /\ t[i] = before[i]
        BY <3>1, <3>2, <3>3
      <4>2. QED
        BY <2>7, <4>1, <3>1 DEF before
    <3>4. ASSUME NEW i \in 1..Len(t), ~(i < k) PROVE t[i] = s[i + 1]
      <4>1. i - (k - 1) \in 1..Len(after) /\ t[i] = after[i - (k - 1)]
        BY <3>1, <3>2, <3>4
      <4>2. after[i - (k - 1)] = s[i - (k - 1) + k]
        BY <2>8, <4>1, <3>1 DEF after
      <4>3. QED
        BY <3>1, <3>2, <4>1, <4>2
    <3>5. QED
      BY <3>2, <3>3, <3>4
  <2>h. HIDE DEF t
  <2>10. IsInjective(t)
    <3>1. SUFFICES ASSUME NEW i \in 1..Len(t), NEW j \in 1..Len(t), t[i] = t[j] PROVE i = j
      BY <2>9 DEF IsInjective
    <3> DEFINE From(n) == IF n < k THEN n ELSE n + 1
    <3>2. From(i) \in 1..Len(s) /\ From(j) \in 1..Len(s) /\ t[i] = s[From(i)] /\ t[j] = s[From(j)]
      BY <2>1, <2>9
    <3>3. From(i) = From(j)
      <4> HIDE DEF From
      <4>1. DOMAIN s = 1..Len(s)
        OBVIOUS
      <4>2. s[From(i)] = s[From(j)]
        BY <3>1, <3>2
      <4>3. QED
        BY <3>2, <4>1, <4>2 DEF IsInjective
    <3>4. QED
      BY <2>1, <2>9, <3>3
  <2>11. ASSUME NEW d PROVE Contains(t, d) <=> Contains(s, d) /\ d # c
    <3>1. ASSUME NEW i \in 1..Len(t), t[i] = d PROVE Contains(s, d) /\ d # c
      BY SMTT(30), <2>1, <2>9, <3>1 DEF Contains, IsInjective
    <3>2. ASSUME NEW i \in 1..Len(s), s[i] = d, d # c PROVE Contains(t, d)
      <4>1. CASE i < k
        BY <2>1, <2>9, <3>2, <4>1 DEF Contains
      <4>2. CASE i > k
        <5>1. i - 1 \in 1..Len(t) /\ t[i - 1] = s[i]
          BY <2>1, <2>9, <4>2
        <5>2. QED
          BY <3>2, <5>1 DEF Contains
      <4>3. QED
        BY <2>1, <3>2, <4>1, <4>2
    <3>3. QED
      BY <3>1, <3>2 DEF Contains
  <2>12. QED
    BY <2>9, <2>10, <2>11 DEF t
<1>3. QED
  BY <1>1, <1>2

\* An entry that comes to the front of a list that does not have it.
LEMMA PrependAdds ==
    ASSUME NEW S, NEW s \in Seq(S), IsInjective(s), NEW c \in S, ~Contains(s, c)
    PROVE  /\ <<c>> \o s \in Seq(S) /\ IsInjective(<<c>> \o s)
           /\ \A d : Contains(<<c>> \o s, d) <=> Contains(s, d) \/ d = c
<1> DEFINE t == <<c>> \o s
<1>1. /\ t \in Seq(S) /\ Len(t) = Len(s) + 1 /\ t[1] = c
      /\ \A i \in 1..Len(s) : t[i + 1] = s[i]
  OBVIOUS
<1>2. \A i \in 1..Len(t) : i = 1 \/ (i - 1 \in 1..Len(s) /\ t[i] = s[i - 1])
  BY <1>1
<1>3. IsInjective(t)
  <2>1. SUFFICES ASSUME NEW i \in 1..Len(t), NEW j \in 1..Len(t), t[i] = t[j] PROVE i = j
    BY <1>1 DEF IsInjective
  <2>2. i = 1 <=> j = 1
    BY <1>1, <1>2, <2>1 DEF Contains
  <2>3. QED
    BY <1>1, <1>2, <2>1, <2>2 DEF IsInjective
<1>4. ASSUME NEW d PROVE Contains(t, d) <=> Contains(s, d) \/ d = c
  <2>1. ASSUME NEW i \in 1..Len(s), s[i] = d PROVE Contains(t, d)
    BY <1>1, <2>1 DEF Contains
  <2>2. 1 \in 1..Len(t)
    BY <1>1
  <2>3. QED
    BY <1>1, <1>2, <2>1, <2>2 DEF Contains
<1>5. QED
  BY <1>1, <1>3, <1>4

\* An updated conversation moves to the front: the list is the same but for its order.
LEMMA MoveKeepsListed ==
    ASSUME Types, NEW c \in Conversations \cup {None}, UpdateConversation(c)
    PROVE  /\ conversations' \in Seq(Conversations) /\ IsInjective(conversations')
           /\ \A d : Listed(d)' <=> Listed(d)
<1>1. conversations \in Seq(Conversations) /\ IsInjective(conversations)
  BY DEF Types, TypeOK
<1>2. CASE ~Listed(c)
  BY <1>1, <1>2 DEF UpdateConversation, Listed
<1>3. CASE Listed(c)
  <2> DEFINE rest == RemoveFirst(conversations, c)
  <2>1. /\ rest \in Seq(Conversations) /\ IsInjective(rest)
        /\ \A d : Contains(rest, d) <=> Contains(conversations, d) /\ d # c
    BY <1>1, RemoveFirstKeepsOthers
  <2>2. c \in Conversations
    BY <1>1, <1>3 DEF Listed, Contains
  <2>3. conversations' = <<c>> \o rest
    BY <1>3 DEF UpdateConversation
  <2>4. /\ <<c>> \o rest \in Seq(Conversations) /\ IsInjective(<<c>> \o rest)
        /\ \A d : Contains(<<c>> \o rest, d) <=> Contains(rest, d) \/ d = c
    BY <2>1, <2>2, PrependAdds
  <2>5. \A d : Contains(conversations', d) <=> Contains(conversations, d)
    BY <1>3, <2>1, <2>3, <2>4 DEF Listed
  <2>6. QED
    BY <2>3, <2>4, <2>5 DEF Listed
<1>4. QED
  BY <1>2, <1>3

\* The answer's list has the conversations of the answer.
LEMMA AnswerIsListed ==
    ASSUME NEW S, S \subseteq Conversations
    PROVE  /\ SetToSeq(S) \in Seq(Conversations) /\ IsInjective(SetToSeq(S))
           /\ \A d : Contains(SetToSeq(S), d) => d \in S
<1> DEFINE n == Cardinality(S)
<1>1. IsFiniteSet(S)
  BY ConstantsAssumption, FS_Union, FS_Subset DEF Conversations
<1>2. n \in Nat /\ ExistsBijection(1..n, S)
  BY <1>1, FS_CardinalityType
<1>3. \E f \in [1..n -> S] : IsInjective(f)
  BY <1>2 DEF ExistsBijection, Bijection, Injection
<1>4. SetToSeq(S) \in [1..n -> S] /\ IsInjective(SetToSeq(S))
  BY <1>3 DEF SetToSeq
<1>h. HIDE DEF n
<1>5. SetToSeq(S) \in Seq(S) /\ Len(SetToSeq(S)) = n
  BY <1>2, <1>4
<1>6. QED
  BY <1>2, <1>4, <1>5, SeqMonotonic DEF Contains

-----------------------------------------------------------------------------
(* Types                                                                   *)

LEMMA TypesInit == Init => Types
<1>1. SUFFICES ASSUME Init PROVE Types
  OBVIOUS
<1>2. conversations \in Seq(Conversations) /\ IsInjective(conversations)
  BY <1>1 DEF Init, IsInjective
<1>3. NoChange \in Changes /\ NoChange.step = "none"
  BY DEF NoChange, Changes
<1>4. \A t \in Turns : ~Running(t)
  BY <1>1 DEF Init, Running
<1>5. TypeOK
  BY <1>1, <1>2, <1>4 DEF Init, TypeOK
<1>6. NetworkTypes
  <2>1. stored \in [Conversations -> (SUBSET AllTurns) \cup {None}]
    <3>1. {OldTurn} \in (SUBSET AllTurns) \cup {None} /\ None \in (SUBSET AllTurns) \cup {None}
      BY DEF AllTurns
    <3>2. QED
      BY <1>1, <3>1 DEF Init
  <2>2. QED
    BY <1>1, <1>3, <2>1 DEF Init, NetworkTypes
<1>7. QED
  BY <1>5, <1>6 DEF Types

\* What the list's own steps do to it.
LEMMA ListTypes ==
    ASSUME Types, [Next]_vars
    PROVE  conversations' \in Seq(Conversations) /\ IsInjective(conversations')
<1> DEFINE Good(s) == s \in Seq(Conversations) /\ IsInjective(s)
<1>1. Good(conversations)
  BY DEF Types, TypeOK
<1>2. Good(<<>>)
  BY DEF IsInjective
<1>3. ASSUME NEW c \in Conversations \cup {None}, UpdateConversation(c) PROVE Good(conversations')
  BY <1>3, MoveKeepsListed
<1>4. ASSUME NEW c \in Conversations, ~Listed(c) PROVE Good(<<c>> \o conversations)
  BY <1>1, <1>4, PrependAdds DEF Listed
<1>5. ASSUME NEW c PROVE Good(RemoveFirst(conversations, c))
  BY <1>1, RemoveFirstKeepsOthers
<1>6. ASSUME NEW f \in fetches
      PROVE  Good(<<f.conversation>> \o RemoveFirst(conversations, f.conversation))
  <2>1. f.conversation \in Conversations
    BY <1>6 DEF Types, NetworkTypes, Fetches
  <2>2. ~Contains(RemoveFirst(conversations, f.conversation), f.conversation)
    BY <1>1, RemoveFirstKeepsOthers
  <2>3. QED
    BY <1>5, <2>1, <2>2, PrependAdds
<1>7. ASSUME NEW S, S \subseteq Conversations PROVE Good(SetToSeq(S))
  BY <1>7, AnswerIsListed
<1> HIDE DEF Good
<1>8. ASSUME Network PROVE Good(conversations')
  <2>1. CASE MergeConversationSummaries
    BY <1>7, <2>1 DEF MergeConversationSummaries, Types, NetworkTypes
  <2>2. ASSUME NEW f \in fetches, ShowDetails(f) PROVE Good(conversations')
    BY <1>1, <1>6, <2>2 DEF ShowDetails
  <2>3. ASSUME NEW c \in New, ChatCreated(c) PROVE Good(conversations')
    BY <1>4, <2>3 DEF ChatCreated, AddCreated, Conversations
  <2>4. CASE Renamed
    <3>1. change.conversation \in Conversations
      BY <2>4 DEF Renamed, Types, NetworkTypes
    <3>2. QED
      BY <1>3, <2>4, <3>1 DEF Renamed
  <2>5. CASE ListFails \/ Deleted
    BY <1>2, <1>5, <2>5 DEF ListFails, Deleted
  <2>6. ASSUME NEW f \in fetches, AnswerDetails(f) \/ DetailsFail(f) PROVE Good(conversations')
    BY <1>1, <2>6 DEF AnswerDetails, DetailsFail, hookVars
  <2>7. CASE AnswerList \/ CreationFails \/ DeleteStored \/ ChangeFails
    BY <1>1, <2>7 DEF AnswerList, CreationFails, DeleteStored, ChangeFails, hookVars
  <2>8. QED
    BY <1>8, <2>1, <2>2, <2>3, <2>4, <2>5, <2>6, <2>7 DEF Network
<1>9. ASSUME NEW t \in Turns, Stream(t) \/ Progress(t) PROVE Good(conversations')
  <2>1. conversationOf[t] \in Conversations \cup {None}
    BY DEF Types, NetworkTypes
  <2>2. CASE Progress(t) \/ Done(t) \/ Fail(t)
    BY <1>3, <2>1, <2>2 DEF Progress, Done, Fail
  <2>3. ASSUME NEW c \in New, FirstCreated(t, c) PROVE Good(conversations')
    BY <1>4, <2>3 DEF FirstCreated, AddCreated, Conversations
  <2>4. CASE FirstFails(t) \/ Accept(t) \/ NoticeAbort(t)
    BY <1>1, <2>4 DEF FirstFails, Accept, NoticeAbort, hookVars
  <2>5. QED
    BY <1>9, <2>2, <2>3, <2>4 DEF Stream
<1>10. ASSUME User PROVE Good(conversations')
  <2>1. ASSUME NEW t \in Turns, Send(t) PROVE Good(conversations')
    BY <1>3, <2>1 DEF Send, Types, TypeOK
  <2>2. ASSUME NEW t \in Turns, SendFirst(t) PROVE Good(conversations')
    BY <1>1, <2>2 DEF SendFirst, hookVars
  <2>3. ASSUME NEW c \in Conversations, NEW kind \in {"rename", "delete"},
               SelectConversation(c) \/ RequestChange(kind, c) PROVE Good(conversations')
    BY <1>1, <2>3 DEF SelectConversation, RequestChange, hookVars
  <2>4. CASE NewChat \/ Stop
    BY <1>1, <2>4 DEF NewChat, Stop, hookVars
  <2>5. QED
    BY <1>10, <2>1, <2>2, <2>3, <2>4 DEF User
<1>11. CASE Effects \/ UNCHANGED vars
  <2>1. conversations' = conversations
    BY <1>11 DEF Effects, FollowList, LoadConversationDetail, vars, hookVars
  <2>2. QED
    BY <1>1, <2>1 DEF Good
<1>12. QED
  BY <1>8, <1>9, <1>10, <1>11 DEF Next, Good

\* The other types, for a step that keeps the list's.
LEMMA TypesStep == ASSUME Types, [Next]_vars PROVE Types'
<1> DEFINE ListGood == conversations \in Seq(Conversations) /\ IsInjective(conversations)
<1>l. ListGood'
  BY ListTypes
<1> DEFINE Hook ==
              /\ activeId \in Conversations \cup {None}
              /\ isTyping \in BOOLEAN /\ effectDue \in BOOLEAN
              /\ abortRef \in Turns \cup {None}
              /\ loaded \subseteq Conversations /\ loading \subseteq Conversations
              /\ messages \in [Conversations -> SUBSET AllTurns]
           Streams ==
              /\ phase \in [Turns -> {"idle", "creating", "fetching", "reading", "ended"}]
              /\ \A t \in Turns : Running(t) => conversationOf[t] \in Conversations
              /\ aborted \subseteq Turns
              /\ conversationOf \in [Turns -> Conversations \cup {None}]
              /\ overtaken \subseteq Conversations /\ removed \subseteq Conversations
              /\ disturbed \subseteq Turns
           Network1 ==
              /\ creating \in BOOLEAN
              /\ listFetch \in {Waiting, None} \cup SUBSET Conversations
              /\ fetches \subseteq Fetches
              /\ change \in Changes
              /\ change.step # "none" => change.conversation \in Conversations
              /\ stored \in [Conversations -> (SUBSET AllTurns) \cup {None}]
<1>i. Hook /\ Streams /\ Network1 /\ ListGood
  BY DEF Types, TypeOK, NetworkTypes
<1>q. Hook' /\ Streams' /\ Network1' => Types'
  BY <1>l DEF Types, TypeOK, NetworkTypes
<1>h. \A c : Listed(c) => c \in Conversations
  BY <1>i DEF Listed, Contains
<1>n. New \subseteq Conversations /\ None \notin Conversations
  BY ConstantsAssumption DEF Conversations
<1> SUFFICES Hook' /\ Streams' /\ Network1'
  BY <1>q
<1> USE <1>i
<1>1. CASE AnswerList \/ MergeConversationSummaries \/ ListFails
  <2>1. Streams'
    BY <1>1 DEF AnswerList, MergeConversationSummaries, ListFails, turnVars, history, Running
  <2>2. Hook'
    <3>1. CASE AnswerList
      BY <3>1 DEF AnswerList, hookVars
    <3>2. CASE MergeConversationSummaries
      BY <3>2 DEF MergeConversationSummaries
    <3>3. CASE ListFails
      BY <3>3 DEF ListFails
    <3>4. QED
      BY <1>1, <3>1, <3>2, <3>3
  <2>3. Network1'
    BY <1>1 DEF AnswerList, MergeConversationSummaries, ListFails
  <2>4. QED
    BY <2>1, <2>2, <2>3
<1>2. ASSUME NEW f \in fetches, AnswerDetails(f) \/ ShowDetails(f) \/ DetailsFail(f)
      PROVE  Hook' /\ Streams' /\ Network1'
  <2>f. /\ f.conversation \in Conversations /\ f.turns \in (SUBSET AllTurns) \cup {None}
        /\ f = [conversation |-> f.conversation, turns |-> f.turns]
    BY <1>2 DEF Fetches
  <2>1. Streams'
    BY <1>2 DEF AnswerDetails, ShowDetails, DetailsFail, turnVars, history, Running
  <2>2. Hook'
    <3>1. CASE AnswerDetails(f)
      BY <3>1 DEF AnswerDetails, hookVars
    <3>2. CASE ShowDetails(f)
      <4>1. f.turns \in SUBSET AllTurns
        BY <2>f, <3>2 DEF ShowDetails
      <4>2. messages' \in [Conversations -> SUBSET AllTurns]
        BY <2>f, <3>2, <4>1 DEF ShowDetails
      <4>3. QED
        BY <2>f, <3>2, <4>2 DEF ShowDetails
    <3>3. CASE DetailsFail(f)
      BY <3>3 DEF DetailsFail
    <3>4. QED
      BY <1>2, <3>1, <3>2, <3>3
  <2>3. Network1'
    <3>1. CASE AnswerDetails(f)
      <4>1. [f EXCEPT !.turns = stored[f.conversation]] \in Fetches
        BY <2>f, <3>1 DEF Fetches
      <4>2. fetches' \subseteq Fetches
        BY <3>1, <4>1 DEF AnswerDetails
      <4>3. QED
        BY <3>1, <4>2 DEF AnswerDetails
    <3>2. CASE ShowDetails(f) \/ DetailsFail(f)
      BY <3>2 DEF ShowDetails, DetailsFail
    <3>3. QED
      BY <1>2, <3>1, <3>2
  <2>4. QED
    BY <2>1, <2>2, <2>3
<1>3. ASSUME NEW c \in New, ChatCreated(c) PROVE Hook' /\ Streams' /\ Network1'
  <2>1. Streams'
    BY <1>3 DEF ChatCreated, turnVars, history, Running
  <2>2. Hook'
    BY <1>3, <1>n DEF ChatCreated, Activate
  <2>3. Network1'
    BY <1>3, <1>n DEF ChatCreated, AddCreated
  <2>4. QED
    BY <2>1, <2>2, <2>3
<1>4. CASE CreationFails \/ Renamed \/ DeleteStored \/ ChangeFails
  <2>1. Hook' /\ Streams'
    BY <1>4 DEF CreationFails, Renamed, DeleteStored, ChangeFails, hookVars, turnVars, history,
                Running
  <2>2. \A step \in {"deleted", "over"} : [change EXCEPT !.step = step] \in Changes
    BY DEF Changes
  <2>3. Network1'
    <3>1. CASE CreationFails
      BY <3>1 DEF CreationFails
    <3>2. CASE DeleteStored
      <4>1. stored' \in [Conversations -> (SUBSET AllTurns) \cup {None}]
        BY <3>2 DEF DeleteStored
      <4>2. change.conversation \in Conversations /\ change'.conversation = change.conversation
        BY <3>2 DEF DeleteStored, Changes
      <4>3. QED
        BY <2>2, <3>2, <4>1, <4>2 DEF DeleteStored
    <3>3. CASE Renamed \/ ChangeFails
      <4>1. change.conversation \in Conversations /\ change'.conversation = change.conversation
        BY <3>3 DEF Renamed, ChangeFails, Changes
      <4>2. QED
        BY <2>2, <3>3, <4>1 DEF Renamed, ChangeFails
    <3>4. QED
      BY <1>4, <3>1, <3>2, <3>3
  <2>4. QED
    BY <2>1, <2>3
<1>5. CASE Deleted
  <2>1. change.conversation \in Conversations /\ [change EXCEPT !.step = "over"] \in Changes
    BY <1>5 DEF Deleted, Changes
  <2>2. Hook'
    BY <1>5, <2>1 DEF Deleted, Activate
  <2>3. Streams'
    BY <1>5, <2>1 DEF Deleted, turnVars, Running
  <2>4. Network1'
    BY <1>5, <2>1 DEF Deleted, Changes
  <2>5. QED
    BY <2>2, <2>3, <2>4
<1>6. CASE Effects
  <2>1. Streams'
    BY <1>6 DEF Effects, FollowList, LoadConversationDetail, turnVars, history, Running
  <2>2. conversations # <<>> => Head(conversations) \in Conversations
    OBVIOUS
  <2>3. Hook'
    <3>1. CASE FollowList
      BY <2>2, <3>1 DEF FollowList
    <3>2. CASE LoadConversationDetail
      BY <3>2 DEF LoadConversationDetail
    <3>3. QED
      BY <1>6, <3>1, <3>2 DEF Effects
  <2>4. activeId # None => [conversation |-> activeId, turns |-> None] \in Fetches
    <3>1. activeId # None => activeId \in Conversations
      OBVIOUS
    <3>2. QED
      BY <3>1 DEF Fetches
  <2>5. Network1'
    <3>1. CASE FollowList
      BY <3>1 DEF FollowList, networkVars
    <3>2. CASE LoadConversationDetail
      <4>1. fetches' \subseteq Fetches
        BY <2>4, <3>2 DEF LoadConversationDetail
      <4>2. QED
        BY <3>2, <4>1 DEF LoadConversationDetail
    <3>3. QED
      BY <1>6, <3>1, <3>2 DEF Effects
  <2>6. QED
    BY <2>1, <2>3, <2>5
<1>7. ASSUME NEW c \in Conversations, NEW kind \in {"rename", "delete"},
             SelectConversation(c) \/ RequestChange(kind, c)
      PROVE  Hook' /\ Streams' /\ Network1'
  <2>1. Streams'
    BY <1>7 DEF SelectConversation, RequestChange, turnVars, history, Running
  <2>2. Hook'
    BY <1>7 DEF SelectConversation, RequestChange, hookVars, Activate
  <2>3. [kind |-> kind, conversation |-> c, step |-> "asked"] \in Changes
    BY DEF Changes
  <2>4. Network1'
    BY <1>7, <2>3 DEF SelectConversation, RequestChange, networkVars
  <2>5. QED
    BY <2>1, <2>2, <2>4
<1>8. CASE NewChat \/ Stop
  BY <1>8 DEF NewChat, Stop, hookVars, networkVars, turnVars, history, Running
<1>9. ASSUME NEW t \in Turns, NEW c \in Conversations, Begin(t, c)
      PROVE  Hook' /\ Streams'
  <2>1. Hook'
    BY <1>9 DEF Begin, MarkLoaded, Activate, AllTurns
  <2>2. aborted' \subseteq Turns /\ overtaken' \subseteq Conversations
    BY <1>9 DEF Begin, AbortPrevious
  <2>3. Streams'
    BY <1>9, <2>2 DEF Begin, Running
  <2>4. QED
    BY <2>1, <2>3
<1>10. ASSUME NEW t \in Turns, Send(t) PROVE Hook' /\ Streams' /\ Network1'
  <2>1. activeId \in Conversations /\ Begin(t, activeId)
    BY <1>10, <1>h DEF Send
  <2>2. Network1'
    BY <1>10 DEF Send, Begin
  <2>3. QED
    BY <1>9, <2>1, <2>2
<1>11. ASSUME NEW t \in Turns, SendFirst(t) PROVE Hook' /\ Streams' /\ Network1'
  BY <1>11 DEF SendFirst, hookVars, networkVars, history, Running
<1>12. ASSUME NEW t \in Turns, NEW c \in New, FirstCreated(t, c)
       PROVE  Hook' /\ Streams' /\ Network1'
  <2>1. c \in Conversations /\ Begin(t, c)
    BY <1>12, <1>n DEF FirstCreated
  <2>2. Network1'
    BY <1>12, <2>1 DEF FirstCreated, AddCreated, Begin
  <2>3. QED
    BY <1>9, <2>1, <2>2
<1>13. ASSUME NEW t \in Turns, FirstFails(t) \/ Done(t) \/ Fail(t) \/ NoticeAbort(t)
       PROVE  Hook' /\ Streams' /\ Network1'
  <2>1. End(t) /\ UNCHANGED <<creating, stored>>
    BY <1>13 DEF FirstFails, Done, Fail, NoticeAbort
  <2>2. QED
    BY <2>1 DEF End, Settle, Running
<1>14. ASSUME NEW t \in Turns, Accept(t) PROVE Hook' /\ Streams' /\ Network1'
  <2>1. Hook' /\ Streams'
    BY <1>14 DEF Accept, hookVars, history, Running
  <2>2. stored' \in [Conversations -> (SUBSET AllTurns) \cup {None}]
    BY <1>14 DEF Accept, AllTurns
  <2>3. QED
    BY <1>14, <2>1, <2>2 DEF Accept
<1>15. ASSUME NEW t \in Turns, Progress(t) PROVE Hook' /\ Streams' /\ Network1'
  BY <1>15 DEF Progress, networkVars, turnVars, history, Running
<1>16. CASE UNCHANGED vars
  BY <1>16 DEF vars, hookVars, networkVars, turnVars, history, Running
<1>17. QED
  BY <1>1, <1>2, <1>3, <1>4, <1>5, <1>6, <1>7, <1>8, <1>10, <1>11, <1>12, <1>13, <1>14, <1>15,
     <1>16 DEF Next, Network, User, Stream

-----------------------------------------------------------------------------
(* What is shown                                                           *)

streamVars == <<phase, conversationOf, aborted, isTyping, abortRef, disturbed>>
shownVars == <<messages, loaded, stored, overtaken, removed, listFetch>>

\* The parts about the streams, in a step that ends or begins none.
LEMMA StreamsStay == ASSUME Shown, UNCHANGED streamVars
                     PROVE  TypingHasStream' /\ StreamCanBeStopped'
BY DEF Shown, streamVars, TypingHasStream, StreamCanBeStopped, Running

\* A step that shows nothing else, and brings no details.
LEMMA NothingNewShown ==
    ASSUME Shown, UNCHANGED streamVars, UNCHANGED shownVars,
           \A d : Listed(d)' <=> Listed(d),
           \A f \in fetches' : f.turns # None => f \in fetches
    PROVE  Shown'
<1>1. TypingHasStream' /\ StreamCanBeStopped'
  BY StreamsStay
<1>2. PromptStaysShown' /\ TurnsAreLoaded'
  BY DEF Shown, streamVars, shownVars, PromptStaysShown, TurnsAreLoaded, Running
<1>3. LoadedIsComplete' /\ LoadedAreListed'
  BY DEF Shown, shownVars, LoadedIsComplete, LoadedAreListed
<1>4. DetailsAreComplete'
  BY DEF Shown, shownVars, DetailsAreComplete
<1>5. QED
  BY <1>1, <1>2, <1>3, <1>4 DEF Shown

\* A turn that runs is in a conversation, which counts as loaded until it is deleted.
LEMMA RunningIsLoaded ==
    ASSUME IInv, NEW t \in Turns, Running(t)
    PROVE  /\ conversationOf[t] \in Conversations
           /\ conversationOf[t] \in loaded \cup removed
<1>1. conversationOf[t] \in Conversations /\ None \notin Conversations
  BY ConstantsAssumption DEF IInv, Types, TypeOK, Conversations
<1>2. QED
  BY <1>1 DEF IInv, Shown, TurnsAreLoaded

LEMMA ShownInit == Init => Shown
<1>1. ASSUME Init PROVE \A d : ~Listed(d)
  BY <1>1 DEF Init, Listed, Contains
<1>2. ASSUME Init PROVE TypingHasStream /\ StreamCanBeStopped /\ PromptStaysShown
  BY <1>2 DEF Init, TypingHasStream, StreamCanBeStopped, PromptStaysShown, Running
<1>3. ASSUME Init
      PROVE  LoadedIsComplete /\ TurnsAreLoaded /\ LoadedAreListed /\ DetailsAreComplete
  BY <1>3 DEF Init, LoadedIsComplete, TurnsAreLoaded, LoadedAreListed, DetailsAreComplete
<1>4. QED
  BY <1>2, <1>3 DEF Shown

\* The list is replaced: no conversation with a turn under way is new in it.
LEMMA MergeShows == ASSUME IInv, MergeConversationSummaries PROVE Shown'
<1>1. /\ listFetch # None /\ listFetch' = None
      /\ UNCHANGED <<loaded, stored, overtaken, removed, fetches>>
      /\ messages' = [c \in Conversations |->
                          IF Listed(c) /\ c \in listFetch THEN messages[c] ELSE {}]
      /\ conversations' = SetToSeq(listFetch)
  BY DEF MergeConversationSummaries, history
<1>2. listFetch \subseteq Conversations
  BY DEF MergeConversationSummaries, IInv, Types, NetworkTypes
<1>3. \A d : Listed(d)' => d \in listFetch
  BY <1>1, <1>2, AnswerIsListed DEF Listed
<1>4. \A d \in loaded \ removed : Listed(d)
  BY <1>1 DEF IInv, Shown, LoadedAreListed
<1>5. \A d \in loaded \ removed : Listed(d)' => messages'[d] = messages[d]
  BY <1>1, <1>2, <1>3, <1>4
<1>6. PromptStaysShown'
  <2>1. SUFFICES ASSUME NEW t \in Turns, NEW d, d = conversationOf[t], Running(t), Listed(d)',
                        d \notin removed
                 PROVE  t \in messages'[d]
    BY <1>1 DEF PromptStaysShown, Running, Listed, MergeConversationSummaries, turnVars
  <2>2. d \in loaded \ removed
    BY <2>1, RunningIsLoaded
  <2>3. t \in messages[d]
    BY <1>4, <2>1, <2>2 DEF IInv, Shown, PromptStaysShown
  <2>4. QED
    BY <1>5, <2>1, <2>2, <2>3
<1>7. LoadedIsComplete'
  BY <1>1, <1>4, <1>5 DEF IInv, Shown, LoadedIsComplete
<1>8. TypingHasStream' /\ StreamCanBeStopped'
  BY StreamsStay DEF IInv, MergeConversationSummaries, turnVars, history, streamVars
<1>9. TurnsAreLoaded' /\ LoadedAreListed' /\ DetailsAreComplete'
  BY <1>1 DEF IInv, Shown, TurnsAreLoaded, LoadedAreListed, DetailsAreComplete,
              MergeConversationSummaries, turnVars
<1>10. QED
  BY <1>6, <1>7, <1>8, <1>9 DEF Shown

LEMMA ListFailsShows == ASSUME IInv, ListFails PROVE Shown'
<1>1. \A d : ~Listed(d)'
  BY DEF ListFails, Listed, Contains
<1>2. PromptStaysShown' /\ LoadedIsComplete'
  BY <1>1 DEF PromptStaysShown, LoadedIsComplete, ListFails, turnVars, history
<1>3. TypingHasStream' /\ StreamCanBeStopped'
  BY StreamsStay DEF IInv, ListFails, turnVars, history, streamVars
<1>4. TurnsAreLoaded' /\ LoadedAreListed' /\ DetailsAreComplete'
  BY DEF IInv, Shown, TurnsAreLoaded, LoadedAreListed, DetailsAreComplete, ListFails, turnVars,
         history
<1>5. QED
  BY <1>2, <1>3, <1>4 DEF Shown

\* Details are shown only where nothing was sent, and then they are all there is.
LEMMA DetailsShow == ASSUME IInv, NEW f \in fetches, ShowDetails(f) PROVE Shown'
<1> DEFINE c == f.conversation
<1>0. /\ UNCHANGED streamVars /\ UNCHANGED <<stored, overtaken, removed, listFetch>>
      /\ fetches' = fetches \ {f}
  BY DEF ShowDetails, streamVars, turnVars, history
<1>1. CASE Discard(c)
  <2>1. UNCHANGED shownVars /\ \A d : Listed(d)' <=> Listed(d)
    BY <1>0, <1>1 DEF ShowDetails, shownVars, Listed
  <2>2. QED
    BY <1>0, <2>1, NothingNewShown DEF IInv
<1>2. CASE ~Discard(c)
  <2>0. c \in Conversations /\ f.turns # None /\ c \notin loaded
    BY <1>2 DEF IInv, Types, NetworkTypes, Fetches, ShowDetails, Discard
  <2>1. /\ loaded' = loaded \cup {c} /\ messages' = [messages EXCEPT ![c] = f.turns]
        /\ messages'[c] = f.turns /\ \A d \in Conversations \ {c} : messages'[d] = messages[d]
    BY <1>2, <2>0 DEF ShowDetails, IInv, Types, TypeOK
  <2>2. \A d : Listed(d)' <=> Listed(d) \/ d = c
    <3> DEFINE rest == RemoveFirst(conversations, c)
    <3>1. /\ rest \in Seq(Conversations) /\ IsInjective(rest)
          /\ \A d : Contains(rest, d) <=> Contains(conversations, d) /\ d # c
      BY RemoveFirstKeepsOthers DEF IInv, Types, TypeOK
    <3>2. conversations' = <<c>> \o rest
      BY <1>2 DEF ShowDetails
    <3> HIDE DEF rest, c
    <3>3. \A d : Contains(<<c>> \o rest, d) <=> Contains(rest, d) \/ d = c
      BY <2>0, <3>1, PrependAdds
    <3>4. QED
      BY <3>1, <3>2, <3>3 DEF Listed
  <2> HIDE DEF c
  <2>3. PromptStaysShown'
    <3>1. SUFFICES ASSUME NEW t \in Turns, NEW d, d = conversationOf[t], Running(t),
                          Listed(d)', d \notin removed
                   PROVE  t \in messages'[d]
      BY <1>0 DEF PromptStaysShown, Running, Listed, streamVars
    <3>2. d \in Conversations /\ d \in loaded
      BY <3>1, RunningIsLoaded
    <3>3. d # c /\ Listed(d)
      BY <2>0, <2>2, <3>1, <3>2
    <3>4. t \in messages[d]
      BY <3>1, <3>3 DEF IInv, Shown, PromptStaysShown
    <3>5. QED
      BY <2>1, <3>2, <3>3, <3>4
  <2>4. LoadedIsComplete'
    <3>1. SUFFICES ASSUME NEW d \in loaded', d \notin overtaken, d \notin removed,
                          Listed(d)', stored[d] # None
                   PROVE  stored[d] \subseteq messages'[d]
      BY <1>0 DEF LoadedIsComplete
    <3>2. CASE d = c
      <4>1. stored[c] \subseteq f.turns
        BY <2>0, <3>1, <3>2 DEF IInv, Shown, DetailsAreComplete, c
      <4>2. QED
        BY <2>1, <3>2, <4>1
    <3>3. CASE d # c
      <4>1. d \in loaded /\ d \in Conversations /\ Listed(d)
        BY <2>1, <2>2, <3>1, <3>3 DEF IInv, Types, TypeOK
      <4>2. QED
        BY <2>1, <3>1, <3>3, <4>1 DEF IInv, Shown, LoadedIsComplete
    <3>4. QED
      BY <3>2, <3>3
  <2>5. TypingHasStream' /\ StreamCanBeStopped'
    BY <1>0, StreamsStay DEF IInv
  <2>6. TurnsAreLoaded' /\ LoadedAreListed' /\ DetailsAreComplete'
    BY <1>0, <2>1, <2>2
       DEF IInv, Shown, TurnsAreLoaded, LoadedAreListed, DetailsAreComplete, streamVars
  <2>7. QED
    BY <2>3, <2>4, <2>5, <2>6 DEF Shown
<1>3. QED
  BY <1>1, <1>2

\* The details that the server reads are all that is stored.
LEMMA AnswerShows == ASSUME IInv, NEW f \in fetches, AnswerDetails(f) PROVE Shown'
<1> DEFINE g == [f EXCEPT !.turns = stored[f.conversation]]
<1>1. /\ UNCHANGED streamVars /\ UNCHANGED shownVars /\ conversations' = conversations
      /\ fetches' = (fetches \ {f}) \cup {g}
  BY DEF AnswerDetails, streamVars, shownVars, hookVars, turnVars, history
<1>2. g.turns = stored[f.conversation] /\ g.conversation = f.conversation
  BY DEF IInv, Types, NetworkTypes, Fetches
<1> HIDE DEF g
<1>3. DetailsAreComplete'
  BY <1>1, <1>2 DEF IInv, Shown, DetailsAreComplete, shownVars
<1>4. TypingHasStream' /\ StreamCanBeStopped'
  BY <1>1, StreamsStay DEF IInv
<1>5. PromptStaysShown' /\ TurnsAreLoaded'
  BY <1>1
     DEF IInv, Shown, PromptStaysShown, TurnsAreLoaded, Running, Listed, streamVars, shownVars
<1>6. LoadedIsComplete' /\ LoadedAreListed'
  BY <1>1 DEF IInv, Shown, LoadedIsComplete, LoadedAreListed, Listed, shownVars
<1>7. QED
  BY <1>3, <1>4, <1>5, <1>6 DEF Shown

LEMMA CreatedIsListed ==
    ASSUME Types, NEW c \in Conversations, AddCreated(c), conversations' = <<c>> \o conversations
    PROVE  \A d : Listed(d)' <=> Listed(d) \/ d = c
<1>1. conversations \in Seq(Conversations) /\ IsInjective(conversations)
  BY DEF Types, TypeOK
<1>2. ~Contains(conversations, c)
  BY DEF AddCreated, Listed
<1>3. \A d : Contains(<<c>> \o conversations, d) <=> Contains(conversations, d) \/ d = c
  BY <1>1, <1>2, PrependAdds
<1>4. QED
  BY <1>3 DEF Listed

LEMMA ChatCreatedShows == ASSUME IInv, NEW c \in New, ChatCreated(c) PROVE Shown'
<1>1. /\ UNCHANGED streamVars
      /\ UNCHANGED <<messages, overtaken, removed, listFetch, fetches>>
      /\ loaded' = loaded \cup {c} /\ stored' = [stored EXCEPT ![c] = {}]
      /\ conversations' = <<c>> \o conversations /\ AddCreated(c)
  BY DEF ChatCreated, AddCreated, streamVars, turnVars, history
<1>2. c \in Conversations /\ stored \in [Conversations -> (SUBSET AllTurns) \cup {None}]
  BY DEF IInv, Types, NetworkTypes, Conversations
<1>3. \A d : Listed(d)' <=> Listed(d) \/ d = c
  BY <1>1, <1>2, CreatedIsListed DEF IInv
<1>4. stored'[c] = {} /\ \A d \in Conversations \ {c} : stored'[d] = stored[d]
  BY <1>1, <1>2
<1>5. PromptStaysShown'
  <2>1. SUFFICES ASSUME NEW t \in Turns, NEW d, d = conversationOf[t], Running(t), Listed(d)',
                        d \notin removed
                 PROVE  t \in messages[d]
    BY <1>1 DEF PromptStaysShown, Running, Listed, streamVars
  <2>2. Listed(d)
    BY <1>1, <1>3, <2>1 DEF AddCreated
  <2>3. QED
    BY <2>1, <2>2 DEF IInv, Shown, PromptStaysShown
<1>6. LoadedIsComplete'
  <2>1. SUFFICES ASSUME NEW d \in loaded \cup {c}, d \notin overtaken, d \notin removed,
                        Listed(d)', stored'[d] # None
                 PROVE  stored'[d] \subseteq messages[d]
    BY <1>1 DEF LoadedIsComplete
  <2>2. d = c \/ (d \in Conversations \ {c} /\ d \in loaded /\ Listed(d))
    BY <1>3, <2>1 DEF IInv, Types, TypeOK
  <2>3. QED
    BY <1>4, <2>1, <2>2 DEF IInv, Shown, LoadedIsComplete
<1>7. TypingHasStream' /\ StreamCanBeStopped'
  BY <1>1, StreamsStay DEF IInv
<1>8. TurnsAreLoaded' /\ LoadedAreListed'
  BY <1>1, <1>3 DEF IInv, Shown, TurnsAreLoaded, LoadedAreListed, streamVars
<1>9. DetailsAreComplete'
  BY <1>1, <1>4 DEF IInv, Types, NetworkTypes, Fetches, Shown, DetailsAreComplete
<1>10. QED
  BY <1>5, <1>6, <1>7, <1>8, <1>9 DEF Shown

LEMMA DeleteStoredShows == ASSUME IInv, DeleteStored PROVE Shown'
<1> DEFINE c == change.conversation
<1>1. /\ UNCHANGED streamVars /\ UNCHANGED conversations
      /\ UNCHANGED <<messages, loaded, overtaken, removed, listFetch, fetches>>
      /\ stored' = [stored EXCEPT ![c] = None]
  BY DEF DeleteStored, streamVars, hookVars, turnVars, history
<1>2. \A d \in Conversations : stored'[d] = None \/ stored'[d] = stored[d]
  BY <1>1 DEF IInv, Types, NetworkTypes
<1>3. TypingHasStream' /\ StreamCanBeStopped'
  BY <1>1, StreamsStay DEF IInv
<1>4. PromptStaysShown' /\ TurnsAreLoaded' /\ LoadedAreListed'
  BY <1>1 DEF IInv, Shown, PromptStaysShown, TurnsAreLoaded, LoadedAreListed, Running, Listed,
              streamVars
<1>5. LoadedIsComplete'
  BY <1>1, <1>2 DEF IInv, Types, TypeOK, Shown, LoadedIsComplete, Listed
<1>6. DetailsAreComplete'
  BY <1>1, <1>2 DEF IInv, Types, NetworkTypes, Fetches, Shown, DetailsAreComplete
<1>7. QED
  BY <1>3, <1>4, <1>5, <1>6 DEF Shown

LEMMA DeletedShows == ASSUME IInv, Deleted PROVE Shown'
<1> DEFINE c == change.conversation
<1>1. /\ UNCHANGED streamVars /\ UNCHANGED <<stored, overtaken, listFetch, fetches>>
      /\ loaded' = loaded \ {c} /\ removed' = removed \cup {c}
      /\ messages' = [messages EXCEPT ![c] = {}]
      /\ conversations' = RemoveFirst(conversations, c)
  BY DEF Deleted, streamVars, turnVars
<1> HIDE DEF c
<1>2. \A d : Listed(d)' <=> Listed(d) /\ d # c
  BY <1>1, RemoveFirstKeepsOthers DEF IInv, Types, TypeOK, Listed
<1>3. \A d \in Conversations \ {c} : messages'[d] = messages[d]
  BY <1>1 DEF IInv, Types, TypeOK
<1>4. PromptStaysShown'
  <2>1. SUFFICES ASSUME NEW t \in Turns, NEW d, d = conversationOf[t], Running(t), Listed(d)',
                        d \notin removed'
                 PROVE  t \in messages'[d]
    BY <1>1 DEF PromptStaysShown, Running, Listed, streamVars
  <2>2. d \in Conversations \ {c} /\ d \notin removed /\ Listed(d)
    BY <1>1, <1>2, <2>1, RunningIsLoaded
  <2>3. QED
    BY <1>3, <2>1, <2>2 DEF IInv, Shown, PromptStaysShown
<1>5. LoadedIsComplete'
  BY <1>1, <1>2, <1>3 DEF IInv, Types, TypeOK, Shown, LoadedIsComplete
<1>6. TypingHasStream' /\ StreamCanBeStopped'
  BY <1>1, StreamsStay DEF IInv
<1>7. TurnsAreLoaded' /\ LoadedAreListed' /\ DetailsAreComplete'
  BY <1>1, <1>2
     DEF IInv, Shown, TurnsAreLoaded, LoadedAreListed, DetailsAreComplete, streamVars
<1>8. QED
  BY <1>4, <1>5, <1>6, <1>7 DEF Shown

\* A turn begins in a conversation that is listed, or that was created for it.
LEMMA BeginShows ==
    ASSUME IInv, NEW t \in Turns, NEW c \in Conversations, Begin(t, c), ~Running(t),
           Listed(c)', \A d : d # c => (Listed(d)' <=> Listed(d)),
           \/ Listed(c) /\ stored' = stored
           \/ AddCreated(c)
    PROVE  Shown'
<1>1. /\ phase' = [phase EXCEPT ![t] = "fetching"]
      /\ conversationOf' = [conversationOf EXCEPT ![t] = c]
      /\ isTyping' = TRUE /\ abortRef' = t /\ loaded' = loaded \cup {c}
      /\ aborted' = IF abortRef = None THEN aborted ELSE aborted \cup {abortRef}
      /\ UNCHANGED <<listFetch, fetches, disturbed, removed>>
  BY DEF Begin, MarkLoaded, AbortPrevious
<1>2. /\ phase'[t] = "fetching" /\ conversationOf'[t] = c
      /\ \A u \in Turns \ {t} : phase'[u] = phase[u] /\ conversationOf'[u] = conversationOf[u]
  BY <1>1 DEF IInv, Types, TypeOK, NetworkTypes
<1>3. \A d \in Conversations \ {c} : stored'[d] = stored[d]
  BY DEF AddCreated, IInv, Types, NetworkTypes
<1>4. AddCreated(c) => stored[c] = None /\ stored'[c] = {} /\ stored'[c] # stored[c]
  <2>1. {} # None
    BY ConstantsAssumption
  <2>2. AddCreated(c) => stored'[c] = {}
    BY DEF AddCreated, IInv, Types, NetworkTypes
  <2>3. QED
    BY <2>1, <2>2 DEF AddCreated
<1>5. messages' = [messages EXCEPT ![c] = @ \cup {t}]
  BY <1>4 DEF Begin
<1>6. /\ messages'[c] = messages[c] \cup {t}
      /\ \A d \in Conversations \ {c} : messages'[d] = messages[d]
  BY <1>5 DEF IInv, Types, TypeOK
<1>7. TypingHasStream'
  BY <1>2 DEF TypingHasStream, Running
<1>8. StreamCanBeStopped'
  <2>1. SUFFICES ASSUME NEW u \in Turns, Running(u)', u \notin aborted', u \notin disturbed
                 PROVE  isTyping' /\ abortRef' = u
    BY <1>1 DEF StreamCanBeStopped
  <2>2. CASE u # t
    <3>1. Running(u) /\ u \notin aborted
      BY <1>1, <1>2, <2>1, <2>2 DEF Running
    <3>2. abortRef = u
      BY <2>1, <3>1 DEF IInv, Shown, StreamCanBeStopped
    <3>3. u # None
      BY ConstantsAssumption
    <3>4. QED
      BY <1>1, <2>1, <3>2, <3>3
  <2>3. QED
    BY <1>1, <2>2
<1>9. PromptStaysShown'
  <2>1. SUFFICES ASSUME NEW u \in Turns, NEW d, d = conversationOf'[u], Running(u)',
                        Listed(d)', d \notin removed
                 PROVE  u \in messages'[d]
    BY <1>1 DEF PromptStaysShown, Listed
  <2>2. CASE u # t
    <3>1. Running(u) /\ d = conversationOf[u]
      BY <1>2, <2>1, <2>2 DEF Running
    <3>2. d \in Conversations
      BY <3>1, RunningIsLoaded
    <3>3. Listed(d)
      BY <2>1, <3>1 DEF AddCreated
    <3>4. u \in messages[d]
      BY <2>1, <3>1, <3>3 DEF IInv, Shown, PromptStaysShown
    <3>5. QED
      BY <1>6, <3>2, <3>4
  <2>3. QED
    BY <1>2, <1>6, <2>1, <2>2
<1>10. LoadedIsComplete'
  <2>1. SUFFICES ASSUME NEW d \in loaded \cup {c}, d \notin overtaken', d \notin removed,
                        Listed(d)', stored'[d] # None
                 PROVE  stored'[d] \subseteq messages'[d]
    BY <1>1 DEF LoadedIsComplete
  <2>2. overtaken' = IF c \in loaded \/ stored'[c] # stored[c]
                     THEN overtaken ELSE overtaken \cup {c}
    BY DEF Begin
  <2>3. CASE d # c
    BY <1>3, <1>6, <2>1, <2>2, <2>3 DEF IInv, Types, TypeOK, Shown, LoadedIsComplete
  <2>4. CASE d = c /\ AddCreated(c)
    BY <1>4, <2>4
  <2>5. CASE d = c /\ stored' = stored /\ Listed(c)
    BY <1>6, <2>1, <2>2, <2>5 DEF IInv, Shown, LoadedIsComplete
  <2>6. QED
    BY <2>3, <2>4, <2>5
<1>11. TurnsAreLoaded'
  <2>1. SUFFICES ASSUME NEW u \in Turns, conversationOf'[u] # None
                 PROVE  conversationOf'[u] \in loaded' \cup removed'
    BY DEF TurnsAreLoaded
  <2>2. QED
    BY <1>1, <1>2, <2>1 DEF IInv, Shown, TurnsAreLoaded
<1>12. LoadedAreListed'
  BY <1>1 DEF IInv, Shown, LoadedAreListed
<1>13. DetailsAreComplete'
  BY <1>1, <1>3 DEF IInv, Types, NetworkTypes, Fetches, Shown, DetailsAreComplete
<1>14. QED
  BY <1>7, <1>8, <1>9, <1>10, <1>11, <1>12, <1>13 DEF Shown

\* A turn ends: a stream that still runs is disturbed by it.
LEMMA EndShows ==
    ASSUME IInv, NEW t \in Turns, End(t), stored' = stored, \A d : Listed(d)' <=> Listed(d)
    PROVE  Shown'
<1>1. /\ UNCHANGED <<conversationOf, aborted>> /\ UNCHANGED shownVars /\ fetches' = fetches
      /\ isTyping' = FALSE /\ phase' = [phase EXCEPT ![t] = "ended"]
      /\ disturbed' = disturbed \cup {u \in Turns \ {t} : Running(u)}
  BY DEF End, Settle, shownVars
<1>2. \A u \in Turns : Running(u)' => Running(u) /\ u # t
  BY <1>1 DEF Running, IInv, Types, TypeOK
<1>3. TypingHasStream'
  BY <1>1 DEF TypingHasStream
<1>4. StreamCanBeStopped'
  BY <1>1, <1>2 DEF StreamCanBeStopped
<1>5. PromptStaysShown'
  <2>1. SUFFICES ASSUME NEW u \in Turns, NEW d, d = conversationOf[u], Running(u),
                        Listed(d)', d \notin removed
                 PROVE  u \in messages[d]
    BY <1>1, <1>2 DEF PromptStaysShown, Listed, shownVars
  <2>2. QED
    BY <2>1 DEF IInv, Shown, PromptStaysShown
<1>6. LoadedIsComplete' /\ LoadedAreListed'
  BY <1>1 DEF IInv, Shown, LoadedIsComplete, LoadedAreListed, shownVars
<1>7. TurnsAreLoaded' /\ DetailsAreComplete'
  BY <1>1 DEF IInv, Shown, TurnsAreLoaded, DetailsAreComplete, shownVars
<1>8. QED
  BY <1>3, <1>4, <1>5, <1>6, <1>7 DEF Shown

\* What the server stores is shown already.
LEMMA AcceptShows == ASSUME IInv, NEW t \in Turns, Accept(t) PROVE Shown'
<1> DEFINE c == conversationOf[t]
<1>1. /\ phase[t] = "fetching" /\ phase' = [phase EXCEPT ![t] = "reading"]
      /\ UNCHANGED <<conversationOf, aborted, isTyping, abortRef, disturbed>>
      /\ UNCHANGED <<messages, loaded, overtaken, removed, listFetch, fetches, conversations>>
      /\ stored' = [stored EXCEPT ![c] = IF @ = None THEN {t} ELSE @ \cup {t}]
  BY DEF Accept, hookVars, history
<1>2. \A u \in Turns : Running(u)' <=> Running(u)
  BY <1>1 DEF Running, IInv, Types, TypeOK
<1>3. Running(t) /\ c \in Conversations /\ c \in loaded \cup removed
  BY <1>1, RunningIsLoaded DEF Running
<1> HIDE DEF c
<1>4. /\ stored'[c] = IF stored[c] = None THEN {t} ELSE stored[c] \cup {t}
      /\ \A d \in Conversations \ {c} : stored'[d] = stored[d]
  BY <1>1, <1>3 DEF IInv, Types, NetworkTypes
<1>5. TypingHasStream' /\ StreamCanBeStopped'
  BY <1>1, <1>2 DEF IInv, Shown, TypingHasStream, StreamCanBeStopped
<1>6. PromptStaysShown'
  BY <1>1, <1>2 DEF IInv, Shown, PromptStaysShown, Listed
<1>7. LoadedIsComplete'
  <2>1. SUFFICES ASSUME NEW d \in loaded, d \notin overtaken, d \notin removed,
                        Listed(d), stored'[d] # None
                 PROVE  stored'[d] \subseteq messages[d]
    BY <1>1 DEF LoadedIsComplete, Listed
  <2>2. CASE d = c
    <3>1. t \in messages[d]
      BY <1>3, <2>1, <2>2 DEF IInv, Shown, PromptStaysShown, c
    <3>2. QED
      BY <1>4, <2>1, <2>2, <3>1 DEF IInv, Shown, LoadedIsComplete
  <2>3. CASE d # c
    BY <1>4, <2>1, <2>3 DEF IInv, Types, TypeOK, Shown, LoadedIsComplete
  <2>4. QED
    BY <2>2, <2>3
<1>8. TurnsAreLoaded' /\ LoadedAreListed'
  BY <1>1 DEF IInv, Shown, TurnsAreLoaded, LoadedAreListed, Listed
<1>9. DetailsAreComplete'
  BY <1>1, <1>3, <1>4 DEF IInv, Types, NetworkTypes, Fetches, Shown, DetailsAreComplete
<1>10. QED
  BY <1>5, <1>6, <1>7, <1>8, <1>9 DEF Shown

LEMMA StopShows == ASSUME IInv, Stop PROVE Shown'
<1>1. /\ UNCHANGED <<phase, conversationOf, disturbed, fetches, conversations>>
      /\ UNCHANGED shownVars
      /\ aborted' = aborted \cup {abortRef} /\ isTyping' = FALSE
  BY DEF Stop, networkVars, history, shownVars
<1>2. TypingHasStream' /\ StreamCanBeStopped'
  BY <1>1 DEF IInv, Shown, TypingHasStream, StreamCanBeStopped, Running
<1>3. PromptStaysShown' /\ TurnsAreLoaded'
  BY <1>1 DEF IInv, Shown, PromptStaysShown, TurnsAreLoaded, Running, Listed, shownVars
<1>4. LoadedIsComplete' /\ LoadedAreListed' /\ DetailsAreComplete'
  BY <1>1 DEF IInv, Shown, LoadedIsComplete, LoadedAreListed, DetailsAreComplete, Listed, shownVars
<1>5. QED
  BY <1>2, <1>3, <1>4 DEF Shown

\* A prompt that has to wait for its conversation is not shown yet.
LEMMA SendFirstShows == ASSUME IInv, NEW t \in Turns, SendFirst(t) PROVE Shown'
<1>1. /\ phase[t] = "idle" /\ phase' = [phase EXCEPT ![t] = "creating"]
      /\ UNCHANGED <<conversationOf, aborted, isTyping, abortRef, disturbed>>
      /\ UNCHANGED shownVars /\ UNCHANGED <<conversations, fetches>>
  BY DEF SendFirst, hookVars, networkVars, history, shownVars
<1>2. \A u \in Turns : Running(u)' <=> Running(u)
  BY <1>1 DEF Running, IInv, Types, TypeOK
<1>3. TypingHasStream' /\ StreamCanBeStopped'
  BY <1>1, <1>2 DEF IInv, Shown, TypingHasStream, StreamCanBeStopped
<1>4. PromptStaysShown' /\ TurnsAreLoaded'
  BY <1>1, <1>2 DEF IInv, Shown, PromptStaysShown, TurnsAreLoaded, Listed, shownVars
<1>5. LoadedIsComplete' /\ LoadedAreListed' /\ DetailsAreComplete'
  BY <1>1 DEF IInv, Shown, LoadedIsComplete, LoadedAreListed, DetailsAreComplete, Listed, shownVars
<1>6. QED
  BY <1>3, <1>4, <1>5 DEF Shown

\* The rest shows nothing else: what is asked for, effects, failures, updates.
LEMMA QuietShows ==
    ASSUME IInv,
           \/ CreationFails \/ Renamed \/ ChangeFails \/ Effects \/ NewChat \/ UNCHANGED vars
           \/ \E f \in fetches : DetailsFail(f)
           \/ \E c \in Conversations : SelectConversation(c)
           \/ \E c \in Conversations, kind \in {"rename", "delete"} : RequestChange(kind, c)
           \/ \E t \in Turns : Progress(t)
    PROVE  Shown'
<1>1. CASE Renamed
  <2>1. change.conversation \in Conversations
    BY <1>1 DEF Renamed, IInv, Types, NetworkTypes
  <2>2. \A d : Listed(d)' <=> Listed(d)
    BY <1>1, <2>1, MoveKeepsListed DEF Renamed, IInv
  <2>3. UNCHANGED streamVars /\ UNCHANGED shownVars /\ fetches' = fetches
    BY <1>1 DEF Renamed, streamVars, shownVars, turnVars, history
  <2>4. QED
    BY <2>2, <2>3, NothingNewShown DEF IInv
<1>2. ASSUME NEW t \in Turns, Progress(t) PROVE Shown'
  <2>1. conversationOf[t] \in Conversations \cup {None}
    BY DEF IInv, Types, NetworkTypes
  <2>2. \A d : Listed(d)' <=> Listed(d)
    BY <1>2, <2>1, MoveKeepsListed DEF Progress, IInv
  <2>3. UNCHANGED streamVars /\ UNCHANGED shownVars /\ fetches' = fetches
    BY <1>2 DEF Progress, streamVars, shownVars, networkVars, turnVars, history
  <2>4. QED
    BY <2>2, <2>3, NothingNewShown DEF IInv
<1>3. CASE Effects
  <2>1. /\ UNCHANGED streamVars /\ UNCHANGED shownVars /\ conversations' = conversations
        /\ \A f \in fetches' : f.turns # None => f \in fetches
    <3>1. CASE FollowList
      BY <3>1 DEF FollowList, streamVars, shownVars, networkVars, turnVars, history
    <3>2. CASE LoadConversationDetail
      <4>1. \A f \in fetches' : f \in fetches \/ f = [conversation |-> activeId, turns |-> None]
        BY <3>2 DEF LoadConversationDetail
      <4>2. QED
        BY <3>2, <4>1 DEF LoadConversationDetail, streamVars, shownVars, turnVars, history
    <3>3. QED
      BY <1>3, <3>1, <3>2 DEF Effects
  <2>2. QED
    BY <2>1, NothingNewShown DEF IInv, Listed
<1>4. CASE \/ CreationFails \/ ChangeFails \/ NewChat \/ UNCHANGED vars
           \/ \E f \in fetches : DetailsFail(f)
           \/ \E c \in Conversations : SelectConversation(c)
           \/ \E c \in Conversations, kind \in {"rename", "delete"} : RequestChange(kind, c)
  <2>1. /\ UNCHANGED streamVars /\ UNCHANGED shownVars /\ conversations' = conversations
        /\ fetches' \subseteq fetches
    BY <1>4 DEF CreationFails, ChangeFails, NewChat, vars, DetailsFail, SelectConversation,
                RequestChange, streamVars, shownVars, hookVars, networkVars, turnVars, history
  <2>2. QED
    BY <2>1, NothingNewShown DEF IInv, Listed
<1>5. QED
  BY <1>1, <1>2, <1>3, <1>4

-----------------------------------------------------------------------------
(* The theorems                                                            *)

LEMMA IInvStep == ASSUME IInv, [Next]_vars PROVE IInv'
<1>1. Types'
  BY TypesStep DEF IInv
<1>n. New \subseteq Conversations
  BY DEF Conversations
<1>2. ASSUME NEW t \in Turns, Send(t) PROVE Shown'
  <2>1. /\ Listed(activeId) /\ Begin(t, activeId) /\ stored' = stored
        /\ UpdateConversation(activeId) /\ ~Running(t)
    BY <1>2 DEF Send, Running
  <2>2. activeId \in Conversations
    BY <2>1 DEF Listed, Contains, IInv, Types, TypeOK
  <2>3. \A d : Listed(d)' <=> Listed(d)
    BY <2>1, <2>2, MoveKeepsListed DEF IInv
  <2> DEFINE c == activeId
  <2>4. /\ c \in Conversations /\ Begin(t, c) /\ Listed(c) /\ \A d : Listed(d)' <=> Listed(d)
    BY <2>1, <2>2, <2>3
  <2> HIDE DEF c
  <2>5. QED
    BY <2>1, <2>4, BeginShows
<1>3. ASSUME NEW t \in Turns, NEW c \in New, FirstCreated(t, c) PROVE Shown'
  <2>1. /\ Begin(t, c) /\ AddCreated(c) /\ conversations' = <<c>> \o conversations
        /\ ~Running(t) /\ c \in Conversations
    BY <1>3, <1>n DEF FirstCreated, Running
  <2>2. \A d : Listed(d)' <=> Listed(d) \/ d = c
    BY <2>1, CreatedIsListed DEF IInv
  <2>3. QED
    BY <2>1, <2>2, BeginShows
<1>4. ASSUME NEW t \in Turns, FirstFails(t) \/ Done(t) \/ Fail(t) \/ NoticeAbort(t) PROVE Shown'
  <2>1. End(t) /\ stored' = stored
    BY <1>4 DEF FirstFails, Done, Fail, NoticeAbort
  <2>2. conversationOf[t] \in Conversations \cup {None}
    BY DEF IInv, Types, NetworkTypes
  <2>3. conversations' = conversations \/ UpdateConversation(conversationOf[t])
    BY <1>4 DEF FirstFails, Done, Fail, NoticeAbort
  <2>4. \A d : Listed(d)' <=> Listed(d)
    <3>1. CASE conversations' = conversations
      BY <3>1 DEF Listed
    <3>2. CASE UpdateConversation(conversationOf[t])
      BY <2>2, <3>2, MoveKeepsListed DEF IInv
    <3>3. QED
      BY <2>3, <3>1, <3>2
  <2>5. QED
    BY <2>1, <2>4, EndShows
<1>5. ASSUME AnswerList PROVE Shown'
  <2>1. /\ UNCHANGED streamVars /\ UNCHANGED <<messages, loaded, stored, overtaken, removed>>
        /\ UNCHANGED <<conversations, fetches>> /\ listFetch # None
    BY <1>5, ConstantsAssumption DEF AnswerList, streamVars, hookVars, turnVars, history
  <2>2. TypingHasStream' /\ StreamCanBeStopped'
    BY <2>1, StreamsStay DEF IInv
  <2>3. PromptStaysShown' /\ TurnsAreLoaded'
    BY <2>1 DEF IInv, Shown, PromptStaysShown, TurnsAreLoaded, Running, Listed, streamVars
  <2>4. LoadedIsComplete' /\ LoadedAreListed' /\ DetailsAreComplete'
    BY <2>1 DEF IInv, Shown, LoadedIsComplete, LoadedAreListed, DetailsAreComplete, Listed
  <2>5. QED
    BY <2>2, <2>3, <2>4 DEF Shown
<1>6. ASSUME Network PROVE Shown'
  <2>1. ASSUME AnswerList \/ MergeConversationSummaries \/ ListFails PROVE Shown'
    BY <1>5, <2>1, MergeShows, ListFailsShows
  <2>2. ASSUME NEW f \in fetches, AnswerDetails(f) \/ ShowDetails(f) \/ DetailsFail(f)
        PROVE  Shown'
    BY <2>2, AnswerShows, DetailsShow, QuietShows
  <2>3. ASSUME NEW c \in New, ChatCreated(c) PROVE Shown'
    BY <2>3, ChatCreatedShows
  <2>4. CASE CreationFails \/ Renamed \/ DeleteStored \/ Deleted \/ ChangeFails
    BY <2>4, QuietShows, DeleteStoredShows, DeletedShows
  <2>5. QED
    BY <1>6, <2>1, <2>2, <2>3, <2>4 DEF Network
<1>7. ASSUME User PROVE Shown'
  BY <1>2, <1>7, QuietShows, StopShows, SendFirstShows DEF User
<1>8. ASSUME NEW t \in Turns, Stream(t) \/ Progress(t) PROVE Shown'
  BY <1>3, <1>4, <1>8, AcceptShows, QuietShows DEF Stream
<1>9. ASSUME Effects \/ UNCHANGED vars PROVE Shown'
  BY <1>9, QuietShows
<1>10. QED
  BY <1>1, <1>6, <1>7, <1>8, <1>9 DEF Next, IInv

LEMMA AlwaysIInv == Spec => []IInv
<1>1. Init => IInv
  BY TypesInit, ShownInit DEF IInv
<1>2. QED
  BY <1>1, IInvStep, PTL DEF Spec

\* Whatever ends, fails, is stopped or replaced: the typing indicator is shown only
\* while an answer is streamed, and a stream that nothing disturbed can be stopped.
THEOREM StreamAlwaysUnderControl == Spec => []StreamUnderControl
<1>1. IInv => StreamUnderControl
  BY DEF IInv, Types, Shown, StreamUnderControl
<1>2. QED
  BY <1>1, AlwaysIInv, PTL

\* A prompt stays on screen while its answer is awaited, and a conversation that
\* counts as loaded shows all that is stored, unless a turn overtook its details.
THEOREM NothingSentEverDisappears == Spec => []NothingSentDisappears
<1>1. IInv => NothingSentDisappears
  BY DEF IInv, Shown, NothingSentDisappears
<1>2. QED
  BY <1>1, AlwaysIInv, PTL

=============================================================================
