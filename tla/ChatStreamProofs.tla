---------------------------- MODULE ChatStreamProofs ----------------------------
(***************************************************************************)
(* Proofs about ChatStream, for answers of any length: the client is sent  *)
(* the agent's events in order, damaged only where a read cut a character, *)
(* what is stored was shown, and a request that is over has the true       *)
(* outcome on record.                                                      *)
(***************************************************************************)
EXTENDS ChatStream, SequenceTheorems, TLAPS

\* StreamChatAsync has not begun to forward.
BeforeStream == {"idle", "create", "append", "send", "refused", "start", "session",
                 "refused_ai", "refused_platform", "rejected", "not_found", "proxied"}

\* The session event has been written, if there is one to write.
Opening == {"flush", "open"}

\* The agent's answer has been read to its end.
AfterStream == {"ai_success", "persist", "persist_failure", "platform_success", "completed"}

-----------------------------------------------------------------------------
(* The inductive invariant                                                 *)

\* What the agent has sent and the controller has not yet forwarded.
Travelling == rawBuffer \o wire

\* The pieces that travel are those of the events after the first "taken" ones:
\* two of each, of the last one maybe only the first.
PiecesFollow(taken) ==
    \A i \in 1..Len(Travelling) :
        \E j \in 1..Len(emitted) - taken :
            /\ i = 2 * j - 1 \/ i = 2 * j
            /\ Travelling[i].event = emitted[taken + j] /\ (Travelling[i].last <=> i = 2 * j)

\* While the agent sends, what it emitted is on its way or still in the queue.
QueueFollows(taken) ==
    sending \in {"none", "open"} =>
        \E sent \in 0..Len(emitted) - taken :
            /\ Len(Travelling) = 2 * sent
            /\ queue = SubSeq(emitted, taken + sent + 1, Len(emitted))

\* A response that ended properly has brought everything.
AllSent(taken) ==
    sending = "closed" /\ pc \in {"start", "session", "flush", "open", "stream"} =>
        /\ agent = "finished"
        /\ Len(Travelling) = 2 * (Len(emitted) - taken)

\* The pieces that a read cut within a character are the first ones of the events
\* on record for it, and no event is that has not been read.
DamageFollows(taken) ==
    /\ 0 \notin cuts
    /\ \A i \in 1..Len(wire) : wire[i].intact
    /\ \A i \in 1..Len(rawBuffer) : \A j \in 1..Len(rawBuffer) :
          /\ i = 2 * j - 1 => (rawBuffer[i].intact <=> taken + j \notin cuts)
          /\ i = 2 * j => rawBuffer[i].intact
    /\ \A c \in cuts : c > taken => 2 * (c - taken) - 1 <= Len(rawBuffer)

\* A client that reads has been written what was taken off the buffer, as it was
\* decoded.
DeliveredFollows(taken) ==
    /\ Len(delivered) <= taken + Offset
    /\ \A i \in 1..Len(delivered) : delivered[i] = AsRead(i)
    /\ ~Gone /\ (pc \in Opening \cup {"stream"} \/ reply # NoReply) =>
          Len(delivered) = taken + Offset

\* The reply is that of the "done" event, once it was taken off the buffer.
ReplyFollows(taken) ==
    /\ reply # NoReply =>
          /\ agent = "finished" /\ taken = Len(emitted) /\ emitted[Len(emitted)] = Done(reply.content)
          /\ reply.intact <=> taken \notin cuts
    /\ agent = "finished" /\ taken = Len(emitted) => reply # NoReply

\* The "done" event is the last of an answer.
DoneIsLast ==
    /\ agent = "finished" => emitted # <<>>
    /\ \A i \in 1..Len(emitted) :
          emitted[i].type = "done" <=> (i = Len(emitted) /\ agent = "finished")

Progress(taken) ==
    /\ PiecesFollow(taken)
    /\ QueueFollows(taken)
    /\ AllSent(taken)
    /\ DamageFollows(taken)
    /\ DeliveredFollows(taken)
    /\ ReplyFollows(taken)
    /\ forwarded = taken

\* Nothing of the agent's answer has been read.
NothingRead ==
    /\ forwarded = 0 /\ rawBuffer = <<>> /\ stored = {}
    /\ \A i \in 1..Len(delivered) : delivered[i].event = Event("session")

\* What the place of the request says of its state.
PlaceIsTrue ==
    /\ pc \in BeforeStream \cup Opening => NothingRead /\ reply = NoReply
    /\ pc \in BeforeStream => delivered = <<>>
    /\ pc \in {"session", "flush"} => synthetic
    /\ pc \in BeforeStream \ {"start", "session"} => agent = "waiting"
    /\ agent = "waiting" => emitted = <<>> /\ queue = <<>> /\ wire = <<>> /\ sending = "none"
    /\ agent # "waiting" => sending # "none"
    /\ sending = "broken" => agent # "running"
    /\ pc \in {"ai_failure", "platform_failure"} => agent # "running"
    /\ pc \in AfterStream => agent = "finished" /\ reply # NoReply
    /\ pc \in {"platform_success", "completed"} => stored = {reply}
    /\ stored \subseteq {reply} \ {NoReply}
    /\ stored # {} => pc \in {"persist_failure", "platform_success", "completed", "error"}

NoOutcome == \A c \in Components : recorded[c] = <<>>
Outcomes(ai, platform) == recorded["ai"] = ai /\ recorded["platform"] = platform

\* What is on record at each place.
RecordIsTrue ==
    /\ pc \in {"idle", "create", "append", "send", "refused", "start", "session", "flush", "open",
               "stream", "refused_ai", "ai_failure", "cancelled_ai", "ai_success", "rejected", "not_found"} => NoOutcome
    /\ pc \in {"refused_platform", "platform_failure"} => Outcomes(<<"failed">>, <<>>)
    /\ pc \in {"cancelled_platform", "persist", "persist_failure", "platform_success"} =>
          Outcomes(<<"succeeded">>, <<>>)
    /\ pc = "proxied" => Outcomes(<<"failed">>, <<"failed">>)
    /\ pc = "completed" => Outcomes(<<"succeeded">>, <<"succeeded">>)
    /\ pc = "cancelled" =>
          Outcomes(<<"succeeded">>, <<"succeeded">>) \/ (NoOutcome /\ NothingRead)
    /\ pc = "error" =>
          \/ NoOutcome /\ NothingRead /\ agent = "waiting"
          \/ Outcomes(<<"failed">>, <<"failed">>) /\ agent # "running" /\ stored = {}
          \/ Outcomes(<<"succeeded">>, <<"failed">>) /\ agent = "finished" /\ reply # NoReply

IInv ==
    /\ TypeOK
    /\ DoneIsLast
    /\ \E taken \in 0..Len(emitted) : Progress(taken)
    /\ PlaceIsTrue
    /\ RecordIsTrue

-----------------------------------------------------------------------------
(* Sequences                                                               *)

\* Two sequences that meet anywhere else are the same in the end.
LEMMA CutAnywhere ==
    ASSUME NEW S, NEW s \in Seq(S), NEW t \in Seq(S), NEW n \in 1..Len(t)
    PROVE  (s \o SubSeq(t, 1, n)) \o SubSeq(t, n + 1, Len(t)) = s \o t
<1>1. Len(t) \in Nat /\ \A i \in 1..Len(t) : t[i] \in S
  BY LenProperties, ElementOfSeq
<1>2. PICK u \in Seq(S) : u = SubSeq(t, 1, n)
  <2>1. \A i \in 1..n : t[i] \in S
    BY <1>1
  <2>2. SubSeq(t, 1, n) \in Seq(S)
    BY <1>1, <2>1, SubSeqProperties
  <2>3. QED
    BY <2>2
<1>3. PICK v \in Seq(S) : v = SubSeq(t, n + 1, Len(t))
  <2>1. \A i \in n + 1..Len(t) : t[i] \in S
    BY <1>1
  <2>2. SubSeq(t, n + 1, Len(t)) \in Seq(S)
    BY <1>1, <2>1, SubSeqProperties
  <2>3. QED
    BY <2>2
<1>4. u \o v = t
  <2>1. 1 \in 1..Len(t) + 1 /\ n \in 1 - 1..Len(t) /\ Len(t) \in n..Len(t)
    BY <1>1
  <2>2. u \o v = SubSeq(t, 1, Len(t))
    BY <1>2, <1>3, <2>1, ConcatAdjacentSubSeq
  <2>3. QED
    BY <2>2, SubSeqFull
<1>5. (s \o u) \o v = s \o (u \o v)
  BY SMTT(30), ConcatAssociative
<1>6. QED
  BY <1>2, <1>3, <1>4, <1>5

\* A sequence without its first two elements.
LEMMA DropTwo ==
    ASSUME NEW S, NEW s \in Seq(S), Len(s) >= 2
    PROVE  /\ SubSeq(s, 3, Len(s)) \in Seq(S) /\ Len(SubSeq(s, 3, Len(s))) = Len(s) - 2
           /\ \A i \in 1..Len(s) - 2 : SubSeq(s, 3, Len(s))[i] = s[i + 2]
<1>1. Len(s) \in Nat /\ \A i \in 1..Len(s) : s[i] \in S
  BY LenProperties, ElementOfSeq
<1>2. /\ SubSeq(s, 3, Len(s)) \in Seq(S)
      /\ Len(SubSeq(s, 3, Len(s))) = IF 3 <= Len(s) THEN Len(s) - 3 + 1 ELSE 0
      /\ \A i \in 1..Len(s) - 3 + 1 : SubSeq(s, 3, Len(s))[i] = s[3 + i - 1]
  BY <1>1, SubSeqProperties
<1>3. ASSUME NEW i \in 1..Len(s) - 2 PROVE SubSeq(s, 3, Len(s))[i] = s[i + 2]
  <2>1. i \in 1..Len(s) - 3 + 1 /\ 3 + i - 1 = i + 2
    BY <1>1
  <2>2. QED
    BY <1>2, <2>1
<1>4. (IF 3 <= Len(s) THEN Len(s) - 3 + 1 ELSE 0) = Len(s) - 2
  <2>1. PICK n \in Nat : n = Len(s) /\ n >= 2
    BY <1>1
  <2>2. (IF 3 <= n THEN n - 3 + 1 ELSE 0) = n - 2
    BY <2>1
  <2>3. QED
    BY <2>1, <2>2
<1>5. QED
  BY <1>2, <1>3, <1>4

\* Pieces follow one another however they were put together.
LEMMA PiecesConcatenate ==
    ASSUME NEW a \in Seq(Pieces), NEW b \in Seq(Pieces), NEW c \in Seq(Pieces)
    PROVE  (a \o b) \o c = a \o (b \o c)
BY SMTT(30), ConcatAssociative

LEMMA PiecesAppended ==
    ASSUME NEW a \in Seq(Pieces), NEW b \in Seq(Pieces)
    PROVE  /\ Len(a \o b) = Len(a) + Len(b)
           /\ \A i \in 1..Len(a) + Len(b) : (a \o b)[i] = IF i <= Len(a) THEN a[i] ELSE b[i - Len(a)]
BY ConcatProperties

LEMMA PieceReplaced ==
    ASSUME NEW a \in Seq(Pieces), NEW i \in 1..Len(a), NEW e \in Pieces,
           NEW b, b = [a EXCEPT ![i] = e]
    PROVE  /\ b \in Seq(Pieces) /\ Len(b) = Len(a)
           /\ \A j \in 1..Len(a) : b[j] = IF j = i THEN e ELSE a[j]
BY ExceptSeq

\* The pieces that travel.
LEMMA TravellingIsSequence ==
    ASSUME TypeOK
    PROVE  /\ Travelling \in Seq(Pieces)
           /\ Len(Travelling) \in Nat /\ Len(rawBuffer) \in Nat /\ Len(wire) \in Nat
           /\ Len(Travelling) = Len(rawBuffer) + Len(wire)
           /\ \A i \in 1..Len(rawBuffer) : Travelling[i] = rawBuffer[i]
           /\ \A i \in 1..Len(wire) : Travelling[Len(rawBuffer) + i] = wire[i]
<1>1. rawBuffer \in Seq(Pieces) /\ wire \in Seq(Pieces)
  BY DEF TypeOK
<1>2. Len(rawBuffer) \in Nat /\ Len(wire) \in Nat
  BY <1>1, LenProperties
<1>3. /\ Travelling \in Seq(Pieces)
      /\ Len(Travelling) = Len(rawBuffer) + Len(wire)
      /\ \A i \in 1..Len(rawBuffer) + Len(wire) :
             Travelling[i] = IF i <= Len(rawBuffer) THEN rawBuffer[i] ELSE wire[i - Len(rawBuffer)]
  BY <1>1, ConcatProperties DEF Travelling
<1>4. QED
  BY <1>2, <1>3

-----------------------------------------------------------------------------
(* Every action keeps the types                                            *)

LEMMA EventTypes ==
    /\ \A content \in Contents : Done(content) \in Events /\ Done(content).type = "done"
                                 /\ Done(content).content = content
    /\ \A type \in {"session", "status", "chunk"} : Event(type) \in Events /\ Event(type).type = type
    /\ \A e \in Events : e.type = "done" => e.content \in Contents /\ e = Done(e.content)
    /\ \A e \in Events : e.type \in {"session", "status", "chunk", "done"}
    /\ NoReply \notin Replies
BY DEF Done, Event, Events, Contents, NoReply, Replies

LEMMA ForwardedEvent ==
    ASSUME TypeOK, Complete
    PROVE  /\ rawBuffer # <<>> /\ Len(rawBuffer) \in Nat \ {0}
           /\ rawBuffer[1] \in Pieces /\ Head(rawBuffer) = rawBuffer[1] /\ Head(rawBuffer).event \in Events
           /\ \A i \in 1..Len(rawBuffer) : rawBuffer[i] \in Pieces
<1>1. rawBuffer \in Seq(Pieces)
  BY DEF TypeOK
<1>2. DOMAIN rawBuffer = 1..Len(rawBuffer) /\ Len(rawBuffer) \in Nat
  BY <1>1, LenProperties
<1>3. \A i \in 1..Len(rawBuffer) : rawBuffer[i] \in Pieces
  BY <1>1, ElementOfSeq
<1>4. rawBuffer # <<>> /\ Len(rawBuffer) \in Nat \ {0}
  BY <1>1, <1>2 DEF Complete
<1>5. Head(rawBuffer) = rawBuffer[1]
  BY <1>1, <1>4
<1>6. QED
  BY <1>2, <1>3, <1>4, <1>5 DEF Pieces

\* The buffer begins with an event, and its first boundary is after two pieces.
LEMMA FirstEvent ==
    ASSUME TypeOK, NEW taken \in 0..Len(emitted), PiecesFollow(taken), Complete
    PROVE  /\ Len(rawBuffer) \in Nat /\ Len(rawBuffer) >= 2 /\ taken < Len(emitted)
           /\ Head(rawBuffer).event = emitted[taken + 1]
           /\ Boundary = 2 /\ Remainder = SubSeq(rawBuffer, 3, Len(rawBuffer))
<1>1. DOMAIN rawBuffer = 1..Len(rawBuffer) /\ Len(emitted) \in Nat
  BY LenProperties DEF TypeOK
<1>2. /\ Len(rawBuffer) \in Nat \ {0} /\ Len(Travelling) >= Len(rawBuffer) /\ Len(Travelling) \in Nat
      /\ \A i \in 1..Len(rawBuffer) : Travelling[i] = rawBuffer[i]
      /\ Head(rawBuffer) = rawBuffer[1]
  BY TravellingIsSequence, ForwardedEvent
<1>3. \A i \in 1..Len(rawBuffer) : \E j \in 1..Len(emitted) - taken :
         /\ i = 2 * j - 1 \/ i = 2 * j
         /\ rawBuffer[i].event = emitted[taken + j] /\ (rawBuffer[i].last <=> i = 2 * j)
  <2> SUFFICES ASSUME NEW i \in 1..Len(rawBuffer)
               PROVE  \E j \in 1..Len(emitted) - taken :
                         /\ i = 2 * j - 1 \/ i = 2 * j
                         /\ rawBuffer[i].event = emitted[taken + j] /\ (rawBuffer[i].last <=> i = 2 * j)
    OBVIOUS
  <2>1. i \in 1..Len(Travelling) /\ Travelling[i] = rawBuffer[i]
    BY <1>2
  <2>2. QED
    BY <2>1, Zenon DEF PiecesFollow
<1>4. ~rawBuffer[1].last /\ rawBuffer[1].event = emitted[taken + 1] /\ taken < Len(emitted)
  <2>1. PICK j \in 1..Len(emitted) - taken :
           /\ 1 = 2 * j - 1 \/ 1 = 2 * j
           /\ rawBuffer[1].event = emitted[taken + j] /\ (rawBuffer[1].last <=> 1 = 2 * j)
    <3>1. 1 \in 1..Len(rawBuffer)
      BY <1>2
    <3>2. QED
      BY <1>3, <3>1, Zenon
  <2>2. j = 1
    BY <1>1, <2>1
  <2>3. QED
    BY <1>1, <2>1, <2>2
<1>5. Len(rawBuffer) >= 2
  BY <1>1, <1>2, <1>4 DEF Complete
<1>6. rawBuffer[2].last
  <2>1. PICK j \in 1..Len(emitted) - taken :
           /\ 2 = 2 * j - 1 \/ 2 = 2 * j
           /\ rawBuffer[2].event = emitted[taken + j] /\ (rawBuffer[2].last <=> 2 = 2 * j)
    <3>1. 2 \in 1..Len(rawBuffer)
      BY <1>2, <1>5
    <3>2. QED
      BY <1>3, <3>1, Zenon
  <2>2. j = 1
    BY <1>1, <2>1
  <2>3. QED
    BY <2>1, <2>2
<1>7. Boundary = 2
  <2>1. 2 \in DOMAIN rawBuffer /\ rawBuffer[2].last /\ \A j \in 1 .. 2 - 1 : ~rawBuffer[j].last
    BY <1>1, <1>2, <1>4, <1>5, <1>6
  <2>2. /\ Boundary \in DOMAIN rawBuffer
        /\ rawBuffer[Boundary].last /\ \A j \in 1 .. Boundary - 1 : ~rawBuffer[j].last
    BY <2>1 DEF Boundary
  <2>3. Boundary \in 1..Len(rawBuffer)
    BY <1>1, <2>2
  <2>4. Boundary # 1
    BY <2>2, <1>4
  <2>5. ~(2 \in 1 .. Boundary - 1)
    BY <2>2, <1>6
  <2>6. QED
    BY <1>2, <2>3, <2>4, <2>5
<1>8. QED
  BY <1>2, <1>4, <1>5, <1>7 DEF Remainder

LEMMA RecordedType ==
    ASSUME TypeOK, NEW c \in Components, NEW outcome \in {"succeeded", "failed"}, Record(c, outcome)
    PROVE  recorded' \in [Components -> Seq({"succeeded", "failed"})]
<1>1. <<outcome>> \in Seq({"succeeded", "failed"})
  OBVIOUS
<1>2. QED
  BY <1>1 DEF TypeOK, Record

\* A step that only records.
Recording ==
    \E step \in Steps, next \in Steps \cup Ends, c \in Components, outcome \in {"succeeded", "failed"} :
        RecordStep(step, c, outcome, next)

LEMMA RecordingSteps ==
    ASSUME TypeOK, RecordFailures \/ RecordCancellation \/ RecordSuccess \/ RecordPersistFailure
    PROVE  Recording
<1> USE DEF Recording, Steps, Ends, Components
<1>1. CASE RecordFailures
  BY <1>1, Zenon DEF RecordFailures
<1>2. CASE RecordCancellation
  BY <1>2, Zenon DEF RecordCancellation
<1>3. CASE RecordSuccess
  <2>1. (IF reply = NoReply THEN "platform_success" ELSE "persist") \in Steps \cup Ends
    OBVIOUS
  <2>2. QED
    BY <1>3, <2>1, ZenonT(60) DEF RecordSuccess
<1>4. CASE RecordPersistFailure
  BY <1>4, Zenon DEF RecordPersistFailure
<1>5. QED
  BY <1>1, <1>2, <1>3, <1>4

\* A read of n pieces: as they came, or with the last of them cut in a character.
ReadPieces(n) ==
    LET read == rawBuffer \o SubSeq(wire, 1, n)
    IN  /\ wire' = SubSeq(wire, n + 1, Len(wire))
        /\ \/ rawBuffer' = read /\ UNCHANGED cuts
           \/ /\ ~read[Len(read)].last
              /\ rawBuffer' = [read EXCEPT ![Len(read)].intact = FALSE]
              /\ cuts' = cuts \cup {forwarded + (Len(read) + 1) \div 2}

LEMMA ReadOfPieces == Read => \E n \in 1..Len(wire) : ReadPieces(n)
BY DEF Read, ReadPieces

\* What the buffer holds after a read, piece by piece.
LEMMA ReadIsSequence ==
    ASSUME TypeOK, NEW n \in 1..Len(wire), ReadPieces(n)
    PROVE  /\ rawBuffer' \in Seq(Pieces) /\ cuts' \subseteq Nat
           /\ Len(rawBuffer) \in Nat /\ Len(rawBuffer') = Len(rawBuffer) + n
           /\ \A i \in 1..Len(rawBuffer) : rawBuffer'[i] = rawBuffer[i]
           /\ \A i \in 1..n :
                 /\ rawBuffer'[Len(rawBuffer) + i].event = wire[i].event
                 /\ rawBuffer'[Len(rawBuffer) + i].last = wire[i].last
                 /\ i # n => rawBuffer'[Len(rawBuffer) + i].intact = wire[i].intact
           /\ \/ cuts' = cuts /\ rawBuffer'[Len(rawBuffer')].intact = wire[n].intact
              \/ /\ cuts' = cuts \cup {forwarded + (Len(rawBuffer') + 1) \div 2}
                 /\ ~rawBuffer'[Len(rawBuffer')].intact /\ ~wire[n].last
           /\ wire' \in Seq(Pieces) /\ Len(wire') = Len(wire) - n
           /\ \A i \in 1..Len(wire) - n : wire'[i] = wire[n + i]
<1>1. /\ rawBuffer \in Seq(Pieces) /\ wire \in Seq(Pieces)
      /\ Len(rawBuffer) \in Nat /\ Len(wire) \in Nat
      /\ forwarded \in Nat /\ cuts \subseteq Nat
  BY LenProperties DEF TypeOK
<1>2. \A i \in 1..Len(wire) : wire[i] \in Pieces
  BY <1>1, ElementOfSeq
<1>3. PICK first \in Seq(Pieces) : /\ first = SubSeq(wire, 1, n) /\ Len(first) = n
                                  /\ \A i \in 1..n : first[i] = wire[i]
  <2>1. /\ SubSeq(wire, 1, n) \in Seq(Pieces)
        /\ Len(SubSeq(wire, 1, n)) = IF 1 <= n THEN n - 1 + 1 ELSE 0
        /\ \A i \in 1..n - 1 + 1 : SubSeq(wire, 1, n)[i] = wire[1 + i - 1]
    BY <1>1, <1>2, SubSeqProperties
  <2>2. (IF 1 <= n THEN n - 1 + 1 ELSE 0) = n
    BY <1>1
  <2>3. ASSUME NEW i \in 1..n PROVE SubSeq(wire, 1, n)[i] = wire[i]
    <3>1. i \in 1..n - 1 + 1 /\ 1 + i - 1 = i
      BY <1>1
    <3>2. QED
      BY <2>1, <3>1
  <2>4. QED
    BY <2>1, <2>2, <2>3
<1>4. /\ SubSeq(wire, n + 1, Len(wire)) \in Seq(Pieces)
      /\ Len(SubSeq(wire, n + 1, Len(wire))) = Len(wire) - n
      /\ \A i \in 1..Len(wire) - n : SubSeq(wire, n + 1, Len(wire))[i] = wire[n + i]
  <2>1. /\ SubSeq(wire, n + 1, Len(wire)) \in Seq(Pieces)
        /\ Len(SubSeq(wire, n + 1, Len(wire))) = IF n + 1 <= Len(wire) THEN Len(wire) - (n + 1) + 1 ELSE 0
        /\ \A i \in 1..Len(wire) - (n + 1) + 1 : SubSeq(wire, n + 1, Len(wire))[i] = wire[n + 1 + i - 1]
    BY <1>1, <1>2, SubSeqProperties
  <2>2. QED
    BY <1>1, <2>1
<1>5. PICK read \in Seq(Pieces) :
         /\ read = rawBuffer \o SubSeq(wire, 1, n) /\ Len(read) = Len(rawBuffer) + n
         /\ \A i \in 1..Len(rawBuffer) : read[i] = rawBuffer[i]
         /\ \A i \in 1..n : read[Len(rawBuffer) + i] = wire[i]
  <2>1. /\ rawBuffer \o first \in Seq(Pieces)
        /\ Len(rawBuffer \o first) = Len(rawBuffer) + Len(first)
        /\ \A i \in 1..Len(rawBuffer) + Len(first) :
              (rawBuffer \o first)[i] = IF i <= Len(rawBuffer) THEN rawBuffer[i] ELSE first[i - Len(rawBuffer)]
    BY <1>1, <1>3, ConcatProperties
  <2>2. ASSUME NEW i \in 1..n PROVE (rawBuffer \o first)[Len(rawBuffer) + i] = wire[i]
    <3>1. Len(rawBuffer) + i \in 1..Len(rawBuffer) + Len(first) /\ ~(Len(rawBuffer) + i <= Len(rawBuffer))
          /\ Len(rawBuffer) + i - Len(rawBuffer) = i
      BY <1>1, <1>3
    <3>2. QED
      BY <1>3, <2>1, <3>1
  <2>3. \A i \in 1..Len(rawBuffer) : (rawBuffer \o first)[i] = rawBuffer[i]
    BY <1>1, <1>3, <2>1
  <2>4. QED
    BY <1>3, <2>1, <2>2, <2>3
<1>6. /\ wire' = SubSeq(wire, n + 1, Len(wire))
      /\ \/ rawBuffer' = read /\ cuts' = cuts
         \/ /\ ~read[Len(read)].last
            /\ rawBuffer' = [read EXCEPT ![Len(read)].intact = FALSE]
            /\ cuts' = cuts \cup {forwarded + (Len(read) + 1) \div 2}
  BY <1>5 DEF ReadPieces
<1>7. read[Len(read)] = wire[n] /\ wire[n] \in Pieces /\ Len(read) \in 1..Len(read) /\ Len(read) \in Nat
  BY <1>1, <1>2, <1>5
<1>8. CASE rawBuffer' = read /\ cuts' = cuts
  BY <1>1, <1>4, <1>5, <1>6, <1>7, <1>8
<1>9. CASE /\ ~read[Len(read)].last
           /\ rawBuffer' = [read EXCEPT ![Len(read)].intact = FALSE]
           /\ cuts' = cuts \cup {forwarded + (Len(read) + 1) \div 2}
  <2>1. PICK cut \in Pieces : /\ cut = [wire[n] EXCEPT !.intact = FALSE]
                             /\ cut.event = wire[n].event /\ cut.last = wire[n].last /\ ~cut.intact
    <3>1. [wire[n] EXCEPT !.intact = FALSE] \in Pieces
      BY <1>7 DEF Pieces
    <3>2. /\ [wire[n] EXCEPT !.intact = FALSE].event = wire[n].event
          /\ [wire[n] EXCEPT !.intact = FALSE].last = wire[n].last
          /\ ~[wire[n] EXCEPT !.intact = FALSE].intact
      BY <1>7 DEF Pieces
    <3>3. QED
      BY <3>1, <3>2
  <2>2. rawBuffer' = [read EXCEPT ![Len(read)] = cut]
    BY <1>7, <1>9, <2>1
  <2>3. DOMAIN read = 1..Len(read)
    BY <1>5, LenProperties
  <2>4. /\ rawBuffer' \in Seq(Pieces) /\ Len(rawBuffer') = Len(read)
        /\ rawBuffer'[Len(read)] = cut
        /\ \A i \in 1..Len(read) : i # Len(read) => rawBuffer'[i] = read[i]
    <3>1. Len(read) \in 1..Len(read)
      BY <1>7
    <3>2. PICK m \in 1..Len(read) : m = Len(read)
      BY <3>1
    <3>3. PICK after : after = rawBuffer' /\ after = [read EXCEPT ![m] = cut]
      BY <2>2, <3>2
    <3>4. /\ after \in Seq(Pieces) /\ Len(after) = Len(read)
          /\ \A j \in 1..Len(read) : after[j] = IF j = m THEN cut ELSE read[j]
      BY <3>3, PieceReplaced
    <3>5. QED
      BY <3>1, <3>2, <3>3, <3>4
  <2>5. cuts' \subseteq Nat
    <3>1. (Len(read) + 1) \div 2 \in Nat
      BY <1>7
    <3>2. QED
      BY <1>1, <1>9, <3>1
  <2>6. \A i \in 1..Len(rawBuffer) : rawBuffer'[i] = rawBuffer[i]
    BY <1>1, <1>5, <2>4
  <2>7. ASSUME NEW i \in 1..n
        PROVE  /\ rawBuffer'[Len(rawBuffer) + i].event = wire[i].event
               /\ rawBuffer'[Len(rawBuffer) + i].last = wire[i].last
               /\ i # n => rawBuffer'[Len(rawBuffer) + i].intact = wire[i].intact
    <3>1. CASE i = n
      BY <1>5, <2>1, <2>4, <3>1
    <3>2. CASE i # n
      <4>1. Len(rawBuffer) + i \in 1..Len(read) /\ Len(rawBuffer) + i # Len(read)
        BY <1>1, <1>5, <3>2
      <4>2. QED
        BY <1>5, <2>4, <3>2, <4>1
    <3>3. QED
      BY <3>1, <3>2
  <2>8. /\ wire' \in Seq(Pieces) /\ Len(wire') = Len(wire) - n
        /\ \A i \in 1..Len(wire) - n : wire'[i] = wire[n + i]
    BY <1>4, <1>6
  <2>9. ~rawBuffer'[Len(rawBuffer')].intact /\ ~wire[n].last
        /\ cuts' = cuts \cup {forwarded + (Len(rawBuffer') + 1) \div 2}
    BY <1>7, <1>9, <2>1, <2>4
  <2>10. QED
    BY <1>1, <1>5, <2>4, <2>5, <2>6, <2>7, <2>8, <2>9
<1>10. QED
  BY <1>6, <1>8, <1>9

LEMMA TypeStep == IInv /\ [Next]_vars => TypeOK'
<1> SUFFICES ASSUME IInv, [Next]_vars PROVE TypeOK'
  OBVIOUS
<1>p. TypeOK /\ PlaceIsTrue /\ \E taken \in 0..Len(emitted) : PiecesFollow(taken)
  BY DEF IInv, Progress
<1> USE <1>p
<1>w. ASSUME NEW e \in Events, NEW b \in BOOLEAN, Write(e, b) PROVE delivered' \in Seq(Shown)
  <2>1. [event |-> e, intact |-> b] \in Shown
    BY DEF Shown
  <2>2. QED
    BY <1>w, <2>1, AppendProperties DEF TypeOK, Write
<1>e. ASSUME NEW e \in Events, Emit(e) PROVE queue' \in Seq(Events) /\ emitted' \in Seq(Events)
  BY <1>e, AppendProperties DEF TypeOK, Emit
<1>s. \A i \in 1..Len(wire) : wire[i] \in Pieces
  BY ElementOfSeq DEF TypeOK
<1>n. Len(wire) \in Nat
  BY LenProperties DEF TypeOK
<1>1. CASE EmitProgress
  <2>1. PICK type \in {"status", "chunk"} : Emit(Event(type))
    BY <1>1 DEF EmitProgress
  <2>2. queue' \in Seq(Events) /\ emitted' \in Seq(Events)
    BY <1>e, <2>1, EventTypes
  <2>3. QED
    BY <1>1, <2>2 DEF EmitProgress, TypeOK, controllerVars
<1>2. CASE EmitDone
  <2>1. PICK content \in Contents : Emit(Done(content))
    BY <1>2 DEF EmitDone
  <2>2. queue' \in Seq(Events) /\ emitted' \in Seq(Events)
    BY <1>e, <2>1, EventTypes
  <2>3. QED
    BY <1>2, <2>2 DEF EmitDone, TypeOK, controllerVars
<1>3. CASE Send
  <2>1. Head(queue) \in Events /\ Tail(queue) \in Seq(Events)
    BY <1>3, HeadTailProperties DEF Send, TypeOK
  <2>2. <<[event |-> Head(queue), last |-> FALSE, intact |-> TRUE],
          [event |-> Head(queue), last |-> TRUE, intact |-> TRUE]>> \in Seq(Pieces)
    BY <2>1 DEF Pieces
  <2>3. wire' \in Seq(Pieces)
    BY <1>3, <2>2, ConcatProperties DEF Send, TypeOK
  <2>4. QED
    BY <1>3, <2>1, <2>3 DEF Send, TypeOK, controllerVars
<1>4. CASE Close
  BY <1>4 DEF Close, TypeOK, controllerVars
<1>5. CASE AgentCrash
  <2>1. PICK n \in 0..Len(wire) : wire' = SubSeq(wire, 1, n)
    BY <1>5 DEF AgentCrash
  <2>2. wire' \in Seq(Pieces)
    BY <1>s, <1>n, <2>1, SubSeqProperties
  <2>3. <<>> \in Seq(Events)
    BY EmptySeq
  <2>4. QED
    BY <1>5, <2>2, <2>3 DEF AgentCrash, TypeOK, controllerVars
<1>6. CASE AgentCancelled
  <2>1. <<>> \in Seq(Events)
    BY EmptySeq
  <2>2. QED
    BY <1>6, <2>1 DEF AgentCancelled, TypeOK, controllerVars
<1>7. CASE Leave
  BY <1>7 DEF Leave, TypeOK, controllerVars, agentVars
<1>8. CASE Validate \/ Create \/ AppendUserMessage \/ ReadRefusal \/ ReadFails \/ EndOfStream
           \/ NoticeCancellation
  BY ZenonT(60), <1>8 DEF Validate, Create, AppendUserMessage, ReadRefusal, ReadFails, EndOfStream,
     NoticeCancellation, Goto, TypeOK, Steps, Ends, agentVars
<1>9. CASE SendRequest
  BY <1>9 DEF SendRequest, Goto, TypeOK, Steps, Ends
<1>10. CASE StartResponse
  <2>1. CASE WriteSession
    <3>1. delivered' \in Seq(Shown)
      BY <2>1, <1>w, EventTypes DEF WriteSession, TypeOK
    <3>2. QED
      BY <2>1, <3>1 DEF WriteSession, Goto, TypeOK, Steps, Ends, agentVars
  <2>2. CASE ~WriteSession
    BY ZenonT(60), <1>10, <2>2 DEF StartResponse, OpeningStep, Goto, TypeOK, Steps, Ends, agentVars
  <2>3. QED
    BY <2>1, <2>2
<1>11. CASE Read
  <2>1. PICK n \in 1..Len(wire) : ReadPieces(n)
    BY <1>11, ReadOfPieces
  <2>2. SubSeq(wire, n + 1, Len(wire)) \in Seq(Pieces)
    BY <1>s, <1>n, SubSeqProperties
  <2>3. /\ rawBuffer' \in Seq(Pieces) /\ cuts' \subseteq Nat
        /\ wire' \in Seq(Pieces)
    BY <2>1, <2>2, ReadIsSequence
  <2>4. QED
    BY <1>11, <2>3 DEF Read, TypeOK, agentVars
<1>12. CASE Forward
  <2>1. rawBuffer' = Remainder /\ Complete
    BY <1>12 DEF Forward
  <2>3. rawBuffer' = SubSeq(rawBuffer, 3, Len(rawBuffer)) /\ Len(rawBuffer) \in Nat
    BY <2>1, <1>p, FirstEvent
  <2>4. rawBuffer' \in Seq(Pieces)
    BY <2>3, ForwardedEvent, <2>1, SubSeqProperties
  <2> DEFINE event == Head(rawBuffer).event
             intact == \A i \in 1 .. Boundary : rawBuffer[i].intact
  <2>5. event \in Events /\ intact \in BOOLEAN
    BY <2>1, ForwardedEvent
  <2>6. /\ reply' = IF event.type = "done" THEN [content |-> event.content, intact |-> intact] ELSE reply
        /\ Write(event, intact)
    BY <1>12 DEF Forward
  <2> HIDE DEF event, intact
  <2>7. delivered' \in Seq(Shown)
    BY <1>w, <2>5, <2>6
  <2>8. reply' \in {NoReply} \cup Replies
    BY <2>5, <2>6, EventTypes DEF TypeOK, Replies
  <2>9. QED
    BY <1>12, <2>4, <2>7, <2>8 DEF Forward, TypeOK, agentVars
<1>13. CASE Recording
  <2>1. PICK step \in Steps, next \in Steps \cup Ends, c \in Components,
             outcome \in {"succeeded", "failed"} : RecordStep(step, c, outcome, next)
    BY <1>13 DEF Recording
  <2>2. recorded' \in [Components -> Seq({"succeeded", "failed"})]
    BY <2>1, RecordedType DEF RecordStep
  <2>3. QED
    BY <2>1, <2>2 DEF RecordStep, Goto, TypeOK, agentVars
<1>14. CASE Persist
  <2>1. reply \in Replies
    BY <1>14 DEF Persist, PlaceIsTrue, AfterStream, TypeOK
  <2>2. stored' \subseteq Replies
    BY <1>14, <2>1 DEF Persist, TypeOK
  <2>3. QED
    BY <1>14, <2>2 DEF Persist, Goto, TypeOK, Steps, agentVars
<1>15. CASE UNCHANGED vars
  BY <1>15 DEF vars, controllerVars, agentVars, TypeOK
<1>16. QED
  BY <1>1, <1>2, <1>3, <1>4, <1>5, <1>6, <1>7, <1>8, <1>9, <1>10, <1>11, <1>12, <1>13, <1>14, <1>15,
     RecordingSteps DEF Next, Controller, Agent

-----------------------------------------------------------------------------
(* What the places and the records say stays true                          *)

LEMMA EmittedGrows ==
    ASSUME TypeOK, NEW e \in Events, Emit(e)
    PROVE  /\ Len(emitted) \in Nat /\ Len(emitted') = Len(emitted) + 1 /\ emitted' # <<>>
           /\ emitted' \in Seq(Events)
           /\ \A i \in 1..Len(emitted) : emitted'[i] = emitted[i]
           /\ emitted'[Len(emitted')] = e
<1>1. emitted \in Seq(Events) /\ emitted' = Append(emitted, e)
  BY DEF TypeOK, Emit
<1>2. Len(emitted) \in Nat
  BY <1>1, LenProperties
<1>3. /\ Append(emitted, e) \in Seq(Events) /\ Append(emitted, e) # <<>>
      /\ Len(Append(emitted, e)) = Len(emitted) + 1
      /\ \A i \in 1..Len(emitted) : Append(emitted, e)[i] = emitted[i]
      /\ Append(emitted, e)[Len(emitted) + 1] = e
  BY <1>1, AppendProperties
<1>4. QED
  BY <1>1, <1>2, <1>3

LEMMA DoneIsLastStep == IInv /\ [Next]_vars => DoneIsLast'
<1> SUFFICES ASSUME IInv, [Next]_vars PROVE DoneIsLast'
  OBVIOUS
<1>i. TypeOK /\ DoneIsLast
  BY DEF IInv
<1>1. CASE EmitProgress
  <2>1. PICK type \in {"status", "chunk"} : Emit(Event(type))
    BY <1>1 DEF EmitProgress
  <2>2. agent = "running" /\ agent' = agent
    BY <1>1 DEF EmitProgress
  <2>3. Event(type) \in Events /\ Event(type).type # "done"
    BY EventTypes
  <2>4. QED
    BY <1>i, <2>1, <2>2, <2>3, EmittedGrows DEF DoneIsLast
<1>2. CASE EmitDone
  <2>1. PICK content \in Contents : Emit(Done(content))
    BY <1>2 DEF EmitDone
  <2>2. agent = "running" /\ agent' = "finished"
    BY <1>2 DEF EmitDone
  <2>3. Done(content) \in Events /\ Done(content).type = "done"
    BY EventTypes
  <2>4. QED
    BY <1>i, <2>1, <2>2, <2>3, EmittedGrows DEF DoneIsLast
<1>3. CASE ~EmitProgress /\ ~EmitDone
  <2>1. emitted' = emitted /\ (agent' = "finished" <=> agent = "finished")
    <3>1. CASE SendRequest
      BY <1>i, <3>1 DEF SendRequest, IInv, PlaceIsTrue, BeforeStream
    <3>2. CASE AgentCrash
      BY <3>2 DEF AgentCrash
    <3>3. CASE AgentCancelled
      BY <3>3 DEF AgentCancelled
    <3>4. CASE Send \/ Close
      BY <3>4 DEF Send, Close
    <3>5. CASE UNCHANGED agentVars
      BY <3>5 DEF agentVars
    <3>6. CASE Recording
      BY <3>6 DEF Recording, RecordStep, agentVars
    <3>7. QED
      BY <1>i, <1>3, <3>1, <3>2, <3>3, <3>4, <3>5, <3>6, RecordingSteps
         DEF Next, Controller, Agent, Leave, NoticeCancellation, Validate, Create, AppendUserMessage,
             ReadRefusal, StartResponse, OpeningStep, WriteSession, Read, Forward, ReadFails, EndOfStream, Persist, vars
  <2>2. QED
    BY <1>i, <2>1 DEF DoneIsLast
<1>4. QED
  BY <1>1, <1>2, <1>3

\* At the end of a response that ended properly the reply is there.
LEMMA ReplyHasCome ==
    ASSUME IInv, EndOfStream
    PROVE  agent = "finished" /\ reply # NoReply
<1>1. PICK taken \in 0..Len(emitted) : Progress(taken)
  BY DEF IInv
<1>2. /\ TypeOK /\ sending = "closed" /\ wire = <<>> /\ pc = "stream" /\ ~Complete
      /\ Len(emitted) \in Nat
  BY LenProperties DEF IInv, EndOfStream, TypeOK
<1>3. agent = "finished" /\ Len(Travelling) = 2 * (Len(emitted) - taken)
  BY <1>1, <1>2 DEF Progress, AllSent
<1>4. Len(Travelling) = Len(rawBuffer) /\ \A i \in 1..Len(rawBuffer) : Travelling[i] = rawBuffer[i]
  BY <1>2, TravellingIsSequence
<1>5. Len(Travelling) < 2
  <2>1. SUFFICES ASSUME 2 \in 1..Len(Travelling) PROVE FALSE
    BY <1>2, <1>3
  <2>2. PICK j \in 1..Len(emitted) - taken :
           /\ 2 = 2 * j - 1 \/ 2 = 2 * j
           /\ Travelling[2].event = emitted[taken + j] /\ (Travelling[2].last <=> 2 = 2 * j)
    BY <1>1, <2>1, Zenon DEF Progress, PiecesFollow
  <2>3. 2 = 2 * j
    BY <1>2, <2>2
  <2>4. DOMAIN rawBuffer = 1..Len(rawBuffer)
    BY <1>2, LenProperties DEF TypeOK
  <2>5. 2 \in DOMAIN rawBuffer /\ rawBuffer[2].last
    BY <1>4, <2>1, <2>2, <2>3, <2>4
  <2>6. QED
    BY <1>2, <2>5 DEF Complete
<1>6. taken = Len(emitted)
  BY <1>2, <1>3, <1>5
<1>7. QED
  BY <1>1, <1>3, <1>6 DEF Progress, ReplyFollows

\* Nothing is forwarded twice: a reply that was taken off the buffer is the last.
LEMMA ForwardBeforeReply == ASSUME IInv, Forward PROVE reply = NoReply
<1>1. PICK taken \in 0..Len(emitted) : Progress(taken)
  BY DEF IInv
<1>2. taken < Len(emitted)
  BY <1>1, FirstEvent DEF IInv, Progress, Forward
<1>3. QED
  BY <1>1, <1>2 DEF Progress, ReplyFollows, IInv, TypeOK

LEMMA PlaceStep == IInv /\ [Next]_vars => PlaceIsTrue'
<1> SUFFICES ASSUME IInv, [Next]_vars PROVE PlaceIsTrue'
  OBVIOUS
<1>i. TypeOK /\ PlaceIsTrue
  BY DEF IInv
<1> USE <1>i DEF PlaceIsTrue, BeforeStream, Opening, AfterStream, NothingRead
<1>1. CASE EmitProgress \/ EmitDone \/ Send
  BY <1>1 DEF EmitProgress, EmitDone, Send, controllerVars, agentVars, TypeOK
<1>2. CASE Close \/ AgentCrash \/ AgentCancelled
  BY <1>2 DEF Close, AgentCrash, AgentCancelled, controllerVars, agentVars, TypeOK
<1>3. CASE Leave \/ UNCHANGED vars
  BY <1>3 DEF Leave, controllerVars, agentVars, vars
<1>4. CASE Validate \/ Create \/ AppendUserMessage \/ ReadRefusal \/ ReadFails \/ NoticeCancellation
  BY <1>4 DEF Validate, Create, AppendUserMessage, ReadRefusal, ReadFails, NoticeCancellation,
     Goto, agentVars
<1>5. CASE EndOfStream
  BY <1>5, ReplyHasCome DEF EndOfStream, Goto, agentVars
<1>6. CASE SendRequest
  BY <1>6 DEF SendRequest, Goto, Ends
<1>7. CASE StartResponse
  <2>1. CASE WriteSession
    <3>1. pc = "session" /\ delivered = <<>> /\ synthetic
      BY <2>1 DEF WriteSession
    <3>2. \A i \in 1..Len(delivered') : delivered'[i].event = Event("session")
      <4>1. [event |-> Event("session"), intact |-> TRUE] \in Shown /\ <<>> \in Seq(Shown) /\ Len(<<>>) = 0
        BY EventTypes, EmptySeq DEF Shown
      <4>2. delivered' = <<>> \/ delivered' = Append(<<>>, [event |-> Event("session"), intact |-> TRUE])
        BY <2>1, <3>1 DEF WriteSession, Write
      <4>3. QED
        BY <4>1, <4>2, AppendProperties
    <3>3. pc' \in {"flush", "cancelled"} /\ UNCHANGED <<rawBuffer, reply, forwarded, stored, agent, emitted,
             queue, wire, sending, synthetic>>
      BY <2>1 DEF WriteSession, Goto, agentVars
    <3>4. QED
      BY <3>1, <3>2, <3>3
  <2>2. CASE ~WriteSession
    BY <1>7, <2>2 DEF StartResponse, OpeningStep, Goto, agentVars
  <2>3. QED
    BY <2>1, <2>2
<1>8. CASE Read
  BY <1>8 DEF Read, agentVars
<1>9. CASE Forward
  BY <1>9 DEF Forward, agentVars
<1>10. CASE RecordFailures
  BY <1>10 DEF RecordFailures, RecordStep, Goto, agentVars
<1>11. CASE RecordCancellation
  BY <1>11 DEF RecordCancellation, RecordStep, Goto, agentVars
<1>12. CASE RecordSuccess \/ RecordPersistFailure
  BY <1>12 DEF RecordSuccess, RecordPersistFailure, RecordStep, Goto, agentVars
<1>13. CASE Persist
  BY <1>13 DEF Persist, Goto, agentVars
<1>14. QED
  BY <1>1, <1>2, <1>3, <1>4, <1>5, <1>6, <1>7, <1>8, <1>9, <1>10, <1>11, <1>12, <1>13
     DEF Next, Controller, Agent

LEMMA RecordIsTrueStep == IInv /\ [Next]_vars => RecordIsTrue'
<1> SUFFICES ASSUME IInv, [Next]_vars PROVE RecordIsTrue'
  OBVIOUS
<1>i. TypeOK /\ PlaceIsTrue /\ RecordIsTrue
  BY DEF IInv
<1>d. DOMAIN recorded = {"ai", "platform"}
  BY <1>i DEF TypeOK, Components
<1> USE <1>i, <1>d DEF RecordIsTrue, NoOutcome, Outcomes, Components, NothingRead
<1>1. CASE EmitProgress \/ EmitDone \/ Send \/ Close
  BY <1>1 DEF EmitProgress, EmitDone, Send, Close, controllerVars, PlaceIsTrue
<1>2. CASE AgentCrash \/ AgentCancelled
  BY <1>2 DEF AgentCrash, AgentCancelled, controllerVars, PlaceIsTrue
<1>3. CASE Leave \/ UNCHANGED vars
  BY <1>3 DEF Leave, controllerVars, agentVars, vars
<1>4. CASE Validate \/ Create \/ AppendUserMessage \/ ReadRefusal
  BY <1>4 DEF Validate, Create, AppendUserMessage, ReadRefusal, Goto, agentVars, PlaceIsTrue, BeforeStream
<1>5. CASE EndOfStream \/ ReadFails \/ NoticeCancellation
  BY <1>5 DEF EndOfStream, ReadFails, NoticeCancellation, Goto, agentVars
<1>6. CASE SendRequest
  BY <1>6 DEF SendRequest, Goto, PlaceIsTrue, BeforeStream
<1>7. CASE StartResponse
  BY <1>7 DEF StartResponse, OpeningStep, WriteSession, Goto, agentVars, PlaceIsTrue, BeforeStream, Opening
<1>8. CASE Read
  BY <1>8 DEF Read, agentVars
<1>9. CASE Forward
  BY <1>9 DEF Forward, agentVars
<1>10. CASE RecordFailures
  BY <1>10 DEF RecordFailures, RecordStep, Record, Goto, agentVars, PlaceIsTrue, BeforeStream
<1>11. CASE RecordCancellation
  BY <1>11 DEF RecordCancellation, RecordStep, Record, Goto, agentVars
<1>12. CASE RecordSuccess \/ RecordPersistFailure
  BY <1>12 DEF RecordSuccess, RecordPersistFailure, RecordStep, Record, Goto, agentVars,
     PlaceIsTrue, AfterStream
<1>13. CASE Persist
  BY <1>13 DEF Persist, Goto, agentVars
<1>14. QED
  BY <1>1, <1>2, <1>3, <1>4, <1>5, <1>6, <1>7, <1>8, <1>9, <1>10, <1>11, <1>12, <1>13
     DEF Next, Controller, Agent

-----------------------------------------------------------------------------
(* What the agent emitted goes on to the client                            *)

\* The steps that move no event.
LEMMA ProgressFrame ==
    ASSUME NEW taken \in 0..Len(emitted), Progress(taken),
           UNCHANGED <<rawBuffer, wire, queue, emitted, delivered, synthetic, reply, forwarded, cuts,
                       agent, sending>>,
           client' \in {client, "gone"},
           pc' \in {"start", "session", "flush", "open", "stream"} => pc = pc'
    PROVE  Progress(taken)'
<1> USE DEF Progress
<1>1. Travelling' = Travelling /\ Upstream' = Upstream
  BY DEF Travelling, Upstream
<1>2. PiecesFollow(taken)'
  BY <1>1 DEF PiecesFollow
<1>3. QueueFollows(taken)'
  BY <1>1 DEF QueueFollows
<1>4. AllSent(taken)'
  BY <1>1 DEF AllSent
<1>5. DeliveredFollows(taken)'
  BY <1>1 DEF DeliveredFollows, Gone, Offset, AsRead, Opening
<1>6. ReplyFollows(taken)' /\ DamageFollows(taken)'
  BY DEF ReplyFollows, DamageFollows
<1>7. QED
  BY <1>2, <1>3, <1>4, <1>5, <1>6

\* What is upstream, as a sequence.
LEMMA UpstreamElements ==
    ASSUME TypeOK
    PROVE  /\ Upstream \in Seq(Events)
           /\ Len(emitted) \in Nat
           /\ Len(Upstream) = Len(emitted) + (IF synthetic THEN 1 ELSE 0)
           /\ Offset \in {0, 1} /\ Len(Upstream) = Len(emitted) + Offset
           /\ synthetic => Upstream[1] = Event("session")
           /\ \A i \in 1..Len(emitted) : Upstream[i + Offset] = emitted[i]
<1> USE DEF Offset
<1>1. emitted \in Seq(Events) /\ Len(emitted) \in Nat
  BY LenProperties DEF TypeOK
<1>2. CASE synthetic
  <2>1. /\ <<Event("session")>> \in Seq(Events) /\ Len(<<Event("session")>>) = 1
        /\ <<Event("session")>>[1] = Event("session")
    BY EventTypes
  <2>2. Upstream = <<Event("session")>> \o emitted
    BY <1>2 DEF Upstream
  <2>3. /\ Upstream \in Seq(Events)
        /\ Len(Upstream) = 1 + Len(emitted)
        /\ \A i \in 1..1 + Len(emitted) :
              Upstream[i] = IF i <= 1 THEN <<Event("session")>>[i] ELSE emitted[i - 1]
    BY <1>1, <2>1, <2>2, ConcatProperties
  <2>4. QED
    BY <1>1, <1>2, <2>1, <2>3
<1>3. CASE ~synthetic
  BY <1>1, <1>3 DEF Upstream
<1>4. QED
  BY <1>2, <1>3

\* A new event reaches the end of the queue and, upstream, of the answer.
LEMMA ProgressEmit ==
    ASSUME IInv, NEW taken \in 0..Len(emitted), Progress(taken), agent = "running",
           NEW e \in Events, Emit(e),
           agent' \in {"running", "finished"}, e.type = "done" <=> agent' = "finished",
           UNCHANGED <<controllerVars, sending, synthetic, wire, client>>
    PROVE  Progress(taken)' /\ taken \in 0..Len(emitted')
<1>1. /\ Len(emitted) \in Nat /\ Len(emitted') = Len(emitted) + 1 /\ emitted' # <<>>
      /\ emitted' \in Seq(Events)
      /\ \A i \in 1..Len(emitted) : emitted'[i] = emitted[i]
      /\ emitted'[Len(emitted')] = e
  BY EmittedGrows DEF IInv
<1>2. Travelling' = Travelling /\ Len(Travelling) \in Nat
  BY TravellingIsSequence DEF Travelling, controllerVars, IInv
<1>3. PiecesFollow(taken)'
  <2> SUFFICES ASSUME NEW i \in 1..Len(Travelling)
               PROVE  \E j \in 1..Len(emitted') - taken :
                         /\ i = 2 * j - 1 \/ i = 2 * j
                         /\ Travelling[i].event = emitted'[taken + j] /\ (Travelling[i].last <=> i = 2 * j)
    BY <1>2 DEF PiecesFollow
  <2>1. PICK j \in 1..Len(emitted) - taken :
           /\ i = 2 * j - 1 \/ i = 2 * j
           /\ Travelling[i].event = emitted[taken + j] /\ (Travelling[i].last <=> i = 2 * j)
    BY Zenon DEF Progress, PiecesFollow
  <2>2. j \in 1..Len(emitted') - taken /\ emitted'[taken + j] = emitted[taken + j]
    BY <1>1
  <2>3. QED
    BY <2>1, <2>2, Zenon
<1>4. QueueFollows(taken)'
  <2> SUFFICES ASSUME sending \in {"none", "open"}
               PROVE  \E sent \in 0..Len(emitted') - taken :
                        /\ Len(Travelling) = 2 * sent
                        /\ queue' = SubSeq(emitted', taken + sent + 1, Len(emitted'))
    BY <1>2 DEF QueueFollows
  <2>1. PICK sent \in 0..Len(emitted) - taken :
           /\ Len(Travelling) = 2 * sent
           /\ queue = SubSeq(emitted, taken + sent + 1, Len(emitted))
    BY DEF Progress, QueueFollows
  <2>2. /\ queue' = Append(queue, e) /\ emitted' = Append(emitted, e)
        /\ queue \in Seq(Events) /\ emitted \in Seq(Events)
    BY DEF Emit, IInv, TypeOK
  <2> DEFINE m == taken + sent + 1
  <2>3. m \in 1..Len(emitted) + 1
    BY <1>1
  <2>4. SubSeq(emitted', m, Len(emitted')) = SubSeq(emitted', m, Len(emitted)) \o <<e>>
    <3> DEFINE n == Len(emitted')
    <3>1. n \in m..Len(emitted') /\ m \in 1..Len(emitted') /\ n - 1 = Len(emitted) /\ emitted'[n] = e
      BY <1>1, <2>3
    <3>2. SubSeq(emitted', m, n) = SubSeq(emitted', m, n - 1) \o <<emitted'[n]>>
      BY <1>1, <3>1, SubSeqRecursiveSecond
    <3>3. QED
      BY <3>1, <3>2
  <2>5. SubSeq(emitted', m, Len(emitted)) = SubSeq(emitted, m, Len(emitted))
    BY <1>1, <2>3
  <2>6. queue' = SubSeq(emitted', m, Len(emitted'))
    BY <2>1, <2>2, <2>4, <2>5, AppendIsConcat
  <2>7. sent \in 0..Len(emitted') - taken
    BY <1>1
  <2>8. QED
    BY <2>1, <2>6, <2>7, Zenon
<1>5. AllSent(taken)'
  BY DEF Progress, AllSent, controllerVars
<1>6. DeliveredFollows(taken)'
  <2>1. TypeOK /\ emitted' \in Seq(Events) /\ Offset' = Offset /\ Len(delivered) <= taken + Offset
    BY <1>1 DEF IInv, Progress, DeliveredFollows, Offset
  <2>2. \A i \in 1..Len(emitted) + Offset : Upstream'[i] = Upstream[i]
    <3>1. CASE synthetic
      <4>1. /\ <<Event("session")>> \in Seq(Events) /\ Len(<<Event("session")>>) = 1
            /\ emitted \in Seq(Events)
        BY <2>1, EventTypes DEF TypeOK
      <4>2. Upstream = <<Event("session")>> \o emitted /\ Upstream' = <<Event("session")>> \o emitted'
        BY <3>1 DEF Upstream
      <4>3. /\ \A i \in 1..1 + Len(emitted) :
                  Upstream[i] = IF i <= 1 THEN <<Event("session")>>[i] ELSE emitted[i - 1]
            /\ \A i \in 1..1 + Len(emitted') :
                  Upstream'[i] = IF i <= 1 THEN <<Event("session")>>[i] ELSE emitted'[i - 1]
        BY <2>1, <4>1, <4>2, ConcatProperties
      <4>4. QED
        <5>1. Offset = 1
          BY <3>1 DEF Offset
        <5>2. ASSUME NEW i \in 1..1 + Len(emitted) PROVE Upstream'[i] = Upstream[i]
          <6>1. i \in 1..1 + Len(emitted') /\ i \in Int
            BY <1>1
          <6>2. i <= 1 \/ i - 1 \in 1..Len(emitted)
            BY <1>1, <6>1
          <6>3. QED
            BY <1>1, <4>3, <6>1, <6>2
        <5>3. Len(emitted) + Offset = 1 + Len(emitted)
          BY <1>1, <5>1
        <5>4. QED
          BY <5>2, <5>3
    <3>2. CASE ~synthetic
      BY <1>1, <3>2 DEF Upstream, Offset
    <3>3. QED
      BY <3>1, <3>2
  <2>3. \A i \in 1..Len(delivered) : i \in 1..Len(emitted) + Offset
    <3>1. Len(delivered) \in Nat /\ Offset \in {0, 1}
      BY <2>1, UpstreamElements, LenProperties DEF TypeOK
    <3>2. QED
      BY <1>1, <2>1, <3>1
  <2>4. \A i \in 1..Len(delivered) : AsRead(i)' = AsRead(i)
    BY <2>1, <2>2, <2>3 DEF AsRead, controllerVars
  <2>5. QED
    BY <2>1, <2>4 DEF Progress, DeliveredFollows, controllerVars, Gone
<1>7. ReplyFollows(taken)'
  <2>1. reply = NoReply
    BY DEF Progress, ReplyFollows, IInv, TypeOK
  <2>2. QED
    BY <1>1, <2>1 DEF ReplyFollows, controllerVars
<1>8. DamageFollows(taken)'
  BY DEF Progress, DamageFollows, controllerVars
<1>9. QED
  BY <1>1, <1>3, <1>4, <1>5, <1>6, <1>7, <1>8 DEF Progress, controllerVars

\* An event leaves the queue in two pieces.
LEMMA ProgressSend ==
    ASSUME IInv, NEW taken \in 0..Len(emitted), Progress(taken), Send
    PROVE  Progress(taken)'
<1>1. /\ sending = "open" /\ queue # <<>> /\ queue' = Tail(queue)
      /\ wire' = wire \o <<[event |-> Head(queue), last |-> FALSE, intact |-> TRUE],
                          [event |-> Head(queue), last |-> TRUE, intact |-> TRUE]>>
      /\ UNCHANGED <<controllerVars, agent, sending, emitted, synthetic, client>>
  BY DEF Send
<1>2. TypeOK /\ queue \in Seq(Events) /\ emitted \in Seq(Events) /\ Len(emitted) \in Nat
  BY LenProperties DEF IInv, TypeOK
<1>3. TypeOK'
  BY TypeStep, Send DEF Next, Agent
<1>4. PICK sent \in 0..Len(emitted) - taken :
         /\ Len(Travelling) = 2 * sent
         /\ queue = SubSeq(emitted, taken + sent + 1, Len(emitted))
  BY <1>1 DEF Progress, QueueFollows
<1>5. taken + sent < Len(emitted)
  <2>1. SUFFICES ASSUME Len(emitted) < taken + sent + 1 PROVE FALSE
    BY <1>2
  <2>2. queue = <<>>
    BY <1>2, <1>4, <2>1, SubSeqEmpty
  <2>3. QED
    BY <1>1, <2>2
<1>6. /\ Head(queue) = emitted[taken + sent + 1]
      /\ Tail(queue) = SubSeq(emitted, taken + sent + 2, Len(emitted))
  BY <1>2, <1>4, <1>5, HeadTailOfSubSeq
<1>12. /\ Len(wire) \in Nat /\ Len(wire') = Len(wire) + 2
       /\ \A i \in 1..Len(wire) : wire'[i] = wire[i]
       /\ wire'[Len(wire) + 1].intact /\ wire'[Len(wire) + 2].intact
  <2>1. wire \in Seq(Pieces) /\ Head(queue) \in Events
    BY <1>1, <1>2, HeadTailProperties DEF TypeOK
  <2>2. PICK two \in Seq(Pieces) :
           wire' = wire \o two /\ Len(two) = 2 /\ two[1].intact /\ two[2].intact
    <3> DEFINE two == <<[event |-> Head(queue), last |-> FALSE, intact |-> TRUE],
                        [event |-> Head(queue), last |-> TRUE, intact |-> TRUE]>>
    <3>1. two \in Seq(Pieces) /\ Len(two) = 2
      BY <2>1 DEF Pieces
    <3>2. wire' = wire \o two
      BY <1>1
    <3>3. two[1].intact /\ two[2].intact
      OBVIOUS
    <3> HIDE DEF two
    <3>4. QED
      BY <3>1, <3>2, <3>3
  <2>3. /\ Len(wire \o two) = Len(wire) + Len(two)
        /\ \A i \in 1..Len(wire) + Len(two) :
              (wire \o two)[i] = IF i <= Len(wire) THEN wire[i] ELSE two[i - Len(wire)]
    BY <2>1, <2>2, PiecesAppended
  <2>4. Len(wire) \in Nat
    BY <2>1, LenProperties
  <2>5. wire'[Len(wire) + 1] = two[1] /\ wire'[Len(wire) + 2] = two[2]
    <3>1. Len(wire) + 1 \in 1..Len(wire) + Len(two) /\ Len(wire) + 2 \in 1..Len(wire) + Len(two)
      BY <2>2, <2>4
    <3>2. ~(Len(wire) + 1 <= Len(wire)) /\ ~(Len(wire) + 2 <= Len(wire))
          /\ Len(wire) + 1 - Len(wire) = 1 /\ Len(wire) + 2 - Len(wire) = 2
      BY <2>4
    <3>3. QED
      BY <2>2, <2>3, <3>1, <3>2
  <2>6. \A i \in 1..Len(wire) : wire'[i] = wire[i]
    BY <2>2, <2>3, <2>4
  <2>7. QED
    BY <2>2, <2>3, <2>4, <2>5, <2>6
<1>7. /\ Len(Travelling) \in Nat /\ Len(Travelling') = Len(Travelling) + 2
      /\ \A i \in 1..Len(Travelling) : Travelling'[i] = Travelling[i]
      /\ Travelling'[Len(Travelling) + 1].event = Head(queue)
      /\ ~Travelling'[Len(Travelling) + 1].last
      /\ Travelling'[Len(Travelling) + 2].event = Head(queue)
      /\ Travelling'[Len(Travelling) + 2].last
  <2>1. Head(queue) \in Events
    BY <1>1, <1>2, HeadTailProperties
  <2>2. PICK two \in Seq(Pieces) :
           /\ wire' = wire \o two /\ Len(two) = 2
           /\ two[1] = [event |-> Head(queue), last |-> FALSE, intact |-> TRUE]
           /\ two[2] = [event |-> Head(queue), last |-> TRUE, intact |-> TRUE]
    <3> DEFINE two == <<[event |-> Head(queue), last |-> FALSE, intact |-> TRUE],
                          [event |-> Head(queue), last |-> TRUE, intact |-> TRUE]>>
    <3>1. two \in Seq(Pieces) /\ Len(two) = 2
      BY <2>1 DEF Pieces
    <3>2. wire' = wire \o two
      BY <1>1
    <3>3. two[1] = [event |-> Head(queue), last |-> FALSE, intact |-> TRUE] /\ two[2] = [event |-> Head(queue), last |-> TRUE, intact |-> TRUE]
      BY SMTT(60)
    <3> HIDE DEF two
    <3>4. QED
      BY <3>1, <3>2, <3>3
  <2>3. /\ rawBuffer \in Seq(Pieces) /\ wire \in Seq(Pieces) /\ Travelling \in Seq(Pieces)
        /\ Len(Travelling) \in Nat
    BY <1>2, TravellingIsSequence DEF TypeOK
  <2>4. Travelling' = Travelling \o two
    <3>1. (rawBuffer \o wire) \o two = rawBuffer \o (wire \o two)
      BY <2>2, <2>3, PiecesConcatenate
    <3>2. wire' = wire \o two /\ rawBuffer' = rawBuffer
      BY <1>1, <2>2 DEF controllerVars
    <3>3. QED
      BY <3>1, <3>2 DEF Travelling
  <2>5. /\ Len(Travelling \o two) = Len(Travelling) + Len(two)
        /\ \A i \in 1..Len(Travelling) + Len(two) :
              (Travelling \o two)[i] = IF i <= Len(Travelling) THEN Travelling[i] ELSE two[i - Len(Travelling)]
    BY <2>2, <2>3, ConcatProperties, Zenon
  <2>6. \A i \in 1..Len(Travelling) : Travelling'[i] = Travelling[i]
    BY <2>2, <2>3, <2>4, <2>5
  <2>7. Travelling'[Len(Travelling) + 1] = two[1] /\ Travelling'[Len(Travelling) + 2] = two[2]
    <3>1. Len(Travelling) + 1 \in 1..Len(Travelling) + Len(two) /\ Len(Travelling) + 2 \in 1..Len(Travelling) + Len(two)
      BY <2>2, <2>3
    <3>2. ~(Len(Travelling) + 1 <= Len(Travelling)) /\ ~(Len(Travelling) + 2 <= Len(Travelling))
      BY <2>3
    <3>3. Len(Travelling) + 1 - Len(Travelling) = 1 /\ Len(Travelling) + 2 - Len(Travelling) = 2
      BY <2>3
    <3>4. QED
      BY <2>4, <2>5, <3>1, <3>2, <3>3
  <2>8. QED
    BY <2>2, <2>3, <2>4, <2>5, <2>6, <2>7
<1>8. PiecesFollow(taken)'
  <2> SUFFICES ASSUME NEW i \in 1..Len(Travelling')
               PROVE  \E j \in 1..Len(emitted) - taken :
                         /\ i = 2 * j - 1 \/ i = 2 * j
                         /\ Travelling'[i].event = emitted[taken + j] /\ (Travelling'[i].last <=> i = 2 * j)
    BY <1>1 DEF PiecesFollow
  <2>1. CASE i \in 1..Len(Travelling)
    <3>1. PICK j \in 1..Len(emitted) - taken :
             /\ i = 2 * j - 1 \/ i = 2 * j
             /\ Travelling[i].event = emitted[taken + j] /\ (Travelling[i].last <=> i = 2 * j)
      BY <2>1, Zenon DEF Progress, PiecesFollow
    <3>2. Travelling'[i] = Travelling[i]
      BY <1>7, <2>1
    <3>3. QED
      BY <3>1, <3>2, Zenon
  <2>2. CASE i = Len(Travelling) + 1 \/ i = Len(Travelling) + 2
    <3> DEFINE j == sent + 1
    <3>1. j \in 1..Len(emitted) - taken /\ emitted[taken + j] = Head(queue)
      BY <1>2, <1>5, <1>6
    <3>2. (i = 2 * j - 1 \/ i = 2 * j) /\ (i = 2 * j <=> i = Len(Travelling) + 2)
      BY <1>4, <2>2
    <3>3. Travelling'[i].event = emitted[taken + j] /\ (Travelling'[i].last <=> i = 2 * j)
      BY <1>7, <2>2, <3>1, <3>2
    <3> HIDE DEF j
    <3>4. QED
      BY <3>1, <3>2, <3>3, Zenon
  <2>3. QED
    BY <1>7, <2>1, <2>2
<1>9. QueueFollows(taken)'
  <2>1. /\ sent + 1 \in 0..Len(emitted) - taken
        /\ Len(Travelling') = 2 * (sent + 1)
        /\ queue' = SubSeq(emitted, taken + (sent + 1) + 1, Len(emitted))
    <3>1. taken + (sent + 1) + 1 = taken + sent + 2
      BY <1>2, <1>4
    <3>2. queue' = SubSeq(emitted, taken + (sent + 1) + 1, Len(emitted))
      BY <1>1, <1>6, <3>1
    <3>3. Len(Travelling') = 2 * (sent + 1)
      BY <1>4, <1>7
    <3>4. sent + 1 \in 0..Len(emitted) - taken
      BY <1>2, <1>4, <1>5
    <3>5. QED
      BY <3>2, <3>3, <3>4
  <2>2. QED
    BY <1>1, <2>1 DEF QueueFollows
<1>10. AllSent(taken)' /\ DeliveredFollows(taken)' /\ ReplyFollows(taken)'
  BY <1>1 DEF Progress, AllSent, DeliveredFollows, ReplyFollows, controllerVars, Gone, Upstream, Offset, AsRead
<1>11. DamageFollows(taken)'
  <2>1. \A i \in 1..Len(wire') : wire'[i].intact
    <3> SUFFICES ASSUME NEW i \in 1..Len(wire') PROVE wire'[i].intact
      OBVIOUS
    <3>1. \A k \in 1..Len(wire) : wire[k].intact
      BY DEF Progress, DamageFollows
    <3>2. i \in 1..Len(wire) \/ i = Len(wire) + 1 \/ i = Len(wire) + 2
      BY <1>12
    <3>3. QED
      BY <1>12, <3>1, <3>2
  <2>2. QED
    BY <1>1, <2>1 DEF Progress, DamageFollows, controllerVars
<1>13. QED
  BY <1>1, <1>8, <1>9, <1>10, <1>11 DEF Progress, controllerVars

\* The response ends: everything is on its way, or nobody reads any more.
LEMMA ProgressClose ==
    ASSUME IInv, NEW taken \in 0..Len(emitted), Progress(taken), Close \/ AgentCancelled
    PROVE  Progress(taken)'
<1>1. /\ sending = "open" /\ sending' = "closed"
      /\ UNCHANGED <<controllerVars, emitted, synthetic, wire, client>>
      /\ agent' = "finished" <=> agent = "finished"
  BY DEF Close, AgentCancelled
<1>2. Travelling' = Travelling
  BY <1>1 DEF Travelling, controllerVars
<1>3. AllSent(taken)'
  <2>1. CASE AgentCancelled
    BY <1>1, <2>1 DEF AgentCancelled, AllSent, Ends, controllerVars
  <2>2. CASE Close
    <3>1. PICK sent \in 0..Len(emitted) - taken :
             /\ Len(Travelling) = 2 * sent
             /\ queue = SubSeq(emitted, taken + sent + 1, Len(emitted))
      BY <1>1 DEF Progress, QueueFollows
    <3>2. emitted \in Seq(Events) /\ Len(emitted) \in Nat /\ queue = <<>>
      BY <2>2, LenProperties DEF IInv, TypeOK, Close
    <3>3. sent = Len(emitted) - taken
      <4>1. SUFFICES ASSUME taken + sent + 1 \in 1..Len(emitted) PROVE FALSE
        BY <3>1, <3>2
      <4>2. Len(queue) = Len(emitted) - (taken + sent + 1) + 1
        <5>1. \A i \in taken + sent + 1..Len(emitted) : emitted[i] \in Events
          BY <3>2, <4>1, ElementOfSeq
        <5>2. QED
          BY <3>1, <3>2, <4>1, <5>1, SubSeqProperties
      <4>3. Len(queue) = 0
        BY <3>2
      <4>4. QED
        BY <3>2, <4>1, <4>2, <4>3
    <3>4. QED
      BY <1>1, <1>2, <2>2, <3>1, <3>3 DEF AllSent, Close
  <2>3. QED
    BY <2>1, <2>2
<1>4. PiecesFollow(taken)'
  BY <1>1, <1>2 DEF Progress, PiecesFollow
<1>5. QueueFollows(taken)' /\ DeliveredFollows(taken)' /\ ReplyFollows(taken)' /\ DamageFollows(taken)'
  BY <1>1 DEF Progress, QueueFollows, DeliveredFollows, ReplyFollows, DamageFollows, controllerVars, Gone,
     Upstream, Offset, AsRead
<1>6. QED
  BY <1>1, <1>3, <1>4, <1>5 DEF Progress, controllerVars

\* The response breaks off: what has arrived is still a beginning of what was sent.
LEMMA ProgressCrash ==
    ASSUME IInv, NEW taken \in 0..Len(emitted), Progress(taken), AgentCrash
    PROVE  Progress(taken)'
<1>1. /\ sending' = "broken"
      /\ agent' = "finished" <=> agent = "finished"
      /\ UNCHANGED <<controllerVars, emitted, synthetic, client>>
  BY DEF AgentCrash
<1>2. PICK n \in 0..Len(wire) : wire' = SubSeq(wire, 1, n)
  BY DEF AgentCrash
<1>3. TypeOK /\ Len(wire) \in Nat /\ wire \in Seq(Pieces) /\ rawBuffer \in Seq(Pieces)
  BY LenProperties DEF IInv, TypeOK
<1>4. wire' \in Seq(Pieces) /\ Len(wire') = n /\ \A i \in 1..n : wire'[i] = wire[i]
  <2>1. \A i \in 1..n : wire[i] \in Pieces
    BY <1>3, ElementOfSeq
  <2>2. /\ SubSeq(wire, 1, n) \in Seq(Pieces)
        /\ Len(SubSeq(wire, 1, n)) = IF 1 <= n THEN n - 1 + 1 ELSE 0
        /\ \A i \in 1..n - 1 + 1 : SubSeq(wire, 1, n)[i] = wire[1 + i - 1]
    BY <1>3, <2>1, SubSeqProperties
  <2>3. QED
    BY <1>2, <1>3, <2>2
<1>5. /\ Len(Travelling) \in Nat /\ Len(Travelling') \in 0..Len(Travelling)
      /\ \A i \in 1..Len(Travelling') : Travelling'[i] = Travelling[i]
  <2>1. /\ Len(rawBuffer) \in Nat /\ Len(Travelling) = Len(rawBuffer) + Len(wire)
        /\ \A i \in 1..Len(rawBuffer) + Len(wire) :
              Travelling[i] = IF i <= Len(rawBuffer) THEN rawBuffer[i] ELSE wire[i - Len(rawBuffer)]
    BY <1>3, ConcatProperties, LenProperties DEF Travelling
  <2>2. /\ Len(Travelling') = Len(rawBuffer) + n
        /\ \A i \in 1..Len(rawBuffer) + n :
              Travelling'[i] = IF i <= Len(rawBuffer) THEN rawBuffer[i] ELSE wire'[i - Len(rawBuffer)]
    <3>1. rawBuffer' = rawBuffer
      BY <1>1 DEF controllerVars
    <3>2. rawBuffer' \in Seq(Pieces)
      BY <1>3, <3>1
    <3>3. /\ Len(Travelling') = Len(rawBuffer') + Len(wire')
          /\ \A i \in 1..Len(rawBuffer') + Len(wire') :
                Travelling'[i] = IF i <= Len(rawBuffer') THEN rawBuffer'[i] ELSE wire'[i - Len(rawBuffer')]
      BY <1>4, <3>2, ConcatProperties, Zenon DEF Travelling
    <3>4. QED
      BY <1>4, <3>1, <3>3
  <2>3. \A i \in 1..Len(Travelling') : Travelling'[i] = Travelling[i]
    <3> TAKE i \in 1..Len(Travelling')
    <3>1. i \in 1..Len(rawBuffer) + n /\ i \in 1..Len(rawBuffer) + Len(wire)
      BY <1>3, <2>1, <2>2
    <3>2. CASE i <= Len(rawBuffer)
      BY <2>1, <2>2, <3>1, <3>2
    <3>3. CASE ~(i <= Len(rawBuffer))
      <4>1. i - Len(rawBuffer) \in 1..n
        BY <2>1, <3>1, <3>3
      <4>2. QED
        BY <1>4, <2>1, <2>2, <3>1, <3>3, <4>1
    <3>4. QED
      BY <3>2, <3>3
  <2>4. QED
    BY <1>3, <2>1, <2>2, <2>3
<1>6. PiecesFollow(taken)'
  <2> SUFFICES ASSUME NEW i \in 1..Len(Travelling')
               PROVE  \E j \in 1..Len(emitted) - taken :
                         /\ i = 2 * j - 1 \/ i = 2 * j
                         /\ Travelling'[i].event = emitted[taken + j] /\ (Travelling'[i].last <=> i = 2 * j)
    BY <1>1 DEF PiecesFollow
  <2>1. i \in 1..Len(Travelling) /\ Travelling'[i] = Travelling[i]
    BY <1>5
  <2>2. QED
    BY <2>1, Zenon DEF Progress, PiecesFollow
<1>7. QueueFollows(taken)' /\ AllSent(taken)'
  BY <1>1 DEF QueueFollows, AllSent
<1>8. DeliveredFollows(taken)' /\ ReplyFollows(taken)'
  BY <1>1 DEF Progress, DeliveredFollows, ReplyFollows, controllerVars, Gone, Upstream, Offset, AsRead
<1>9. DamageFollows(taken)'
  <2>1. \A i \in 1..Len(wire') : wire'[i].intact
    BY <1>3, <1>4 DEF Progress, DamageFollows
  <2>2. QED
    BY <1>1, <2>1 DEF Progress, DamageFollows, controllerVars
<1>10. QED
  BY <1>1, <1>6, <1>7, <1>8, <1>9 DEF Progress, controllerVars

\* The request is validated, and reaches the agent.
LEMMA ProgressBegin ==
    ASSUME IInv, NEW taken \in 0..Len(emitted), Progress(taken), Validate \/ SendRequest
    PROVE  Progress(taken)'
<1>1. /\ TypeOK /\ pc \in BeforeStream \ {"start", "session"} /\ forwarded = 0 /\ taken = 0
      /\ agent = "waiting" /\ emitted = <<>> /\ queue = <<>> /\ wire = <<>> /\ sending = "none"
      /\ rawBuffer = <<>> /\ delivered = <<>> /\ reply = NoReply
  BY DEF IInv, PlaceIsTrue, BeforeStream, NothingRead, Progress, Validate, SendRequest
<1>2. /\ emitted' = <<>> /\ queue' = <<>> /\ wire' = <<>> /\ rawBuffer' = <<>>
      /\ delivered' = <<>> /\ reply' = NoReply /\ sending' # "closed" /\ agent' # "finished"
      /\ pc' \notin Opening \cup {"stream"} /\ forwarded' = forwarded /\ cuts' = cuts
  BY <1>1 DEF Validate, SendRequest, Goto, agentVars, Ends, Opening
<1>3. Travelling' = <<>> /\ Len(Travelling') = 0
  <2>1. <<>> \in Seq(Pieces)
    BY EmptySeq
  <2>2. <<>> \o <<>> = <<>>
    BY <2>1, ConcatEmptySeq
  <2>3. QED
    BY <1>2, <2>2, EmptySeq DEF Travelling
<1>4. PiecesFollow(taken)'
  BY <1>3 DEF PiecesFollow
<1>5. QueueFollows(taken)'
  <2>1. SubSeq(emitted', taken + 0 + 1, Len(emitted')) = <<>>
    BY <1>1, <1>2, SubSeqEmpty
  <2>2. QED
    BY <1>1, <1>2, <1>3, <2>1 DEF QueueFollows
<1>6. AllSent(taken)' /\ ReplyFollows(taken)'
  BY <1>2 DEF AllSent, ReplyFollows
<1>7. DeliveredFollows(taken)'
  BY <1>1, <1>2 DEF DeliveredFollows, Offset
<1>8. DamageFollows(taken)'
  BY <1>1, <1>2 DEF Progress, DamageFollows
<1>9. QED
  BY <1>1, <1>2, <1>4, <1>5, <1>6, <1>7, <1>8 DEF Progress

\* The client is sent the session event of a new conversation first.
LEMMA ProgressStart ==
    ASSUME IInv, NEW taken \in 0..Len(emitted), Progress(taken), StartResponse
    PROVE  Progress(taken)'
<1>1. /\ TypeOK /\ pc \in {"start", "session", "flush", "open"}
      /\ forwarded = 0 /\ taken = 0 /\ reply = NoReply
      /\ pc \in {"start", "session"} => delivered = <<>>
      /\ pc \in {"session", "flush"} => synthetic
      /\ UNCHANGED <<rawBuffer, reply, forwarded, cuts, wire, queue, emitted, agent, sending, synthetic, client>>
  BY DEF IInv, PlaceIsTrue, BeforeStream, Opening, NothingRead, Progress, StartResponse, OpeningStep,
     WriteSession, agentVars
<1>2. Travelling' = Travelling /\ Upstream' = Upstream /\ Offset' = Offset
  BY <1>1 DEF Travelling, Upstream, Offset
<1>3. PiecesFollow(taken)' /\ QueueFollows(taken)' /\ DamageFollows(taken)'
  BY <1>1, <1>2 DEF Progress, PiecesFollow, QueueFollows, DamageFollows
<1>4. AllSent(taken)' /\ ReplyFollows(taken)'
  BY <1>1, <1>2 DEF Progress, AllSent, ReplyFollows
<1>5. DeliveredFollows(taken)'
  <2>1. AsRead(1)' = AsRead(1) /\ \A i \in 1..Len(delivered) : AsRead(i)' = AsRead(i)
    BY <1>1, <1>2 DEF AsRead
  <2>2. CASE WriteSession /\ pc' = "flush" /\ ~Gone
    <3>1. /\ synthetic /\ Offset = 1 /\ Upstream[1] = Event("session") /\ 0 \notin cuts
      BY <1>1, <2>2, UpstreamElements DEF WriteSession, Offset, Progress, DamageFollows
    <3>2. delivered' = Append(<<>>, [event |-> Event("session"), intact |-> TRUE])
      BY <1>1, <2>2 DEF WriteSession, Write
    <3>3. [event |-> Event("session"), intact |-> TRUE] \in Shown
      BY EventTypes DEF Shown
    <3>4. <<>> \in Seq(Shown) /\ Len(<<>>) = 0
      BY EmptySeq
    <3>5. Len(delivered') = 1 /\ delivered'[1] = [event |-> Event("session"), intact |-> TRUE]
      BY <3>2, <3>3, <3>4, AppendProperties
    <3>6. AsRead(1) = [event |-> Event("session"), intact |-> TRUE]
      <4>1. 1 - Offset = 0 /\ Upstream[1] = Event("session")
        BY <3>1
      <4>2. (1 - Offset \notin cuts) = TRUE
        BY <3>1, <4>1
      <4>3. QED
        BY <4>1, <4>2, Zenon DEF AsRead
    <3>7. /\ Len(delivered') <= taken + Offset'
          /\ Len(delivered') = taken + Offset'
      BY <1>1, <1>2, <3>1, <3>5
    <3>8. ASSUME NEW i \in 1..Len(delivered') PROVE delivered'[i] = AsRead(i)'
      <4>1. i = 1
        BY <3>5
      <4>2. QED
        BY <2>1, <3>5, <3>6, <4>1
    <3>9. QED
      BY <3>7, <3>8 DEF DeliveredFollows
  <2>3. CASE delivered' = delivered
    <3>1. pc' = "open" /\ pc = "start" => ~synthetic
      BY <1>1, <2>3 DEF StartResponse, OpeningStep, WriteSession, Goto
    <3>2. pc' \in Opening \cup {"stream"} /\ ~Gone =>
             pc \in Opening \/ (pc = "start" /\ pc' = "open")
      <4>1. WriteSession /\ pc' = "flush" => Gone
        <5>1. SUFFICES ASSUME WriteSession, pc' = "flush", ~Gone PROVE FALSE
          OBVIOUS
        <5>2. delivered' = Append(<<>>, [event |-> Event("session"), intact |-> TRUE]) /\ delivered = <<>>
          BY <1>1, <5>1 DEF WriteSession, Write, Goto
        <5>3. [event |-> Event("session"), intact |-> TRUE] \in Shown /\ <<>> \in Seq(Shown)
          BY EventTypes, EmptySeq DEF Shown
        <5>4. QED
          <6>1. Append(<<>>, [event |-> Event("session"), intact |-> TRUE]) # <<>>
            BY <5>3, AppendProperties
          <6>2. QED
            BY <2>3, <5>2, <6>1
      <4>2. QED
        BY <1>1, <4>1 DEF StartResponse, OpeningStep, WriteSession, Goto, Opening
    <3>3. pc' \in Opening \cup {"stream"} /\ ~Gone => Len(delivered) = taken + Offset
      BY <1>1, <3>1, <3>2 DEF Progress, DeliveredFollows, Offset
    <3>4. QED
      BY <1>1, <1>2, <2>1, <2>3, <3>3 DEF Progress, DeliveredFollows, Gone
  <2>5. QED
    BY <1>1, <2>2, <2>3 DEF StartResponse, OpeningStep, WriteSession, Write, Goto
<1>6. QED
  BY <1>1, <1>3, <1>4, <1>5 DEF Progress

\* The first piece of the k-th event is the piece 2 k - 1: half of one more is k.
LEMMA HalfOfOdd == \A k \in Nat : \A l : l = 2 * k - 1 => (l + 1) \div 2 = k
<1> SUFFICES ASSUME NEW k \in Nat PROVE (2 * k - 1 + 1) \div 2 = k
  OBVIOUS
<1>1. 2 * k - 1 + 1 = 2 * k
  OBVIOUS
<1>2. (2 * k) \div 2 = k
  OBVIOUS
<1>3. QED
  BY <1>1, <1>2, Zenon

\* A read moves pieces from the network into the buffer.
LEMMA ProgressRead ==
    ASSUME IInv, NEW taken \in 0..Len(emitted), Progress(taken), Read
    PROVE  Progress(taken)'
<1>1. /\ UNCHANGED <<pc, reply, delivered, stored, recorded, agentVars, synthetic, client>>
      /\ pc = "stream"
  BY DEF Read
<1>2. PICK n \in 1..Len(wire) : ReadPieces(n)
  BY ReadOfPieces
<1>3. /\ TypeOK /\ rawBuffer \in Seq(Pieces) /\ wire \in Seq(Pieces)
      /\ Len(wire) \in Nat /\ Len(emitted) \in Nat
  BY LenProperties DEF IInv, TypeOK
<1>4. /\ rawBuffer' \in Seq(Pieces)
      /\ Len(rawBuffer) \in Nat /\ Len(rawBuffer') = Len(rawBuffer) + n
      /\ \A i \in 1..Len(rawBuffer) : rawBuffer'[i] = rawBuffer[i]
      /\ \A i \in 1..n :
            /\ rawBuffer'[Len(rawBuffer) + i].event = wire[i].event
            /\ rawBuffer'[Len(rawBuffer) + i].last = wire[i].last
            /\ i # n => rawBuffer'[Len(rawBuffer) + i].intact = wire[i].intact
      /\ \/ cuts' = cuts /\ rawBuffer'[Len(rawBuffer')].intact = wire[n].intact
         \/ /\ cuts' = cuts \cup {forwarded + (Len(rawBuffer') + 1) \div 2}
            /\ ~rawBuffer'[Len(rawBuffer')].intact /\ ~wire[n].last
      /\ wire' \in Seq(Pieces) /\ Len(wire') = Len(wire) - n
      /\ \A i \in 1..Len(wire) - n : wire'[i] = wire[n + i]
  BY <1>2, <1>3, ReadIsSequence
<1>5. /\ Len(Travelling') = Len(Travelling) /\ Len(Travelling) \in Nat
      /\ \A i \in 1..Len(Travelling) :
            Travelling'[i].event = Travelling[i].event /\ Travelling'[i].last = Travelling[i].last
  <2>1. /\ Len(Travelling) = Len(rawBuffer) + Len(wire)
        /\ \A i \in 1..Len(rawBuffer) + Len(wire) :
              Travelling[i] = IF i <= Len(rawBuffer) THEN rawBuffer[i] ELSE wire[i - Len(rawBuffer)]
    BY <1>3, ConcatProperties DEF Travelling
  <2>2. /\ Len(Travelling') = Len(rawBuffer') + Len(wire')
        /\ \A i \in 1..Len(rawBuffer') + Len(wire') :
              Travelling'[i] = IF i <= Len(rawBuffer') THEN rawBuffer'[i] ELSE wire'[i - Len(rawBuffer')]
    BY <1>4, ConcatProperties, Zenon DEF Travelling
  <2>3. Len(Travelling') = Len(Travelling) /\ Len(Travelling) \in Nat
    BY <1>3, <1>4, <2>1, <2>2
  <2>4. ASSUME NEW i \in 1..Len(Travelling)
        PROVE  Travelling'[i].event = Travelling[i].event /\ Travelling'[i].last = Travelling[i].last
    <3>1. i \in 1..Len(rawBuffer) + Len(wire) /\ i \in 1..Len(rawBuffer') + Len(wire') /\ i \in Nat
      BY <1>3, <1>4, <2>1
    <3>2. CASE i <= Len(rawBuffer)
      <4>1. i \in 1..Len(rawBuffer) /\ i <= Len(rawBuffer')
        BY <1>3, <1>4, <3>1, <3>2
      <4>2. rawBuffer'[i] = rawBuffer[i]
        BY <1>4, <4>1
      <4>3. QED
        BY <2>1, <2>2, <3>1, <3>2, <4>1, <4>2
    <3>3. CASE ~(i <= Len(rawBuffer)) /\ i <= Len(rawBuffer')
      <4>1. PICK k \in 1..n : i = Len(rawBuffer) + k
        <5>1. i - Len(rawBuffer) \in 1..n /\ i = Len(rawBuffer) + (i - Len(rawBuffer))
          BY <1>4, <3>1, <3>3
        <5>2. QED
          BY <5>1
      <4>2. i - Len(rawBuffer) = k
        BY <1>4, <4>1
      <4>3. Travelling[i] = wire[k] /\ Travelling'[i] = rawBuffer'[i]
        BY <2>1, <2>2, <3>1, <3>3, <4>2
      <4>4. QED
        BY <1>4, <4>1, <4>3
    <3>4. CASE ~(i <= Len(rawBuffer'))
      <4>1. /\ i - Len(rawBuffer') \in 1..Len(wire) - n
            /\ n + (i - Len(rawBuffer')) = i - Len(rawBuffer)
            /\ ~(i <= Len(rawBuffer))
        <5>1. /\ Len(rawBuffer) \in Nat /\ Len(rawBuffer') = Len(rawBuffer) + n
              /\ Len(wire') = Len(wire) - n /\ n \in Nat
          BY <1>3, <1>4
        <5>2. QED
          BY <1>3, <3>1, <3>4, <5>1
      <4>2. QED
        BY <1>4, <2>1, <2>2, <3>1, <3>4, <4>1
    <3>5. QED
      BY <3>2, <3>3, <3>4
  <2>5. QED
    BY <2>3, <2>4
<1>6. PiecesFollow(taken)'
  <2> SUFFICES ASSUME NEW i \in 1..Len(Travelling)
               PROVE  \E j \in 1..Len(emitted) - taken :
                         /\ i = 2 * j - 1 \/ i = 2 * j
                         /\ Travelling'[i].event = emitted[taken + j] /\ (Travelling'[i].last <=> i = 2 * j)
    BY <1>1, <1>5 DEF PiecesFollow, agentVars
  <2>1. PICK j \in 1..Len(emitted) - taken :
           /\ i = 2 * j - 1 \/ i = 2 * j
           /\ Travelling[i].event = emitted[taken + j] /\ (Travelling[i].last <=> i = 2 * j)
    BY Zenon DEF Progress, PiecesFollow
  <2>2. QED
    BY <1>5, <2>1, Zenon
<1>7. QueueFollows(taken)' /\ AllSent(taken)'
  BY <1>1, <1>5 DEF Progress, QueueFollows, AllSent, agentVars
\* A cut is within an event that has not been forwarded.
<1>8. cuts' = cuts \/ \E j \in 1..Len(emitted) - taken :
         /\ cuts' = cuts \cup {taken + j} /\ Len(rawBuffer') = 2 * j - 1
         /\ ~rawBuffer'[Len(rawBuffer')].intact
  <2> SUFFICES ASSUME /\ cuts' = cuts \cup {forwarded + (Len(rawBuffer') + 1) \div 2}
                      /\ ~rawBuffer'[Len(rawBuffer')].intact /\ ~wire[n].last
               PROVE  \E j \in 1..Len(emitted) - taken :
                         /\ cuts' = cuts \cup {taken + j} /\ Len(rawBuffer') = 2 * j - 1
                         /\ ~rawBuffer'[Len(rawBuffer')].intact
    BY <1>4
  <2>1. Len(Travelling) = Len(rawBuffer) + Len(wire) /\ Travelling[Len(rawBuffer) + n] = wire[n]
    BY <1>3, TravellingIsSequence
  <2>2. Len(rawBuffer') \in 1..Len(Travelling) /\ ~Travelling[Len(rawBuffer')].last
    BY <1>3, <1>4, <2>1
  <2>3. PICK j \in 1..Len(emitted) - taken :
           /\ Len(rawBuffer') = 2 * j - 1 \/ Len(rawBuffer') = 2 * j
           /\ Travelling[Len(rawBuffer')].last <=> Len(rawBuffer') = 2 * j
    BY <2>2, Zenon DEF Progress, PiecesFollow
  <2>4. Len(rawBuffer') = 2 * j - 1 /\ (Len(rawBuffer') + 1) \div 2 = j
    <3>1. Len(rawBuffer') = 2 * j - 1
      BY <2>2, <2>3
    <3>2. j \in Nat
      BY <1>3
    <3>3. QED
      BY <3>1, <3>2, HalfOfOdd, Zenon
  <2>5. QED
    BY <2>3, <2>4 DEF Progress
<1>10. wire[n].intact /\ ~rawBuffer'[Len(rawBuffer')].intact => cuts' # cuts
  <2> SUFFICES ASSUME wire[n].intact, ~rawBuffer'[Len(rawBuffer')].intact, cuts' = cuts PROVE FALSE
    OBVIOUS
  <2>1. cuts = cuts \cup {forwarded + (Len(rawBuffer') + 1) \div 2} /\ ~wire[n].last
    BY <1>4
  <2>2. Len(Travelling) = Len(rawBuffer) + Len(wire) /\ Travelling[Len(rawBuffer) + n] = wire[n]
    BY <1>3, TravellingIsSequence
  <2>3. Len(rawBuffer') \in 1..Len(Travelling) /\ ~Travelling[Len(rawBuffer')].last
    BY <1>3, <1>4, <2>1, <2>2
  <2>4. PICK j \in 1..Len(emitted) - taken :
           /\ Len(rawBuffer') = 2 * j - 1 \/ Len(rawBuffer') = 2 * j
           /\ Travelling[Len(rawBuffer')].last <=> Len(rawBuffer') = 2 * j
    BY <2>3, Zenon DEF Progress, PiecesFollow
  <2>5. Len(rawBuffer') = 2 * j - 1 /\ (Len(rawBuffer') + 1) \div 2 = j
    <3>1. Len(rawBuffer') = 2 * j - 1
      BY <2>3, <2>4
    <3>2. j \in Nat
      BY <1>3
    <3>3. QED
      BY <3>1, <3>2, HalfOfOdd, Zenon
  <2>6. taken + j \in cuts /\ taken + j > taken /\ taken + j - taken = j
    BY <1>3, <2>1, <2>5 DEF Progress
  <2>7. 2 * (taken + j - taken) - 1 <= Len(rawBuffer)
    BY <2>6 DEF Progress, DamageFollows
  <2>8. Len(rawBuffer') > Len(rawBuffer)
    BY <1>3, <1>4
  <2>9. 2 * j - 1 <= Len(rawBuffer)
    BY <2>6, <2>7
  <2>10. QED
    BY <1>3, <2>5, <2>8, <2>9
<1>9. DamageFollows(taken)'
  <2>1. 0 \notin cuts'
    BY <1>3, <1>8 DEF Progress, DamageFollows
  <2>2. \A i \in 1..Len(wire') : wire'[i].intact
    <3> SUFFICES ASSUME NEW i \in 1..Len(wire') PROVE wire'[i].intact
      OBVIOUS
    <3>1. n + i \in 1..Len(wire) /\ i \in 1..Len(wire) - n
      BY <1>3, <1>4
    <3>2. QED
      BY <1>4, <3>1 DEF Progress, DamageFollows
  <2>3. ASSUME NEW c \in cuts', c > taken PROVE 2 * (c - taken) - 1 <= Len(rawBuffer')
    <3>1. CASE c \in cuts
      <4>1. c \in Nat /\ 2 * (c - taken) - 1 <= Len(rawBuffer)
        BY <1>3, <2>3, <3>1 DEF TypeOK, Progress, DamageFollows
      <4>2. QED
        BY <1>3, <1>4, <4>1
    <3>2. CASE c \notin cuts
      <4>1. PICK j \in 1..Len(emitted) - taken : c = taken + j /\ Len(rawBuffer') = 2 * j - 1
        BY <1>8, <3>2
      <4>2. QED
        BY <1>3, <4>1
    <3>3. QED
      BY <3>1, <3>2
  <2>4. ASSUME NEW i \in 1..Len(rawBuffer'), NEW j \in 1..Len(rawBuffer')
        PROVE  /\ i = 2 * j - 1 => (rawBuffer'[i].intact <=> taken + j \notin cuts')
               /\ i = 2 * j => rawBuffer'[i].intact
    <3>1. CASE i <= Len(rawBuffer)
      <4>1. i \in 1..Len(rawBuffer) /\ rawBuffer'[i] = rawBuffer[i]
        BY <1>4, <3>1
      <4>2. i = 2 * j - 1 \/ i = 2 * j => j \in 1..Len(rawBuffer)
        BY <1>3, <1>4, <3>1
      <4>3. i = 2 * j - 1 => (taken + j \in cuts' <=> taken + j \in cuts)
        <5>1. SUFFICES ASSUME i = 2 * j - 1, taken + j \in cuts', taken + j \notin cuts PROVE FALSE
          BY <1>8
        <5>2. PICK k \in 1..Len(emitted) - taken : taken + j = taken + k /\ Len(rawBuffer') = 2 * k - 1
          BY <1>8, <5>1
        <5>3. j = k
          BY <1>3, <5>2
        <5>4. QED
          BY <1>3, <1>4, <3>1, <5>1, <5>2, <5>3
      <4>4. QED
        BY <4>1, <4>2, <4>3 DEF Progress, DamageFollows
    <3>2. CASE ~(i <= Len(rawBuffer))
      <4>1. PICK k \in 1..n : i = Len(rawBuffer) + k
        <5>1. i - Len(rawBuffer) \in 1..n /\ i = Len(rawBuffer) + (i - Len(rawBuffer))
          BY <1>4, <3>2
        <5>2. QED
          BY <5>1
      <4>2. wire[k].intact /\ k \in 1..Len(wire)
        BY <1>3 DEF Progress, DamageFollows
      <4>3. i = 2 * j - 1 => taken + j \notin cuts
        <5>1. SUFFICES ASSUME i = 2 * j - 1, taken + j \in cuts PROVE FALSE
          OBVIOUS
        <5>2. taken + j > taken /\ taken + j - taken = j /\ taken \in Nat
          BY <1>3
        <5>3. 2 * (taken + j - taken) - 1 <= Len(rawBuffer)
          BY <5>1, <5>2 DEF Progress, DamageFollows
        <5>4. QED
          BY <1>4, <3>2, <5>1, <5>2, <5>3
      <4>4. CASE rawBuffer'[i].intact
        <5>1. CASE cuts' = cuts
          BY <4>3, <4>4, <5>1
        <5>2. CASE cuts' # cuts
          <6>1. PICK m \in 1..Len(emitted) - taken :
                   /\ cuts' = cuts \cup {taken + m} /\ Len(rawBuffer') = 2 * m - 1
                   /\ ~rawBuffer'[Len(rawBuffer')].intact
            BY <1>8, <5>2
          <6>2. i # Len(rawBuffer')
            BY <4>4, <6>1
          <6>3. i = 2 * j - 1 => taken + j # taken + m
            BY <1>3, <6>1, <6>2
          <6>4. QED
            BY <4>3, <4>4, <6>1, <6>3
        <5>3. QED
          BY <5>1, <5>2
      <4>5. CASE ~rawBuffer'[i].intact
        <5>1. k = n /\ i = Len(rawBuffer') /\ cuts' # cuts
          <6>1. k = n
            BY <1>4, <4>1, <4>2, <4>5
          <6>2. i = Len(rawBuffer')
            BY <1>4, <4>1, <6>1
          <6>3. ~rawBuffer'[Len(rawBuffer')].intact /\ wire[n].intact
            BY <4>2, <4>5, <6>1, <6>2
          <6>4. QED
            BY <1>10, <6>1, <6>2, <6>3
        <5>2. PICK m \in 1..Len(emitted) - taken :
                 cuts' = cuts \cup {taken + m} /\ Len(rawBuffer') = 2 * m - 1
          BY <1>8, <5>1
        <5>3. i = 2 * m - 1
          BY <5>1, <5>2
        <5>4. i # 2 * j
          BY <5>3
        <5>5. i = 2 * j - 1 => j = m
          BY <5>3
        <5>6. QED
          BY <4>5, <5>2, <5>4, <5>5
      <4>6. QED
        BY <4>4, <4>5
    <3>3. QED
      BY <1>4, <3>1, <3>2
  <2>5. QED
    BY <2>1, <2>2, <2>3, <2>4 DEF DamageFollows
<1>11. DeliveredFollows(taken)'
  <2>1. /\ delivered' = delivered /\ Offset' = Offset /\ Upstream' = Upstream /\ Gone' = Gone
        /\ pc' = pc /\ reply' = reply /\ Offset \in {0, 1} /\ Len(delivered) \in Nat
    BY <1>1, <1>3, UpstreamElements, LenProperties DEF Offset, Upstream, Gone, agentVars, TypeOK
  <2>2. ASSUME NEW i \in 1..Len(delivered) PROVE AsRead(i)' = AsRead(i)
    <3>1. i - Offset <= taken /\ i - Offset \in Int
      BY <2>1 DEF Progress, DeliveredFollows
    <3>2. i - Offset \in cuts' <=> i - Offset \in cuts
      BY <1>3, <1>8, <3>1
    <3>3. QED
      BY <2>1, <3>2 DEF AsRead
  <2>3. QED
    BY <2>1, <2>2 DEF Progress, DeliveredFollows
<1>12. ReplyFollows(taken)'
  <2>1. taken \in cuts' <=> taken \in cuts
    BY <1>3, <1>8
  <2>2. QED
    BY <1>1, <2>1 DEF Progress, ReplyFollows, agentVars
<1>13. QED
  <2>1. forwarded' = forwarded /\ emitted' = emitted
    BY <1>1 DEF Read, agentVars
  <2>2. QED
    BY <1>6, <1>7, <1>9, <1>11, <1>12, <2>1 DEF Progress

\* The next event is taken off the buffer and written to a client that reads.
LEMMA ProgressForward ==
    ASSUME IInv, NEW taken \in 0..Len(emitted), Progress(taken), Forward
    PROVE  taken + 1 \in 0..Len(emitted') /\ Progress(taken + 1)'
<1> DEFINE event == emitted[taken + 1]
<1>1. /\ TypeOK /\ Len(rawBuffer) \in Nat /\ Len(rawBuffer) >= 2 /\ taken < Len(emitted)
      /\ Head(rawBuffer).event = event /\ Boundary = 2
      /\ rawBuffer' = SubSeq(rawBuffer, 3, Len(rawBuffer))
  BY FirstEvent DEF Forward, IInv, Progress
<1> DEFINE intact == taken + 1 \notin cuts
<1>0. (\A i \in 1 .. Boundary : rawBuffer[i].intact) <=> intact
  <2>1. /\ 1 \in 1..Len(rawBuffer) /\ 2 \in 1..Len(rawBuffer)
        /\ 1 = 2 * 1 - 1 /\ 2 = 2 * 1
    BY <1>1
  <2>2. (rawBuffer[1].intact <=> intact) /\ rawBuffer[2].intact
    BY <2>1 DEF Progress, DamageFollows
  <2>3. \A i \in 1 .. Boundary : i = 1 \/ i = 2
    BY <1>1
  <2>4. 1 \in 1 .. Boundary
    BY <1>1
  <2>5. QED
    BY <2>2, <2>3, <2>4
<1>2. /\ pc = "stream" /\ UNCHANGED <<pc, cuts, stored, recorded, agentVars, synthetic, wire, client>>
      /\ reply' = IF event.type = "done" THEN [content |-> event.content, intact |-> intact] ELSE reply
      /\ delivered' = IF Gone THEN delivered ELSE Append(delivered, [event |-> event, intact |-> intact])
      /\ emitted' = emitted /\ agent' = agent /\ sending' = sending /\ queue' = queue
      /\ forwarded' = taken + 1
  <2> DEFINE whole == \A i \in 1 .. Boundary : rawBuffer[i].intact
  <2>1. /\ reply' = IF event.type = "done" THEN [content |-> event.content, intact |-> whole] ELSE reply
        /\ delivered' = IF Gone THEN delivered ELSE Append(delivered, [event |-> event, intact |-> whole])
    BY <1>1 DEF Forward, Write
  <2>2. whole = intact
    BY <1>0
  <2> HIDE DEF whole, intact
  <2>3. QED
    BY <2>1, <2>2 DEF Forward, agentVars, Progress
<1> HIDE DEF intact
<1>3. emitted \in Seq(Events) /\ Len(emitted) \in Nat /\ event \in Events
  BY <1>1, LenProperties, ElementOfSeq DEF TypeOK
<1>4. /\ Len(Travelling) \in Nat /\ Len(Travelling') = Len(Travelling) - 2
      /\ \A i \in 1..Len(Travelling') : Travelling'[i] = Travelling[i + 2]
  <2>1. /\ rawBuffer \in Seq(Pieces) /\ wire \in Seq(Pieces) /\ Len(wire) \in Nat
        /\ Len(Travelling) \in Nat
    BY <1>1, LenProperties, TravellingIsSequence DEF TypeOK
  <2>2. /\ rawBuffer' \in Seq(Pieces) /\ Len(rawBuffer') = Len(rawBuffer) - 2
        /\ \A i \in 1..Len(rawBuffer) - 2 : rawBuffer'[i] = rawBuffer[i + 2]
    BY <1>1, <2>1, DropTwo
  <2>3. /\ Len(Travelling) = Len(rawBuffer) + Len(wire)
        /\ \A i \in 1..Len(rawBuffer) + Len(wire) :
              Travelling[i] = IF i <= Len(rawBuffer) THEN rawBuffer[i] ELSE wire[i - Len(rawBuffer)]
    BY <2>1, ConcatProperties DEF Travelling
  <2>4. /\ Len(Travelling') = Len(rawBuffer') + Len(wire)
        /\ \A i \in 1..Len(rawBuffer') + Len(wire) :
              Travelling'[i] = IF i <= Len(rawBuffer') THEN rawBuffer'[i] ELSE wire[i - Len(rawBuffer')]
    BY <1>2, <2>1, <2>2, ConcatProperties, Zenon DEF Travelling
  <2>5. Len(Travelling') = Len(Travelling) - 2
    BY <1>1, <2>1, <2>2, <2>3, <2>4
  <2>6. ASSUME NEW i \in 1..Len(Travelling') PROVE Travelling'[i] = Travelling[i + 2]
    <3>1. i \in 1..Len(rawBuffer') + Len(wire) /\ i + 2 \in 1..Len(rawBuffer) + Len(wire)
      BY <1>1, <2>1, <2>2, <2>4
    <3>2. CASE i <= Len(rawBuffer')
      <4>1. i \in 1..Len(rawBuffer) - 2 /\ i + 2 <= Len(rawBuffer)
        BY <1>1, <2>2, <3>1, <3>2
      <4>2. QED
        BY <2>2, <2>3, <2>4, <3>1, <3>2, <4>1
    <3>3. CASE ~(i <= Len(rawBuffer'))
      <4>1. ~(i + 2 <= Len(rawBuffer)) /\ i + 2 - Len(rawBuffer) = i - Len(rawBuffer')
        <5>1. i \in Int /\ Len(rawBuffer) \in Int /\ Len(rawBuffer') = Len(rawBuffer) - 2
          BY <1>1, <2>2
        <5>2. QED
          BY <3>3, <5>1
      <4>2. Travelling'[i] = wire[i - Len(rawBuffer')]
        BY <2>4, <3>1, <3>3
      <4>3. Travelling[i + 2] = wire[i + 2 - Len(rawBuffer)]
        BY <2>3, <3>1, <4>1
      <4>4. QED
        BY <4>1, <4>2, <4>3
    <3>4. QED
      BY <3>2, <3>3
  <2>7. QED
    BY <2>1, <2>5, <2>6
<1>5. PiecesFollow(taken + 1)'
  <2> SUFFICES ASSUME NEW i \in 1..Len(Travelling')
               PROVE  \E j \in 1..Len(emitted) - (taken + 1) :
                         /\ i = 2 * j - 1 \/ i = 2 * j
                         /\ Travelling'[i].event = emitted[taken + 1 + j] /\ (Travelling'[i].last <=> i = 2 * j)
    BY <1>2 DEF PiecesFollow
  <2>1. i + 2 \in 1..Len(Travelling) /\ Travelling'[i] = Travelling[i + 2]
    BY <1>4
  <2>2. PICK j \in 1..Len(emitted) - taken :
           /\ i + 2 = 2 * j - 1 \/ i + 2 = 2 * j
           /\ Travelling[i + 2].event = emitted[taken + j] /\ (Travelling[i + 2].last <=> i + 2 = 2 * j)
    BY <2>1, Zenon DEF Progress, PiecesFollow
  <2>3. /\ j - 1 \in 1..Len(emitted) - (taken + 1)
        /\ i = 2 * (j - 1) - 1 \/ i = 2 * (j - 1)
        /\ taken + 1 + (j - 1) = taken + j
        /\ i = 2 * (j - 1) <=> i + 2 = 2 * j
    <3>1. i \in Int /\ j \in Int /\ j <= Len(emitted) - taken /\ (i + 2 = 2 * j - 1 \/ i + 2 = 2 * j) /\ i >= 1
      BY <1>3, <1>4, <2>2
    <3>2. QED
      BY ONLY <3>1, <1>3, taken \in 0..Len(emitted)
  <2>4. QED
    BY <2>1, <2>2, <2>3, Zenon
<1>6. QueueFollows(taken + 1)'
  <2> SUFFICES ASSUME sending \in {"none", "open"}
               PROVE  \E sent \in 0..Len(emitted) - (taken + 1) :
                        /\ Len(Travelling') = 2 * sent
                        /\ queue = SubSeq(emitted, taken + 1 + sent + 1, Len(emitted))
    BY <1>2 DEF QueueFollows
  <2>1. PICK sent \in 0..Len(emitted) - taken :
           /\ Len(Travelling) = 2 * sent
           /\ queue = SubSeq(emitted, taken + sent + 1, Len(emitted))
    BY DEF Progress, QueueFollows
  <2>2. Len(Travelling) >= 2
    BY <1>1, TravellingIsSequence
  <2>3. /\ sent - 1 \in 0..Len(emitted) - (taken + 1) /\ Len(Travelling') = 2 * (sent - 1)
        /\ taken + 1 + (sent - 1) + 1 = taken + sent + 1
    BY <1>3, <1>4, <2>1, <2>2
  <2>4. QED
    BY <2>1, <2>3, Zenon
<1>7. AllSent(taken + 1)'
  BY <1>2, <1>3, <1>4 DEF Progress, AllSent
<1>8. DeliveredFollows(taken + 1)'
  <2>1. /\ Offset' = Offset /\ Gone' = Gone /\ Upstream' = Upstream /\ Offset \in {0, 1}
        /\ \A i \in 1..Len(emitted) : Upstream[i + Offset] = emitted[i]
        /\ delivered \in Seq(Shown) /\ Len(delivered) \in Nat /\ Len(delivered) <= taken + Offset
        /\ \A i \in 1..Len(delivered) : delivered[i] = AsRead(i)
    BY <1>1, <1>2, UpstreamElements, LenProperties DEF Upstream, Offset, Gone, Progress, DeliveredFollows, TypeOK
  <2>2. \A i \in Int : AsRead(i)' = AsRead(i)
    BY <1>2, <2>1 DEF AsRead
  <2>3. CASE Gone
    BY <1>1, <1>2, <2>1, <2>2, <2>3 DEF DeliveredFollows
  <2>4. CASE ~Gone
    <3> DEFINE shown == [event |-> event, intact |-> intact]
    <3>1. Len(delivered) = taken + Offset
      BY <1>2, <2>4 DEF Progress, DeliveredFollows
    <3>2. shown \in Shown
      BY <1>3 DEF Shown, intact
    <3>3. delivered' = Append(delivered, shown)
      BY <1>2, <2>4
    <3>4. /\ Len(delivered') = Len(delivered) + 1
          /\ \A i \in 1..Len(delivered) : delivered'[i] = delivered[i]
          /\ delivered'[Len(delivered) + 1] = shown
      BY <2>1, <3>2, <3>3, AppendProperties
    <3>5. AsRead(taken + 1 + Offset) = shown
      <4> DEFINE k == taken + 1 + Offset
      <4>1. Upstream[k] = event /\ k - Offset = taken + 1
        <5>1. taken + 1 \in 1..Len(emitted) /\ Offset \in Int
          BY <1>1, <1>3, <2>1
        <5>2. Upstream[(taken + 1) + Offset] = emitted[taken + 1]
          BY <2>1, <5>1
        <5>3. QED
          BY <5>1, <5>2
      <4> HIDE DEF k
      <4>2. AsRead(k) = shown
        BY <4>1 DEF AsRead, intact
      <4>3. QED
        BY <4>2 DEF k
    <3>6. Len(delivered) + 1 = taken + 1 + Offset
      BY <2>1, <3>1
    <3> HIDE DEF shown
    <3>7. ASSUME NEW i \in 1..Len(delivered') PROVE delivered'[i] = AsRead(i)'
      <4>1. i \in 1..Len(delivered) \/ i = Len(delivered) + 1
        BY <2>1, <3>4
      <4>2. QED
        <5>1. i \in Int /\ AsRead(i)' = AsRead(i)
          BY <2>2
        <5>2. CASE i \in 1..Len(delivered)
          BY <2>1, <3>4, <5>1, <5>2
        <5>3. CASE i = Len(delivered) + 1
          BY <3>4, <3>5, <3>6, <5>1, <5>3
        <5>4. QED
          BY <4>1, <5>2, <5>3
    <3>8. Len(delivered') = taken + 1 + Offset'
      BY <2>1, <3>4, <3>6
    <3>9. Len(delivered') <= taken + 1 + Offset'
      BY <2>1, <3>8
    <3>10. QED
      BY <3>7, <3>8, <3>9, Zenon DEF DeliveredFollows
  <2>5. QED
    BY <2>3, <2>4
<1>9. ReplyFollows(taken + 1)'
  <2>1. reply = NoReply
    BY ForwardBeforeReply
  <2>2. event.type = "done" <=> (taken + 1 = Len(emitted) /\ agent = "finished")
    BY <1>1, <1>3 DEF IInv, DoneIsLast
  <2>3. event.type = "done" => event.content \in Contents /\ event = Done(event.content)
    BY <1>3, EventTypes
  <2>4. event.type = "done" => reply' \in Replies
    BY <1>2, <2>3 DEF Replies, intact
  <2>5. reply' # NoReply <=> event.type = "done"
    BY <1>2, <2>1, <2>4, EventTypes
  <2>6. event.type = "done" => reply'.content = event.content /\ (reply'.intact <=> taken + 1 \notin cuts')
    BY <1>2 DEF intact
  <2>7. QED
    BY <1>2, <2>2, <2>3, <2>5, <2>6 DEF ReplyFollows
<1>11. DamageFollows(taken + 1)'
  <2>1. /\ rawBuffer \in Seq(Pieces)
        /\ Len(rawBuffer') = Len(rawBuffer) - 2
        /\ \A i \in 1..Len(rawBuffer) - 2 : rawBuffer'[i] = rawBuffer[i + 2]
    BY <1>1, DropTwo DEF TypeOK
  <2>2. ASSUME NEW i \in 1..Len(rawBuffer'), NEW j \in 1..Len(rawBuffer')
        PROVE  /\ i = 2 * j - 1 => (rawBuffer'[i].intact <=> taken + 1 + j \notin cuts)
               /\ i = 2 * j => rawBuffer'[i].intact
    <3>1. i + 2 \in 1..Len(rawBuffer) /\ j + 1 \in 1..Len(rawBuffer) /\ rawBuffer'[i] = rawBuffer[i + 2]
      BY <1>1, <2>1
    <3>2. /\ i = 2 * j - 1 => i + 2 = 2 * (j + 1) - 1
          /\ i = 2 * j => i + 2 = 2 * (j + 1)
          /\ taken + 1 + j = taken + (j + 1)
      BY <1>1, <2>1
    <3>3. /\ i + 2 = 2 * (j + 1) - 1 => (rawBuffer[i + 2].intact <=> taken + (j + 1) \notin cuts)
          /\ i + 2 = 2 * (j + 1) => rawBuffer[i + 2].intact
      BY <3>1 DEF Progress, DamageFollows
    <3>4. QED
      BY <3>1, <3>2, <3>3
  <2>3. ASSUME NEW c \in cuts, c > taken + 1 PROVE 2 * (c - (taken + 1)) - 1 <= Len(rawBuffer')
    <3>1. c \in Nat /\ taken \in Nat
      BY <1>1, <1>3 DEF TypeOK
    <3>2. 2 * (c - taken) - 1 <= Len(rawBuffer)
      BY <2>3, <3>1 DEF Progress, DamageFollows
    <3>3. QED
      BY <1>1, <2>1, <3>1, <3>2
  <2>4. QED
    BY <1>2, <2>2, <2>3 DEF Progress, DamageFollows
<1>10. QED
  BY <1>1, <1>2, <1>3, <1>5, <1>6, <1>7, <1>8, <1>9, <1>11 DEF Progress

LEMMA ProgressStep ==
    IInv /\ [Next]_vars => (\E taken \in 0..Len(emitted) : Progress(taken))'
<1> SUFFICES ASSUME IInv, [Next]_vars PROVE \E taken \in 0..Len(emitted') : Progress(taken)'
  OBVIOUS
<1>1. PICK taken \in 0..Len(emitted) : Progress(taken)
  BY DEF IInv
<1>2. CASE EmitProgress
  <2>1. PICK type \in {"status", "chunk"} : Emit(Event(type))
    BY <1>2 DEF EmitProgress
  <2>2. Event(type) \in Events /\ Event(type).type # "done"
    BY EventTypes
  <2>3. QED
    BY <1>1, <1>2, <2>1, <2>2, ProgressEmit DEF EmitProgress
<1>3. CASE EmitDone
  <2>1. PICK content \in Contents : Emit(Done(content))
    BY <1>3 DEF EmitDone
  <2>2. Done(content) \in Events /\ Done(content).type = "done"
    BY EventTypes
  <2>3. QED
    BY <1>1, <1>3, <2>1, <2>2, ProgressEmit DEF EmitDone
<1>4. CASE Forward
  BY <1>1, <1>4, ProgressForward
<1>5. CASE Send
  BY <1>1, <1>5, ProgressSend DEF Send
<1>6. CASE Close \/ AgentCancelled
  BY <1>1, <1>6, ProgressClose DEF Close, AgentCancelled
<1>7. CASE AgentCrash
  BY <1>1, <1>7, ProgressCrash DEF AgentCrash
<1>8. CASE Validate \/ SendRequest
  BY <1>1, <1>8, ProgressBegin DEF Validate, SendRequest, agentVars
<1>9. CASE StartResponse
  BY <1>1, <1>9, ProgressStart DEF StartResponse, OpeningStep, WriteSession, agentVars
<1>10. CASE Read
  BY <1>1, <1>10, ProgressRead DEF Read, agentVars
<1>11. CASE \/ Leave \/ UNCHANGED vars \/ Create \/ AppendUserMessage \/ ReadRefusal \/ NoticeCancellation
            \/ ReadFails \/ EndOfStream \/ Persist
            \/ RecordFailures \/ RecordCancellation \/ RecordSuccess \/ RecordPersistFailure
  <2>1. /\ UNCHANGED <<rawBuffer, wire, queue, emitted, delivered, synthetic, reply, forwarded, cuts,
                       agent, sending>>
        /\ client' \in {client, "gone"}
        /\ pc' \in {"start", "session", "flush", "open", "stream"} => pc = pc'
    <3>1. CASE Leave \/ UNCHANGED vars
      BY <3>1 DEF Leave, vars, controllerVars, agentVars
    <3>2. CASE Create \/ AppendUserMessage \/ ReadRefusal \/ NoticeCancellation \/ ReadFails
               \/ EndOfStream \/ Persist
      BY <3>2 DEF Create, AppendUserMessage, ReadRefusal, NoticeCancellation, ReadFails,
         EndOfStream, Persist, Goto, agentVars
    <3>3. CASE RecordFailures \/ RecordCancellation \/ RecordSuccess \/ RecordPersistFailure
      BY <3>3 DEF RecordFailures, RecordCancellation, RecordSuccess, RecordPersistFailure, RecordStep,
         Goto, agentVars
    <3>4. QED
      BY <1>11, <3>1, <3>2, <3>3
  <2>2. QED
    BY <1>1, <2>1, ProgressFrame
<1>12. QED
  BY <1>2, <1>3, <1>4, <1>5, <1>6, <1>7, <1>8, <1>9, <1>10, <1>11 DEF Next, Controller, Agent

-----------------------------------------------------------------------------
(* The theorems                                                            *)

LEMMA IInvInit == Init => IInv
<1> SUFFICES ASSUME Init PROVE IInv
  OBVIOUS
<1> USE DEF Init
<1>1. TypeOK
  BY EmptySeq DEF TypeOK, Steps, Ends, Components
<1>2. Len(emitted) = 0 /\ Len(Travelling) = 0
  <2>1. <<>> \in Seq(Pieces)
    BY EmptySeq
  <2>2. <<>> \o <<>> = <<>>
    BY <2>1, ConcatEmptySeq
  <2>3. QED
    BY <2>2, EmptySeq DEF Travelling
<1>3. Progress(0)
  <2>1. Offset = 0
    BY DEF Offset
  <2>2. SubSeq(emitted, 0 + 0 + 1, Len(emitted)) = <<>>
    BY <1>2, SubSeqEmpty
  <2>3. QueueFollows(0)
    BY <1>2, <2>2 DEF QueueFollows
  <2>4. PiecesFollow(0) /\ AllSent(0) /\ ReplyFollows(0) /\ DeliveredFollows(0) /\ DamageFollows(0)
    BY <1>2, <2>1 DEF PiecesFollow, AllSent, ReplyFollows, DeliveredFollows, DamageFollows
  <2>5. QED
    BY <2>3, <2>4 DEF Progress
<1>4. DoneIsLast /\ PlaceIsTrue /\ RecordIsTrue
  BY <1>2 DEF DoneIsLast, PlaceIsTrue, RecordIsTrue, NoOutcome, NothingRead, Components, BeforeStream, AfterStream,
     Opening
<1>5. QED
  BY <1>1, <1>2, <1>3, <1>4 DEF IInv

LEMMA IInvStep == IInv /\ [Next]_vars => IInv'
BY TypeStep, DoneIsLastStep, ProgressStep, PlaceStep, RecordIsTrueStep DEF IInv

\* A stored reply is the agent's last word, as it was written to a client that reads.
LEMMA StoredReplyIsUpstream == IInv => StoredReplyWasShown
<1> SUFFICES ASSUME IInv, NEW kept \in stored
             PROVE  /\ agent = "finished"
                    /\ emitted[Len(emitted)] = Done(kept.content)
                    /\ kept.intact <=> Len(emitted) \notin cuts
                    /\ \/ Gone
                       \/ /\ Len(delivered) = Len(Upstream)
                          /\ delivered[Len(delivered)] = [event |-> Done(kept.content), intact |-> kept.intact]
  BY DEF StoredReplyWasShown
<1>1. PICK taken \in 0..Len(emitted) : Progress(taken)
  BY DEF IInv
<1>2. reply = kept /\ reply # NoReply /\ kept \in Replies
  BY DEF IInv, PlaceIsTrue, TypeOK
<1>3. /\ agent = "finished" /\ taken = Len(emitted) /\ emitted[Len(emitted)] = Done(kept.content)
      /\ kept.intact <=> Len(emitted) \notin cuts
  BY <1>1, <1>2 DEF Progress, ReplyFollows
<1>4. ASSUME ~Gone
      PROVE  /\ Len(delivered) = Len(Upstream)
             /\ delivered[Len(delivered)] = [event |-> Done(kept.content), intact |-> kept.intact]
  <2>1. /\ Len(delivered) = Len(emitted) + Offset /\ Offset \in {0, 1} /\ Len(Upstream) = Len(emitted) + Offset
        /\ \A i \in 1..Len(delivered) : delivered[i] = AsRead(i)
        /\ \A i \in 1..Len(emitted) : Upstream[i + Offset] = emitted[i]
    BY <1>1, <1>2, <1>3, <1>4, UpstreamElements DEF IInv, Progress, DeliveredFollows
  <2>2. Len(emitted) \in Nat \ {0}
    BY <1>3, LenProperties DEF IInv, TypeOK, DoneIsLast
  <2>3. /\ delivered[Len(delivered)] = AsRead(Len(delivered))
        /\ Upstream[Len(delivered)] = emitted[Len(emitted)] /\ Len(delivered) - Offset = Len(emitted)
    BY <2>1, <2>2
  <2>4. kept.intact = (Len(emitted) \notin cuts)
    BY <1>2, <1>3 DEF Replies
  <2>5. QED
    BY <1>3, <2>1, <2>3, <2>4 DEF AsRead
<1>5. QED
  BY <1>3, <1>4

\* However the network cuts the answer and whoever fails or leaves, the client is
\* sent the agent's events in order, each as sent unless a read cut it within a
\* character, and the stored reply is among them in the form it was shown.
THEOREM AlwaysShownAsSent == Spec => []ShownAsSent
<1>1. IInv => ShownAsSent
  <2> SUFFICES ASSUME IInv PROVE ShownAsSent
    OBVIOUS
  <2>1. ForwardedInOrder
    <3>1. PICK taken \in 0..Len(emitted) : Progress(taken)
      BY DEF IInv
    <3>2. /\ Len(delivered) <= taken + Offset /\ Len(delivered) \in Nat /\ Len(emitted) \in Nat
          /\ Offset \in {0, 1} /\ Len(Upstream) = Len(emitted) + Offset
      BY <3>1, UpstreamElements, LenProperties DEF IInv, TypeOK, Progress, DeliveredFollows
    <3>3. QED
      BY <3>1, <3>2 DEF Progress, DeliveredFollows, ForwardedInOrder
  <2>2. QED
    BY <2>1, StoredReplyIsUpstream DEF ShownAsSent, IInv
<1>2. QED
  BY <1>1, IInvInit, IInvStep, PTL DEF Spec

\* A request that is over has one outcome on record for the agent and one for the
\* platform, and they are the true ones.
THEOREM OutcomeAlwaysRecorded == Spec => []OutcomeIsRecorded
<1>1. IInv => OneOutcomeEach
  <2> SUFFICES ASSUME IInv, pc \in Ends
               PROVE  \/ \A c \in Components : Len(recorded[c]) = 1
                      \/ /\ \A c \in Components : recorded[c] = <<>>
                         /\ pc \in {"rejected", "not_found", "error", "cancelled"}
                         /\ forwarded = 0 /\ rawBuffer = <<>>
                         /\ \A i \in 1 .. Len(delivered) : delivered[i].event = Event("session")
                         /\ stored = {}
    BY DEF OneOutcomeEach
  <2>1. Len(<<"succeeded">>) = 1 /\ Len(<<"failed">>) = 1
    OBVIOUS
  <2>2. QED
    BY <2>1 DEF IInv, RecordIsTrue, PlaceIsTrue, NoOutcome, NothingRead, Outcomes, Components, Ends, BeforeStream
<1>2. IInv => OutcomeIsTrue
  <2> SUFFICES ASSUME IInv PROVE OutcomeIsTrue
    OBVIOUS
  <2>1. PICK taken \in 0..Len(emitted) : Progress(taken)
    BY DEF IInv
  <2>2. reply # NoReply => emitted[Len(emitted)] = Done(reply.content)
    BY <2>1 DEF Progress, ReplyFollows
  <2>3. pc \in {"idle"} \cup Steps \cup Ends
    BY DEF IInv, TypeOK
  <2>4. /\ <<>> # <<"succeeded">> /\ <<>> # <<"failed">> /\ <<"succeeded">> # <<"failed">>
    OBVIOUS
  <2>5. pc = "completed" =>
          /\ \A c \in Components : recorded[c] = <<"succeeded">>
          /\ \E kept \in stored : stored = {kept} /\ Done(kept.content) = emitted[Len(emitted)]
    BY <2>2, <2>4 DEF IInv, RecordIsTrue, PlaceIsTrue, AfterStream, Outcomes, Components
  <2>6. recorded["ai"] = <<"succeeded">> /\ recorded["platform"] = <<"failed">> =>
          pc = "error" /\ agent = "finished" /\ reply # NoReply
    BY <2>3, <2>4 DEF IInv, RecordIsTrue, NoOutcome, Outcomes, Components, Steps, Ends
  <2>7. recorded["ai"] = <<"failed">> => agent # "running" /\ stored = {}
    BY <2>3, <2>4 DEF IInv, RecordIsTrue, PlaceIsTrue, NoOutcome, Outcomes, Components, Steps, Ends,
       BeforeStream
  <2>8. QED
    BY <2>5, <2>6, <2>7 DEF OutcomeIsTrue
<1>3. QED
  BY <1>1, <1>2, IInvInit, IInvStep, PTL DEF Spec, OutcomeIsRecorded

=============================================================================
