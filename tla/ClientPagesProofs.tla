--------------------------- MODULE ClientPagesProofs ---------------------------
(***************************************************************************)
(* Proofs about parts of the web pages, for any number of requests,        *)
(* mounts, sessions, pointers, fields, accounts and events. A behaviour of *)
(* MCClientPages is one part's: each part has an inductive invariant of    *)
(* its own, and the theorems carry it over to the whole.                   *)
(***************************************************************************)
EXTENDS MCClientPages, FiniteSetTheorems, SequenceTheorems, TLAPS

-----------------------------------------------------------------------------
(* StatusPolling                                                           *)

PollingNumbers ==
    /\ records \in Nat /\ effect \in Nat /\ clicked.records \in Nat
    /\ clicked.records <= records
    /\ clicked \in [records : Nat, answered : BOOLEAN]
    /\ \A r \in requests : /\ r \in [id : Requests, effect : Nat, read : Nat \cup {None}]
                           /\ r.effect <= effect
                           /\ r.read # None => r.read <= records
    /\ summary \in Nat \cup {None}

\* What a request of the current effect reads was there after the click: the
\* requests of an earlier effect may have read less, and do not count.
PollingFreshRequests ==
    \A r \in requests : r.effect = effect /\ r.read # None => r.read >= clicked.records

PollingIInv ==
    /\ PollingNumbers /\ PollingFreshRequests
    /\ Polling!RefreshIsFresh /\ Polling!SpinnerHasRequest

LEMMA PollingStart == Polling!Init => PollingIInv
BY DEF Polling!Init, PollingIInv, PollingNumbers, PollingFreshRequests, Polling!RefreshIsFresh,
       Polling!SpinnerHasRequest

\* Each spinner is turned on together with a request of the current effect, and
\* the end of any such request turns both off.
LEMMA PollingStep == PollingIInv /\ [Polling!Next]_Polling!vars => PollingIInv'
<1> SUFFICES ASSUME PollingIInv, [Polling!Next]_Polling!vars PROVE PollingIInv'
  OBVIOUS
<1> USE DEF PollingIInv, PollingNumbers, PollingFreshRequests, Polling!RefreshIsFresh,
            Polling!SpinnerHasRequest
<1>1. CASE Polling!Record
  BY <1>1 DEF Polling!Record, Polling!page
<1>2. CASE Polling!Poll
  <2>1. PICK id \in Requests : requests' = requests \cup {[id |-> id, effect |-> effect, read |-> None]}
    BY <1>2 DEF Polling!Poll, Polling!Load
  <2>2. UNCHANGED <<records, summary, effect, loading, clicked>>
    BY <1>2 DEF Polling!Poll
  <2>3. [id |-> id, effect |-> effect, read |-> None] \in requests'
    BY <2>1
  <2>4. Polling!SpinnerHasRequest'
    BY <2>2, <2>3
  <2>5. PollingNumbers'
    BY <2>1, <2>2
  <2>6. QED
    BY <2>1, <2>2, <2>4, <2>5
<1>3. CASE Polling!Refresh
  <2>1. PICK id \in Requests : requests' = requests \cup {[id |-> id, effect |-> effect + 1, read |-> None]}
    BY <1>3 DEF Polling!Refresh, Polling!Load
  <2>2. clicked' = [records |-> records, answered |-> FALSE] /\ effect' = effect + 1
        /\ UNCHANGED <<records, summary>>
    BY <1>3 DEF Polling!Refresh
  <2>3. PollingNumbers'
    BY <2>1, <2>2
  <2>4. PollingFreshRequests'
    BY <2>1, <2>2
  <2>5. [id |-> id, effect |-> effect + 1, read |-> None] \in requests'
    BY <2>1
  <2>6. QED
    BY <2>2, <2>3, <2>4, <2>5
<1>4. ASSUME NEW r \in requests, Polling!Read(r) PROVE PollingIInv'
  <2>1. /\ requests' = (requests \ {r}) \cup {[r EXCEPT !.read = records]}
        /\ UNCHANGED <<records, summary, effect, loading, refreshing, clicked>>
    BY <1>4 DEF Polling!Read
  <2>2. [r EXCEPT !.read = records] = [id |-> r.id, effect |-> r.effect, read |-> records]
    OBVIOUS
  <2>3. PollingNumbers'
    BY <2>1, <2>2
  <2>4. PollingFreshRequests'
    BY <2>1, <2>2
  <2>5. \A s \in requests : \E t \in requests' : t.effect = s.effect
    BY <2>1, <2>2
  <2>6. Polling!SpinnerHasRequest'
    BY <2>1, <2>5
  <2>7. QED
    BY <2>1, <2>3, <2>4, <2>6
<1>5. ASSUME NEW r \in requests, Polling!Answer(r) PROVE PollingIInv'
  <2>1. CASE Polling!Mounted(r)
    <3>1. /\ requests' = requests \ {r} /\ summary' = r.read /\ r.read # None
          /\ clicked' = [clicked EXCEPT !.answered = TRUE]
          /\ loading' = FALSE /\ refreshing' = FALSE
          /\ UNCHANGED <<records, effect>>
      BY <1>5, <2>1 DEF Polling!Answer, Polling!Settled
    <3>2. r.read >= clicked.records
      BY <1>5, <2>1 DEF Polling!Answer, Polling!Mounted
    <3>3. QED
      BY <3>1, <3>2
  <2>2. CASE ~Polling!Mounted(r)
    BY <1>5, <2>2 DEF Polling!Answer, Polling!Mounted
  <2>3. QED
    BY <2>1, <2>2
<1>6. ASSUME NEW r \in requests, Polling!Fail(r) PROVE PollingIInv'
  BY <1>6 DEF Polling!Fail, Polling!Mounted, Polling!Settled
<1>7. CASE UNCHANGED Polling!vars
  BY <1>7 DEF Polling!vars, Polling!page
<1>8. QED
  BY <1>1, <1>2, <1>3, <1>4, <1>5, <1>6, <1>7 DEF Polling!Next

-----------------------------------------------------------------------------
(* Pomodoro                                                                *)

\* The interval the ref knows is the only one there is. While no advance is deferred
\* it ticks exactly if the timer runs; a deferred one that finds the timer running
\* without an interval finds it in the phase it was made for, and starts another one.
TimerClockKnown ==
    /\ IF ref = None THEN intervals = {} ELSE ref \in 1..3 /\ intervals = {ref}
    /\ running \in BOOLEAN
    /\ ~running => intervals = {}
    /\ running /\ intervals = {} => deferred # None /\ deferred.phase = phase

TimerTypes ==
    /\ phase \in Timer!Phases /\ session \in Nat /\ worked \in Nat
    /\ deferred # None => deferred \in [phase : Timer!Phases, session : Nat]

\* Unless the user interfered, a deferred advance is of the present phase, and the
\* session follows from the work phases that are over.
TimerPhaseEarned ==
    ~overtaken =>
        /\ deferred # None => deferred.phase = phase /\ deferred.session = session
        /\ session \in 1..Sessions
        /\ phase = "work" => session = worked + 1
        /\ phase = "shortBreak" => session = worked /\ worked < Sessions
        /\ phase = "longBreak" => session = worked /\ worked = Sessions

TimerIInv == TimerClockKnown /\ TimerTypes /\ TimerPhaseEarned

LEMMA TimerStart == Timer!Init => TimerIInv
<1>1. 1 \in 1..Sessions
  BY ConstantsAssumption
<1>2. Timer!Init => TimerClockKnown
  BY DEF Timer!Init, TimerClockKnown
<1>3. Timer!Init => TimerTypes
  BY DEF Timer!Init, TimerTypes, Timer!Phases
<1>4. Timer!Init => TimerPhaseEarned
  BY <1>1 DEF Timer!Init, TimerPhaseEarned
<1>5. QED
  BY <1>2, <1>3, <1>4 DEF TimerIInv

\* A new interval is the only one.
LEMMA TimerEffect ==
    ASSUME TimerClockKnown, Timer!Effect, running' \in BOOLEAN
    PROVE  /\ IF ref' = None THEN intervals' = {} ELSE ref' \in 1..3 /\ intervals' = {ref'}
           /\ running' <=> intervals' # {}
<1>1. Timer!Cleared = {}
  BY DEF TimerClockKnown, Timer!Cleared
<1>2. CASE running'
  <2>1. Timer!Started({})
    BY <1>1, <1>2 DEF Timer!Effect
  <2>2. (CHOOSE n \in 1..3 : n \notin {}) \in 1..3
    <3>1. 1 \in 1..3 /\ 1 \notin {}
      OBVIOUS
    <3>2. QED
      BY <3>1, Zenon
  <2>3. ref' \in 1..3 /\ intervals' = {} \cup {ref'}
    BY <2>1, <2>2 DEF Timer!Started
  <2>4. QED
    BY <1>2, <2>3, NoneAssumption
<1>3. CASE ~running'
  BY <1>1, <1>3 DEF Timer!Effect
<1>4. QED
  BY <1>2, <1>3

LEMMA TimerStep == TimerIInv /\ [Timer!Next]_Timer!vars => TimerIInv'
<1> SUFFICES ASSUME TimerIInv, [Timer!Next]_Timer!vars PROVE TimerIInv'
  OBVIOUS
<1>s. Sessions \in Nat \ {0}
  BY ConstantsAssumption
<1>1. CASE Timer!Toggle
  <2>1. Timer!Effect /\ running' \in BOOLEAN /\ UNCHANGED <<phase, session, deferred, worked>>
        /\ overtaken' = (overtaken \/ deferred # None)
    BY <1>1 DEF Timer!Toggle, TimerIInv, TimerClockKnown
  <2>2. TimerClockKnown'
    BY <2>1, TimerEffect DEF TimerIInv, TimerClockKnown
  <2>3. TimerPhaseEarned'
    BY <2>1 DEF TimerIInv, TimerPhaseEarned
  <2>4. QED
    BY <2>1, <2>2, <2>3 DEF TimerIInv, TimerTypes
<1>2. CASE Timer!HandleReset
  <2>1. /\ Timer!Effect /\ running' = FALSE /\ phase' = "work" /\ session' = 1 /\ worked' = 0
        /\ overtaken' = (deferred # None) /\ deferred' = deferred
    BY <1>2 DEF Timer!HandleReset
  <2>2. TimerClockKnown'
    BY <2>1, TimerEffect DEF TimerIInv, TimerClockKnown
  <2>3. TimerPhaseEarned'
    <3>1. ~overtaken' => deferred' = None
      BY <2>1, Zenon
    <3>2. 1 \in 1..Sessions
      BY <1>s
    <3>3. QED
      BY <2>1, <3>1, <3>2 DEF TimerPhaseEarned
  <2>4. QED
    BY <2>1, <2>2, <2>3 DEF TimerIInv, TimerTypes, Timer!Phases
<1>3. ASSUME NEW i \in intervals, Timer!Tick(i) PROVE TimerIInv'
  <2>1. deferred = None /\ UNCHANGED <<phase, session, running, worked, overtaken>>
    BY <1>3 DEF Timer!Tick
  <2>2. CASE left <= 1
    <3>1. intervals' = {} /\ ref' = None /\ deferred' = [phase |-> phase, session |-> session]
      BY <1>3, <2>2 DEF Timer!Tick, Timer!Cleared, TimerIInv, TimerClockKnown
    <3>2. deferred' \in [phase : Timer!Phases, session : Nat]
      BY <3>1 DEF TimerIInv, TimerTypes
    <3>3. TimerClockKnown'
      BY <2>1, <3>1, <3>2, NoneAssumption DEF TimerIInv, TimerClockKnown
    <3>4. QED
      BY <2>1, <3>1, <3>2, <3>3 DEF TimerIInv, TimerTypes, TimerPhaseEarned
  <2>3. CASE ~(left <= 1)
    <3>1. UNCHANGED <<intervals, ref, deferred>>
      BY <1>3, <2>3 DEF Timer!Tick, Timer!clock
    <3>2. QED
      BY <2>1, <3>1 DEF TimerIInv, TimerClockKnown, TimerTypes, TimerPhaseEarned
  <2>4. QED
    BY <2>2, <2>3
<1>4. CASE Timer!Timeout
  <2>1. /\ deferred # None /\ deferred' = None /\ running' = TRUE /\ UNCHANGED overtaken
        /\ Timer!AdvancePhase(deferred)
        /\ IF <<running', phase', session'>> = <<running, phase, session>>
           THEN UNCHANGED <<intervals, ref>> ELSE Timer!Effect
        /\ worked' = CASE deferred.phase = "work" -> worked + 1
                       [] deferred.phase = "longBreak" -> 0
                       [] OTHER -> worked
    BY <1>4 DEF Timer!Timeout
  <2>2. deferred \in [phase : Timer!Phases, session : Nat]
    BY <2>1 DEF TimerIInv, TimerTypes
  <2>3. /\ phase' \in Timer!Phases /\ session' \in Nat /\ worked' \in Nat
        /\ phase' # deferred.phase
    BY <2>1, <2>2 DEF Timer!AdvancePhase, TimerIInv, TimerTypes, Timer!Phases
  <2>4. TimerClockKnown'
    <3>1. CASE <<running', phase', session'>> = <<running, phase, session>>
      BY <2>1, <2>3, <3>1 DEF TimerIInv, TimerClockKnown
    <3>2. CASE <<running', phase', session'>> # <<running, phase, session>>
      BY <2>1, <3>2, TimerEffect DEF TimerIInv, TimerClockKnown
    <3>3. QED
      BY <3>1, <3>2
  <2>5. TimerPhaseEarned'
    <3>1. SUFFICES ASSUME ~overtaken PROVE TimerPhaseEarned'
      BY <2>1 DEF TimerPhaseEarned
    <3>2. deferred.phase = phase /\ deferred.session = session /\ session \in 1..Sessions /\ worked \in Nat
      BY <2>1, <3>1 DEF TimerIInv, TimerPhaseEarned, TimerTypes
    <3>3. CASE phase = "work"
      BY <1>s, <2>1, <3>1, <3>2, <3>3 DEF Timer!AdvancePhase, Timer!IsLast, TimerIInv, TimerPhaseEarned
    <3>4. CASE phase = "shortBreak"
      BY <1>s, <2>1, <3>1, <3>2, <3>4 DEF Timer!AdvancePhase, TimerIInv, TimerPhaseEarned
    <3>5. CASE phase = "longBreak"
      BY <1>s, <2>1, <3>1, <3>2, <3>5 DEF Timer!AdvancePhase, TimerIInv, TimerPhaseEarned
    <3>6. QED
      BY <3>3, <3>4, <3>5 DEF TimerIInv, TimerTypes, Timer!Phases
  <2>6. QED
    BY <2>1, <2>3, <2>4, <2>5 DEF TimerIInv, TimerTypes
<1>5. CASE UNCHANGED Timer!vars
  BY <1>5 DEF Timer!vars, Timer!shown, Timer!clock, TimerIInv, TimerClockKnown, TimerTypes, TimerPhaseEarned
<1>6. QED
  BY <1>1, <1>2, <1>3, <1>4, <1>5 DEF Timer!Next

LEMMA TimerShows == TimerIInv => Timer!TimerCounts
<1> SUFFICES ASSUME TimerIInv PROVE Timer!TimerCounts
  OBVIOUS
<1>1. Timer!CountsOnce
  <2>1. Cardinality(intervals) <= 1
    <3>1. intervals = {} \/ \E x : intervals = {x}
      BY DEF TimerIInv, TimerClockKnown
    <3>2. Cardinality({}) = 0
      BY FS_EmptySet
    <3>3. \A x : Cardinality({x}) = 1
      BY FS_Singleton
    <3>4. QED
      BY <3>1, <3>2, <3>3
  <2>2. \A S : Timer!Cardinality(S) = Cardinality(S)
    BY Zenon DEF Timer!Cardinality, Cardinality
  <2>3. QED
    BY <2>1, <2>2 DEF TimerIInv, TimerClockKnown, Timer!CountsOnce
<1>2. Timer!LongBreakWhenEarned
  BY ConstantsAssumption DEF TimerIInv, TimerTypes, TimerPhaseEarned, Timer!LongBreakWhenEarned, Timer!Phases
<1>3. QED
  BY <1>1, <1>2 DEF Timer!TimerCounts

-----------------------------------------------------------------------------
(* Connections                                                             *)

AccountOps == {"status"} \cup Account!Clicks
AccountCalls == [op : AccountOps, mount : Nat, answer : BOOLEAN \cup {None}]

AccountTypes ==
    /\ service \in {"finance", "spotify"} /\ server \in BOOLEAN
    /\ shown \in BOOLEAN \cup {None} /\ loading \in BOOLEAN
    /\ away \in BOOLEAN /\ asked \in BOOLEAN
    /\ failed \in BOOLEAN /\ astray \in BOOLEAN
    /\ mount \in Nat /\ calls \subseteq AccountCalls
    /\ \A c \in calls : c.mount <= mount

\* Only Spotify is connected on a page of its own.
AccountLeaves == away \/ (\E c \in calls : c.op = "authorize") => service = "spotify"

\* The page's own calls: one status, and one of a button at a time, which is disabled
\* meanwhile, and after the one that sent the browser away.
AccountCurrent == {c \in calls : c.mount = mount}
AccountClicked == {c \in AccountCurrent : c.op \in Account!Clicks}
AccountChanging == {c \in AccountCurrent : c.op \in Account!Changes}
AccountChecks == {c \in AccountCurrent : c.op = "status"}

AccountOneEach ==
    /\ loading <=> asked \/ \E c \in calls : c \in AccountClicked
    /\ asked => \A c \in calls : c \notin AccountClicked
    /\ \A c, d \in calls : c \in AccountClicked /\ d \in AccountClicked => c = d
    /\ \A c, d \in calls : c \in AccountChecks /\ d \in AccountChecks => c = d

\* Unless a call failed or went astray: only the present page's calls change the
\* account, what they were answered is so, and what is shown without them is so.
AccountAnswersAreTrue ==
    ~failed /\ ~astray =>
        /\ \A c \in calls : c.op \in Account!Changes /\ c.answer = None => c.mount = mount
        /\ \A c \in calls : c \in AccountChecks =>
              /\ c.answer # None => c.answer = server
              /\ \A d \in calls : d \notin AccountChanging
              /\ shown = None \/ (service = "spotify" /\ shown = server)
        /\ \A c \in calls : c \in AccountChanging /\ c.answer # None => (server <=> c.op = "connect")
        /\ (\A c \in calls : c \notin AccountChecks /\ c \notin AccountChanging) => shown = server

AccountIInv == AccountTypes /\ AccountLeaves /\ AccountOneEach /\ AccountAnswersAreTrue

LEMMA AccountChangesAreClicks == \A c \in AccountChanging : c \in AccountClicked
BY DEF AccountChanging, AccountClicked, Account!Clicks

LEMMA AccountStart == Account!Init => AccountIInv
<1> SUFFICES ASSUME Account!Init PROVE AccountIInv
  OBVIOUS
<1> USE DEF Account!Init, Account!Call
<1> DEFINE first == [op |-> "status", mount |-> 1, answer |-> None]
<1>c. calls = {first} /\ mount = 1
  OBVIOUS
<1>1. AccountTypes
  <2>1. first \in AccountCalls
    BY DEF AccountCalls, AccountOps
  <2>2. \A c \in calls : c \in AccountCalls /\ c.mount <= mount
    BY <1>c, <2>1
  <2>3. mount \in Nat
    BY <1>c
  <2>4. QED
    BY <2>2, <2>3 DEF AccountTypes
<1>2. AccountOneEach
  BY <1>c DEF AccountOneEach, AccountClicked, AccountChecks, Account!Clicks, Account!Changes
<1>3. AccountAnswersAreTrue
  BY <1>c DEF AccountAnswersAreTrue, AccountCurrent, AccountChecks, AccountChanging, Account!Changes
<1>4. AccountLeaves
  BY <1>c DEF AccountLeaves
<1>5. QED
  BY <1>1, <1>2, <1>3, <1>4 DEF AccountIInv

\* A page that opens has no call but its status.
LEMMA AccountOpens ==
    ASSUME AccountIInv, Account!Open, server' \in BOOLEAN,
           shown' \in BOOLEAN \cup {None},
           shown' = None \/ (service = "spotify" /\ shown' = server')
    PROVE  AccountIInv'
<1> DEFINE new == [op |-> "status", mount |-> mount + 1, answer |-> None]
<1>1. /\ mount' = mount + 1 /\ calls' = calls \cup {new} /\ loading' = FALSE /\ failed' = FALSE
      /\ away' = FALSE /\ asked' = FALSE
      /\ astray' = (\E c \in calls : c.op \in Account!Changes /\ c.answer = None)
      /\ service' = service
  BY DEF Account!Open, Account!Call
<1>2. AccountTypes /\ new \in AccountCalls
  BY DEF AccountIInv, AccountTypes, AccountCalls, AccountOps
<1>3. AccountTypes'
  <2>1. calls' \subseteq AccountCalls /\ \A c \in calls' : c.mount <= mount'
    BY <1>1, <1>2 DEF AccountTypes, AccountCalls
  <2>2. astray' \in BOOLEAN
    BY <1>1
  <2>3. QED
    BY <1>1, <1>2, <2>1, <2>2 DEF AccountTypes, AccountCalls
<1>4. \A c \in calls' : c.mount = mount' => c = new
  BY <1>1, <1>2 DEF AccountTypes, AccountCalls
<1>5. AccountOneEach'
  BY <1>1, <1>4 DEF AccountOneEach, AccountClicked, AccountChecks, AccountCurrent, Account!Clicks, Account!Changes
<1>6. AccountAnswersAreTrue'
  <2>1. SUFFICES ASSUME ~astray' PROVE AccountAnswersAreTrue'
    BY DEF AccountAnswersAreTrue
  <2>2. \A c \in calls' : ~(c.op \in Account!Changes /\ c.answer = None)
    BY <1>1, <2>1 DEF Account!Changes
  <2>3. new \in calls' /\ new.mount = mount'
    BY <1>1
  <2>4. \A c \in calls' : c \notin AccountChanging'
    BY <1>4 DEF AccountChanging, AccountCurrent, Account!Changes
  <2>5. \A c \in calls' : c \in AccountChecks' => c.answer = None
    BY <1>4 DEF AccountChecks, AccountCurrent
  <2>6. new \in AccountChecks'
    BY <2>3 DEF AccountCurrent, AccountChecks
  <2>7. shown' = None \/ (service' = "spotify" /\ shown' = server')
    BY <1>1
  <2>8. QED
    BY <2>2, <2>3, <2>4, <2>5, <2>6, <2>7 DEF AccountAnswersAreTrue
<1>7. AccountLeaves'
  <2>1. (\E c \in calls' : c.op = "authorize") => \E c \in calls : c.op = "authorize"
    BY <1>1
  <2>2. QED
    BY <1>1, <2>1 DEF AccountIInv, AccountLeaves
<1>8. QED
  BY <1>3, <1>5, <1>6, <1>7 DEF AccountIInv

\* The browser stays, or comes back to the page as it was.
LEMMA AccountReturns == ASSUME AccountIInv, Account!Return PROVE AccountIInv'
<1>1. /\ away' = FALSE /\ server' \in {server, TRUE} /\ astray' = (astray \/ server' # server)
      /\ UNCHANGED <<service, shown, loading, calls, mount, asked, failed>>
  BY DEF Account!Return
<1>2. AccountTypes'
  BY <1>1 DEF AccountIInv, AccountTypes
<1>3. AccountOneEach'
  BY <1>1 DEF AccountIInv, AccountOneEach, AccountClicked, AccountChecks, AccountCurrent
<1>4. AccountAnswersAreTrue'
  <2>1. SUFFICES ASSUME ~failed', ~astray' PROVE AccountAnswersAreTrue'
    BY DEF AccountAnswersAreTrue
  <2>2. ~failed /\ ~astray /\ server' = server
    BY <1>1, <2>1
  <2>3. QED
    BY <1>1, <2>2 DEF AccountIInv, AccountAnswersAreTrue, AccountChanging, AccountChecks, AccountCurrent
<1>5. AccountLeaves'
  BY <1>1 DEF AccountIInv, AccountLeaves
<1>6. QED
  BY <1>2, <1>3, <1>4, <1>5 DEF AccountIInv

\* A button is used while it is enabled, and then waits for its call.
LEMMA AccountClicks ==
    ASSUME AccountIInv, ~loading, NEW op \in Account!Clicks,
           calls' = calls \cup {[op |-> op, mount |-> mount, answer |-> None]}, loading' = TRUE,
           astray' = (astray \/ (op # "authorize" /\ service = "spotify" /\ Account!Checking)),
           UNCHANGED <<service, server, shown, mount, away, asked, failed>>,
           service = "finance" => shown # None /\ op # "authorize"
    PROVE  AccountIInv'
<1> DEFINE new == [op |-> op, mount |-> mount, answer |-> None]
<1>1. calls' = calls \cup {new}
  OBVIOUS
<1>2. AccountTypes /\ new \in AccountCalls /\ ~asked
  BY DEF AccountIInv, AccountTypes, AccountOneEach, AccountCalls, AccountOps
<1>3. AccountTypes'
  <2>1. calls' \subseteq AccountCalls /\ \A c \in calls' : c.mount <= mount'
    BY <1>1, <1>2 DEF AccountTypes, AccountCalls
  <2>2. astray' \in BOOLEAN
    BY <1>2 DEF AccountTypes, Account!Checking
  <2>3. QED
    BY <1>2, <2>1, <2>2 DEF AccountTypes
<1>4. \A c \in calls' : c \in AccountClicked' => c = new
  BY <1>1 DEF AccountIInv, AccountOneEach, AccountClicked, AccountCurrent
<1>5. \A c \in calls' : c \in AccountChecks' => c \in calls /\ c \in AccountChecks
  BY <1>1 DEF AccountChecks, AccountCurrent, Account!Clicks, Account!Changes
<1>6. AccountOneEach'
  <2>1. new \in AccountClicked'
    BY <1>1 DEF AccountClicked, AccountCurrent
  <2>2. new \in calls' /\ loading' /\ ~asked'
    BY <1>1, <1>2
  <2>3. QED
    BY <1>4, <1>5, <2>1, <2>2 DEF AccountIInv, AccountOneEach
<1>7. AccountAnswersAreTrue'
  <2>1. SUFFICES ASSUME ~failed', ~astray' PROVE AccountAnswersAreTrue'
    BY DEF AccountAnswersAreTrue
  <2>2. ~failed /\ ~astray /\ (op # "authorize" /\ service = "spotify" => ~Account!Checking)
    BY <2>1, <1>2 DEF AccountTypes, Account!Checking
  <2>3. \A c \in calls' : c.op \in Account!Changes /\ c.answer = None => c.mount = mount'
    BY <1>1, <2>2 DEF AccountIInv, AccountAnswersAreTrue
  <2>4. \A c \in calls' : c \in AccountChanging' => c = new /\ new.answer = None /\ op # "authorize"
    <3>1. \A c \in calls' : c \in AccountChanging' => c \in AccountClicked'
      BY DEF AccountChanging, AccountClicked, Account!Clicks
    <3>2. new \in AccountChanging' => op # "authorize"
      BY DEF AccountChanging, Account!Changes
    <3>3. QED
      BY <1>4, <3>1, <3>2
  <2>5. CASE op = "authorize"
    <3>1. \A c \in calls' : c \notin AccountChanging'
      BY <2>4, <2>5
    <3>2. \A c \in calls : c \in AccountChecks => c \in calls' /\ c \in AccountChecks'
      BY <1>1 DEF AccountChecks, AccountCurrent
    <3>3. \A c \in calls : c \notin AccountChanging
      BY AccountChangesAreClicks DEF AccountIInv, AccountOneEach
    <3>4. QED
      BY <1>5, <2>2, <2>3, <3>1, <3>2, <3>3 DEF AccountIInv, AccountAnswersAreTrue
  <2>6. CASE op # "authorize"
    <3>1. \A c \in calls : c \notin AccountChecks
      BY <1>2, <2>2, <2>6 DEF AccountIInv, AccountAnswersAreTrue, AccountTypes, AccountChecks, AccountCurrent, Account!Checking
    <3>2. \A c \in calls' : c \notin AccountChecks'
      BY <1>5, <3>1
    <3>3. new \in calls' /\ new \in AccountChanging'
      BY <1>1, <2>6 DEF AccountChanging, AccountCurrent, Account!Clicks
    <3>4. QED
      BY <2>3, <2>4, <3>2, <3>3 DEF AccountAnswersAreTrue
  <2>7. QED
    BY <2>5, <2>6
<1>8. AccountLeaves'
  <2>1. op = "authorize" => service = "spotify"
    BY <1>2 DEF AccountTypes
  <2>2. (\E d \in calls' : d.op = "authorize") => op = "authorize" \/ \E d \in calls : d.op = "authorize"
    BY <1>1
  <2>3. QED
    BY <2>1, <2>2 DEF AccountIInv, AccountLeaves
<1>9. QED
  BY <1>3, <1>6, <1>7, <1>8 DEF AccountIInv

\* What the server does for a call.
LEMMA AccountServes ==
    ASSUME AccountIInv, NEW c \in calls, Account!Serve(c)
    PROVE  AccountIInv'
<1> DEFINE new == [op |-> c.op, mount |-> c.mount, answer |-> IF c.op = "status" THEN server ELSE TRUE]
<1>t. AccountTypes /\ c \in AccountCalls
  BY DEF AccountIInv, AccountTypes
<1>1. /\ c.answer = None /\ calls' = (calls \ {c}) \cup {new}
      /\ server' = IF c.op = "connect" THEN TRUE ELSE IF c.op = "disconnect" THEN FALSE ELSE server
      /\ UNCHANGED <<service, shown, loading, mount, away, asked, failed, astray>>
  <2>1. \A a : [c EXCEPT !.answer = a] = [op |-> c.op, mount |-> c.mount, answer |-> a]
    BY <1>t DEF AccountCalls
  <2>2. [c EXCEPT !.answer = IF c.op = "status" THEN server ELSE TRUE] = new
    BY <2>1
  <2>3. QED
    BY <1>t, <2>2 DEF Account!Serve, AccountCalls, AccountOps, Account!Clicks, Account!Changes
<1>2. new \in AccountCalls
  BY <1>t DEF AccountTypes, AccountCalls
<1>3. AccountTypes'
  <2>1. c.mount <= mount /\ new.mount = c.mount
    BY <1>t DEF AccountTypes
  <2>2. calls' \subseteq AccountCalls /\ \A d \in calls' : d.mount <= mount'
    BY <1>1, <1>2, <1>t, <2>1 DEF AccountTypes
  <2>3. server' \in BOOLEAN
    BY <1>1, <1>t DEF AccountTypes
  <2>4. QED
    BY <1>1, <1>t, <2>2, <2>3 DEF AccountTypes
<1>4. /\ new \in AccountChanging' <=> c \in AccountChanging
      /\ new \in AccountClicked' <=> c \in AccountClicked
      /\ new \in AccountChecks' <=> c \in AccountChecks
      /\ \A d \in calls \ {c} : /\ d \in calls'
                                /\ d \in AccountChanging' <=> d \in AccountChanging
                                /\ d \in AccountClicked' <=> d \in AccountClicked
                                /\ d \in AccountChecks' <=> d \in AccountChecks
      /\ new \in calls' /\ \A d \in calls' : d = new \/ d \in calls \ {c}
  BY <1>1 DEF AccountChanging, AccountClicked, AccountChecks, AccountCurrent
<1>5. AccountOneEach'
  BY <1>1, <1>4 DEF AccountIInv, AccountOneEach
<1>6. AccountAnswersAreTrue'
  <2>1. SUFFICES ASSUME ~failed, ~astray PROVE AccountAnswersAreTrue'
    BY <1>1 DEF AccountAnswersAreTrue
  <2>2. \A d \in calls' : d.op \in Account!Changes /\ d.answer = None => d.mount = mount'
    <3>1. new.answer # None
      BY <1>t, NoneAssumption DEF AccountTypes
    <3>2. QED
      BY <1>1, <2>1, <3>1 DEF AccountIInv, AccountAnswersAreTrue
  <2>3. CASE c.op \notin Account!Changes
    <3>1. server' = server /\ (c.op = "status" => new.answer = server)
      BY <1>1, <2>3 DEF Account!Changes
    <3>2. c \notin AccountChanging /\ new \notin AccountChanging'
      BY <1>4, <2>3 DEF AccountChanging, Account!Changes
    <3>3. \A d \in calls' : d \in AccountChanging' => d \in calls /\ d \in AccountChanging
      BY <1>4, <3>2
    <3>4. \A d \in calls : d \in AccountChanging => d \in calls' /\ d \in AccountChanging'
      BY <1>4, <3>2
    <3>5. \A d \in calls' : d \in AccountChecks' =>
              /\ d.answer # None => d.answer = server'
              /\ \A e \in calls' : e \notin AccountChanging'
              /\ shown' = None \/ (service' = "spotify" /\ shown' = server')
      <4>1. SUFFICES ASSUME NEW d \in calls', d \in AccountChecks'
                     PROVE  /\ d.answer # None => d.answer = server'
                            /\ \A e \in calls' : e \notin AccountChanging'
                            /\ shown' = None \/ (service' = "spotify" /\ shown' = server')
        OBVIOUS
      <4>2. PICK e \in calls : e \in AccountChecks /\ (e = c \/ e = d)
        BY <1>4, <4>1
      <4>3. e.answer # None => e.answer = server
        BY <2>1, <4>2 DEF AccountIInv, AccountAnswersAreTrue
      <4>4. d.answer # None => d.answer = server
        <5>1. CASE d = new
          BY <1>4, <3>1, <4>1, <5>1 DEF AccountChecks
        <5>2. CASE d \in calls \ {c}
          BY <1>4, <2>1, <4>1, <5>2 DEF AccountIInv, AccountAnswersAreTrue
        <5>3. QED
          BY <1>4, <5>1, <5>2
      <4>5. QED
        BY <1>1, <2>1, <3>1, <3>3, <4>2, <4>4 DEF AccountIInv, AccountAnswersAreTrue
    <3>6. \A d \in calls' : d \in AccountChanging' /\ d.answer # None => (server' <=> d.op = "connect")
      BY <2>1, <3>1, <3>3 DEF AccountIInv, AccountAnswersAreTrue
    <3>7. (\A d \in calls' : d \notin AccountChecks' /\ d \notin AccountChanging') => shown' = server'
      <4>1. (\A d \in calls' : d \notin AccountChecks') => \A d \in calls : d \notin AccountChecks
        BY <1>4
      <4>2. QED
        BY <1>1, <2>1, <3>1, <3>4, <4>1 DEF AccountIInv, AccountAnswersAreTrue
    <3>8. QED
      BY <2>2, <3>5, <3>6, <3>7 DEF AccountAnswersAreTrue
  <2>4. CASE c.op \in Account!Changes
    <3>1. c \in AccountChanging
      BY <1>1, <2>1, <2>4 DEF AccountIInv, AccountAnswersAreTrue, AccountChanging, AccountCurrent
    <3>2. \A d \in calls' : d \in AccountChanging' => d = new
      BY <1>4, <3>1, AccountChangesAreClicks DEF AccountIInv, AccountOneEach
    <3>3. \A d \in calls' : d \notin AccountChecks'
      <4>1. \A d \in calls : d \notin AccountChecks
        BY <2>1, <3>1 DEF AccountIInv, AccountAnswersAreTrue
      <4>2. QED
        BY <1>4, <4>1
    <3>4. new \in AccountChanging' /\ (server' <=> new.op = "connect")
      BY <1>1, <1>4, <2>4, <3>1 DEF Account!Changes
    <3>5. \A d \in calls' : d \in AccountChanging' /\ d.answer # None => (server' <=> d.op = "connect")
      BY <3>2, <3>4
    <3>6. QED
      BY <1>4, <2>2, <3>3, <3>4, <3>5 DEF AccountAnswersAreTrue
  <2>5. QED
    BY <2>3, <2>4
<1>7. AccountLeaves'
  <2>1. \A d \in calls' : d.op = "authorize" => \E e \in calls : e.op = "authorize"
    <3>1. new.op = c.op
      OBVIOUS
    <3>2. \A d \in calls' : d = new \/ d \in calls
      BY <1>1
    <3>3. QED
      BY <3>1, <3>2
  <2>2. QED
    BY <1>1, <2>1 DEF AccountIInv, AccountLeaves
<1>8. QED
  BY <1>3, <1>5, <1>6, <1>7 DEF AccountIInv

\* A call that is over, answered or not, leaves no trace but what the page shows.
LEMMA AccountEnds ==
    ASSUME AccountIInv, NEW c \in calls, calls' = calls \ {c}, UNCHANGED <<service, server, mount, astray>>,
           shown' \in BOOLEAN \cup {None}, failed' \in BOOLEAN, away' \in BOOLEAN, asked' \in BOOLEAN,
           away' => away \/ c.op = "authorize", asked' # asked => c \in AccountClicked, asked => asked',
           loading' = IF c \in AccountClicked THEN asked' ELSE loading,
           failed \/ astray => failed' \/ astray',
           c \notin AccountChecks /\ c \notin AccountChanging => shown' = shown,
           ~failed' /\ c \in AccountChecks => c.answer # None /\ shown' = c.answer,
           ~failed' /\ c \in AccountChanging => c.answer # None /\ shown' = (c.op = "connect")
    PROVE  AccountIInv'
<1>t. AccountTypes /\ c \in AccountCalls
  BY DEF AccountIInv, AccountTypes
<1>1. AccountTypes'
  BY <1>t DEF AccountTypes
<1>2. \A d \in calls' : /\ d \in calls /\ d # c
                        /\ d \in AccountChanging' <=> d \in AccountChanging
                        /\ d \in AccountClicked' <=> d \in AccountClicked
                        /\ d \in AccountChecks' <=> d \in AccountChecks
  BY DEF AccountChanging, AccountClicked, AccountChecks, AccountCurrent
<1>3. AccountOneEach'
  <2>1. CASE c \in AccountClicked
    <3>1. \A d \in calls' : d \notin AccountClicked'
      BY <1>2, <2>1 DEF AccountIInv, AccountOneEach
    <3>2. loading' = asked'
      BY <2>1
    <3>3. QED
      BY <1>2, <3>1, <3>2 DEF AccountIInv, AccountOneEach
  <2>2. CASE c \notin AccountClicked
    <3>1. loading' = loading /\ asked' = asked
      BY <2>2
    <3>2. \A d \in calls : d \in AccountClicked => d \in calls'
      BY <2>2
    <3>3. QED
      BY <1>2, <3>1, <3>2 DEF AccountIInv, AccountOneEach
  <2>3. QED
    BY <2>1, <2>2
<1>4. AccountAnswersAreTrue'
  <2>1. SUFFICES ASSUME ~failed', ~astray' PROVE AccountAnswersAreTrue'
    BY DEF AccountAnswersAreTrue
  <2>2. ~failed /\ ~astray
    BY <2>1
  <2>3. \A d \in calls' : d.op \in Account!Changes /\ d.answer = None => d.mount = mount'
    BY <1>2, <2>2 DEF AccountIInv, AccountAnswersAreTrue
  <2>4. CASE c \notin AccountChecks /\ c \notin AccountChanging
    <3>1. \A d \in calls : d \in AccountChecks \/ d \in AccountChanging => d \in calls'
      BY <2>4
    <3>2. QED
      BY <1>2, <2>2, <2>3, <2>4, <3>1 DEF AccountIInv, AccountAnswersAreTrue
  <2>5. CASE c \in AccountChecks
    <3>1. shown' = server
      BY <2>1, <2>2, <2>5 DEF AccountIInv, AccountAnswersAreTrue
    <3>2. \A d \in calls' : d \notin AccountChecks'
      BY <1>2, <2>5 DEF AccountIInv, AccountOneEach
    <3>3. \A d \in calls' : d \notin AccountChanging'
      BY <1>2, <2>2, <2>5 DEF AccountIInv, AccountAnswersAreTrue
    <3>4. QED
      BY <2>3, <3>1, <3>2, <3>3 DEF AccountAnswersAreTrue
  <2>6. CASE c \in AccountChanging
    <3>1. shown' = server
      BY <1>t, <2>1, <2>2, <2>6 DEF AccountIInv, AccountAnswersAreTrue, AccountTypes
    <3>2. \A d \in calls' : d \notin AccountChecks'
      BY <1>2, <2>2, <2>6 DEF AccountIInv, AccountAnswersAreTrue
    <3>3. \A d \in calls' : d \notin AccountChanging'
      BY <1>2, <2>6, AccountChangesAreClicks DEF AccountIInv, AccountOneEach
    <3>4. QED
      BY <2>3, <3>1, <3>2, <3>3 DEF AccountAnswersAreTrue
  <2>7. QED
    BY <2>4, <2>5, <2>6
<1>5. AccountLeaves'
  BY DEF AccountIInv, AccountLeaves
<1>6. QED
  BY <1>1, <1>3, <1>4, <1>5 DEF AccountIInv

LEMMA AccountAnswers == ASSUME AccountIInv, NEW c \in calls, Account!Answer(c) PROVE AccountIInv'
<1>t. AccountTypes /\ AccountOneEach /\ c \in AccountCalls
  BY DEF AccountIInv, AccountTypes
<1>1. c.answer # None /\ calls' = calls \ {c} /\ away' = (away \/ c.op = "authorize")
      /\ UNCHANGED <<service, server, mount, failed, astray>>
  BY DEF Account!Answer
<1>2. CASE c.mount = mount
  <2>1. /\ shown' = IF c.op = "status" THEN c.answer ELSE IF c.op = "authorize" THEN shown ELSE c.op = "connect"
        /\ loading' = (loading /\ c.op \notin Account!Changes)
        /\ asked' = (asked \/ c.op = "authorize")
    BY <1>2 DEF Account!Answer
  <2>2. /\ c \in AccountClicked <=> c.op # "status"
        /\ c \in AccountChanging <=> c.op \in Account!Changes
        /\ c \in AccountChecks <=> c.op = "status"
    BY <1>2, <1>t DEF AccountClicked, AccountChanging, AccountChecks, AccountCurrent, AccountCalls, AccountOps,
                      Account!Clicks, Account!Changes
  <2>3. c.op \in {"status", "authorize", "connect", "disconnect"}
    BY <1>t DEF AccountCalls, AccountOps, Account!Clicks, Account!Changes
  <2>4. loading' = IF c \in AccountClicked THEN asked' ELSE loading
    BY <1>t, <2>1, <2>2, <2>3 DEF AccountTypes, AccountOneEach, Account!Changes
  <2>5. shown' \in BOOLEAN \cup {None} /\ away' \in BOOLEAN /\ asked' \in BOOLEAN
    BY <1>t, <1>1, <2>1 DEF AccountTypes, AccountCalls
  <2>6. /\ asked' # asked => c \in AccountClicked
        /\ asked => asked'
        /\ c \notin AccountChecks /\ c \notin AccountChanging => shown' = shown
        /\ c \in AccountChecks => shown' = c.answer
        /\ c \in AccountChanging => shown' = (c.op = "connect")
    BY <1>t, <2>1, <2>2, <2>3 DEF AccountTypes, Account!Changes
  <2>7. QED
    BY <1>t, <1>1, <2>4, <2>5, <2>6, AccountEnds DEF AccountTypes
<1>3. CASE c.mount # mount
  <2>1. c \notin AccountCurrent /\ UNCHANGED <<shown, loading, asked>>
    BY <1>3 DEF Account!Answer, AccountCurrent
  <2>2. c \notin AccountClicked /\ c \notin AccountChanging /\ c \notin AccountChecks
    BY <2>1 DEF AccountClicked, AccountChanging, AccountChecks
  <2>3. away' \in BOOLEAN
    BY <1>t, <1>1 DEF AccountTypes
  <2>4. QED
    BY <1>t, <1>1, <2>1, <2>2, <2>3, AccountEnds DEF AccountTypes
<1>4. QED
  BY <1>2, <1>3

LEMMA AccountFails == ASSUME AccountIInv, NEW c \in calls, Account!Fail(c) PROVE AccountIInv'
<1>t. AccountTypes /\ AccountOneEach /\ c \in AccountCalls
  BY DEF AccountIInv, AccountTypes
<1>1. calls' = calls \ {c} /\ UNCHANGED <<service, server, mount, away, asked, astray>>
  BY DEF Account!Fail
<1>2. CASE c.mount = mount
  <2>1. /\ shown' = IF c.op = "status" THEN FALSE ELSE shown
        /\ loading' = (loading /\ c.op = "status")
        /\ failed' = (failed \/ c.op # "authorize")
    BY <1>2 DEF Account!Fail, Account!Settled
  <2>2. /\ c \in AccountClicked <=> c.op # "status"
        /\ c \in AccountChanging => c.op # "authorize"
        /\ c \in AccountChecks <=> c.op = "status"
    BY <1>2, <1>t DEF AccountClicked, AccountChanging, AccountChecks, AccountCurrent, AccountCalls, AccountOps,
                      Account!Clicks, Account!Changes
  <2>3. loading' = IF c \in AccountClicked THEN asked' ELSE loading
    BY <1>t, <1>1, <2>1, <2>2 DEF AccountTypes, AccountOneEach
  <2>4. shown' \in BOOLEAN \cup {None} /\ failed' \in BOOLEAN /\ (failed => failed')
    BY <1>t, <2>1 DEF AccountTypes
  <2>5. /\ c \notin AccountChecks => shown' = shown
        /\ c \in AccountChecks => failed'
        /\ c \in AccountChanging => failed'
    BY <2>1, <2>2
  <2>6. QED
    BY <1>t, <1>1, <2>3, <2>4, <2>5, AccountEnds DEF AccountTypes
<1>3. CASE c.mount # mount
  <2>1. c \notin AccountCurrent /\ UNCHANGED <<shown, loading, failed>>
    BY <1>3 DEF Account!Fail, AccountCurrent
  <2>2. c \notin AccountClicked /\ c \notin AccountChanging /\ c \notin AccountChecks
    BY <2>1 DEF AccountClicked, AccountChanging, AccountChecks
  <2>3. QED
    BY <1>t, <1>1, <2>1, <2>2, AccountEnds DEF AccountTypes
<1>4. QED
  BY <1>2, <1>3

LEMMA AccountStep == AccountIInv /\ [Account!Next]_Account!vars => AccountIInv'
<1> SUFFICES ASSUME AccountIInv, [Account!Next]_Account!vars PROVE AccountIInv'
  OBVIOUS
<1>t. AccountTypes
  BY DEF AccountIInv
<1>1. CASE Account!Reopen
  BY <1>1, <1>t, AccountOpens DEF Account!Reopen, AccountTypes
<1>2. CASE Account!Redirect
  <2>1. service = "spotify"
    BY <1>2 DEF AccountIInv, AccountLeaves, Account!Redirect
  <2>2. QED
    BY <1>2, <2>1, AccountOpens DEF Account!Redirect
<1>3. CASE Account!Return
  BY <1>3, AccountReturns
<1>4. ASSUME NEW op \in Account!Changes, Account!Change(op), ~loading, shown # None PROVE AccountIInv'
  <2>1. op \in Account!Clicks /\ op # "authorize"
    BY DEF Account!Clicks, Account!Changes
  <2>2. QED
    BY <1>4, <2>1, AccountClicks DEF Account!Change, Account!Sent, Account!Call
<1>5. CASE Account!Connect
  <2>1. ~loading /\ shown # None /\ Account!Change("connect")
    BY <1>5, NoneAssumption DEF Account!Connect, Account!CanConnect
  <2>2. QED
    BY <1>4, <2>1 DEF Account!Changes
<1>6. CASE Account!Authorize
  <2>1. ~loading /\ service # "finance" /\ Account!Sent("authorize") /\ loading' = TRUE
        /\ UNCHANGED <<service, server, shown, mount, away, asked, failed, astray>>
    BY <1>6 DEF Account!Authorize, Account!CanConnect
  <2>2. "authorize" \in Account!Clicks /\ astray \in BOOLEAN
    BY <1>t DEF Account!Clicks, AccountTypes
  <2>3. QED
    BY <2>1, <2>2, AccountClicks DEF Account!Sent, Account!Call
<1>7. CASE Account!Disconnect
  <2>1. ~loading /\ shown # None /\ Account!Change("disconnect")
    BY <1>7, NoneAssumption DEF Account!Disconnect
  <2>2. QED
    BY <1>4, <2>1 DEF Account!Changes
<1>8. ASSUME NEW c \in calls, Account!Serve(c) \/ Account!Answer(c) \/ Account!Fail(c) PROVE AccountIInv'
  BY <1>8, AccountServes, AccountAnswers, AccountFails
<1>9. CASE UNCHANGED Account!vars
  BY <1>9 DEF Account!vars, Account!page, AccountIInv, AccountTypes, AccountLeaves, AccountOneEach,
              AccountAnswersAreTrue, AccountClicked, AccountChanging, AccountChecks, AccountCurrent
<1>10. QED
  BY <1>1, <1>2, <1>3, <1>5, <1>6, <1>7, <1>8, <1>9 DEF Account!Next

LEMMA AccountShows == AccountIInv => Account!SettingsAreTrue
BY DEF AccountIInv, AccountOneEach, AccountAnswersAreTrue, AccountClicked, AccountChanging, AccountChecks,
       AccountCurrent, Account!SettingsAreTrue, Account!ShownIsTrue, Account!DisabledHasCall


-----------------------------------------------------------------------------
(* Forms                                                                   *)

FormTypes ==
    /\ form \in [Fields -> Input!Values] /\ typed \in [Fields -> Input!Values \cup {None}]
    /\ props \in Input!Gifts /\ data \in Input!Gifts
    /\ initial = Input!Initial(props, data)
    /\ pending \in BOOLEAN /\ rendered \in BOOLEAN

FormLacksSource == kind = "form" /\ (props = None \/ data = None)

\* Where only the parent's renders bring anything new, no effect is to run before
\* one of them, and nothing typed is lost.
FormWaitsForRender ==
    ~rendered /\ ~FormLacksSource =>
        ~pending /\ \A f \in Fields : typed[f] # None => form[f] = typed[f]

FormIInv == FormTypes /\ FormWaitsForRender /\ Input!UntouchedShowsGiven

LEMMA FormInitialValues ==
    ASSUME NEW p \in Input!Gifts, NEW d \in Input!Gifts
    PROVE  Input!Initial(p, d) \in [Fields -> Input!Values]
<1>1. SUFFICES ASSUME NEW f \in Fields PROVE Input!Initial(p, d)[f] \in Input!Values
  BY DEF Input!Initial
<1>2. CASE Input!From(p, f) # None
  <2>1. Input!Initial(p, d)[f] = p[f]
    BY <1>2 DEF Input!Initial
  <2>2. QED
    BY <1>2, <2>1 DEF Input!From, Input!Gifts
<1>3. CASE Input!From(p, f) = None /\ Input!From(d, f) # None
  <2>1. Input!Initial(p, d)[f] = d[f]
    BY <1>3 DEF Input!Initial
  <2>2. QED
    BY <1>3, <2>1 DEF Input!From, Input!Gifts
<1>4. CASE Input!From(p, f) = None /\ Input!From(d, f) = None
  BY <1>4 DEF Input!Initial, Input!Values
<1>5. QED
  BY <1>2, <1>3, <1>4

LEMMA FormStart == Input!Init => FormIInv
<1> SUFFICES ASSUME Input!Init PROVE FormIInv
  OBVIOUS
<1>1. FormTypes
  BY FormInitialValues DEF Input!Init, FormTypes, Input!Untouched
<1>2. FormWaitsForRender
  BY DEF Input!Init, FormWaitsForRender, Input!Untouched
<1>3. Input!UntouchedShowsGiven
  BY DEF Input!Init, Input!UntouchedShowsGiven
<1>4. QED
  BY <1>1, <1>2, <1>3 DEF FormIInv

LEMMA FormStep == FormIInv /\ [Input!Next]_Input!vars => FormIInv'
<1> SUFFICES ASSUME FormIInv, [Input!Next]_Input!vars PROVE FormIInv'
  OBVIOUS
<1>t. FormTypes
  BY DEF FormIInv
<1>i. Input!Initial(props, data) \in [Fields -> Input!Values]
  BY <1>t, FormInitialValues DEF FormTypes
<1>r. \A b \in BOOLEAN : Input!Recomputed(b) <=> b \/ FormLacksSource
  BY DEF Input!Recomputed, FormLacksSource
<1>1. CASE Input!Effect
  <2>1. /\ pending /\ form' = initial /\ pending' \in BOOLEAN
        /\ UNCHANGED <<kind, props, data, initial, typed, rendered>>
    BY <1>1 DEF Input!Effect, Input!Recomputed, Input!given
  <2>2. FormTypes'
    BY <1>t, <1>i, <2>1 DEF FormTypes
  <2>3. FormWaitsForRender'
    BY <2>1 DEF FormIInv, FormWaitsForRender, FormLacksSource
  <2>4. Input!UntouchedShowsGiven'
    BY <1>t, <2>1 DEF FormTypes, Input!UntouchedShowsGiven
  <2>5. QED
    BY <2>2, <2>3, <2>4 DEF FormIInv
<1>2. CASE Input!Reset
  <2>1. /\ form' = initial /\ typed' = Input!Untouched /\ rendered' = pending
        /\ pending' = (pending \/ FormLacksSource) /\ initial' = Input!Initial(props, data)
        /\ UNCHANGED <<kind, props, data>>
    BY <1>2, <1>r DEF Input!Reset, Input!Rerender, Input!given
  <2>2. FormTypes'
    BY <1>t, <1>i, <2>1 DEF FormTypes, FormLacksSource, Input!Untouched
  <2>3. FormWaitsForRender'
    BY <1>t, <2>1 DEF FormTypes, FormWaitsForRender, FormLacksSource, Input!Untouched
  <2>4. Input!UntouchedShowsGiven'
    BY <1>t, <2>1 DEF FormTypes, Input!UntouchedShowsGiven
  <2>5. QED
    BY <2>2, <2>3, <2>4 DEF FormIInv
<1>3. CASE Input!Submit
  BY <1>3 DEF Input!Submit, Input!given, FormIInv, FormTypes, FormWaitsForRender, FormLacksSource,
              Input!UntouchedShowsGiven
<1>4. ASSUME NEW d \in Input!Gifts, Input!ParentRender(d) PROVE FormIInv'
  <2>1. /\ data' = d /\ initial' = Input!Initial(props, d) /\ pending' = TRUE /\ rendered' = TRUE
        /\ UNCHANGED <<kind, props, form, typed>>
    BY <1>4 DEF Input!ParentRender, Input!Recomputed, Input!given
  <2>2. QED
    BY <1>t, <2>1 DEF FormIInv, FormTypes, FormWaitsForRender, Input!UntouchedShowsGiven
<1>5. ASSUME NEW f \in Fields, NEW v \in Input!Values, Input!UpdateField(f, v) PROVE FormIInv'
  <2>1. /\ form' = [form EXCEPT ![f] = v] /\ typed' = [typed EXCEPT ![f] = v]
        /\ pending' = (pending \/ FormLacksSource) /\ initial' = Input!Initial(props, data)
        /\ UNCHANGED <<kind, props, data, rendered>>
    BY <1>5, <1>r DEF Input!UpdateField, Input!Rerender, Input!given
  <2>2. FormTypes'
    BY <1>t, <2>1 DEF FormTypes, FormLacksSource
  <2>3. FormWaitsForRender'
    BY <1>t, <2>1 DEF FormIInv, FormTypes, FormWaitsForRender, FormLacksSource
  <2>4. typed'[f] = v /\ v # None
    BY <1>t, <2>1, ConstantsAssumption, NoneAssumption DEF FormTypes, Input!Values
  <2>5. typed' # Input!Untouched
    BY <2>4 DEF Input!Untouched
  <2>6. Input!UntouchedShowsGiven'
    BY <2>5 DEF Input!UntouchedShowsGiven, Input!Untouched
  <2>7. QED
    BY <2>2, <2>3, <2>6 DEF FormIInv
<1>6. CASE UNCHANGED Input!vars
  BY <1>6 DEF Input!vars, Input!given, FormIInv, FormTypes, FormWaitsForRender, FormLacksSource,
              Input!UntouchedShowsGiven
<1>7. QED
  BY <1>1, <1>2, <1>3, <1>4, <1>5, <1>6 DEF Input!Next

LEMMA FormShows == FormIInv => Input!FormKeepsInput
BY DEF FormIInv, FormWaitsForRender, FormLacksSource, Input!FormKeepsInput, Input!EditsLostOnlyToRenders


-----------------------------------------------------------------------------
(* Lightbox                                                                *)

ViewerPoint == [id : Viewer!Pointers, x : 0..2]

ViewerTypes ==
    /\ open \in BOOLEAN /\ width \in {0, ImageWidth}
    /\ zoom \in 1..MaxZoom /\ offset \in Int
    /\ drag # None => drag \in [id : Viewer!Pointers, start : 0..2, origin : Int]
    /\ pointers \in Seq(ViewerPoint) /\ three \in BOOLEAN
    /\ pinch # None => pinch.distance \in Nat /\ pinch.zoom \in Nat

\* A third pointer does not go unnoticed until all are up.
ViewerCountsPointers == ~three => Len(pointers) <= 2

ViewerIInv == ViewerTypes /\ ViewerCountsPointers /\ Viewer!StaysInFrame /\ Viewer!GesturesHavePointers

LEMMA ViewerSizes == ImageWidth \in Nat \ {0} /\ MaxZoom \in Nat \ {0}
BY ConstantsAssumption

\* The image can be moved by a whole and not negative number.
LEMMA ViewerReach ==
    ASSUME NEW w \in Nat, NEW z \in Nat \ {0}
    PROVE  (w * (z - 1)) \div 2 \in Nat
<1>1. z - 1 \in Nat
  OBVIOUS
<1>2. w * (z - 1) \in Nat
  BY <1>1
<1>3. QED
  BY <1>2

LEMMA ViewerClamp ==
    ASSUME NEW v \in Int, NEW lo \in Int, NEW hi \in Int, lo <= hi
    PROVE  Viewer!Clamp(v, lo, hi) \in lo..hi
BY DEF Viewer!Clamp

LEMMA ViewerClampOffset ==
    ASSUME ViewerTypes, NEW v \in Int, NEW z \in 1..MaxZoom
    PROVE  /\ Viewer!Reach(z) \in Nat
           /\ Viewer!ClampOffset(v, z) \in -Viewer!Reach(z)..Viewer!Reach(z)
<1>1. z \in Nat \ {0} /\ width \in Nat
  BY ViewerSizes DEF ViewerTypes
<1>2. Viewer!Reach(z) \in Nat
  BY <1>1, ViewerReach DEF Viewer!Reach
<1>3. -Viewer!Reach(z) \in Int /\ -Viewer!Reach(z) <= Viewer!Reach(z)
  BY <1>2
<1>4. QED
  BY <1>2, <1>3 DEF Viewer!ClampOffset, Viewer!Clamp

\* Every zoom ends between its bounds, with the image in its frame.
LEMMA ViewerUpdateZoom ==
    ASSUME ViewerTypes, NEW candidate \in Int, Viewer!UpdateZoom(candidate), width' = width
    PROVE  zoom' \in 1..MaxZoom /\ offset' \in Int /\ Viewer!StaysInFrame'
<1> DEFINE next == Viewer!Clamp(candidate, 1, MaxZoom)
<1>1. next \in 1..MaxZoom
  BY ViewerSizes DEF Viewer!Clamp
<1>2. zoom' = next /\ offset' = Viewer!OffsetAt(next)
  BY DEF Viewer!UpdateZoom
<1>3. Viewer!Reach(next) \in Nat /\ Viewer!ClampOffset(offset, next) \in -Viewer!Reach(next)..Viewer!Reach(next)
  BY <1>1, ViewerClampOffset DEF ViewerTypes
<1>4. Viewer!OffsetAt(next) \in -Viewer!Reach(next)..Viewer!Reach(next)
  BY <1>3 DEF Viewer!OffsetAt
<1>5. Viewer!Reach(zoom)' = Viewer!Reach(next)
  BY <1>2 DEF Viewer!Reach
<1>6. QED
  BY <1>1, <1>2, <1>3, <1>4, <1>5 DEF Viewer!StaysInFrame

LEMMA ViewerIds == \A id : id \in Viewer!Ids <=> \E i \in DOMAIN pointers : pointers[i].id = id
BY DEF Viewer!Ids

\* Map.set keeps the pointers that are there in their places.
LEMMA ViewerPut ==
    ASSUME pointers \in Seq(ViewerPoint), NEW id \in Viewer!Pointers, NEW x \in 0..2
    PROVE  LET s == Viewer!Put(id, x)
           IN  /\ s \in Seq(ViewerPoint)
               /\ Len(s) = IF id \in Viewer!Ids THEN Len(pointers) ELSE Len(pointers) + 1
               /\ \A i \in 1..Len(pointers) : s[i].id = pointers[i].id
               /\ \E i \in 1..Len(s) : s[i].id = id
<1> DEFINE point == [id |-> id, x |-> x]
<1>p. point \in ViewerPoint /\ point.id = id
  BY DEF ViewerPoint
<1>1. CASE id \in Viewer!Ids
  <2> DEFINE s == [i \in DOMAIN pointers |-> IF pointers[i].id = id THEN point ELSE pointers[i]]
  <2>1. Viewer!Put(id, x) = s
    BY <1>1 DEF Viewer!Put
  <2>2. DOMAIN pointers = 1..Len(pointers) /\ Len(pointers) \in Nat
    OBVIOUS
  <2>3. s \in [1..Len(pointers) -> ViewerPoint]
    BY <1>p, <2>2
  <2>4. s \in Seq(ViewerPoint) /\ Len(s) = Len(pointers)
    BY <2>2, <2>3
  <2>5. \A i \in 1..Len(pointers) : s[i].id = pointers[i].id
    BY <1>p, <2>2
  <2>6. \E i \in 1..Len(pointers) : pointers[i].id = id
    BY <1>1, <2>2, ViewerIds
  <2>7. \E i \in 1..Len(s) : s[i].id = id
    BY <2>4, <2>5, <2>6
  <2>8. QED
    BY <1>1, <2>1, <2>4, <2>5, <2>7
<1>2. CASE id \notin Viewer!Ids
  <2>1. Viewer!Put(id, x) = Append(pointers, point)
    BY <1>2 DEF Viewer!Put
  <2>2. /\ Append(pointers, point) \in Seq(ViewerPoint)
        /\ Len(Append(pointers, point)) = Len(pointers) + 1
        /\ \A i \in 1..Len(pointers) : Append(pointers, point)[i] = pointers[i]
        /\ Append(pointers, point)[Len(pointers) + 1] = point
    BY <1>p
  <2>3. QED
    BY <1>2, <1>p, <2>1, <2>2
<1>3. QED
  BY <1>1, <1>2

\* Map.delete.
LEMMA ViewerWithout ==
    ASSUME pointers \in Seq(ViewerPoint), NEW id
    PROVE  LET s == Viewer!Without(id)
           IN  /\ s \in Seq(ViewerPoint)
               /\ id \in Viewer!Ids => Len(s) = Len(pointers) - 1
               /\ id \notin Viewer!Ids => s = pointers
<1>1. CASE id \in Viewer!Ids
  <2> DEFINE i == CHOOSE j \in DOMAIN pointers : pointers[j].id = id
  <2>1. i \in DOMAIN pointers
    BY <1>1, ViewerIds
  <2>2. i \in 1..Len(pointers) /\ Len(pointers) \in Nat
    BY <2>1
  <2>3. Viewer!Without(id) = SubSeq(pointers, 1, i - 1) \o SubSeq(pointers, i + 1, Len(pointers))
    BY <1>1 DEF Viewer!Without
  <2>. HIDE DEF i
  <2>4. SubSeq(pointers, 1, i - 1) \in Seq(ViewerPoint) /\ Len(SubSeq(pointers, 1, i - 1)) = i - 1
    BY <2>2, SubSeqProperties
  <2>5. /\ SubSeq(pointers, i + 1, Len(pointers)) \in Seq(ViewerPoint)
        /\ Len(SubSeq(pointers, i + 1, Len(pointers))) = Len(pointers) - i
    BY <2>2, SubSeqProperties
  <2>6. \A s, t \in Seq(ViewerPoint) : s \o t \in Seq(ViewerPoint) /\ Len(s \o t) = Len(s) + Len(t)
    OBVIOUS
  <2>7. Viewer!Without(id) \in Seq(ViewerPoint) /\ Len(Viewer!Without(id)) = (i - 1) + (Len(pointers) - i)
    BY <2>3, <2>4, <2>5, <2>6
  <2>8. QED
    BY <1>1, <2>2, <2>7
<1>2. CASE id \notin Viewer!Ids
  BY <1>2 DEF Viewer!Without
<1>3. QED
  BY <1>1, <1>2

LEMMA ViewerStart == Viewer!Init => ViewerIInv
<1> SUFFICES ASSUME Viewer!Init PROVE ViewerIInv
  OBVIOUS
<1>1. ViewerTypes
  <2>1. 1 \in 1..MaxZoom /\ pointers \in Seq(ViewerPoint)
    BY ViewerSizes DEF Viewer!Init
  <2>2. open \in BOOLEAN /\ three \in BOOLEAN /\ drag = None /\ pinch = None
    BY DEF Viewer!Init
  <2>3. width \in {0, ImageWidth} /\ zoom \in 1..MaxZoom /\ offset \in Int
    BY <2>1 DEF Viewer!Init
  <2>4. QED
    BY <2>1, <2>2, <2>3 DEF ViewerTypes
<1>2. Viewer!StaysInFrame
  <2>1. 1 \in 1..MaxZoom
    BY ViewerSizes
  <2>2. Viewer!Reach(1) \in Nat
    BY <1>1, <2>1, ViewerClampOffset
  <2>3. QED
    BY <2>2 DEF Viewer!Init, Viewer!StaysInFrame
<1>3. QED
  BY <1>1, <1>2 DEF Viewer!Init, ViewerIInv, ViewerCountsPointers, Viewer!GesturesHavePointers


\* Actions that leave the pointers alone keep each gesture with its own.
LEMMA ViewerKeepsHands ==
    ASSUME ViewerIInv, UNCHANGED <<drag, pointers, pinch, three>>
    PROVE  ViewerCountsPointers' /\ Viewer!GesturesHavePointers'
BY DEF ViewerIInv, ViewerCountsPointers, Viewer!GesturesHavePointers, Viewer!Ids

LEMMA ViewerZooms ==
    ASSUME ViewerIInv, NEW candidate \in Int, Viewer!UpdateZoom(candidate),
           UNCHANGED <<open, width, drag, Viewer!hands>>
    PROVE  ViewerIInv'
<1>1. UNCHANGED <<open, width, drag, pointers, pinch, three>>
  BY DEF Viewer!hands
<1>2. zoom' \in 1..MaxZoom /\ offset' \in Int /\ Viewer!StaysInFrame'
  BY <1>1, ViewerUpdateZoom DEF ViewerIInv
<1>3. ViewerTypes'
  BY <1>1, <1>2 DEF ViewerIInv, ViewerTypes
<1>4. QED
  BY <1>1, <1>2, <1>3, ViewerKeepsHands DEF ViewerIInv

LEMMA ViewerResets ==
    ASSUME Viewer!ResetView, open' \in BOOLEAN, width' \in {0, ImageWidth}
    PROVE  ViewerIInv'
<1>1. ViewerTypes'
  <2>1. 1 \in 1..MaxZoom /\ pointers' \in Seq(ViewerPoint)
    BY ViewerSizes DEF Viewer!ResetView, Viewer!ResetHands
  <2>2. three' \in BOOLEAN /\ drag' = None /\ pinch' = None
    BY DEF Viewer!ResetView, Viewer!ResetHands
  <2>3. zoom' \in 1..MaxZoom /\ offset' \in Int
    BY <2>1 DEF Viewer!ResetView
  <2>4. QED
    BY <2>1, <2>2, <2>3 DEF ViewerTypes
<1>2. Viewer!StaysInFrame'
  <2>1. zoom' = 1 /\ offset' = 0 /\ width' \in Nat
    BY ViewerSizes DEF Viewer!ResetView
  <2>2. Viewer!Reach(zoom)' \in Nat
    <3>1. zoom' \in Nat \ {0}
      BY <2>1
    <3>2. QED
      BY <2>1, <3>1, ViewerReach DEF Viewer!Reach
  <2>3. QED
    BY <2>1, <2>2 DEF Viewer!StaysInFrame
<1>3. QED
  BY <1>1, <1>2 DEF Viewer!ResetView, Viewer!ResetHands, ViewerIInv, ViewerCountsPointers, Viewer!GesturesHavePointers

LEMMA ViewerLoads == ViewerIInv /\ Viewer!Load => ViewerIInv'
<1> SUFFICES ASSUME ViewerIInv, Viewer!Load PROVE ViewerIInv'
  OBVIOUS
<1> DEFINE r == (ImageWidth * (zoom - 1)) \div 2
<1>1. /\ UNCHANGED <<open, zoom, drag, pointers, pinch, three>> /\ width' = ImageWidth
      /\ offset' = Viewer!Clamp(offset, -r, r)
  BY DEF Viewer!Load, Viewer!hands
<1>2. r \in Nat
  BY ViewerSizes, ViewerReach DEF ViewerIInv, ViewerTypes
<1>3. Viewer!Reach(zoom)' = r
  BY <1>1 DEF Viewer!Reach
<1>. HIDE DEF r
<1>4. -r \in Int /\ -r <= r
  BY <1>2
<1>5. offset' \in -r..r
  BY <1>1, <1>2, <1>4, ViewerClamp DEF ViewerIInv, ViewerTypes
<1>6. offset' \in Int /\ Viewer!StaysInFrame'
  BY <1>1, <1>3, <1>4, <1>5 DEF Viewer!StaysInFrame
<1>7. ViewerTypes'
  BY <1>1, <1>6 DEF ViewerIInv, ViewerTypes
<1>8. QED
  BY <1>1, <1>6, <1>7, ViewerKeepsHands DEF ViewerIInv

LEMMA ViewerDistance ==
    ASSUME NEW a \in ViewerPoint, NEW b \in ViewerPoint
    PROVE  Viewer!Distance(a, b) \in Nat
BY DEF ViewerPoint, Viewer!Distance

LEMMA ViewerPointerDown ==
    ASSUME ViewerIInv, NEW id \in Viewer!Pointers, NEW x \in 0..2, Viewer!PointerDown(id, x)
    PROVE  ViewerIInv'
<1>t. ViewerTypes /\ pointers \in Seq(ViewerPoint) /\ Len(pointers) \in Nat
  BY DEF ViewerIInv, ViewerTypes
<1>1. /\ pointers' = Viewer!Put(id, x) /\ three' = (three \/ Len(pointers') >= 3)
      /\ IF Len(pointers') >= 2
         THEN pinch' = Viewer!Begun(pointers') /\ drag' = None
         ELSE /\ pinch' = pinch
              /\ drag' = IF zoom > 1 THEN [id |-> id, start |-> x, origin |-> offset] ELSE drag
      /\ UNCHANGED <<open, width, zoom, offset>>
  BY DEF Viewer!PointerDown
<1>2. /\ pointers' \in Seq(ViewerPoint)
      /\ Len(pointers') = IF id \in Viewer!Ids THEN Len(pointers) ELSE Len(pointers) + 1
      /\ \A i \in 1..Len(pointers) : pointers'[i].id = pointers[i].id
      /\ \E i \in 1..Len(pointers') : pointers'[i].id = id
  <2> DEFINE put == Viewer!Put(id, x)
  <2>1. /\ put \in Seq(ViewerPoint)
        /\ Len(put) = IF id \in Viewer!Ids THEN Len(pointers) ELSE Len(pointers) + 1
        /\ \A i \in 1..Len(pointers) : put[i].id = pointers[i].id
        /\ \E i \in 1..Len(put) : put[i].id = id
    BY <1>t, ViewerPut
  <2>2. pointers' = put
    BY <1>1
  <2> HIDE DEF put
  <2>3. QED
    BY <2>1, <2>2
<1>3. Len(pointers') \in Nat /\ DOMAIN pointers' = 1..Len(pointers') /\ Len(pointers) <= Len(pointers')
  BY <1>t, <1>2
<1>4. \A j : j \in Viewer!Ids' <=> \E i \in 1..Len(pointers') : pointers'[i].id = j
  BY <1>3 DEF Viewer!Ids
<1>5. id \in Viewer!Ids' /\ Viewer!Ids \subseteq Viewer!Ids'
  BY <1>t, <1>2, <1>3, <1>4, ViewerIds
<1>6. Viewer!StaysInFrame'
  BY <1>1 DEF ViewerIInv, Viewer!StaysInFrame, Viewer!Reach
<1>7. ViewerCountsPointers'
  <2>1. ~three' => ~(Len(pointers') >= 3)
    BY <1>1, Zenon
  <2>2. QED
    BY <1>3, <2>1 DEF ViewerCountsPointers
<1>8. CASE Len(pointers') >= 2
  <2>1. pinch' = [distance |-> Viewer!Distance(pointers'[1], pointers'[2]), zoom |-> zoom,
                  of |-> <<pointers'[1].id, pointers'[2].id>>] /\ drag' = None
    BY <1>1, <1>8 DEF Viewer!Begun
  <2>2. pinch'.distance \in Nat /\ pinch'.zoom \in Nat
    BY <1>2, <1>3, <1>8, <1>t, <2>1, ViewerDistance DEF ViewerTypes
  <2>3. ViewerTypes'
    BY <1>1, <1>2, <1>t, <2>1, <2>2 DEF ViewerTypes
  <2>4. Viewer!GesturesHavePointers'
    BY <1>8, <2>1 DEF Viewer!GesturesHavePointers
  <2>5. QED
    BY <1>6, <1>7, <2>3, <2>4 DEF ViewerIInv
<1>9. CASE ~(Len(pointers') >= 2)
  <2>1. pinch' = None /\ pinch = None
    BY <1>1, <1>3, <1>9, <1>t DEF ViewerIInv, Viewer!GesturesHavePointers
  <2>2. drag' # None => drag'.id \in Viewer!Ids' /\ drag' \in [id : Viewer!Pointers, start : 0..2, origin : Int]
    BY <1>1, <1>5, <1>9, <1>t DEF ViewerIInv, Viewer!GesturesHavePointers, ViewerTypes
  <2>3. ViewerTypes'
    BY <1>1, <1>2, <1>t, <2>1, <2>2 DEF ViewerTypes
  <2>4. Viewer!GesturesHavePointers'
    BY <2>1, <2>2 DEF Viewer!GesturesHavePointers
  <2>5. QED
    BY <1>6, <1>7, <2>3, <2>4 DEF ViewerIInv
<1>10. QED
  BY <1>8, <1>9

\* A pointer that moves keeps its place, and with it those of every gesture.
LEMMA ViewerPointerMove ==
    ASSUME ViewerIInv, NEW id \in Viewer!Pointers, NEW x \in 0..2, Viewer!PointerMove(id, x)
    PROVE  ViewerIInv'
<1>t. ViewerTypes /\ pointers \in Seq(ViewerPoint) /\ Len(pointers) \in Nat
  BY DEF ViewerIInv, ViewerTypes
<1>1. /\ pointers' = IF id \in Viewer!Ids THEN Viewer!Put(id, x) ELSE pointers
      /\ UNCHANGED <<open, width, drag, pinch, three>>
  BY DEF Viewer!PointerMove
<1>2. /\ pointers' \in Seq(ViewerPoint) /\ Len(pointers') = Len(pointers)
      /\ \A i \in 1..Len(pointers) : pointers'[i].id = pointers[i].id
  BY <1>t, <1>1, ViewerPut
<1>3. DOMAIN pointers = 1..Len(pointers) /\ DOMAIN pointers' = 1..Len(pointers)
  BY <1>t, <1>2
<1>4. Viewer!Ids \subseteq Viewer!Ids'
  BY <1>2, <1>3 DEF Viewer!Ids
<1>5. ViewerCountsPointers'
  BY <1>1, <1>2 DEF ViewerIInv, ViewerCountsPointers
<1>6. Viewer!GesturesHavePointers'
  BY <1>t, <1>1, <1>2, <1>4 DEF ViewerIInv, Viewer!GesturesHavePointers
<1>7. zoom' \in 1..MaxZoom /\ offset' \in Int /\ Viewer!StaysInFrame'
  <2>1. CASE pinch # None /\ Len(pointers') >= 2
    <3>1. CASE Viewer!Distance(pointers'[1], pointers'[2]) > 0
      <4>1. Viewer!UpdateZoom(Viewer!Pinched(pointers'))
        BY <2>1, <3>1 DEF Viewer!PointerMove
      <4>2. Viewer!Distance(pointers'[1], pointers'[2]) \in Nat
        <5>1. pointers'[1] \in ViewerPoint /\ pointers'[2] \in ViewerPoint
          BY <1>2, <2>1
        <5>2. QED
          BY <5>1, ViewerDistance
      <4>3. pinch.zoom \in Nat /\ pinch.distance \in Nat
        BY <1>t, <2>1 DEF ViewerTypes
      <4>4. Viewer!Pinched(pointers') \in Int
        <5>1. pinch.zoom * Viewer!Distance(pointers'[1], pointers'[2]) \in Nat
          BY <4>2, <4>3
        <5>2. QED
          BY <4>3, <5>1, ViewerSizes DEF Viewer!Pinched
      <4>5. QED
        BY <1>t, <1>1, <4>1, <4>4, ViewerUpdateZoom
    <3>2. CASE ~(Viewer!Distance(pointers'[1], pointers'[2]) > 0)
      <4>1. UNCHANGED <<zoom, offset>>
        BY <2>1, <3>2 DEF Viewer!PointerMove
      <4>2. QED
        BY <1>t, <1>1, <4>1 DEF ViewerIInv, ViewerTypes, Viewer!StaysInFrame, Viewer!Reach
    <3>3. QED
      BY <3>1, <3>2
  <2>2. CASE ~(pinch # None /\ Len(pointers') >= 2) /\ drag # None /\ drag.id = id
    <3>1. offset' = Viewer!ClampOffset(drag.origin + x - drag.start, zoom) /\ zoom' = zoom
      BY <2>2 DEF Viewer!PointerMove
    <3>2. drag.origin + x - drag.start \in Int
      BY <1>t, <2>2 DEF ViewerTypes
    <3>3. offset' \in -Viewer!Reach(zoom)..Viewer!Reach(zoom) /\ Viewer!Reach(zoom) \in Nat
      BY <1>t, <3>1, <3>2, ViewerClampOffset DEF ViewerTypes
    <3>4. Viewer!Reach(zoom)' = Viewer!Reach(zoom)
      BY <1>1, <3>1 DEF Viewer!Reach
    <3>5. QED
      BY <1>t, <3>1, <3>3, <3>4 DEF ViewerTypes, Viewer!StaysInFrame
  <2>3. CASE ~(pinch # None /\ Len(pointers') >= 2) /\ ~(drag # None /\ drag.id = id)
    <3>1. UNCHANGED <<zoom, offset>>
      BY <2>3 DEF Viewer!PointerMove
    <3>2. QED
      BY <1>t, <1>1, <3>1 DEF ViewerIInv, ViewerTypes, Viewer!StaysInFrame, Viewer!Reach
  <2>4. QED
    BY <2>1, <2>2, <2>3
<1>8. ViewerTypes'
  BY <1>t, <1>1, <1>2, <1>7 DEF ViewerTypes
<1>9. QED
  BY <1>5, <1>6, <1>7, <1>8 DEF ViewerIInv

\* A pinch of two pointers is over when one of them goes up; with three, another
\* two may be left.
LEMMA ViewerPointerUp ==
    ASSUME ViewerIInv, NEW id \in Viewer!Pointers, Viewer!PointerUp(id)
    PROVE  ViewerIInv'
<1>t. ViewerTypes /\ pointers \in Seq(ViewerPoint) /\ Len(pointers) \in Nat
  BY DEF ViewerIInv, ViewerTypes
<1>1. /\ pointers' = Viewer!Without(id) /\ pinch' = Viewer!PinchAfter(pointers')
      /\ three' = (three /\ pointers' # <<>>) /\ drag' = None
      /\ UNCHANGED <<open, width, zoom, offset>>
  BY DEF Viewer!PointerUp
<1>2. /\ pointers' \in Seq(ViewerPoint) /\ Len(pointers') \in Nat
      /\ id \in Viewer!Ids => Len(pointers') = Len(pointers) - 1
      /\ id \notin Viewer!Ids => pointers' = pointers
  BY <1>t, <1>1, ViewerWithout
<1>b. ~three' => ~three \/ pointers' = <<>>
  BY <1>1, Zenon
<1>3. pinch' = IF Len(pointers') < 2 THEN None ELSE pinch
  BY <1>1 DEF Viewer!PinchAfter
<1>4. ViewerTypes'
  BY <1>t, <1>1, <1>2, <1>3 DEF ViewerTypes
<1>5. ViewerCountsPointers'
  BY <1>t, <1>2, <1>b DEF ViewerIInv, ViewerCountsPointers
<1>6. Viewer!GesturesHavePointers'
  <2>1. SUFFICES ASSUME pinch' # None
                 PROVE  Len(pointers') >= 2 /\ (~three' => pinch'.of = <<pointers'[1].id, pointers'[2].id>>)
    BY <1>1 DEF Viewer!GesturesHavePointers
  <2>2. Len(pointers') >= 2 /\ pinch' = pinch /\ pointers' # <<>>
    BY <1>2, <1>3, <2>1
  <2>3. ~three' => ~three /\ pointers' = pointers
    BY <1>t, <1>2, <1>b, <2>2 DEF ViewerIInv, ViewerCountsPointers
  <2>4. QED
    BY <2>1, <2>2, <2>3 DEF ViewerIInv, Viewer!GesturesHavePointers
<1>7. Viewer!StaysInFrame'
  BY <1>1 DEF ViewerIInv, Viewer!StaysInFrame, Viewer!Reach
<1>8. QED
  BY <1>4, <1>5, <1>6, <1>7 DEF ViewerIInv

LEMMA ViewerStep == ViewerIInv /\ [Viewer!Next]_Viewer!vars => ViewerIInv'
<1> SUFFICES ASSUME ViewerIInv, [Viewer!Next]_Viewer!vars PROVE ViewerIInv'
  OBVIOUS
<1>t. open \in BOOLEAN /\ width \in {0, ImageWidth} /\ zoom \in Int
  BY DEF ViewerIInv, ViewerTypes
<1>1. CASE Viewer!ZoomIn
  BY <1>1, <1>t, ViewerZooms DEF Viewer!ZoomIn
<1>2. CASE Viewer!ZoomOut
  BY <1>2, <1>t, ViewerZooms DEF Viewer!ZoomOut
<1>3. CASE Viewer!DoubleClick
  <2>1. (IF zoom > 1 THEN 1 ELSE 2) \in Int
    OBVIOUS
  <2>2. QED
    BY <1>3, <2>1, ViewerZooms DEF Viewer!DoubleClick
<1>4. CASE Viewer!OpenImage
  BY <1>4, ViewerResets DEF Viewer!OpenImage
<1>5. CASE Viewer!CloseImage
  BY <1>5, ViewerResets DEF Viewer!CloseImage
<1>6. CASE Viewer!ResetKey
  BY <1>6, <1>t, ViewerResets DEF Viewer!ResetKey
<1>7. CASE Viewer!Load
  BY <1>7, ViewerLoads
<1>8. ASSUME NEW id \in Viewer!Pointers, Viewer!PointerUp(id) PROVE ViewerIInv'
  BY <1>8, ViewerPointerUp
<1>9. ASSUME NEW id \in Viewer!Pointers, NEW x \in 0..2, Viewer!PointerDown(id, x) PROVE ViewerIInv'
  BY <1>9, ViewerPointerDown
<1>10. ASSUME NEW id \in Viewer!Pointers, NEW x \in 0..2, Viewer!PointerMove(id, x) PROVE ViewerIInv'
  BY <1>10, ViewerPointerMove
<1>11. CASE UNCHANGED Viewer!vars
  <2>1. UNCHANGED <<open, width, zoom, offset, drag, pointers, pinch, three>>
    BY <1>11 DEF Viewer!vars, Viewer!view, Viewer!hands
  <2>2. QED
    BY <2>1, ViewerKeepsHands DEF ViewerIInv, ViewerTypes, Viewer!StaysInFrame, Viewer!Reach
<1>12. QED
  BY <1>1, <1>2, <1>3, <1>4, <1>5, <1>6, <1>7, <1>8, <1>9, <1>10, <1>11 DEF Viewer!Next

LEMMA ViewerShows == ViewerIInv => Viewer!ViewerHolds
BY DEF ViewerIInv, Viewer!ViewerHolds

-----------------------------------------------------------------------------
(* Access                                                                  *)

AccessLocations == [page : {"landing", "login"} \cup Tabs!Protected, returnTo : Tabs!Protected]

AccessTypes ==
    /\ token = None \/ token \in [account : Accounts, fresh : BOOLEAN]
    /\ changed \in BOOLEAN /\ loading \in BOOLEAN /\ shown \in BOOLEAN /\ queued \in BOOLEAN
    /\ user \in Accounts \cup {None} /\ resolved \in Accounts \cup {None} /\ cookie \in Accounts \cup {None}
    /\ carried \in Accounts \cup {None} /\ refresh \subseteq {"check", "request"} /\ location \in AccessLocations
    /\ rendered \in [location : AccessLocations, authenticated : BOOLEAN, loading : BOOLEAN]
    /\ \A p \in posts : p \in [account : Accounts, returnTo : Tabs!Protected]
    /\ redirects \in Nat /\ logins \in Nat /\ intros \in Nat

AccessAccount == IF token = None THEN None ELSE token.account

\* A check that was answered at once found the token as it still is. Where none is
\* under way or to come, the last one was of the present token.
AccessChecked ==
    /\ resolved # None => token # None /\ token.fresh /\ resolved = token.account
    /\ resolved = None /\ "check" \notin refresh /\ "session" \notin due /\ ~changed =>
          ~loading /\ user = AccessAccount

\* Only protected pages and the login page have a guard, also when the page was
\* just loaded; one whose effect ran let the user in, or led elsewhere.
AccessGuarded ==
    /\ "guard" \in due /\ ~rendered.loading => rendered.location.page # "landing"
    /\ "guard" \notin due /\ rendered.location = location /\ ~rendered.loading =>
           /\ location.page \in Tabs!Protected => rendered.authenticated /\ shown
           /\ location.page = "login" => ~rendered.authenticated /\ shown

AccessLeads(to, goal) == to.page = goal \/ to = Tabs!LoginFor(goal)

\* A guard that is still to run starts from a page on the way, too.
AccessOnTheWay ==
    /\ "login" \notin wanted
    /\ \E goal \in wanted : AccessLeads(location, goal)
    /\ "guard" \in due => \E goal \in wanted : AccessLeads(rendered.location, goal)

\* Requests are refused on a protected page only; who was logged in as it was
\* rendered and is not any more has not left it since, and no other check waits
\* before its guard runs.
AccessRefused ==
    rendered.authenticated /\ user = None =>
        /\ "request" \in refresh => rendered.location.page \in Tabs!Protected
        /\ "check" \in refresh => "guard" \notin due

\* How many redirects may yet follow without another event. One is due while a
\* guard is to run on a page it refuses, or where the user state has changed since
\* the page was chosen; the checks under way may change the user state. Where the
\* refresh under way, or the next one, has a cookie, it is to logged in only. Else it
\* is to logged in by a token that is still fresh, then to logged out, through the
\* login page if a request was refused, and with a cookie that came since the refresh
\* was sent to logged in again, if a check joined it.
AccessRefusedPage(to, authenticated) ==
    (to.page \in Tabs!Protected /\ ~authenticated) \/ (to.page = "login" /\ authenticated)
AccessRedirecting ==
    "guard" \in due /\ ~rendered.loading /\ AccessRefusedPage(rendered.location, rendered.authenticated)
AccessSettling == IF refresh = {} THEN cookie # None ELSE carried # None
AccessPending == resolved # None \/ changed \/ "session" \in due
AccessMore ==
    IF cookie = None THEN "request" \in refresh
    ELSE "check" \in refresh \/ (AccessPending /\ ~Tabs!Usable)
AccessChanges ==
    IF AccessSettling THEN IF user # None THEN 0 ELSE 1
    ELSE IF user # None THEN IF AccessMore THEN 2 ELSE 1
    ELSE IF Tabs!Usable /\ AccessPending THEN IF AccessMore THEN 3 ELSE 2
    ELSE IF cookie # None THEN 1 ELSE 0
AccessLeft ==
    IF AccessRedirecting THEN 1 + (IF rendered.authenticated <=> user # None THEN 0 ELSE 1) + AccessChanges
    ELSE (IF AccessRefusedPage(location, user # None) THEN 1 ELSE 0) + AccessChanges
AccessBounded == redirects + AccessLeft <= 4

AccessIInv ==
    /\ AccessTypes /\ AccessChecked /\ AccessGuarded /\ AccessOnTheWay
    /\ AccessRefused /\ AccessBounded /\ Tabs!IntrosFollowLogins

\* What None is not.
LEMMA AccessNone ==
    /\ None \notin Accounts /\ None # "auth" /\ None # "guest"
    /\ \A t \in [account : Accounts, fresh : BOOLEAN] : t # None
BY NoneAssumption

LEMMA AccessGuardOf ==
    /\ \A p : Tabs!Guard(p) = "auth" <=> p \in Tabs!Protected
    /\ \A p : Tabs!Guard(p) # None <=> p \in Tabs!Protected \/ p = "login"
BY AccessNone DEF Tabs!Guard, Tabs!Protected

\* Without an event at most three redirects are to come, and four from where a
\* refused request will lead.
LEMMA AccessFewLeft == AccessTypes /\ AccessRefused => AccessLeft \in 0..4
<1> SUFFICES ASSUME AccessTypes, AccessRefused PROVE AccessLeft \in 0..4
  OBVIOUS
<1>1. AccessChanges \in 0..3
  BY DEF AccessChanges
<1>2. CASE AccessRedirecting
  <2>1. AccessChanges = 3 => (rendered.authenticated => user # None)
    BY <1>2 DEF AccessTypes, AccessRefused, AccessChanges, AccessMore, AccessRedirecting, AccessRefusedPage,
                Tabs!Protected
  <2>2. AccessChanges = 3 => user = None
    BY DEF AccessChanges
  <2>3. AccessChanges = 3 => (rendered.authenticated <=> user # None)
    BY <2>1, <2>2
  <2>4. QED
    BY <1>1, <1>2, <2>3 DEF AccessLeft
<1>3. CASE ~AccessRedirecting
  BY <1>1, <1>3 DEF AccessLeft
<1>4. QED
  BY <1>2, <1>3

LEMMA AccessStart == Tabs!Init => AccessIInv
<1> SUFFICES ASSUME Tabs!Init PROVE AccessIInv
  OBVIOUS
<1>1. /\ user = None /\ loading = TRUE /\ changed = FALSE /\ resolved = None /\ refresh = {}
      /\ carried = None
      /\ due = {"guard", "intro", "session"} /\ shown = FALSE /\ posts = {} /\ queued = FALSE
      /\ cookie \in Accounts \cup {None} /\ redirects = 0 /\ logins = 0 /\ intros = 0
  BY DEF Tabs!Init, Tabs!Start
<1>2. PICK first \in Tabs!Protected \cup {"landing", "login"} :
          /\ location = Tabs!At(first)
          /\ wanted = {IF first = "login" THEN Tabs!DefaultReturn ELSE first}
  BY DEF Tabs!Init
<1>3. location = [page |-> first, returnTo |-> "chat"] /\ location \in AccessLocations
  BY <1>2 DEF Tabs!At, Tabs!DefaultReturn, AccessLocations, Tabs!Protected
<1>4. /\ rendered.location = location /\ ~rendered.authenticated /\ rendered.loading
      /\ rendered \in [location : AccessLocations, authenticated : BOOLEAN, loading : BOOLEAN]
  <2>1. rendered = [location |-> location, authenticated |-> user # None, loading |-> loading]
    BY DEF Tabs!Init, Tabs!Start, Tabs!View
  <2>2. user # None <=> FALSE
    BY <1>1
  <2>3. (user # None) = FALSE
    BY <2>2, Zenon
  <2>4. rendered = [location |-> location, authenticated |-> FALSE, loading |-> TRUE]
    BY <1>1, <2>1, <2>3, Zenon
  <2>5. QED
    BY <1>3, <2>4
<1>5. token = None \/ token \in [account : Accounts, fresh : BOOLEAN]
  BY DEF Tabs!Init
<1>6. AccessTypes
  BY <1>1, <1>3, <1>4, <1>5 DEF AccessTypes
<1>7. AccessOnTheWay
  BY <1>2, <1>3, <1>4 DEF AccessOnTheWay, AccessLeads, Tabs!LoginFor, Tabs!DefaultReturn, Tabs!Protected
<1>8. AccessRefused /\ AccessChecked /\ AccessGuarded /\ Tabs!IntrosFollowLogins
  BY <1>1, <1>4 DEF AccessRefused, AccessChecked, AccessGuarded, Tabs!IntrosFollowLogins
<1>9. AccessBounded
  BY <1>1, <1>6, <1>8, AccessFewLeft DEF AccessBounded
<1>10. QED
  BY <1>6, <1>7, <1>8, <1>9 DEF AccessIInv

\* An event starts the count anew.
LEMMA AccessCountsFromNone == AccessTypes /\ AccessRefused /\ redirects = 0 => AccessBounded
BY AccessFewLeft DEF AccessBounded

LEMMA AccessEventCounts ==
    ASSUME AccessTypes', AccessRefused', redirects' = 0
    PROVE  AccessBounded'
<1>1. (AccessTypes /\ AccessRefused /\ redirects = 0 => AccessBounded)'
  BY AccessCountsFromNone, PTL
<1>2. QED
  BY <1>1, Zenon

LEMMA AccessRender == AccessIInv /\ Tabs!Render => AccessIInv'
<1> SUFFICES ASSUME AccessIInv, Tabs!Render PROVE AccessIInv'
  OBVIOUS
<1>t. AccessTypes
  BY DEF AccessIInv
<1>1. /\ due = {} /\ rendered' = Tabs!View /\ changed' = FALSE
      /\ shown' = (shown /\ Tabs!Guard(location.page) = Tabs!Guard(rendered.location.page))
      /\ UNCHANGED <<token, user, loading, resolved, refresh, carried, cookie, location, posts, queued,
                     wanted, redirects, logins, intros>>
  BY DEF Tabs!Render, Tabs!history
<1>2. /\ "session" \in due' <=> changed
      /\ "guard" \in due' <=> Tabs!View # rendered /\ Tabs!Guard(location.page) # None
  <2>1. due' = {e \in {"guard", "intro", "session"} :
                   CASE e = "guard" -> Tabs!View # rendered /\ Tabs!Guard(location.page) # None
                     [] e = "intro" -> ~(Tabs!View.authenticated = rendered.authenticated /\ loading = rendered.loading)
                     [] OTHER -> changed}
    BY DEF Tabs!Render
  <2>2. QED
    BY <2>1
<1>3. /\ rendered'.location = location /\ rendered'.loading = loading
      /\ rendered'.authenticated <=> user # None
      /\ rendered' \in [location : AccessLocations, authenticated : BOOLEAN, loading : BOOLEAN]
  <2>1. (user # None) \in BOOLEAN
    OBVIOUS
  <2>2. rendered' = [location |-> location, authenticated |-> user # None, loading |-> loading]
    BY <1>1 DEF Tabs!View
  <2>3. QED
    BY <1>t, <2>1, <2>2 DEF AccessTypes
<1>4. AccessTypes'
  <2>1. changed' \in BOOLEAN /\ shown' \in BOOLEAN
    BY <1>1
  <2>2. QED
    BY <1>t, <1>1, <1>3, <2>1 DEF AccessTypes
<1>5. AccessChecked'
  BY <1>1, <1>2 DEF AccessIInv, AccessChecked, AccessAccount
<1>6. AccessGuarded'
  <2>1. CASE rendered' = rendered
    <3>1. rendered.location = location /\ "guard" \notin due'
      BY <1>1, <1>2, <1>3, <2>1
    <3>2. shown' <=> shown
      BY <1>1, <3>1, Zenon
    <3>3. QED
      BY <1>1, <2>1, <3>1, <3>2 DEF AccessIInv, AccessGuarded
  <2>2. CASE rendered' # rendered
    <3>1. "guard" \in due' <=> location.page \in Tabs!Protected \/ location.page = "login"
      BY <1>1, <1>2, <2>2, AccessGuardOf
    <3>2. QED
      BY <1>1, <1>3, <3>1 DEF AccessGuarded, Tabs!Protected
  <2>3. QED
    BY <2>1, <2>2
<1>7. AccessOnTheWay'
  BY <1>1, <1>3 DEF AccessIInv, AccessOnTheWay, AccessLeads, Tabs!LoginFor
<1>8. AccessRefused'
  BY <1>1, <1>3 DEF AccessRefused
<1>9. AccessBounded'
  <2>1. AccessChanges' = AccessChanges
    BY <1>1, <1>2 DEF AccessChanges, AccessSettling, AccessMore, AccessPending, Tabs!Usable
  <2>2. AccessChanges \in 0..3
    BY DEF AccessChanges
  <2>3. AccessLeft = (IF AccessRefusedPage(location, user # None) THEN 1 ELSE 0) + AccessChanges
    BY <1>1 DEF AccessLeft, AccessRedirecting
  <2>4. AccessLeft' <= AccessLeft
    BY <1>1, <1>3, <2>1, <2>2, <2>3 DEF AccessLeft, AccessRedirecting, AccessRefusedPage
  <2>5. AccessLeft' \in Int /\ AccessLeft \in Int
    BY <2>1, <2>2 DEF AccessLeft
  <2>6. QED
    BY <1>1, <1>t, <2>4, <2>5 DEF AccessIInv, AccessBounded, AccessTypes
<1>10. Tabs!IntrosFollowLogins'
  BY <1>1 DEF AccessIInv, Tabs!IntrosFollowLogins
<1>11. QED
  BY <1>4, <1>5, <1>6, <1>7, <1>8, <1>9, <1>10 DEF AccessIInv

\* A guard leads where the page it refuses is not the one rendered, and where the
\* user may be as he was rendered.
LEMMA AccessRunEffects == AccessIInv /\ Tabs!RunEffects => AccessIInv'
<1> SUFFICES ASSUME AccessIInv, Tabs!RunEffects PROVE AccessIInv'
  OBVIOUS
<1>t. AccessTypes
  BY DEF AccessIInv
<1>1. /\ due' = {} /\ Tabs!CheckPermissions /\ Tabs!PlayIntro /\ Tabs!CheckUserSession
      /\ UNCHANGED <<token, changed, user, resent, cookie, rendered, posts, wanted, logins>>
  BY DEF Tabs!RunEffects
<1>2. \/ /\ AccessRedirecting
         /\ location' = IF rendered.location.page = "login" THEN Tabs!At(rendered.location.returnTo)
                        ELSE Tabs!LoginFor(rendered.location.page)
         /\ redirects' = redirects + 1 /\ shown' = shown
      \/ /\ ~AccessRedirecting /\ UNCHANGED <<location, redirects>>
         /\ shown' \in BOOLEAN
         /\ "guard" \notin due \/ rendered.loading => shown' = shown
         /\ "guard" \in due /\ ~rendered.loading => shown' = TRUE
  <2>1. CASE "guard" \notin due \/ rendered.loading
    BY <1>1, <1>t, <2>1 DEF Tabs!CheckPermissions, AccessRedirecting, AccessTypes
  <2>2. CASE "guard" \in due /\ ~rendered.loading
    <3>1. rendered.location.page \in Tabs!Protected \/ rendered.location.page = "login"
      BY <1>t, <2>2 DEF AccessIInv, AccessGuarded, AccessTypes, AccessLocations
    <3>2. CASE rendered.location.page \in Tabs!Protected
      <4>1. Tabs!AuthGuard
        BY <1>1, <2>2, <3>2, AccessGuardOf DEF Tabs!CheckPermissions
      <4>2. rendered.location.page # "login"
        BY <3>2 DEF Tabs!Protected
      <4>3. QED
        BY <2>2, <3>2, <4>1, <4>2 DEF Tabs!AuthGuard, Tabs!Admit, Tabs!Redirect, AccessRedirecting, AccessRefusedPage
    <3>3. CASE rendered.location.page = "login"
      <4>1. rendered.location.page \notin Tabs!Protected
        BY <3>3 DEF Tabs!Protected
      <4>2. Tabs!GuestGuard
        BY <1>1, <2>2, <4>1, AccessGuardOf DEF Tabs!CheckPermissions
      <4>3. QED
        BY <2>2, <3>3, <4>1, <4>2 DEF Tabs!GuestGuard, Tabs!Admit, Tabs!Redirect, AccessRedirecting, AccessRefusedPage
    <3>4. QED
      BY <3>1, <3>2, <3>3
  <2>3. QED
    BY <2>1, <2>2
<1>3. \/ "session" \notin due /\ UNCHANGED <<loading, resolved, refresh, carried>>
      \/ /\ "session" \in due /\ Tabs!Usable
         /\ loading' = TRUE /\ resolved' = token.account /\ refresh' = refresh /\ carried' = carried
      \/ /\ "session" \in due /\ ~Tabs!Usable
         /\ loading' = TRUE /\ resolved' = resolved /\ refresh' = refresh \cup {"check"}
         /\ carried' = IF refresh = {} THEN cookie ELSE carried
  BY <1>1 DEF Tabs!CheckUserSession, Tabs!JoinRefresh
<1>4. \/ queued /\ queued' = FALSE /\ intros' = intros + 1
      \/ UNCHANGED <<queued, intros>>
  BY <1>1 DEF Tabs!PlayIntro
<1>5. location' \in AccessLocations
  BY <1>2, <1>t DEF AccessTypes, AccessLocations, AccessRedirecting, AccessRefusedPage, Tabs!At, Tabs!LoginFor,
                    Tabs!DefaultReturn, Tabs!Protected
<1>6. AccessTypes'
  <2>1. resolved' \in Accounts \cup {None} /\ loading' \in BOOLEAN /\ refresh' \subseteq {"check", "request"}
        /\ carried' \in Accounts \cup {None}
    BY <1>3, <1>t DEF AccessTypes, Tabs!Usable
  <2>2. redirects' \in Nat /\ shown' \in BOOLEAN
    BY <1>2, <1>t DEF AccessTypes
  <2>3. queued' \in BOOLEAN
    <3>1. queued \in BOOLEAN
      BY <1>t DEF AccessTypes
    <3>2. queued' = FALSE \/ queued' = queued
      BY <1>4, Zenon
    <3>3. QED
      BY <3>1, <3>2
  <2>4. intros' \in Nat
    <3>1. intros \in Nat
      BY <1>t DEF AccessTypes
    <3>2. intros' = intros + 1 \/ intros' = intros
      BY <1>4, Zenon
    <3>3. QED
      BY <3>1, <3>2
  <2>5. QED
    BY <1>1, <1>t, <1>5, <2>1, <2>2, <2>3, <2>4 DEF AccessTypes
<1>7. AccessChecked'
  <2>1. CASE "session" \notin due
    BY <1>1, <1>3, <2>1 DEF AccessIInv, AccessChecked, AccessAccount
  <2>2. CASE "session" \in due /\ Tabs!Usable
    <3>1. resolved' = token.account /\ token # None /\ token.fresh /\ token.account # None
      BY <1>3, <2>2, <1>t, AccessNone DEF Tabs!Usable, AccessTypes
    <3>2. QED
      BY <1>1, <3>1 DEF AccessChecked
  <2>3. CASE "session" \in due /\ ~Tabs!Usable
    BY <1>1, <1>3, <2>3 DEF AccessIInv, AccessChecked
  <2>4. QED
    BY <2>1, <2>2, <2>3
<1>8. AccessGuarded'
  <2>1. CASE AccessRedirecting
    <3>1. location'.page # rendered.location.page
      BY <1>2, <2>1, <1>t DEF AccessTypes, AccessLocations, AccessRedirecting, AccessRefusedPage, Tabs!At,
                              Tabs!LoginFor, Tabs!Protected
    <3>2. QED
      BY <1>1, <3>1 DEF AccessGuarded
  <2>2. CASE ~AccessRedirecting
    BY <1>1, <1>2, <2>2 DEF AccessIInv, AccessGuarded, AccessRedirecting, AccessRefusedPage
  <2>3. QED
    BY <2>1, <2>2
<1>9. AccessOnTheWay'
  <2>1. CASE AccessRedirecting
    <3>1. PICK goal \in wanted : AccessLeads(rendered.location, goal)
      BY <2>1 DEF AccessIInv, AccessOnTheWay, AccessRedirecting
    <3>2. location' = IF rendered.location.page = "login" THEN [page |-> rendered.location.returnTo, returnTo |-> "chat"]
                      ELSE [page |-> "login", returnTo |-> rendered.location.page]
      BY <1>2, <2>1 DEF Tabs!At, Tabs!LoginFor, Tabs!DefaultReturn
    <3>3. CASE rendered.location.page = "login"
      <4>1. rendered.location = [page |-> "login", returnTo |-> goal]
        BY <3>1, <3>3 DEF AccessIInv, AccessOnTheWay, AccessLeads, Tabs!LoginFor
      <4>2. location'.page = goal
        BY <3>2, <3>3, <4>1
      <4>3. QED
        BY <1>1, <4>2 DEF AccessIInv, AccessOnTheWay, AccessLeads
    <3>4. CASE rendered.location.page # "login"
      <4>1. rendered.location.page = goal
        BY <3>1, <3>4 DEF AccessLeads, Tabs!LoginFor
      <4>2. location' = Tabs!LoginFor(goal)
        BY <3>2, <3>4, <4>1 DEF Tabs!LoginFor
      <4>3. QED
        BY <1>1, <4>2 DEF AccessIInv, AccessOnTheWay, AccessLeads
    <3>5. QED
      BY <3>3, <3>4
  <2>2. CASE ~AccessRedirecting
    BY <1>1, <1>2, <2>2 DEF AccessIInv, AccessOnTheWay, AccessLeads, Tabs!LoginFor
  <2>3. QED
    BY <2>1, <2>2
<1>10. AccessRefused'
  BY <1>1, <1>3 DEF AccessIInv, AccessRefused
<1>11. AccessBounded'
  <2>1. AccessChanges' = AccessChanges
    <3>1. UNCHANGED <<cookie, token, user, changed>>
      BY <1>1
    <3>2. "request" \in refresh' <=> "request" \in refresh
      BY <1>3
    <3>3. Tabs!Usable => (AccessPending' <=> AccessPending)
      BY <1>1, <1>3, <1>t, AccessNone DEF Tabs!Usable, AccessPending, AccessTypes
    <3>4. Tabs!Usable' <=> Tabs!Usable
      BY <3>1 DEF Tabs!Usable
    <3>5. AccessSettling' <=> AccessSettling
      BY <1>1, <1>3 DEF AccessSettling
    <3>6. ~Tabs!Usable => ("check" \in refresh' \/ AccessPending' <=> "check" \in refresh \/ AccessPending)
      <4>1. ~Tabs!Usable => resolved = None
        BY <1>t DEF AccessIInv, AccessChecked, Tabs!Usable
      <4>2. QED
        BY <1>1, <1>3, <4>1 DEF AccessPending
    <3>7. Tabs!Usable => refresh' = refresh
      BY <1>3
    <3>8. AccessMore' <=> AccessMore
      BY <3>1, <3>2, <3>3, <3>4, <3>6, <3>7 DEF AccessMore
    <3>9. QED
      BY <3>1, <3>3, <3>4, <3>5, <3>8 DEF AccessChanges
  <2>2. AccessChanges \in 0..3
    BY DEF AccessChanges
  <2>3. AccessLeft' = (IF AccessRefusedPage(location', user # None) THEN 1 ELSE 0) + AccessChanges
    BY <1>1, <2>1 DEF AccessLeft, AccessRedirecting, AccessRefusedPage
  <2>4. CASE AccessRedirecting
    <3>1. rendered.authenticated \in BOOLEAN
      BY <1>t DEF AccessTypes
    <3>2. AccessRefusedPage(location', user # None) => ~(rendered.authenticated <=> user # None)
      BY <1>2, <1>t, <2>4 DEF AccessTypes, AccessLocations, AccessRedirecting, AccessRefusedPage, Tabs!At,
                              Tabs!LoginFor, Tabs!Protected
    <3>3. AccessLeft = 1 + (IF rendered.authenticated <=> user # None THEN 0 ELSE 1) + AccessChanges
      BY <2>4 DEF AccessLeft
    <3>4. AccessLeft' + 1 <= AccessLeft
      BY <2>2, <2>3, <3>2, <3>3
    <3>5. redirects' = redirects + 1 /\ redirects \in Nat
      BY <1>2, <1>t, <2>4 DEF AccessTypes
    <3>6. AccessLeft' \in Int /\ AccessLeft \in Int
      BY <2>2, <2>3, <3>3
    <3>7. redirects + AccessLeft <= 4
      BY DEF AccessIInv, AccessBounded
    <3>8. PICK n \in Int : AccessLeft' = n
      BY <3>6
    <3>9. redirects' + n <= 4
      BY <3>4, <3>5, <3>6, <3>7, <3>8
    <3>10. redirects' + AccessLeft' <= 4
      BY <3>8, <3>9, Zenon
    <3>11. QED
      BY <3>10 DEF AccessBounded
  <2>5. CASE ~AccessRedirecting
    <3>1. AccessLeft = (IF AccessRefusedPage(location, user # None) THEN 1 ELSE 0) + AccessChanges
      BY <2>5 DEF AccessLeft
    <3>2. AccessLeft' = AccessLeft /\ redirects' = redirects
      BY <1>2, <2>3, <2>5, <3>1
    <3>3. QED
      BY <3>2 DEF AccessIInv, AccessBounded
  <2>6. QED
    BY <2>4, <2>5
<1>12. Tabs!IntrosFollowLogins'
  BY <1>1, <1>4, <1>t DEF AccessIInv, AccessTypes, Tabs!IntrosFollowLogins
<1>13. QED
  BY <1>6, <1>7, <1>8, <1>9, <1>10, <1>11, <1>12 DEF AccessIInv

\* Where nothing moves, guards and goals stay as they are.
LEMMA AccessStays ==
    ASSUME AccessIInv, UNCHANGED <<location, rendered, due, shown, wanted>>
    PROVE  AccessGuarded' /\ AccessOnTheWay'
<1>1. AccessGuarded'
  BY DEF AccessIInv, AccessGuarded
<1>2. AccessOnTheWay'
  BY DEF AccessIInv, AccessOnTheWay, AccessLeads, Tabs!LoginFor
<1>3. QED
  BY <1>1, <1>2

\* A navigation from the page that is rendered is rendered next.
LEMMA AccessNavigates ==
    ASSUME AccessIInv, rendered.location = location, UNCHANGED <<rendered, due, shown>>,
           due = {} \/ wanted \subseteq wanted', "login" \notin wanted',
           \E goal \in wanted' : AccessLeads(location', goal)
    PROVE  AccessGuarded' /\ AccessOnTheWay'
<1>1. AccessGuarded'
  BY DEF AccessIInv, AccessGuarded
<1>2. AccessOnTheWay'
  <2>1. "guard" \in due => \E goal \in wanted' : AccessLeads(rendered.location, goal)
    BY DEF AccessIInv, AccessOnTheWay
  <2>2. QED
    BY <2>1 DEF AccessOnTheWay, AccessLeads, Tabs!LoginFor
<1>3. QED
  BY <1>1, <1>2

LEMMA AccessNotMore ==
    ASSUME AccessIInv, AccessLeft \in Int, AccessLeft' \in Int, AccessLeft' <= AccessLeft, redirects' = redirects
    PROVE  AccessBounded'
<1>1. redirects \in Nat /\ redirects + AccessLeft <= 4
  BY DEF AccessIInv, AccessTypes, AccessBounded
<1>2. PICK n \in Int : AccessLeft' = n
  OBVIOUS
<1>3. redirects' + n <= 4
  BY <1>1, <1>2
<1>4. redirects' + AccessLeft' <= 4
  BY <1>2, <1>3, Zenon
<1>5. QED
  BY <1>4 DEF AccessBounded

\* While the tab stays where it is, fewer changes of the user state are to come
\* after each of them.
LEMMA AccessUserChanges ==
    ASSUME AccessIInv, UNCHANGED <<location, rendered, due, redirects>>,
           AccessChanges' <= AccessChanges,
           (user' # None <=> user # None) \/ AccessChanges' + 1 <= AccessChanges
    PROVE  AccessBounded'
<1>1. PICK n \in 0..3 : AccessChanges = n
  BY DEF AccessChanges
<1>2. PICK m \in 0..3 : AccessChanges' = m
  BY DEF AccessChanges
<1>3. m <= n /\ ((user' # None <=> user # None) \/ m + 1 <= n)
  BY <1>1, <1>2
<1>4. CASE AccessRedirecting
  <2>1. AccessLeft = 1 + (IF rendered.authenticated <=> user # None THEN 0 ELSE 1) + n
    BY <1>1, <1>4 DEF AccessLeft
  <2>2. AccessRedirecting'
    BY <1>4 DEF AccessRedirecting, AccessRefusedPage
  <2>3. AccessLeft' = 1 + (IF rendered.authenticated <=> user' # None THEN 0 ELSE 1) + m
    BY <1>2, <2>2 DEF AccessLeft
  <2>4. AccessLeft \in Int /\ AccessLeft' \in Int /\ AccessLeft' <= AccessLeft
    BY <1>3, <2>1, <2>3
  <2>5. QED
    BY <2>4, AccessNotMore
<1>5. CASE ~AccessRedirecting
  <2>1. AccessLeft = (IF AccessRefusedPage(location, user # None) THEN 1 ELSE 0) + n
    BY <1>1, <1>5 DEF AccessLeft
  <2>2. ~AccessRedirecting'
    BY <1>5 DEF AccessRedirecting, AccessRefusedPage
  <2>3. AccessLeft' = (IF AccessRefusedPage(location, user' # None) THEN 1 ELSE 0) + m
    BY <1>2, <2>2 DEF AccessLeft, AccessRefusedPage
  <2>4. AccessLeft \in Int /\ AccessLeft' \in Int /\ AccessLeft' <= AccessLeft
    BY <1>3, <2>1, <2>3 DEF AccessRefusedPage
  <2>5. QED
    BY <2>4, AccessNotMore
<1>6. QED
  BY <1>4, <1>5

LEMMA AccessCheckReacts == AccessIInv /\ Tabs!Checked => AccessIInv'
<1> SUFFICES ASSUME AccessIInv, Tabs!Checked PROVE AccessIInv'
  OBVIOUS
<1>t. AccessTypes
  BY DEF AccessIInv
<1>1. /\ resolved # None /\ user' = resolved /\ loading' = FALSE /\ resolved' = None
      /\ UNCHANGED <<token, changed, refresh, carried, cookie, location, rendered, due, shown, posts,
                     queued, wanted, redirects, logins, intros>>
  BY DEF Tabs!Checked, Tabs!pages, Tabs!history
<1>2. AccessTypes'
  BY <1>1, <1>t DEF AccessTypes
<1>3. AccessChecked'
  BY <1>1 DEF AccessIInv, AccessChecked, AccessAccount
<1>4. AccessRefused'
  BY <1>1 DEF AccessRefused
<1>5. AccessBounded'
  <2>1. Tabs!Usable
    BY <1>1 DEF AccessIInv, AccessChecked, Tabs!Usable
  <2>2. /\ Tabs!Usable' /\ AccessPending /\ (AccessSettling' <=> AccessSettling)
        /\ AccessMore' <=> AccessMore
    BY <1>1, <2>1 DEF AccessPending, AccessSettling, AccessMore, Tabs!Usable
  <2>3. user' # None
    BY <1>1
  <2>4. AccessChanges' <= AccessChanges
    BY <2>1, <2>2, <2>3 DEF AccessChanges
  <2>5. user = None => AccessChanges' + 1 <= AccessChanges
    BY <2>1, <2>2, <2>3 DEF AccessChanges
  <2>6. QED
    BY <1>1, <2>3, <2>4, <2>5, AccessUserChanges
<1>6. Tabs!IntrosFollowLogins'
  BY <1>1 DEF AccessIInv, Tabs!IntrosFollowLogins
<1>7. QED
  BY <1>1, <1>2, <1>3, <1>4, <1>5, <1>6, AccessStays DEF AccessIInv

\* A refresh sent with a cookie ends in a login, and another check follows it.
LEMMA AccessRefreshes == AccessIInv /\ Tabs!RefreshSucceeds => AccessIInv'
<1> SUFFICES ASSUME AccessIInv, Tabs!RefreshSucceeds PROVE AccessIInv'
  OBVIOUS
<1>t. AccessTypes
  BY DEF AccessIInv
<1>1. /\ resolved = None /\ refresh # {} /\ carried # None
      /\ refresh' = {} /\ carried' = None /\ cookie' = carried /\ token' = [account |-> carried, fresh |-> TRUE]
      /\ UNCHANGED <<resolved, location, rendered, due, shown, posts, queued,
                     wanted, redirects, logins, intros>>
  BY DEF Tabs!RefreshSucceeds, Tabs!Idle, Tabs!SetJwt, Tabs!Fresh, Tabs!pages, Tabs!history
<1>2. (user' = carried /\ loading' = FALSE) \/ UNCHANGED <<user, loading>>
  BY DEF Tabs!RefreshSucceeds
<1>3. changed' /\ changed' \in BOOLEAN
  <2>1. Tabs!Fresh(carried) # None
    BY <1>1, <1>t, AccessNone DEF Tabs!Fresh, AccessTypes
  <2>2. changed' = (changed \/ Tabs!Fresh(carried) # None \/ token # None)
    BY DEF Tabs!RefreshSucceeds, Tabs!SetJwt
  <2>3. QED
    BY <2>1, <2>2
<1>4. AccessTypes'
  BY <1>1, <1>2, <1>3, <1>t DEF AccessTypes
<1>5. AccessChecked'
  BY <1>1, <1>3 DEF AccessChecked
<1>6. AccessRefused'
  BY <1>1 DEF AccessRefused
<1>7. AccessBounded'
  <2>1. AccessChanges' <= AccessChanges
    BY <1>1, <1>2 DEF AccessChanges, AccessSettling
  <2>2. (user' # None <=> user # None) \/ AccessChanges' + 1 <= AccessChanges
    BY <1>1, <1>2 DEF AccessChanges, AccessSettling
  <2>3. QED
    BY <1>1, <2>1, <2>2, AccessUserChanges
<1>8. Tabs!IntrosFollowLogins'
  BY <1>1 DEF AccessIInv, Tabs!IntrosFollowLogins
<1>9. QED
  BY <1>1, <1>4, <1>5, <1>6, <1>7, <1>8, AccessStays DEF AccessIInv

\* Without one it ends in a logout: what was to follow a fresh token is over, a
\* refused request leads to the login page, and a cookie that came meanwhile leads
\* to a login again.
LEMMA AccessRefreshFails == AccessIInv /\ Tabs!RefreshFails => AccessIInv'
<1> SUFFICES ASSUME AccessIInv, Tabs!RefreshFails PROVE AccessIInv'
  OBVIOUS
<1>t. AccessTypes
  BY DEF AccessIInv
<1>1. /\ refresh # {} /\ refresh' = {} /\ carried' = None /\ token' = None
      /\ UNCHANGED <<resolved, cookie, rendered, due, shown, posts, queued, logins, intros>>
      /\ resolved = None /\ rendered.location = location
      /\ \/ carried = None /\ redirects' = redirects
         \/ carried # None /\ redirects' = 0
  BY DEF Tabs!RefreshFails, Tabs!Event, Tabs!Idle, Tabs!SetJwt, Tabs!LogoutAndRedirect
<1>2. changed' \in BOOLEAN /\ (~changed' => ~changed /\ token = None)
  <2>1. Tabs!SetJwt(None)
    BY DEF Tabs!RefreshFails, Tabs!LogoutAndRedirect
  <2>2. changed' = (changed \/ None # None \/ token # None)
    BY <2>1 DEF Tabs!SetJwt
  <2>3. QED
    BY <2>2
<1>3. \/ "check" \in refresh /\ user' = None /\ loading' = FALSE
      \/ "check" \notin refresh /\ UNCHANGED <<user, loading>>
  BY DEF Tabs!RefreshFails
<1>4. \/ /\ "request" \in refresh
         /\ location' = [page |-> "login", returnTo |-> "chat"] /\ wanted' = wanted \cup {"chat"}
      \/ "request" \notin refresh /\ UNCHANGED <<location, wanted>>
  BY DEF Tabs!RefreshFails, Tabs!LogoutAndRedirect, Tabs!At, Tabs!DefaultReturn
<1>5. location' \in AccessLocations
  BY <1>4, <1>t DEF AccessTypes, AccessLocations, Tabs!Protected
<1>6. AccessTypes'
  <2>1. redirects' \in Nat
    BY <1>1, <1>t DEF AccessTypes
  <2>2. QED
    BY <1>1, <1>2, <1>3, <1>5, <1>t, <2>1 DEF AccessTypes
<1>7. AccessChecked'
  BY <1>1, <1>2, <1>3 DEF AccessIInv, AccessChecked, AccessAccount
<1>8. AccessGuarded' /\ AccessOnTheWay'
  <2>1. CASE "request" \in refresh
    <3>1. AccessLeads(location', "chat") /\ "chat" \in wanted'
      BY <1>4, <2>1 DEF AccessLeads, Tabs!LoginFor
    <3>2. "login" \notin wanted' /\ wanted \subseteq wanted'
      BY <1>4, <2>1 DEF AccessIInv, AccessOnTheWay
    <3>3. QED
      BY <1>1, <3>1, <3>2, AccessNavigates
  <2>2. CASE "request" \notin refresh
    BY <1>1, <1>4, <2>2, AccessStays
  <2>3. QED
    BY <2>1, <2>2
<1>9. AccessRefused'
  BY <1>1 DEF AccessRefused
<1>10. AccessBounded'
  <2>1. CASE carried # None
    BY <1>1, <1>6, <1>9, <2>1, AccessEventCounts
  <2>2. CASE carried = None
    <3>1. AccessChanges' = IF cookie # None THEN IF user' # None THEN 0 ELSE 1 ELSE IF user' # None THEN 1 ELSE 0
      BY <1>1 DEF AccessChanges, AccessSettling, AccessMore, Tabs!Usable
    <3>2. AccessChanges \in 0..3
      BY DEF AccessChanges
    <3>3. /\ user # None => AccessChanges = IF AccessMore THEN 2 ELSE 1
          /\ user = None /\ cookie # None => AccessChanges >= 1
      BY <1>1, <2>2 DEF AccessChanges, AccessSettling
    <3>4. /\ cookie = None => (AccessMore <=> "request" \in refresh)
          /\ cookie # None /\ "check" \in refresh => AccessMore
      BY DEF AccessMore
    <3>5. AccessLeft \in Int /\ AccessLeft' \in Int
      BY <3>1, <3>2 DEF AccessLeft
    <3>6. AccessRedirecting' <=> AccessRedirecting
      BY <1>1 DEF AccessRedirecting, AccessRefusedPage
    <3>7. AccessLeft' <= AccessLeft
      <4>1. CASE AccessRedirecting
        <5>1. PICK n \in 0..3 : AccessChanges = n
          BY <3>2
        <5>2. AccessLeft = 1 + (IF rendered.authenticated <=> user # None THEN 0 ELSE 1) + n
          BY <4>1, <5>1 DEF AccessLeft
        <5>3. PICK m \in 0..1 : AccessChanges' = m
          BY <3>1
        <5>4. AccessLeft' = 1 + (IF rendered.authenticated <=> user' # None THEN 0 ELSE 1) + m
          BY <1>1, <3>6, <4>1, <5>3 DEF AccessLeft
        <5>5. m <= n /\ ((user' # None <=> user # None) \/ m + 1 <= n)
          BY <1>3, <3>1, <3>3, <3>4, <5>1, <5>3
        <5>6. QED
          BY <5>2, <5>4, <5>5
      <4>2. CASE ~AccessRedirecting /\ "request" \in refresh
        <5>1. AccessLeft' = IF cookie # None THEN 1 ELSE IF user' # None THEN 2 ELSE 0
          BY <1>4, <3>1, <3>6, <4>2 DEF AccessLeft, AccessRefusedPage, Tabs!Protected
        <5>2. AccessLeft = (IF AccessRefusedPage(location, user # None) THEN 1 ELSE 0) + AccessChanges
          BY <4>2 DEF AccessLeft
        <5>3. QED
          BY <1>3, <3>2, <3>3, <3>4, <4>2, <5>1, <5>2
      <4>3. CASE ~AccessRedirecting /\ "request" \notin refresh
        <5>1. "check" \in refresh /\ user' = None
          <6>1. refresh \subseteq {"check", "request"}
            BY <1>t DEF AccessTypes
          <6>2. QED
            BY <1>1, <1>3, <4>3, <6>1
        <5>2. AccessLeft' = (IF location.page \in Tabs!Protected THEN 1 ELSE 0) + (IF cookie # None THEN 1 ELSE 0)
          BY <1>4, <3>1, <3>6, <4>3, <5>1 DEF AccessLeft, AccessRefusedPage
        <5>3. user # None => AccessChanges >= IF cookie # None THEN 2 ELSE 1
          BY <3>3, <3>4, <5>1
        <5>4. AccessLeft = (IF AccessRefusedPage(location, user # None) THEN 1 ELSE 0) + AccessChanges
          BY <4>3 DEF AccessLeft
        <5>5. QED
          BY <3>2, <3>3, <5>2, <5>3, <5>4 DEF AccessRefusedPage
      <4>4. QED
        BY <4>1, <4>2, <4>3
    <3>8. QED
      BY <1>1, <2>2, <3>5, <3>7, AccessNotMore
  <2>3. QED
    BY <2>1, <2>2
<1>11. Tabs!IntrosFollowLogins'
  BY <1>1 DEF AccessIInv, Tabs!IntrosFollowLogins
<1>12. QED
  BY <1>6, <1>7, <1>8, <1>9, <1>10, <1>11 DEF AccessIInv

LEMMA AccessUnauthorized == AccessIInv /\ Tabs!Unauthorized => AccessIInv'
<1> SUFFICES ASSUME AccessIInv, Tabs!Unauthorized PROVE AccessIInv'
  OBVIOUS
<1>1. /\ redirects' = 0 /\ refresh' = refresh \cup {"request"} /\ rendered.location.page \in Tabs!Protected
      /\ carried' = IF refresh = {} THEN cookie ELSE carried
      /\ UNCHANGED <<token, changed, user, loading, resolved, cookie, location, rendered, due, shown,
                     posts, queued, wanted, logins, intros>>
  BY DEF Tabs!Unauthorized, Tabs!JoinRefresh, Tabs!Event, Tabs!pages
<1>2. AccessTypes'
  BY <1>1 DEF AccessIInv, AccessTypes
<1>3. AccessRefused'
  BY <1>1 DEF AccessIInv, AccessRefused
<1>4. AccessChecked'
  BY <1>1 DEF AccessIInv, AccessChecked, AccessAccount
<1>5. Tabs!IntrosFollowLogins'
  BY <1>1 DEF AccessIInv, Tabs!IntrosFollowLogins
<1>6. QED
  BY <1>1, <1>2, <1>3, <1>4, <1>5, AccessEventCounts, AccessStays DEF AccessIInv

LEMMA AccessResent == AccessIInv /\ Tabs!Resent => AccessIInv'
<1> SUFFICES ASSUME AccessIInv, Tabs!Resent PROVE AccessIInv'
  OBVIOUS
<1>1. /\ resolved = None /\ rendered.location = location
      /\ UNCHANGED <<user, loading, resolved, refresh, carried, cookie, rendered, due, shown, posts, queued,
                     logins, intros>>
  BY DEF Tabs!Resent, Tabs!Event, Tabs!Idle
<1>2. CASE UNCHANGED <<token, changed, location, wanted, redirects>>
  <2>1. AccessTypes' /\ AccessRefused' /\ AccessChecked' /\ Tabs!IntrosFollowLogins'
    BY <1>1, <1>2 DEF AccessIInv, AccessTypes, AccessRefused, AccessChecked, AccessAccount,
                      Tabs!IntrosFollowLogins
  <2>2. AccessBounded'
    BY <1>1, <1>2 DEF AccessIInv, AccessBounded, AccessLeft, AccessRedirecting, AccessRefusedPage,
                      AccessChanges, AccessSettling, AccessMore, AccessPending, Tabs!Usable
  <2>3. QED
    BY <1>1, <1>2, <2>1, <2>2, AccessStays DEF AccessIInv
<1>3. CASE Tabs!Event /\ Tabs!LogoutAndRedirect
  <2>1. /\ redirects' = 0 /\ token' = None /\ location' = [page |-> "login", returnTo |-> "chat"]
        /\ wanted' = wanted \cup {"chat"}
        /\ changed' = (changed \/ None # None \/ token # None)
    BY <1>3 DEF Tabs!Event, Tabs!LogoutAndRedirect, Tabs!SetJwt, Tabs!At, Tabs!DefaultReturn
  <2>2. changed' \in BOOLEAN /\ (~changed' => ~changed /\ token = None)
    BY <2>1
  <2>3. location' \in AccessLocations
    BY <2>1 DEF AccessLocations, Tabs!Protected
  <2>4. AccessTypes'
    BY <1>1, <2>1, <2>2, <2>3 DEF AccessIInv, AccessTypes
  <2>5. AccessRefused'
    BY <1>1 DEF AccessIInv, AccessRefused
  <2>6. AccessChecked'
    BY <1>1, <2>1, <2>2 DEF AccessIInv, AccessChecked, AccessAccount
  <2>7. AccessGuarded' /\ AccessOnTheWay'
    <3>1. AccessLeads(location', "chat") /\ "chat" \in wanted'
      BY <2>1 DEF AccessLeads, Tabs!LoginFor
    <3>2. "login" \notin wanted' /\ wanted \subseteq wanted'
      BY <2>1 DEF AccessIInv, AccessOnTheWay
    <3>3. QED
      BY <1>1, <3>1, <3>2, AccessNavigates
  <2>8. Tabs!IntrosFollowLogins'
    BY <1>1 DEF AccessIInv, Tabs!IntrosFollowLogins
  <2>9. QED
    BY <2>1, <2>4, <2>5, <2>6, <2>7, <2>8, AccessEventCounts DEF AccessIInv
<1>4. QED
  BY <1>2, <1>3 DEF Tabs!Resent

LEMMA AccessExpire == AccessIInv /\ Tabs!Expire => AccessIInv'
<1> SUFFICES ASSUME AccessIInv, Tabs!Expire PROVE AccessIInv'
  OBVIOUS
<1>t. AccessTypes
  BY DEF AccessIInv
<1>1. /\ redirects' = 0 /\ resolved = None
      /\ UNCHANGED <<changed, user, loading, resolved, refresh, carried, location, rendered, due, shown,
                     posts, queued, wanted, logins, intros>>
  BY DEF Tabs!Expire, Tabs!Event, Tabs!Idle, Tabs!pages
<1>2. /\ cookie' \in Accounts \cup {None} /\ AccessAccount' = AccessAccount
      /\ token' = None \/ token' \in [account : Accounts, fresh : BOOLEAN]
  <2>1. CASE token # None /\ token' = [token EXCEPT !.fresh = FALSE] /\ UNCHANGED cookie
    <3>1. token' = [account |-> token.account, fresh |-> FALSE] /\ token.account \in Accounts
      BY <1>t, <2>1 DEF AccessTypes
    <3>2. token' # None
      BY <3>1, AccessNone
    <3>3. QED
      BY <1>t, <2>1, <3>1, <3>2 DEF AccessTypes, AccessAccount
  <2>2. CASE cookie' = None /\ UNCHANGED token
    BY <1>t, <2>2 DEF AccessTypes, AccessAccount
  <2>3. QED
    BY <2>1, <2>2 DEF Tabs!Expire
<1>3. AccessTypes'
  BY <1>1, <1>2, <1>t DEF AccessTypes
<1>4. AccessRefused'
  BY <1>1 DEF AccessIInv, AccessRefused
<1>5. AccessChecked'
  BY <1>1, <1>2 DEF AccessIInv, AccessChecked
<1>6. Tabs!IntrosFollowLogins'
  BY <1>1 DEF AccessIInv, Tabs!IntrosFollowLogins
<1>7. QED
  BY <1>1, <1>3, <1>4, <1>5, <1>6, AccessEventCounts, AccessStays DEF AccessIInv

LEMMA AccessOtherTab == AccessIInv /\ Tabs!OtherTab => AccessIInv'
<1> SUFFICES ASSUME AccessIInv, Tabs!OtherTab PROVE AccessIInv'
  OBVIOUS
<1>t. AccessTypes
  BY DEF AccessIInv
<1>1. /\ redirects' = 0 /\ resolved = None
      /\ UNCHANGED <<user, loading, resolved, refresh, carried, location, rendered, due, shown,
                     posts, queued, wanted, logins, intros>>
  BY DEF Tabs!OtherTab, Tabs!Event, Tabs!Idle, Tabs!pages
<1> DEFINE replaced == /\ cookie' \in Accounts \cup {None} /\ changed' /\ changed' \in BOOLEAN
                       /\ token' = None \/ token' \in [account : Accounts, fresh : BOOLEAN]
<1>2. replaced
  <2>1. ASSUME NEW a \in Accounts, Tabs!SetJwt(Tabs!Fresh(a)), cookie' = a PROVE replaced
    <3>1. Tabs!Fresh(a) \in [account : Accounts, fresh : BOOLEAN]
      BY DEF Tabs!Fresh
    <3>2. token' = Tabs!Fresh(a) /\ token' # None /\ changed' = (changed \/ Tabs!Fresh(a) # None \/ token # None)
      BY <2>1, <3>1, AccessNone DEF Tabs!SetJwt
    <3>3. QED
      BY <2>1, <3>1, <3>2
  <2>2. CASE token # None /\ Tabs!SetJwt(None) /\ UNCHANGED cookie
    BY <1>t, <2>2 DEF Tabs!SetJwt, AccessTypes
  <2>3. QED
    BY <2>1, <2>2 DEF Tabs!OtherTab
<1>3. AccessTypes'
  BY <1>1, <1>2, <1>t DEF AccessTypes
<1>4. AccessRefused'
  BY <1>1 DEF AccessIInv, AccessRefused
<1>5. AccessChecked'
  BY <1>1, <1>2 DEF AccessIInv, AccessChecked
<1>6. Tabs!IntrosFollowLogins'
  BY <1>1 DEF AccessIInv, Tabs!IntrosFollowLogins
<1>7. QED
  BY <1>1, <1>3, <1>4, <1>5, <1>6, AccessEventCounts, AccessStays DEF AccessIInv

LEMMA AccessGo ==
    ASSUME AccessIInv, NEW to \in Tabs!Protected \cup {"landing", "login"}, Tabs!Go(to)
    PROVE  AccessIInv'
<1>1. /\ redirects' = 0 /\ rendered.location = location /\ due = {}
      /\ location' = [page |-> to, returnTo |-> "chat"]
      /\ wanted' = {IF to = "login" THEN "chat" ELSE to}
      /\ UNCHANGED <<token, changed, user, loading, resolved, refresh, carried, cookie, rendered, due, shown,
                     posts, queued, logins, intros>>
  BY DEF Tabs!Go, Tabs!Event, Tabs!Idle, Tabs!session, Tabs!At, Tabs!DefaultReturn
<1>2. location' \in AccessLocations
  BY <1>1 DEF AccessLocations, Tabs!Protected
<1>3. AccessTypes'
  BY <1>1, <1>2 DEF AccessIInv, AccessTypes
<1>4. AccessRefused'
  BY <1>1 DEF AccessIInv, AccessRefused
<1>5. AccessChecked'
  BY <1>1 DEF AccessIInv, AccessChecked, AccessAccount
<1>6. Tabs!IntrosFollowLogins'
  BY <1>1 DEF AccessIInv, Tabs!IntrosFollowLogins
<1>7. \E goal \in wanted' : AccessLeads(location', goal)
  BY <1>1 DEF AccessLeads, Tabs!LoginFor
<1>8. "login" \notin wanted'
  BY <1>1
<1>9. AccessGuarded' /\ AccessOnTheWay'
  BY <1>1, <1>7, <1>8, AccessNavigates
<1>10. QED
  BY <1>1, <1>3, <1>4, <1>5, <1>6, <1>9, AccessEventCounts DEF AccessIInv

LEMMA AccessSubmit ==
    ASSUME AccessIInv, NEW account \in Accounts, Tabs!Submit(account)
    PROVE  AccessIInv'
<1>1. /\ redirects' = 0
      /\ posts' = posts \cup {[account |-> account, returnTo |-> rendered.location.returnTo]}
      /\ UNCHANGED <<token, changed, user, loading, resolved, refresh, carried, cookie, location, rendered, due,
                     shown, queued, wanted, logins, intros>>
  BY DEF Tabs!Submit, Tabs!Event, Tabs!session, Tabs!pages
<1>2. rendered.location.returnTo \in Tabs!Protected
  BY DEF AccessIInv, AccessTypes, AccessLocations
<1>3. AccessTypes'
  BY <1>1, <1>2 DEF AccessIInv, AccessTypes
<1>4. AccessRefused'
  BY <1>1 DEF AccessIInv, AccessRefused
<1>5. AccessChecked'
  BY <1>1 DEF AccessIInv, AccessChecked, AccessAccount
<1>6. Tabs!IntrosFollowLogins'
  BY <1>1 DEF AccessIInv, Tabs!IntrosFollowLogins
<1>7. QED
  BY <1>1, <1>3, <1>4, <1>5, <1>6, AccessEventCounts, AccessStays DEF AccessIInv

LEMMA AccessReload == AccessIInv /\ Tabs!Reload => AccessIInv'
<1> SUFFICES ASSUME AccessIInv, Tabs!Reload PROVE AccessIInv'
  OBVIOUS
<1>t. AccessTypes
  BY DEF AccessIInv
<1>1. /\ redirects' = 0 /\ resolved = None
      /\ user' = None /\ loading' = TRUE /\ changed' = FALSE /\ refresh' = {} /\ carried' = None
      /\ rendered' = [location |-> location, authenticated |-> FALSE, loading |-> TRUE]
      /\ due' = {"guard", "intro", "session"} /\ shown' = FALSE /\ posts' = {}
      /\ cookie' \in {cookie} \cup ({carried} \ {None}) \cup {p.account : p \in posts}
      /\ UNCHANGED <<token, resolved, location, queued, wanted, logins, intros>>
  BY DEF Tabs!Reload, Tabs!Event, Tabs!Idle
<1>2. cookie' \in Accounts \cup {None}
  BY <1>1, <1>t DEF AccessTypes
<1>3. rendered' \in [location : AccessLocations, authenticated : BOOLEAN, loading : BOOLEAN]
  BY <1>1, <1>t DEF AccessTypes
<1>4. AccessTypes'
  BY <1>1, <1>2, <1>3, <1>t DEF AccessTypes
<1>5. AccessRefused' /\ AccessGuarded' /\ AccessChecked'
  BY <1>1 DEF AccessRefused, AccessGuarded, AccessChecked
<1>6. AccessOnTheWay'
  BY <1>1 DEF AccessIInv, AccessOnTheWay, AccessLeads, Tabs!LoginFor
<1>7. Tabs!IntrosFollowLogins'
  BY <1>1 DEF AccessIInv, Tabs!IntrosFollowLogins
<1>8. QED
  BY <1>1, <1>4, <1>5, <1>6, <1>7, AccessEventCounts DEF AccessIInv

\* A login leads where it was sent from.
LEMMA AccessLogin ==
    ASSUME AccessIInv, NEW p \in posts, Tabs!LoginSucceeds(p)
    PROVE  AccessIInv'
<1>t. AccessTypes
  BY DEF AccessIInv
<1>1. /\ redirects' = 0 /\ resolved = None /\ rendered.location = location
      /\ posts' = posts \ {p} /\ cookie' = p.account /\ token' = [account |-> p.account, fresh |-> TRUE]
      /\ queued' = TRUE /\ logins' = logins + 1
      /\ location' = [page |-> p.returnTo, returnTo |-> "chat"] /\ wanted' = wanted \cup {p.returnTo}
      /\ UNCHANGED <<user, loading, resolved, refresh, carried, rendered, due, shown, intros>>
  BY DEF Tabs!LoginSucceeds, Tabs!Idle, Tabs!SetJwt, Tabs!Fresh, Tabs!At, Tabs!DefaultReturn
<1>2. p.account \in Accounts /\ p.returnTo \in Tabs!Protected
  BY <1>t DEF AccessTypes
<1>3. token' \in [account : Accounts, fresh : BOOLEAN]
  BY <1>1, <1>2
<1>4. changed' /\ changed' \in BOOLEAN
  <2>1. Tabs!Fresh(p.account) # None
    BY <1>2, AccessNone DEF Tabs!Fresh
  <2>2. changed' = (changed \/ Tabs!Fresh(p.account) # None \/ token # None)
    BY DEF Tabs!LoginSucceeds, Tabs!SetJwt
  <2>3. QED
    BY <2>1, <2>2
<1>5. location' \in AccessLocations
  BY <1>1, <1>2 DEF AccessLocations, Tabs!Protected
<1>6. AccessTypes'
  BY <1>1, <1>2, <1>3, <1>4, <1>5, <1>t DEF AccessTypes
<1>7. AccessRefused'
  BY <1>1 DEF AccessIInv, AccessRefused
<1>8. AccessChecked'
  BY <1>1, <1>4 DEF AccessChecked
<1>9. AccessGuarded' /\ AccessOnTheWay'
  <2>1. AccessLeads(location', p.returnTo) /\ p.returnTo \in wanted'
    BY <1>1 DEF AccessLeads
  <2>2. "login" \notin wanted' /\ wanted \subseteq wanted'
    BY <1>1, <1>2 DEF AccessIInv, AccessOnTheWay, Tabs!Protected
  <2>3. QED
    BY <1>1, <2>1, <2>2, AccessNavigates
<1>10. Tabs!IntrosFollowLogins'
  <2>1. intros <= logins /\ intros \in Nat /\ logins \in Nat
    BY <1>t DEF AccessIInv, AccessTypes, Tabs!IntrosFollowLogins
  <2>2. QED
    BY <1>1, <2>1 DEF Tabs!IntrosFollowLogins
<1>11. QED
  BY <1>1, <1>6, <1>7, <1>8, <1>9, <1>10, AccessEventCounts DEF AccessIInv

\* The steps that leave everything but a login under way and the intro alone.
LEMMA AccessElse ==
    ASSUME AccessIInv, posts' \subseteq posts, due' = due \/ (due = {} /\ due' = {"intro"}),
           UNCHANGED <<token, changed, user, loading, resolved, refresh, carried, cookie, location, rendered,
                       shown, queued, wanted, redirects, logins, intros>>
    PROVE  AccessIInv'
<1>1. AccessTypes' /\ Tabs!IntrosFollowLogins'
  BY DEF AccessIInv, AccessTypes, Tabs!IntrosFollowLogins
<1>2. "guard" \in due' <=> "guard" \in due
  OBVIOUS
<1>3. "session" \in due' <=> "session" \in due
  OBVIOUS
<1>4. AccessChecked' /\ AccessGuarded' /\ AccessOnTheWay' /\ AccessRefused'
  BY <1>2, <1>3 DEF AccessIInv, AccessChecked, AccessAccount, AccessGuarded, AccessOnTheWay, AccessLeads,
                    AccessRefused, Tabs!LoginFor
<1>5. AccessBounded'
  <2>1. AccessChanges' = AccessChanges
    BY <1>3 DEF AccessChanges, AccessSettling, AccessMore, AccessPending, Tabs!Usable
  <2>2. AccessRedirecting' <=> AccessRedirecting
    BY <1>2 DEF AccessRedirecting, AccessRefusedPage
  <2>3. AccessLeft' = AccessLeft
    BY <2>1, <2>2 DEF AccessLeft, AccessRefusedPage
  <2>4. QED
    BY <2>3 DEF AccessIInv, AccessBounded
<1>6. QED
  BY <1>1, <1>4, <1>5 DEF AccessIInv

LEMMA AccessStep == AccessIInv /\ [Tabs!Next]_Tabs!vars => AccessIInv'
<1> SUFFICES ASSUME AccessIInv, [Tabs!Next]_Tabs!vars PROVE AccessIInv'
  OBVIOUS
<1>1. CASE Tabs!Render \/ Tabs!RunEffects \/ Tabs!Checked
  BY <1>1, AccessRender, AccessRunEffects, AccessCheckReacts
<1>2. CASE Tabs!Unauthorized \/ Tabs!Refreshed \/ Tabs!Resent \/ Tabs!Expire \/ Tabs!OtherTab
  BY <1>2, AccessUnauthorized, AccessRefreshes, AccessRefreshFails, AccessResent, AccessExpire, AccessOtherTab
     DEF Tabs!Refreshed
<1>3. CASE Tabs!User
  BY <1>3, AccessGo, AccessSubmit, AccessReload DEF Tabs!User
<1>4. CASE Tabs!IntroEnds
  BY <1>4, AccessElse DEF Tabs!IntroEnds, Tabs!session, Tabs!history
<1>5. ASSUME NEW p \in posts, Tabs!LoginSucceeds(p) PROVE AccessIInv'
  BY <1>5, AccessLogin
<1>6. ASSUME NEW p \in posts, Tabs!LoginFails(p) PROVE AccessIInv'
  BY <1>6, AccessElse DEF Tabs!LoginFails, Tabs!session, Tabs!pages, Tabs!history
<1>7. CASE UNCHANGED Tabs!vars
  BY <1>7, AccessElse DEF Tabs!vars, Tabs!session, Tabs!pages, Tabs!history
<1>8. QED
  BY <1>1, <1>2, <1>3, <1>4, <1>5, <1>6, <1>7 DEF Tabs!Next

LEMMA AccessShows == AccessIInv => Tabs!AccessSettles
<1> SUFFICES ASSUME AccessIInv PROVE Tabs!AccessSettles
  OBVIOUS
<1>1. Tabs!UserIsOfToken
  BY DEF AccessIInv, AccessChecked, AccessAccount, Tabs!UserIsOfToken, Tabs!Quiet
<1>2. ASSUME Tabs!Quiet
      PROVE  /\ rendered.location = location /\ rendered.loading = loading
             /\ rendered.authenticated <=> user # None
             /\ "guard" \notin due /\ ~loading
  <2>1. (user # None) \in BOOLEAN
    OBVIOUS
  <2>2. rendered = [location |-> location, authenticated |-> user # None, loading |-> loading]
    BY <1>2 DEF Tabs!Quiet, Tabs!View
  <2>3. QED
    BY <1>1, <1>2, <2>1, <2>2 DEF Tabs!UserIsOfToken, Tabs!Quiet
<1>3. Tabs!PageIsAllowed
  BY <1>2 DEF AccessIInv, AccessGuarded, Tabs!PageIsAllowed, Tabs!Protected
<1>4. Tabs!WantedIsReached
  BY DEF AccessIInv, AccessOnTheWay, AccessLeads, Tabs!WantedIsReached
<1>5. Tabs!RedirectsEnd
  <2>1. AccessLeft \in 0..4 /\ redirects \in Nat /\ redirects + AccessLeft <= 4
    BY AccessFewLeft DEF AccessIInv, AccessBounded, AccessTypes
  <2>2. QED
    BY <2>1 DEF Tabs!RedirectsEnd
<1>6. QED
  BY <1>1, <1>3, <1>4, <1>5 DEF AccessIInv, Tabs!AccessSettles


-----------------------------------------------------------------------------
(* StatusSummary                                                           *)

SummaryStates == {"monitoring", "operational", "degraded", "outage"}
SummaryStatus ==
    [state : SummaryStates, since : Nat \cup {None}, checked : Nat \cup {None},
     failed : Nat \cup {None}, failures : Nat, origin : Summary!Origins \cup {None}]
SummaryRecording ==
    [key : Services, outcome : Summary!Outcomes, origin : Summary!Origins, last : BOOLEAN,
     stored : BOOLEAN, previous : SummaryStatus \cup {None}, saved : BOOLEAN]

\* A record of the service, of time i, failed.
SummaryFails(log, key, i) == \E a \in log : a.at = i /\ a.key = key /\ a.outcome # "succeeded"

\* Since the record of time i all records of the service failed, up to time n.
SummaryFailing(log, key, i, n) ==
    /\ i \in 1..n /\ SummaryFails(log, key, i)
    /\ \A a \in log : a.key = key /\ a.at \in i..n => a.outcome # "succeeded"

\* A service that is down says since which failure.
SummaryExplains(log, key, status) ==
    /\ Summary!IsDown(status) <=> status.since # None
    /\ status.since # None => SummaryFails(log, key, status.since)

\* After a record whose status was stored and that no earlier one's replaced, the
\* status is that of the same record or of a later one.
SummaryFollows(log, followed, st) ==
    /\ \A n \in followed : \E a \in log : a.at = n
    /\ \A a \in log : a.at \in followed =>
          \E b \in log : /\ b.key = a.key /\ b.at >= a.at
                         /\ Summary!IsDown(st[a.key]) <=> b.outcome # "succeeded"

SummaryStatuses(log, st, followed) ==
    /\ st \in [Services -> SummaryStatus]
    /\ \A key \in Services : SummaryExplains(log, key, st[key])
    /\ SummaryFollows(log, followed, st)

SummaryCalls ==
    /\ recordings \in Seq(SummaryRecording)
    /\ \A n \in 1..Len(recordings) :
          recordings[n].previous # None =>
              SummaryExplains(Summary!Audits, recordings[n].key, recordings[n].previous)

SummaryRead ==
    /\ DOMAIN summary = {"statuses", "told", "audits", "at"}
    /\ SummaryStatuses(Summary!Audits, summary.statuses, summary.told)
    /\ Summary!Complete => summary.audits = Summary!Audits /\ summary.at = Len(recordings)

SummaryIInv ==
    /\ SummaryCalls
    /\ SummaryStatuses(Summary!Audits, statuses, told)
    /\ summary # None => SummaryRead

\* The log that the recordings make.
SummaryLog(log, t) ==
    /\ t \in Nat /\ log \subseteq Summary!Audit
    /\ \A a \in log : a.at \in 1..t
    /\ \A a, b \in log : a.at = b.at => a = b

SummaryRecord(n) ==
    [key |-> recordings[n].key, outcome |-> recordings[n].outcome, origin |-> recordings[n].origin, at |-> n]

LEMMA SummaryAudits ==
    ASSUME SummaryCalls
    PROVE  /\ SummaryLog(Summary!Audits, Len(recordings)) /\ DOMAIN recordings = 1..Len(recordings)
           /\ \A a : a \in Summary!Audits <=> \E n \in 1..Len(recordings) : recordings[n].stored /\ a = SummaryRecord(n)
           /\ \A n \in 1..Len(recordings) :
                 /\ recordings[n] \in SummaryRecording
                 /\ recordings[n].stored => SummaryRecord(n) \in Summary!Audits
                 /\ SummaryRecord(n).at = n /\ SummaryRecord(n).key = recordings[n].key
                 /\ SummaryRecord(n).outcome = recordings[n].outcome
<1>1. recordings \in Seq(SummaryRecording) /\ Len(recordings) \in Nat /\ DOMAIN recordings = 1..Len(recordings)
  BY DEF SummaryCalls
<1>2. \A n \in 1..Len(recordings) : recordings[n] \in SummaryRecording /\ SummaryRecord(n) \in Summary!Audit
  <2> SUFFICES ASSUME NEW n \in 1..Len(recordings)
               PROVE  recordings[n] \in SummaryRecording /\ SummaryRecord(n) \in Summary!Audit
    OBVIOUS
  <2>1. recordings[n] \in SummaryRecording
    BY <1>1
  <2> DEFINE r == recordings[n]
  <2>2. r.key \in Services /\ r.outcome \in Summary!Outcomes /\ r.origin \in Summary!Origins
    BY <2>1 DEF SummaryRecording
  <2>3. SummaryRecord(n) = [key |-> r.key, outcome |-> r.outcome, origin |-> r.origin, at |-> n] /\ n \in Nat
    BY DEF SummaryRecord
  <2> HIDE DEF r
  <2>4. QED
    BY <2>1, <2>2, <2>3 DEF Summary!Audit
<1>3. \A a : a \in Summary!Audits <=> \E n \in 1..Len(recordings) : recordings[n].stored /\ a = SummaryRecord(n)
  BY <1>1 DEF Summary!Audits, Summary!Stored, SummaryRecord, Summary!ServiceKey
<1>4. \A n : SummaryRecord(n).at = n /\ SummaryRecord(n).key = recordings[n].key
             /\ SummaryRecord(n).outcome = recordings[n].outcome
  BY DEF SummaryRecord
<1>5. SummaryLog(Summary!Audits, Len(recordings))
  BY <1>1, <1>2, <1>3, <1>4 DEF SummaryLog
<1>6. QED
  BY <1>1, <1>2, <1>3, <1>4, <1>5

LEMMA SummaryStart == Summary!Init => SummaryIInv
<1> SUFFICES ASSUME Summary!Init PROVE SummaryIInv
  OBVIOUS
<1>1. recordings = <<>> /\ statuses = [key \in Services |-> Summary!NoStatus] /\ told = {} /\ summary = None
  BY DEF Summary!Init
<1>2. Summary!NoStatus \in SummaryStatus /\ ~Summary!IsDown(Summary!NoStatus) /\ Summary!NoStatus.since = None
  BY NoneAssumption DEF Summary!NoStatus, SummaryStatus, SummaryStates, Summary!IsDown
<1>3. SummaryCalls
  BY <1>1 DEF SummaryCalls
<1>4. Summary!Audits = {}
  BY <1>1 DEF Summary!Audits, Summary!Stored
<1>5. SummaryStatuses(Summary!Audits, statuses, told)
  BY <1>1, <1>2, <1>4 DEF SummaryStatuses, SummaryExplains, SummaryFollows
<1>6. QED
  BY <1>1, <1>3, <1>5 DEF SummaryIInv

\* A record whose time is new to the log changes nothing that its statuses say.
LEMMA SummaryLogGrows ==
    ASSUME NEW log, NEW new, log \subseteq new, NEW st, NEW followed,
           \A a \in new : (\E b \in log : b.at = a.at) => a \in log,
           SummaryStatuses(log, st, followed)
    PROVE  SummaryStatuses(new, st, followed)
<1>1. \A key \in Services : SummaryExplains(new, key, st[key])
  BY DEF SummaryStatuses, SummaryExplains, SummaryFails
<1>2. \A a \in new : a.at \in followed => a \in log
  BY DEF SummaryStatuses, SummaryFollows
<1>3. SummaryFollows(new, followed, st)
  BY <1>2 DEF SummaryStatuses, SummaryFollows
<1>4. QED
  BY <1>1, <1>3 DEF SummaryStatuses

\* The log grows, the statuses and what was read of them stay.
LEMMA SummaryGoesOn ==
    ASSUME SummaryIInv, ~Summary!Complete, SummaryCalls', UNCHANGED <<statuses, told, summary>>,
           Summary!Audits \subseteq Summary!Audits',
           \A a \in Summary!Audits' : (\E b \in Summary!Audits : b.at = a.at) => a \in Summary!Audits
    PROVE  SummaryIInv'
<1> DEFINE log == Summary!Audits
           new == Summary!Audits'
<1>4. SummaryStatuses(log, statuses, told)
  BY DEF SummaryIInv
<1> HIDE DEF log, new
<1>5. SummaryStatuses(new, statuses, told)
  BY <1>4, SummaryLogGrows DEF log, new
<1>6. ASSUME summary # None PROVE SummaryRead'
  <2>1. SummaryStatuses(log, summary.statuses, summary.told)
    BY <1>6 DEF SummaryIInv, SummaryRead, log
  <2>2. SummaryStatuses(new, summary.statuses, summary.told)
    BY <2>1, SummaryLogGrows DEF log, new
  <2>3. ~Summary!Complete'
    BY DEF Summary!Complete
  <2>4. QED
    BY <1>6, <2>2, <2>3 DEF SummaryRead, SummaryIInv, new
<1>7. QED
  BY <1>5, <1>6 DEF SummaryIInv, new

\* A call that ends leaves the log as it is.
LEMMA SummaryBegins == ASSUME SummaryIInv, NEW call \in Summary!Kinds, Summary!Begin(call)
      PROVE  SummaryIInv'
<1> DEFINE r == [key |-> call.key, outcome |-> call.outcome, origin |-> call.origin, last |-> call.last,
                 stored |-> FALSE, previous |-> None, saved |-> FALSE]
           N == Len(recordings)
<1>1. recordings' = Append(recordings, r) /\ ~Summary!Complete /\ UNCHANGED <<statuses, told, summary>>
  BY DEF Summary!Begin
<1>2. recordings \in Seq(SummaryRecording) /\ N \in Nat /\ DOMAIN recordings = 1..N /\ SummaryCalls
  BY DEF SummaryIInv, SummaryCalls
<1>3. r \in SummaryRecording /\ ~r.stored /\ r.previous = None
  BY DEF Summary!Kinds, SummaryRecording
<1> HIDE DEF r
<1>4. /\ recordings' \in Seq(SummaryRecording) /\ Len(recordings') = N + 1
      /\ DOMAIN recordings' = 1..(N + 1)
      /\ \A n \in 1..N : recordings'[n] = recordings[n]
      /\ recordings'[N + 1] = r
  BY <1>1, <1>2, <1>3
<1> HIDE DEF N
<1>5. Summary!Audits' = Summary!Audits
  BY <1>2, <1>3, <1>4 DEF Summary!Audits, Summary!Stored, Summary!ServiceKey
<1>6. SummaryCalls'
  <2>1. \A n \in 1..N : recordings[n].previous # None =>
           SummaryExplains(Summary!Audits, recordings[n].key, recordings[n].previous)
    BY <1>2 DEF SummaryCalls, N
  <2>2. \A n \in 1..(N + 1) : n \in 1..N \/ n = N + 1
    BY <1>2
  <2>3. QED
    BY <1>3, <1>4, <1>5, <2>1, <2>2 DEF SummaryCalls
<1>7. QED
  BY <1>1, <1>5, <1>6, SummaryGoesOn

\* What a recording's change makes of the recordings.
LEMMA SummaryOneChanges ==
    ASSUME SummaryCalls, NEW n \in DOMAIN recordings, NEW r \in SummaryRecording,
           recordings' = [recordings EXCEPT ![n] = r]
    PROVE  /\ recordings' \in Seq(SummaryRecording) /\ Len(recordings') = Len(recordings)
           /\ DOMAIN recordings' = DOMAIN recordings
           /\ recordings'[n] = r /\ \A m \in DOMAIN recordings : m # n => recordings'[m] = recordings[m]
BY DEF SummaryCalls

LEMMA SummaryAppends ==
    ASSUME SummaryIInv, NEW n \in DOMAIN recordings, Summary!AppendAudit(n) PROVE SummaryIInv'
<1> DEFINE r == [recordings[n] EXCEPT !.stored = TRUE]
           N == Len(recordings)
<1>1. /\ recordings' = [recordings EXCEPT ![n] = r]
      /\ ~Summary!Complete /\ UNCHANGED <<statuses, told, summary>> /\ ~recordings[n].stored
  BY DEF Summary!AppendAudit
<1>2. SummaryCalls /\ DOMAIN recordings = 1..N /\ recordings[n] \in SummaryRecording
  BY SummaryAudits DEF SummaryIInv
<1>3. /\ r \in SummaryRecording /\ r.stored /\ r.previous = recordings[n].previous
      /\ r.key = recordings[n].key /\ r.outcome = recordings[n].outcome /\ r.origin = recordings[n].origin
  BY <1>2 DEF SummaryRecording
<1> HIDE DEF r
<1>4. /\ recordings' \in Seq(SummaryRecording) /\ Len(recordings') = N /\ DOMAIN recordings' = DOMAIN recordings
      /\ recordings'[n] = r /\ \A m \in DOMAIN recordings : m # n => recordings'[m] = recordings[m]
  BY <1>1, <1>2, <1>3, SummaryOneChanges
<1> HIDE DEF N
<1>5. Summary!Audits' = Summary!Audits \cup {SummaryRecord(n)}
  <2>1. Summary!Audits' = {[key |-> recordings'[m].key, outcome |-> recordings'[m].outcome,
                            origin |-> recordings'[m].origin, at |-> m] : m \in {l \in DOMAIN recordings : recordings'[l].stored}}
    BY <1>4 DEF Summary!Audits, Summary!Stored, Summary!ServiceKey
  <2>2. {l \in DOMAIN recordings : recordings'[l].stored} = {l \in DOMAIN recordings : recordings[l].stored} \cup {n}
    BY <1>3, <1>4
  <2>3. \A m \in DOMAIN recordings : [key |-> recordings'[m].key, outcome |-> recordings'[m].outcome,
                            origin |-> recordings'[m].origin, at |-> m] = SummaryRecord(m)
    BY <1>3, <1>4 DEF SummaryRecord
  <2>4. Summary!Audits' = {SummaryRecord(m) : m \in {l \in DOMAIN recordings : recordings'[l].stored}}
    BY <2>1, <2>3
  <2>5. Summary!Audits = {SummaryRecord(m) : m \in {l \in DOMAIN recordings : recordings[l].stored}}
    BY DEF Summary!Audits, Summary!Stored, Summary!ServiceKey, SummaryRecord
  <2> HIDE DEF SummaryRecord
  <2>6. QED
    BY <2>2, <2>4, <2>5
<1>6. \A a \in Summary!Audits : a.at # n
  BY <1>1, <1>2, SummaryAudits
<1>7. \A a \in Summary!Audits' : (\E b \in Summary!Audits : b.at = a.at) => a \in Summary!Audits
  BY <1>5, <1>6, <1>2, SummaryAudits
<1>8. SummaryCalls'
  <2>1. \A m \in 1..N : recordings'[m].previous = recordings[m].previous /\ recordings'[m].key = recordings[m].key
    BY <1>2, <1>3, <1>4 DEF N
  <2>2. ASSUME NEW m \in 1..N, recordings[m].previous # None
        PROVE  SummaryExplains(Summary!Audits', recordings[m].key, recordings[m].previous)
    <3>1. SummaryExplains(Summary!Audits, recordings[m].key, recordings[m].previous)
      BY <1>2, <2>2 DEF SummaryCalls, N
    <3>2. QED
      BY <1>5, <3>1 DEF SummaryExplains, SummaryFails
  <2>3. QED
    BY <1>4, <2>1, <2>2 DEF SummaryCalls
<1>9. Summary!Audits \subseteq Summary!Audits'
  BY <1>5
<1>10. QED
  BY <1>1, <1>7, <1>8, <1>9, SummaryGoesOn

\* Records stay as they are when a recording reads or replaces a status.
LEMMA SummaryLogStays ==
    ASSUME SummaryCalls, NEW n \in DOMAIN recordings, NEW r \in SummaryRecording,
           recordings' = [recordings EXCEPT ![n] = r], r.stored = recordings[n].stored,
           r.key = recordings[n].key, r.outcome = recordings[n].outcome, r.origin = recordings[n].origin,
           r.previous # None => SummaryExplains(Summary!Audits, r.key, r.previous)
    PROVE  Summary!Audits' = Summary!Audits /\ SummaryCalls' /\ Len(recordings') = Len(recordings)
<1>1. /\ recordings' \in Seq(SummaryRecording) /\ Len(recordings') = Len(recordings)
      /\ DOMAIN recordings' = DOMAIN recordings
      /\ recordings'[n] = r /\ \A m \in DOMAIN recordings : m # n => recordings'[m] = recordings[m]
  BY SummaryOneChanges
<1>2. \A m \in DOMAIN recordings :
         /\ recordings'[m].stored = recordings[m].stored /\ recordings'[m].key = recordings[m].key
         /\ recordings'[m].outcome = recordings[m].outcome /\ recordings'[m].origin = recordings[m].origin
  BY <1>1
<1>3. Summary!Audits' = Summary!Audits
  BY <1>1, <1>2 DEF Summary!Audits, Summary!Stored, Summary!ServiceKey
<1>4. ASSUME NEW m \in 1..Len(recordings), recordings'[m].previous # None
      PROVE  SummaryExplains(Summary!Audits, recordings'[m].key, recordings'[m].previous)
  <2>1. m \in DOMAIN recordings
    BY DEF SummaryCalls
  <2>2. CASE m = n
    BY <1>1, <1>4, <2>2
  <2>3. CASE m # n
    BY <1>1, <1>4, <2>1, <2>3 DEF SummaryCalls
  <2>4. QED
    BY <2>2, <2>3
<1>5. QED
  BY <1>1, <1>3, <1>4 DEF SummaryCalls

LEMMA SummaryReadsStatus ==
    ASSUME SummaryIInv, NEW n \in DOMAIN recordings, Summary!GetStatus(n) PROVE SummaryIInv'
<1> DEFINE r == [recordings[n] EXCEPT !.previous = statuses[recordings[n].key]]
<1>1. recordings' = [recordings EXCEPT ![n] = r] /\ ~Summary!Complete /\ UNCHANGED <<statuses, told, summary>>
  BY DEF Summary!GetStatus, Summary!ServiceKey
<1>2. SummaryCalls /\ recordings[n] \in SummaryRecording /\ recordings[n].key \in Services
      /\ SummaryStatuses(Summary!Audits, statuses, told)
  BY SummaryAudits DEF SummaryIInv, SummaryRecording
<1>3. /\ statuses[recordings[n].key] \in SummaryStatus
      /\ SummaryExplains(Summary!Audits, recordings[n].key, statuses[recordings[n].key])
  BY <1>2 DEF SummaryStatuses
<1>4. /\ r \in SummaryRecording /\ r.stored = recordings[n].stored /\ r.previous = statuses[recordings[n].key]
      /\ r.key = recordings[n].key /\ r.outcome = recordings[n].outcome /\ r.origin = recordings[n].origin
  BY <1>2, <1>3 DEF SummaryRecording
<1> HIDE DEF r
<1>5. Summary!Audits' = Summary!Audits /\ SummaryCalls'
  BY <1>1, <1>2, <1>3, <1>4, SummaryLogStays
<1>6. QED
  BY <1>1, <1>2, <1>5 DEF SummaryIInv, SummaryRead, Summary!Complete

LEMMA SummaryReplacesStatus ==
    ASSUME SummaryIInv, NEW n \in DOMAIN recordings, Summary!UpsertStatus(n) PROVE SummaryIInv'
<1> DEFINE r == [recordings[n] EXCEPT !.previous = None, !.saved = TRUE]
           key == recordings[n].key
           previous == recordings[n].previous
           new == Summary!NextStatus(n)
           log == Summary!Audits
           a == SummaryRecord(n)
<1>1. /\ recordings' = [recordings EXCEPT ![n] = r] /\ summary = None /\ UNCHANGED summary
      /\ statuses' = [statuses EXCEPT ![key] = new]
      /\ told' = {m \in told : recordings[m].key = key => m < n} \cup {n}
      /\ recordings[n].stored /\ previous # None
  BY DEF Summary!UpsertStatus, Summary!ServiceKey
<1>2. /\ SummaryCalls /\ recordings[n] \in SummaryRecording /\ key \in Services /\ n \in 1..Len(recordings)
      /\ SummaryStatuses(log, statuses, told) /\ SummaryLog(log, Len(recordings))
      /\ a \in log /\ a.at = n /\ a.key = key /\ a.outcome = recordings[n].outcome
      /\ \A b \in log : recordings[b.at].key = b.key
  BY <1>1, SummaryAudits DEF SummaryIInv, SummaryRecording
<1>3. previous \in SummaryStatus /\ SummaryExplains(log, key, previous)
      /\ recordings[n].origin \in Summary!Origins /\ recordings[n].outcome \in Summary!Outcomes
  BY <1>1, <1>2 DEF SummaryCalls, SummaryRecording
<1>4. /\ r \in SummaryRecording /\ r.stored = recordings[n].stored /\ r.previous = None
      /\ r.key = recordings[n].key /\ r.outcome = recordings[n].outcome /\ r.origin = recordings[n].origin
  BY <1>2 DEF SummaryRecording
<1> HIDE DEF r
<1>5. log' = log /\ SummaryCalls'
  BY <1>1, <1>2, <1>4, SummaryLogStays
<1>6. /\ new \in SummaryStatus /\ SummaryExplains(log, key, new)
      /\ Summary!IsDown(new) <=> a.outcome # "succeeded"
  <2>1. CASE recordings[n].outcome = "succeeded"
    <3>1. new = [state |-> "operational", since |-> None, checked |-> n, failed |-> previous.failed,
                 failures |-> 0, origin |-> recordings[n].origin]
      BY <2>1 DEF Summary!NextStatus
    <3> HIDE DEF new, log, a
    <3>2. QED
      BY <1>2, <1>3, <2>1, <3>1, NoneAssumption
         DEF SummaryStatus, SummaryStates, Summary!IsDown, SummaryExplains
  <2>2. CASE recordings[n].outcome # "succeeded"
    <3> DEFINE state == IF previous.failures >= 1 \/ recordings[n].last THEN "outage" ELSE "degraded"
               since == IF previous.since = None THEN n ELSE previous.since
               failures == previous.failures + 1
    <3>1. new = [state |-> state, since |-> since, checked |-> n, failed |-> n,
                 failures |-> failures, origin |-> recordings[n].origin]
      BY <2>2 DEF Summary!NextStatus
    <3>2. /\ state \in {"outage", "degraded"} /\ since \in Nat /\ failures \in Nat /\ n \in Nat
          /\ previous.since # None => since = previous.since
          /\ previous.since = None => since = n
      BY <1>2, <1>3 DEF SummaryStatus
    <3>3. SummaryFails(log, key, n)
      BY <1>2, <2>2 DEF SummaryFails
    <3>4. SummaryFails(log, key, since)
      BY <1>3, <3>2, <3>3 DEF SummaryExplains
    <3> HIDE DEF new, state, since, failures, log, a, previous, key
    <3>5. new \in SummaryStatus /\ new.state \in {"outage", "degraded"} /\ new.since = since /\ since # None
      BY <1>3, <3>1, <3>2, NoneAssumption DEF SummaryStatus, SummaryStates
    <3>6. QED
      BY <1>2, <2>2, <3>4, <3>5 DEF SummaryExplains, Summary!IsDown
  <2>3. QED
    BY <2>1, <2>2
<1> HIDE DEF new
<1>7. /\ statuses' \in [Services -> SummaryStatus] /\ statuses'[key] = new
      /\ \A k \in Services : k # key => statuses'[k] = statuses[k]
      /\ statuses \in [Services -> SummaryStatus]
  BY <1>1, <1>2, <1>6 DEF SummaryStatuses
<1> HIDE DEF log, a, key
<1>8. SummaryFollows(log, told', statuses')
  <2>1. \A m \in told' : \E b \in log : b.at = m
    BY <1>1, <1>2 DEF SummaryStatuses, SummaryFollows
  <2>2. ASSUME NEW b \in log, b.at \in told'
        PROVE  \E c \in log : /\ c.key = b.key /\ c.at >= b.at
                              /\ Summary!IsDown(statuses'[b.key]) <=> c.outcome # "succeeded"
    <3>1. b.key \in Services /\ b.at \in Nat /\ n \in Nat
      BY <1>2 DEF SummaryLog, Summary!Audit
    <3>2. CASE b.key = key
      <4>1. n >= b.at
        BY <1>1, <1>2, <2>2, <3>1, <3>2
      <4>2. QED
        BY <1>2, <1>6, <1>7, <3>2, <4>1
    <3>3. CASE b.key # key
      <4>1. b.at \in told
        BY <1>1, <1>2, <2>2, <3>3 DEF SummaryLog
      <4>2. QED
        BY <1>2, <1>7, <3>1, <3>3, <4>1 DEF SummaryStatuses, SummaryFollows
    <3>4. QED
      BY <3>2, <3>3
  <2>3. QED
    BY <2>1, <2>2 DEF SummaryFollows
<1>9. \A k \in Services : SummaryExplains(log, k, statuses'[k])
  BY <1>2, <1>6, <1>7 DEF SummaryStatuses
<1>10. SummaryStatuses(log', statuses', told')
  BY <1>5, <1>7, <1>8, <1>9 DEF SummaryStatuses
<1>11. QED
  BY <1>1, <1>5, <1>10 DEF SummaryIInv, log

LEMMA SummaryStep == SummaryIInv /\ [Summary!Next]_Summary!vars => SummaryIInv'
<1> SUFFICES ASSUME SummaryIInv, [Summary!Next]_Summary!vars PROVE SummaryIInv'
  OBVIOUS
<1>1. CASE \E call \in Summary!Kinds : Summary!Begin(call)
  BY <1>1, SummaryBegins
<1>2. CASE \E n \in DOMAIN recordings : Summary!AppendAudit(n) \/ Summary!GetStatus(n) \/ Summary!UpsertStatus(n)
  BY <1>2, SummaryAppends, SummaryReadsStatus, SummaryReplacesStatus
<1>3. CASE Summary!ReadStatuses
  <2>1. /\ summary' = [statuses |-> statuses, told |-> told, audits |-> {}, at |-> None]
        /\ UNCHANGED <<recordings, statuses, told>>
    BY <1>3 DEF Summary!ReadStatuses
  <2>2. ~Summary!Complete'
    BY <2>1 DEF Summary!Complete
  <2>3. Summary!Audits' = Summary!Audits
    BY <2>1 DEF Summary!Audits, Summary!Stored, Summary!ServiceKey
  <2>4. QED
    BY <2>1, <2>2, <2>3 DEF SummaryIInv, SummaryRead, SummaryCalls
<1>4. CASE Summary!ReadAudits
  <2>1. /\ summary # None /\ summary' = [summary EXCEPT !.audits = Summary!Audits, !.at = Len(recordings)]
        /\ UNCHANGED <<recordings, statuses, told>>
    BY <1>4 DEF Summary!ReadAudits, Summary!Clock
  <2>2. DOMAIN summary = {"statuses", "told", "audits", "at"}
    BY <2>1 DEF SummaryIInv, SummaryRead
  <2>3. /\ DOMAIN summary' = DOMAIN summary
        /\ summary'.statuses = summary.statuses /\ summary'.told = summary.told
        /\ summary'.audits = Summary!Audits /\ summary'.at = Len(recordings)
    BY <2>1, <2>2
  <2>4. Summary!Audits' = Summary!Audits
    BY <2>1 DEF Summary!Audits, Summary!Stored, Summary!ServiceKey
  <2>5. QED
    BY <2>1, <2>2, <2>3, <2>4 DEF SummaryIInv, SummaryRead, SummaryCalls
<1>5. CASE UNCHANGED Summary!vars
  <2>1. UNCHANGED <<recordings, statuses, told, summary>>
    BY <1>5 DEF Summary!vars
  <2>2. Summary!Audits' = Summary!Audits
    BY <2>1 DEF Summary!Audits, Summary!Stored, Summary!ServiceKey
  <2>3. QED
    BY <2>1, <2>2 DEF SummaryIInv, SummaryRead, SummaryCalls, Summary!Complete
<1>6. QED
  BY <1>1, <1>2, <1>3, <1>4, <1>5 DEF Summary!Next

\* A nonempty set of numbers has a least one.
LEMMA LeastNumber == ASSUME NEW S, S \subseteq Nat, S # {} PROVE \E t \in S : \A x \in S : t <= x
<1>1. PICK t \in S : \A y \in S : <<y, t>> \notin OpToRel(<, Nat)
  BY NatLessThanWellFounded, WFMin
<1>2. \A y \in Nat : y < t => <<y, t>> \in OpToRel(<, Nat)
  BY DEF OpToRel
<1>3. SUFFICES ASSUME NEW y \in S PROVE t <= y
  OBVIOUS
<1>4. y \in Nat /\ t \in Nat /\ ~(y < t)
  BY <1>1, <1>2
<1>5. QED
  BY <1>4

LEMMA SameCardinality == \A S : Summary!Cardinality(S) = Cardinality(S)
BY Zenon DEF Summary!Cardinality, Cardinality

SummaryFailures(log, key, n) == {j \in 1..n : SummaryFails(log, key, j)}

SummaryIncident ==
    [key : Services, state : {"degraded", "outage", "resolved"}, started : Nat, resolved : Nat \cup {None},
     updated : Nat, records : Nat]

\* What is known of a summary that was read in full.
SummaryKnown(s) ==
    /\ SummaryLog(s.audits, s.at)
    /\ s.statuses \in [Services -> SummaryStatus]
    /\ \A key \in Services : SummaryExplains(s.audits, key, s.statuses[key])

\* What the records until time n tell of a service.
SummaryTold(s, acc, n) ==
    /\ acc = [open |-> acc.open, done |-> acc.done]
    /\ DOMAIN acc.open \subseteq Services
    /\ acc.done \subseteq SummaryIncident
    /\ \A i \in acc.done :
        /\ i.resolved \in 1..n
        /\ s.statuses[i.key].since = None => i.started < i.resolved
        /\ SummaryFails(s.audits, i.key, i.started)
    /\ \A i, j \in acc.done : i.resolved = j.resolved => i = j
    /\ \A key \in DOMAIN acc.open :
        /\ acc.open[key] \in SummaryIncident
        /\ acc.open[key].key = key /\ acc.open[key].resolved = None
        /\ SummaryFails(s.audits, key, acc.open[key].started)
        /\ \E i \in 1..n : /\ SummaryFailing(s.audits, key, i, n)
                           /\ s.statuses[key].since = None => acc.open[key].started = i
    /\ \A key \in Services :
        LET done == Summary!Records({i \in acc.done : i.key = key})
        IN  /\ IsFiniteSet(done)
            /\ Cardinality(done) + (IF key \in DOMAIN acc.open THEN acc.open[key].records ELSE 0)
                  = Cardinality(SummaryFailures(s.audits, key, n))

SummaryToldFrom(s, acc, n) ==
    LET now == {a \in s.audits : a.at = n} IN
    CASE n = 0 -> [open |-> <<>>, done |-> {}]
      [] n # 0 /\ now = {} -> acc
      [] OTHER -> Summary!Absorb(s, acc, CHOOSE a \in now : TRUE)

\* What is told until a time follows from what is told before: the recursive function
\* exists.
LEMMA SummaryToldBy ==
    ASSUME NEW s, s.at \in Nat
    PROVE  \A n \in 0..s.at : Summary!ToldBy(s)[n] = SummaryToldFrom(s, Summary!ToldBy(s)[n - 1], n)
<1> DEFINE N == s.at
           Is(f, k) == f = [n \in 0..k |-> SummaryToldFrom(s, f[n - 1], n)]
<1>1. N \in Nat
  OBVIOUS
<1> HIDE DEF N
<1>2. \A k \in Nat : \E f : Is(f, k)
  <2> DEFINE S == {k \in Nat : ~\E f : Is(f, k)}
  <2>1. SUFFICES ASSUME S # {} PROVE FALSE
    OBVIOUS
  <2>2. PICK k \in S : \A x \in S : k <= x
    <3>1. S \subseteq Nat
      OBVIOUS
    <3> HIDE DEF S
    <3>2. QED
      BY <2>1, <3>1, LeastNumber
  <2>3. CASE k = 0
    <3> DEFINE g == [n \in 0..0 |-> [open |-> <<>>, done |-> {}]]
    <3>1. g = [n \in 0..0 |-> SummaryToldFrom(s, g[n - 1], n)]
      BY DEF SummaryToldFrom
    <3>2. QED
      BY <2>3, <3>1
  <2>4. CASE k # 0
    <3>1. k - 1 \in Nat /\ k - 1 \notin S
      <4>1. k \in Nat
        OBVIOUS
      <4> HIDE DEF S
      <4>2. QED
        BY <2>2, <2>4, <4>1
    <3>2. PICK f : Is(f, k - 1)
      BY <3>1
    <3> DEFINE g == [n \in 0..k |-> IF n = k THEN SummaryToldFrom(s, f[n - 1], n) ELSE f[n]]
    <3>3. ASSUME NEW n \in 0..k PROVE g[n] = SummaryToldFrom(s, g[n - 1], n)
      <4>1. CASE n = 0
        <5>1. g[n] = f[0] /\ f[0] = SummaryToldFrom(s, f[0 - 1], 0)
          BY <2>4, <3>1, <3>2, <4>1
        <5>2. QED
          BY <4>1, <5>1 DEF SummaryToldFrom
      <4>2. CASE n \in 1..(k - 1)
        <5>1. g[n] = f[n] /\ g[n - 1] = f[n - 1]
          BY <3>1, <4>2
        <5>2. f[n] = SummaryToldFrom(s, f[n - 1], n)
          BY <3>1, <3>2, <4>2
        <5>3. QED
          BY <5>1, <5>2
      <4>3. CASE n = k
        BY <2>4, <3>1, <4>3
      <4>4. QED
        BY <3>1, <4>1, <4>2, <4>3
    <3>4. Is(g, k)
      BY <3>3
    <3>5. QED
      BY <3>4
  <2>5. QED
    BY <2>3, <2>4
<1>3. Summary!ToldBy(s) = CHOOSE f : Is(f, N)
  BY DEF Summary!ToldBy, SummaryToldFrom, N
<1>4. Is(Summary!ToldBy(s), N)
  BY <1>1, <1>2, <1>3
<1>5. QED
  BY <1>4 DEF N

\* What makes the records of incidents countable.
LEMMA SummaryRecordsOfOne ==
    ASSUME NEW incidents, NEW i, i \notin incidents, i.records \in Nat,
           IsFiniteSet(Summary!Records(incidents))
    PROVE  /\ IsFiniteSet(Summary!Records(incidents \cup {i}))
           /\ Cardinality(Summary!Records(incidents \cup {i})) = Cardinality(Summary!Records(incidents)) + i.records
<1> DEFINE R == Summary!Records(incidents)
           One == {i} \X (1..i.records)
<1>1. Summary!Records(incidents \cup {i}) = R \cup One
  BY DEF Summary!Records
<1>2. IsFiniteSet(One) /\ Cardinality(One) = i.records
  <2>1. IsFiniteSet({i}) /\ Cardinality({i}) = 1
    BY FS_Singleton
  <2>2. IsFiniteSet(1..i.records) /\ Cardinality(1..i.records) = i.records
    <3> DEFINE r == i.records
    <3>1. r \in Nat
      OBVIOUS
    <3> HIDE DEF r
    <3>2. IsFiniteSet(1..r) /\ Cardinality(1..r) = IF 1 > r THEN 0 ELSE r - 1 + 1
      BY <3>1, FS_Interval, SMT
    <3>3. Cardinality(1..r) = r
      BY <3>1, <3>2, SMT
    <3>4. QED
      BY <3>2, <3>3 DEF r
  <2>3. IsFiniteSet(One) /\ Cardinality(One) = Cardinality({i}) * Cardinality(1..i.records)
    BY <2>1, <2>2, FS_Product
  <2>4. QED
    BY <2>1, <2>2, <2>3
<1>3. R \cap One = {}
  BY DEF Summary!Records
<1> HIDE DEF R, One
<1>4. Cardinality(R \cap One) = 0 /\ IsFiniteSet(R) /\ Cardinality(R) \in Nat
  BY <1>3, FS_EmptySet, FS_CardinalityType DEF R
<1>5. IsFiniteSet(R \cup One) /\ Cardinality(R \cup One) = Cardinality(R) + Cardinality(One) - Cardinality(R \cap One)
  BY <1>2, <1>4, FS_Union
<1>6. Cardinality(R \cup One) = Cardinality(R) + i.records
  BY <1>2, <1>4, <1>5
<1>7. QED
  BY <1>1, <1>5, <1>6 DEF R

\* At one more time a record fails or not.
LEMMA SummaryOneMore ==
    ASSUME NEW log, NEW key \in Services, NEW n \in Nat
    PROVE  /\ IsFiniteSet(SummaryFailures(log, key, n)) /\ Cardinality(SummaryFailures(log, key, n)) \in Nat
           /\ Cardinality(SummaryFailures(log, key, n + 1)) =
                 Cardinality(SummaryFailures(log, key, n)) + (IF SummaryFails(log, key, n + 1) THEN 1 ELSE 0)
<1>1. SummaryFailures(log, key, n) \subseteq 1..n /\ IsFiniteSet(1..n) /\ n + 1 \notin SummaryFailures(log, key, n)
  BY FS_Interval DEF SummaryFailures
<1>2. IsFiniteSet(SummaryFailures(log, key, n)) /\ Cardinality(SummaryFailures(log, key, n)) \in Nat
  BY <1>1, FS_Subset, FS_CardinalityType
<1>3. SummaryFailures(log, key, n + 1) =
        IF SummaryFails(log, key, n + 1) THEN SummaryFailures(log, key, n) \cup {n + 1} ELSE SummaryFailures(log, key, n)
  <2> HIDE DEF SummaryFails
  <2>1. \A j : j \in 1..(n + 1) <=> j \in 1..n \/ j = n + 1
    OBVIOUS
  <2>2. QED
    BY <2>1 DEF SummaryFailures
<1> DEFINE F == SummaryFailures(log, key, n)
<1>4. Cardinality(F \cup {n + 1}) = Cardinality(F) + 1
  BY <1>1, <1>2, FS_AddElement
<1> HIDE DEF F
<1>5. CASE SummaryFails(log, key, n + 1)
  BY <1>2, <1>3, <1>4, <1>5 DEF F
<1>6. CASE ~SummaryFails(log, key, n + 1)
  BY <1>2, <1>3, <1>6
<1>7. QED
  BY <1>5, <1>6

\* A service whose records at the next time do not succeed goes on failing.
LEMMA SummaryFailingGoesOn ==
    ASSUME NEW log, NEW key, NEW n \in Nat, \A a \in log : a.at \in Int,
           \A a \in log : a.at = n + 1 /\ a.key = key => a.outcome # "succeeded"
    PROVE  \A i \in 1..n : SummaryFailing(log, key, i, n) =>
               i \in 1..(n + 1) /\ SummaryFailing(log, key, i, n + 1)
BY DEF SummaryFailing

\* An incident that goes on, or ends, stays the same incident.
LEMMA SummaryResolved ==
    ASSUME NEW o \in SummaryIncident, NEW a \in Summary!Audit
    PROVE  LET i == Summary!ResolvedBy(o, a)
           IN  i \in SummaryIncident /\ i.key = o.key /\ i.started = o.started
               /\ i.records = o.records /\ i.resolved = a.at
<1>1. Summary!ResolvedBy(o, a) \in SummaryIncident
  BY DEF SummaryIncident, Summary!ResolvedBy, Summary!Audit
<1>2. QED
  BY <1>1 DEF SummaryIncident, Summary!ResolvedBy

LEMMA SummaryExtended ==
    ASSUME NEW o \in SummaryIncident, NEW a \in Summary!Audit
    PROVE  LET i == Summary!Extended(o, a)
           IN  i \in SummaryIncident /\ i.key = o.key /\ i.started = o.started
               /\ i.records = o.records + 1 /\ i.resolved = o.resolved
<1> DEFINE v == IF o.state = "outage" \/ a.outcome = "failed" THEN "outage" ELSE "degraded"
           r == o.records + 1
<1>1. v \in {"degraded", "outage", "resolved"} /\ a.at \in Nat /\ r \in Nat
  BY DEF Summary!Audit, SummaryIncident
<1>2. Summary!Extended(o, a) = [o EXCEPT !.state = v, !.updated = a.at, !.records = r]
  BY DEF Summary!Extended
<1> HIDE DEF v
<1>3. /\ [o EXCEPT !.state = v, !.updated = a.at, !.records = r].key = o.key
      /\ [o EXCEPT !.state = v, !.updated = a.at, !.records = r].started = o.started
      /\ [o EXCEPT !.state = v, !.updated = a.at, !.records = r].records = o.records + 1
      /\ [o EXCEPT !.state = v, !.updated = a.at, !.records = r].resolved = o.resolved
  BY DEF SummaryIncident
<1> HIDE DEF r
<1>4. [o EXCEPT !.state = v, !.updated = a.at, !.records = r] \in SummaryIncident
  BY <1>1 DEF SummaryIncident
<1>5. QED
  BY <1>2, <1>3, <1>4

\* At a time without a record nothing new is told.
LEMMA SummaryNothing ==
    ASSUME NEW s, SummaryKnown(s), NEW n \in Nat, {a \in s.audits : a.at = n + 1} = {},
           NEW acc, SummaryTold(s, acc, n)
    PROVE  SummaryTold(s, acc, n + 1)
<1>1. \A a \in s.audits : a.at \in Int /\ a.at # n + 1
  BY DEF SummaryKnown, SummaryLog
<1>2. \A k \in Services : ~SummaryFails(s.audits, k, n + 1)
  BY <1>1 DEF SummaryFails
<1>3. \A k \in Services : Cardinality(SummaryFailures(s.audits, k, n + 1)) = Cardinality(SummaryFailures(s.audits, k, n))
  BY <1>2, SummaryOneMore
<1>4. \A k \in Services, i \in 1..n : SummaryFailing(s.audits, k, i, n) =>
        i \in 1..(n + 1) /\ SummaryFailing(s.audits, k, i, n + 1)
  BY <1>1, SummaryFailingGoesOn
<1>5. \A k \in DOMAIN acc.open : k \in Services
  BY DEF SummaryTold
<1>6. QED
  BY <1>3, <1>4, <1>5 DEF SummaryTold

LEMMA SummarySucceeds ==
    ASSUME NEW s, SummaryKnown(s), NEW n \in Nat, NEW a \in s.audits, a.at = n + 1, NEW acc, SummaryTold(s, acc, n),
           a.outcome = "succeeded"
    PROVE  SummaryTold(s, Summary!Absorb(s, acc, a), n + 1)
<1> DEFINE key == a.key
           new == Summary!Absorb(s, acc, a)
<1>1. /\ a \in Summary!Audit /\ key \in Services
      /\ \A b \in s.audits : b.at \in Int /\ (b.at = n + 1 => b = a)
  BY DEF SummaryKnown, SummaryLog, Summary!Audit
<1>2. \A k \in Services : ~SummaryFails(s.audits, k, n + 1)
  BY <1>1 DEF SummaryFails
<1>3. \A k \in Services : Cardinality(SummaryFailures(s.audits, k, n + 1)) = Cardinality(SummaryFailures(s.audits, k, n))
  BY <1>2, SummaryOneMore
<1>4. \A k \in Services, i \in 1..n : k # key /\ SummaryFailing(s.audits, k, i, n) =>
        i \in 1..(n + 1) /\ SummaryFailing(s.audits, k, i, n + 1)
  BY <1>1, SummaryFailingGoesOn
<1>5. CASE key \notin DOMAIN acc.open
  <2>1. new = acc
    BY <1>5 DEF Summary!Absorb
  <2> HIDE DEF new
  <2>2. \A k \in DOMAIN acc.open : k \in Services /\ k # key
    BY <1>5 DEF SummaryTold
  <2>3. QED
    BY <1>3, <1>4, <2>1, <2>2 DEF SummaryTold, new
<1>6. CASE key \in DOMAIN acc.open
  <2> DEFINE old == acc.open[key]
             incident == Summary!ResolvedBy(old, a)
  <2>1. new = [open |-> Summary!Close(acc.open, key), done |-> acc.done \cup {incident}]
    BY <1>6 DEF Summary!Absorb
  <2>2. /\ old \in SummaryIncident /\ old.key = key /\ SummaryFails(s.audits, key, old.started)
        /\ \E i \in 1..n : s.statuses[key].since = None => old.started = i
    BY <1>6 DEF SummaryTold
  <2> HIDE DEF new, old
  <2>3. /\ incident \in SummaryIncident /\ incident.key = key /\ incident.resolved = n + 1
        /\ incident.started = old.started /\ incident.records = old.records /\ old.records \in Nat
    BY <1>1, <2>2, SummaryResolved DEF SummaryIncident
  <2>4. s.statuses[key].since = None => incident.started < incident.resolved
    BY <2>2, <2>3
  <2>5. incident \notin acc.done
    BY <2>3 DEF SummaryTold
  <2>6. /\ new.done = acc.done \cup {incident} /\ DOMAIN new.open = DOMAIN acc.open \ {key}
        /\ new = [open |-> new.open, done |-> new.done]
        /\ \A k \in DOMAIN new.open : new.open[k] = acc.open[k]
    BY <2>1 DEF Summary!Close, Summary!Restrict
  <2> HIDE DEF incident
  <2>7. /\ new.done \subseteq SummaryIncident
        /\ \A i \in new.done :
             /\ i.resolved \in 1..(n + 1)
             /\ s.statuses[i.key].since = None => i.started < i.resolved
             /\ SummaryFails(s.audits, i.key, i.started)
        /\ \A i, j \in new.done : i.resolved = j.resolved => i = j
    BY <2>2, <2>3, <2>4, <2>6 DEF SummaryTold
  <2>8. \A k \in DOMAIN new.open :
          /\ new.open[k] \in SummaryIncident
          /\ new.open[k].key = k /\ new.open[k].resolved = None
          /\ SummaryFails(s.audits, k, new.open[k].started)
          /\ \E i \in 1..(n + 1) : /\ SummaryFailing(s.audits, k, i, n + 1)
                                   /\ s.statuses[k].since = None => new.open[k].started = i
    <3> SUFFICES ASSUME NEW k \in DOMAIN new.open
                 PROVE  /\ acc.open[k] \in SummaryIncident
                        /\ acc.open[k].key = k /\ acc.open[k].resolved = None
                        /\ SummaryFails(s.audits, k, acc.open[k].started)
                        /\ \E i \in 1..(n + 1) : /\ SummaryFailing(s.audits, k, i, n + 1)
                                                 /\ s.statuses[k].since = None => acc.open[k].started = i
      BY <2>6
    <3>1. k \in DOMAIN acc.open /\ k \in Services /\ k # key
      BY <2>6 DEF SummaryTold
    <3>2. QED
      BY <1>4, <3>1 DEF SummaryTold
  <2>9. ASSUME NEW k \in Services
        PROVE  LET done == Summary!Records({i \in new.done : i.key = k})
               IN  /\ IsFiniteSet(done)
                   /\ Cardinality(done) + (IF k \in DOMAIN new.open THEN new.open[k].records ELSE 0)
                         = Cardinality(SummaryFailures(s.audits, k, n + 1))
    <3> DEFINE before == {i \in acc.done : i.key = k}
               after == {i \in new.done : i.key = k}
    <3>1. /\ IsFiniteSet(Summary!Records(before))
          /\ Cardinality(Summary!Records(before)) + (IF k \in DOMAIN acc.open THEN acc.open[k].records ELSE 0)
                = Cardinality(SummaryFailures(s.audits, k, n))
      BY DEF SummaryTold
    <3>2. CASE k = key
      <4>1. after = before \cup {incident} /\ incident \notin before
        BY <2>3, <2>5, <2>6, <3>2
      <4> HIDE DEF before, after
      <4>2. /\ IsFiniteSet(Summary!Records(after))
            /\ Cardinality(Summary!Records(after)) = Cardinality(Summary!Records(before)) + incident.records
        BY <2>3, <3>1, <4>1, SummaryRecordsOfOne
      <4>3. k \in DOMAIN acc.open /\ k \notin DOMAIN new.open /\ acc.open[k].records = incident.records
        BY <1>6, <2>3, <2>6, <3>2 DEF old
      <4>4. Cardinality(Summary!Records(after)) + 0 = Cardinality(SummaryFailures(s.audits, k, n))
        BY <2>3, <3>1, <4>2, <4>3, FS_CardinalityType
      <4>5. QED
        BY <1>3, <4>2, <4>3, <4>4 DEF after
    <3>3. CASE k # key
      <4>1. after = before
        BY <2>3, <2>6, <3>3
      <4>2. (k \in DOMAIN new.open) = (k \in DOMAIN acc.open) /\ (k \in DOMAIN new.open => new.open[k] = acc.open[k])
        BY <2>6, <3>3
      <4> HIDE DEF before, after
      <4>3. Cardinality(Summary!Records(after)) + (IF k \in DOMAIN new.open THEN new.open[k].records ELSE 0)
                = Cardinality(SummaryFailures(s.audits, k, n + 1))
        BY <1>3, <3>1, <4>1, <4>2
      <4>4. QED
        BY <3>1, <4>1, <4>3 DEF after
    <3>4. QED
      BY <3>2, <3>3
  <2>10. DOMAIN new.open \subseteq Services
    BY <2>6 DEF SummaryTold
  <2>11. SummaryTold(s, new, n + 1)
    BY <2>6, <2>7, <2>8, <2>9, <2>10 DEF SummaryTold
  <2>12. QED
    BY <2>11 DEF new
<1>7. QED
  BY <1>5, <1>6

LEMMA SummaryFailed ==
    ASSUME NEW s, SummaryKnown(s), NEW n \in Nat, NEW a \in s.audits, a.at = n + 1, NEW acc, SummaryTold(s, acc, n),
           a.outcome # "succeeded"
    PROVE  SummaryTold(s, Summary!Absorb(s, acc, a), n + 1)
<1> DEFINE key == a.key
           new == Summary!Absorb(s, acc, a)
           known == key \in DOMAIN acc.open
           incident == IF known THEN Summary!Extended(acc.open[key], a) ELSE Summary!OpenedBy(s, a)
<1>1. /\ a \in Summary!Audit /\ key \in Services
      /\ \A b \in s.audits : b.at \in Int /\ (b.at = n + 1 => b = a)
  BY DEF SummaryKnown, SummaryLog, Summary!Audit
<1>2. \A k \in Services : SummaryFails(s.audits, k, n + 1) <=> k = key
  BY <1>1 DEF SummaryFails
<1>3. \A k \in Services : Cardinality(SummaryFailures(s.audits, k, n + 1))
                             = Cardinality(SummaryFailures(s.audits, k, n)) + (IF k = key THEN 1 ELSE 0)
  BY <1>2, SummaryOneMore
<1>4. \A k \in Services, i \in 1..n : SummaryFailing(s.audits, k, i, n) =>
        i \in 1..(n + 1) /\ SummaryFailing(s.audits, k, i, n + 1)
  BY <1>1, SummaryFailingGoesOn
<1>5. SummaryFailing(s.audits, key, n + 1, n + 1)
  BY <1>1, <1>2 DEF SummaryFailing
<1>6. new = [open |-> Summary!Put(acc.open, key, incident), done |-> acc.done]
  <2>1. acc = [open |-> acc.open, done |-> acc.done]
    BY DEF SummaryTold
  <2>2. new = [acc EXCEPT !.open = Summary!Put(acc.open, key, incident)]
    BY DEF Summary!Absorb
  <2> HIDE DEF new, incident
  <2>3. QED
    BY <2>2 DEF SummaryTold
<1> HIDE DEF new
<1>7. /\ incident \in SummaryIncident /\ incident.key = key /\ incident.resolved = None
      /\ incident.records = IF known THEN acc.open[key].records + 1 ELSE 1
      /\ known => incident.started = acc.open[key].started
      /\ ~known /\ s.statuses[key].since = None => incident.started = n + 1
      /\ SummaryFails(s.audits, key, incident.started)
  <2>1. CASE known
    <3>1. acc.open[key] \in SummaryIncident /\ acc.open[key].key = key /\ acc.open[key].resolved = None
          /\ SummaryFails(s.audits, key, acc.open[key].started)
      BY <2>1 DEF SummaryTold
    <3>2. incident = Summary!Extended(acc.open[key], a)
      BY <2>1
    <3> HIDE DEF incident
    <3>3. /\ incident \in SummaryIncident /\ incident.key = key /\ incident.resolved = None
          /\ incident.records = acc.open[key].records + 1 /\ incident.started = acc.open[key].started
      BY <1>1, <3>1, <3>2, SummaryExtended
    <3>4. QED
      BY <2>1, <3>1, <3>3
  <2>2. CASE ~known
    <3>1. incident = Summary!OpenedBy(s, a)
      BY <2>2
    <3>2. s.statuses[key].since \in Nat \cup {None}
          /\ (s.statuses[key].since # None => SummaryFails(s.audits, key, s.statuses[key].since))
      BY <1>1 DEF SummaryKnown, SummaryStatus, SummaryExplains
    <3> HIDE DEF incident
    <3>3. QED
      BY <1>1, <1>2, <2>2, <3>1, <3>2 DEF Summary!OpenedBy, SummaryIncident
  <2>3. QED
    BY <2>1, <2>2
<1>8. /\ new.done = acc.done /\ DOMAIN new.open = DOMAIN acc.open \cup {key}
      /\ new = [open |-> new.open, done |-> new.done] /\ new.open[key] = incident
      /\ \A k \in DOMAIN acc.open : k # key => new.open[k] = acc.open[k]
  BY <1>6 DEF Summary!Put
<1> HIDE DEF incident
<1>9. /\ new.done \subseteq SummaryIncident
      /\ \A i \in new.done :
           /\ i.resolved \in 1..(n + 1)
           /\ s.statuses[i.key].since = None => i.started < i.resolved
           /\ SummaryFails(s.audits, i.key, i.started)
      /\ \A i, j \in new.done : i.resolved = j.resolved => i = j
  BY <1>8 DEF SummaryTold
<1>10. ASSUME NEW k \in DOMAIN new.open
       PROVE  /\ new.open[k] \in SummaryIncident
              /\ new.open[k].key = k /\ new.open[k].resolved = None
              /\ SummaryFails(s.audits, k, new.open[k].started)
              /\ \E i \in 1..(n + 1) : /\ SummaryFailing(s.audits, k, i, n + 1)
                                       /\ s.statuses[k].since = None => new.open[k].started = i
  <2>1. CASE k = key
    <3>1. CASE known
      <4>1. PICK i \in 1..n : /\ SummaryFailing(s.audits, key, i, n)
                              /\ s.statuses[key].since = None => acc.open[key].started = i
        BY <3>1 DEF SummaryTold
      <4>2. QED
        BY <1>1, <1>4, <1>7, <1>8, <2>1, <3>1, <4>1
    <3>2. CASE ~known
      BY <1>1, <1>5, <1>7, <1>8, <2>1, <3>2
    <3>3. QED
      BY <3>1, <3>2
  <2>2. CASE k # key
    <3>1. k \in DOMAIN acc.open /\ new.open[k] = acc.open[k] /\ k \in Services
      BY <1>8, <2>2 DEF SummaryTold
    <3>2. PICK i \in 1..n : /\ SummaryFailing(s.audits, k, i, n)
                            /\ s.statuses[k].since = None => acc.open[k].started = i
      BY <3>1 DEF SummaryTold
    <3>3. i \in 1..(n + 1) /\ SummaryFailing(s.audits, k, i, n + 1)
      BY <1>4, <3>1, <3>2
    <3>4. acc.open[k] \in SummaryIncident /\ acc.open[k].key = k /\ acc.open[k].resolved = None
          /\ SummaryFails(s.audits, k, acc.open[k].started)
      BY <3>1 DEF SummaryTold
    <3>5. QED
      BY <3>1, <3>2, <3>3, <3>4
  <2>3. QED
    BY <2>1, <2>2
<1>11. ASSUME NEW k \in Services
       PROVE  LET done == Summary!Records({i \in new.done : i.key = k})
              IN  /\ IsFiniteSet(done)
                  /\ Cardinality(done) + (IF k \in DOMAIN new.open THEN new.open[k].records ELSE 0)
                        = Cardinality(SummaryFailures(s.audits, k, n + 1))
  <2> DEFINE done == Summary!Records({i \in acc.done : i.key = k})
             c == Cardinality(done)
  <2>1. /\ IsFiniteSet(done)
        /\ c + (IF k \in DOMAIN acc.open THEN acc.open[k].records ELSE 0)
              = Cardinality(SummaryFailures(s.audits, k, n))
    BY DEF SummaryTold
  <2>2. c \in Nat
    BY <2>1, FS_CardinalityType
  <2>3. \A j \in DOMAIN acc.open : acc.open[j].records \in Nat
    BY DEF SummaryTold, SummaryIncident
  <2> HIDE DEF c
  <2>4. c + (IF k \in DOMAIN new.open THEN new.open[k].records ELSE 0)
          = Cardinality(SummaryFailures(s.audits, k, n + 1))
    <3>1. CASE k = key
      <4>1. Cardinality(SummaryFailures(s.audits, k, n + 1)) = Cardinality(SummaryFailures(s.audits, k, n)) + 1
        BY <1>3, <3>1
      <4>2. (IF k \in DOMAIN new.open THEN new.open[k].records ELSE 0) = incident.records
        BY <1>8, <3>1
      <4>3. incident.records = (IF k \in DOMAIN acc.open THEN acc.open[k].records ELSE 0) + 1
        BY <1>7, <3>1
      <4>4. (IF k \in DOMAIN acc.open THEN acc.open[k].records ELSE 0) \in Nat
        BY <2>3
      <4> DEFINE x == IF k \in DOMAIN acc.open THEN acc.open[k].records ELSE 0
                 y == IF k \in DOMAIN new.open THEN new.open[k].records ELSE 0
      <4>5. c + x = Cardinality(SummaryFailures(s.audits, k, n)) /\ x \in Nat /\ y = x + 1
        BY <2>1, <4>2, <4>3, <4>4
      <4> HIDE DEF x, y
      <4>6. c + y = Cardinality(SummaryFailures(s.audits, k, n + 1))
        BY <2>2, <4>1, <4>5
      <4>7. QED
        BY <4>6 DEF y
    <3>2. CASE k # key
      BY <1>3, <1>8, <2>1, <2>2, <2>3, <3>2
    <3>3. QED
      BY <3>1, <3>2
  <2>5. QED
    BY <1>8, <2>1, <2>4 DEF c
<1>12. DOMAIN new.open \subseteq Services
  BY <1>1, <1>8 DEF SummaryTold
<1>13. SummaryTold(s, new, n + 1)
  BY <1>8, <1>9, <1>10, <1>11, <1>12 DEF SummaryTold
<1>14. QED
  BY <1>13 DEF new

LEMMA SummaryAllTold ==
    ASSUME NEW s, SummaryKnown(s)
    PROVE  \A n \in 0..s.at : SummaryTold(s, Summary!ToldBy(s)[n], n)
<1> DEFINE N == s.at
           tells(n) == Summary!ToldBy(s)[n]
           S == {n \in 0..N : ~SummaryTold(s, tells(n), n)}
<1>1. /\ N \in Nat /\ tells(0) = [open |-> <<>>, done |-> {}]
      /\ \A n \in 1..N : tells(n) = SummaryToldFrom(s, tells(n - 1), n)
  <2>1. N \in Nat
    BY DEF SummaryKnown, SummaryLog
  <2>2. \A n \in 0..N : tells(n) = SummaryToldFrom(s, tells(n - 1), n)
    BY <2>1, SummaryToldBy
  <2>3. tells(0) = SummaryToldFrom(s, tells(0 - 1), 0)
    BY <2>1, <2>2
  <2> HIDE DEF tells
  <2>4. QED
    BY <2>1, <2>2, <2>3 DEF SummaryToldFrom
<1> HIDE DEF tells
<1>2. SummaryTold(s, tells(0), 0)
  <2> DEFINE acc == [open |-> <<>>, done |-> {}]
  <2>1. \A k \in Services : /\ {i \in acc.done : i.key = k} = {}
                            /\ SummaryFailures(s.audits, k, 0) = {}
    BY DEF SummaryFailures
  <2>2. Summary!Records({}) = {} /\ IsFiniteSet({}) /\ Cardinality({}) = 0
    BY FS_EmptySet DEF Summary!Records
  <2>3. DOMAIN acc.open = {} /\ acc.done = {} /\ acc = [open |-> acc.open, done |-> acc.done]
    OBVIOUS
  <2>4. \A k \in Services :
          LET done == Summary!Records({i \in acc.done : i.key = k})
          IN  /\ IsFiniteSet(done)
              /\ Cardinality(done) + (IF k \in DOMAIN acc.open THEN acc.open[k].records ELSE 0)
                    = Cardinality(SummaryFailures(s.audits, k, 0))
    <3> SUFFICES ASSUME NEW k \in Services
                 PROVE  /\ IsFiniteSet(Summary!Records({i \in acc.done : i.key = k}))
                        /\ Cardinality(Summary!Records({i \in acc.done : i.key = k}))
                             + (IF k \in DOMAIN acc.open THEN acc.open[k].records ELSE 0)
                              = Cardinality(SummaryFailures(s.audits, k, 0))
      OBVIOUS
    <3>1. {i \in acc.done : i.key = k} = {} /\ SummaryFailures(s.audits, k, 0) = {}
      BY <2>1
    <3>2. k \notin DOMAIN acc.open
      BY <2>3
    <3> DEFINE done == Summary!Records({i \in acc.done : i.key = k})
               x == IF k \in DOMAIN acc.open THEN acc.open[k].records ELSE 0
    <3>3. done = {} /\ x = 0
      BY <2>2, <3>1, <3>2
    <3>4. IsFiniteSet(done) /\ Cardinality(done) = 0 /\ Cardinality(SummaryFailures(s.audits, k, 0)) = 0
      BY <2>2, <3>1, <3>3
    <3> HIDE DEF done, x
    <3>5. IsFiniteSet(done) /\ Cardinality(done) + x = Cardinality(SummaryFailures(s.audits, k, 0))
      BY <3>3, <3>4
    <3>6. QED
      BY <3>5 DEF done, x
  <2> HIDE DEF acc
  <2>5. SummaryTold(s, acc, 0)
    BY <2>3, <2>4 DEF SummaryTold
  <2>6. QED
    BY <1>1, <2>5 DEF acc
<1>3. SUFFICES ASSUME S # {} PROVE FALSE
  BY DEF tells
<1>4. PICK k \in S : \A x \in S : k <= x
  <2>1. S \subseteq Nat
    BY <1>1
  <2> HIDE DEF S
  <2>2. QED
    BY <1>3, <2>1, LeastNumber
<1>5. k \in 1..N /\ ~SummaryTold(s, tells(k), k)
  BY <1>1, <1>2, <1>4
<1>6. k - 1 \in Nat /\ k \in 1..N /\ (k - 1) + 1 = k /\ SummaryTold(s, tells(k - 1), k - 1)
  BY <1>1, <1>4, <1>5
<1> HIDE DEF S
<1>7. SummaryTold(s, SummaryToldFrom(s, tells(k - 1), k), k)
  <2> DEFINE now == {a \in s.audits : a.at = k}
  <2>1. CASE now = {}
    <3>1. SummaryToldFrom(s, tells(k - 1), k) = tells(k - 1)
      BY <1>6, <2>1 DEF SummaryToldFrom
    <3>2. QED
      BY <1>6, <2>1, <3>1, SummaryNothing
  <2>2. CASE now # {}
    <3> DEFINE a == CHOOSE a \in now : TRUE
    <3>1. a \in s.audits /\ a.at = k
      BY <2>2
    <3>2. SummaryToldFrom(s, tells(k - 1), k) = Summary!Absorb(s, tells(k - 1), a)
      BY <1>6, <2>2 DEF SummaryToldFrom
    <3> HIDE DEF a
    <3>3. QED
      BY <1>6, <3>1, <3>2, SummarySucceeds, SummaryFailed
  <2>3. QED
    BY <2>1, <2>2
<1>8. QED
  BY <1>1, <1>5, <1>7

LEMMA SummaryEarliest ==
    ASSUME NEW times, times \subseteq Nat \cup {None}
    PROVE  Summary!Earliest(times) # None <=> \E t \in times : t # None
<1>1. CASE times \subseteq {None}
  BY <1>1 DEF Summary!Earliest
<1>2. CASE ~(times \subseteq {None})
  <2>1. times \ {None} \subseteq Nat /\ times \ {None} # {}
    BY <1>2
  <2>2. \E t \in times \ {None} : \A u \in times \ {None} : t <= u
    BY <2>1, LeastNumber
  <2>3. Summary!Earliest(times) = CHOOSE t \in times \ {None} : \A u \in times \ {None} : t <= u
    BY <1>2 DEF Summary!Earliest
  <2>4. Summary!Earliest(times) \in times \ {None}
    BY <2>2, <2>3
  <2>5. QED
    BY <2>1, <2>4
<1>3. QED
  BY <1>1, <1>2

SummaryWhole == SummaryIInv /\ Summary!Complete

LEMMA SummaryOfLog ==
    ASSUME SummaryWhole
    PROVE  /\ SummaryKnown(summary) /\ summary.at \in Nat
           /\ summary.statuses \in [Services -> SummaryStatus]
           /\ SummaryFollows(summary.audits, summary.told, summary.statuses)
           /\ \A key \in Services : Summary!IsDown(summary.statuses[key]) <=> summary.statuses[key].since # None
           /\ \A a \in summary.audits : a \in Summary!Audit /\ a.at \in 1..summary.at
           /\ \A a, b \in summary.audits : a.at = b.at => a = b
<1>1. SummaryIInv /\ summary # None /\ Summary!Complete
  BY DEF SummaryWhole, Summary!Complete
<1>2. /\ summary.audits = Summary!Audits /\ summary.at = Len(recordings)
      /\ SummaryStatuses(summary.audits, summary.statuses, summary.told)
      /\ SummaryLog(summary.audits, summary.at)
  BY <1>1, SummaryAudits DEF SummaryIInv, SummaryRead
<1>3. QED
  BY <1>2 DEF SummaryStatuses, SummaryKnown, SummaryLog, SummaryExplains

LEMMA SummaryPlatform ==
    ASSUME SummaryWhole
    PROVE  /\ Summary!IsDown(Summary!Platform(summary)) <=> \E key \in Services : summary.statuses[key].since # None
           /\ Summary!Platform(summary).since # None <=> \E key \in Services : summary.statuses[key].since # None
<1> DEFINE st == summary.statuses
           Times == {st[key].since : key \in Services}
<1>1. /\ \A key \in Services : st[key] \in SummaryStatus
      /\ \A key \in Services : Summary!IsDown(st[key]) <=> st[key].since # None
  BY SummaryOfLog
<1>2. Times \subseteq Nat \cup {None}
  BY <1>1 DEF SummaryStatus
<1>3. Summary!Platform(summary).since = Summary!Earliest(Times)
      /\ Summary!Platform(summary).state = Summary!OverallStatus(summary)
  BY DEF Summary!Platform
<1>4. Summary!Earliest(Times) # None <=> \E t \in Times : t # None
  BY <1>2, SummaryEarliest
<1>5. Summary!OverallStatus(summary) \in {"outage", "degraded"}
        <=> \E key \in Services : st[key].state \in {"outage", "degraded"}
  BY DEF Summary!OverallStatus, Summary!States
<1>6. QED
  BY <1>1, <1>3, <1>4, <1>5 DEF Summary!IsDown

LEMMA SummaryAgent ==
    ASSUME SummaryWhole
    PROVE  Summary!IsDown(Summary!Agent(summary)) <=> Summary!Agent(summary).since # None
<1> DEFINE st == summary.statuses
           Chosen == Summary!InteractiveServices(summary)
           Calls == Summary!Interactive(summary)
           Failures == {a.at : a \in {b \in Calls : b.outcome # "succeeded"}}
           Latest == Summary!LatestFailure(summary)
           Times == {st[key].since : key \in Chosen} \cup {Latest}
<1>1. /\ \A key \in Services : st[key] \in SummaryStatus
      /\ \A key \in Services : Summary!IsDown(st[key]) <=> st[key].since # None
  BY SummaryOfLog
<1>2. Chosen \subseteq Services
  BY DEF Summary!InteractiveServices
<1>3. /\ Calls \subseteq Summary!Audit /\ \A a \in Calls : a.at \in 1..summary.at
      /\ summary.at \in Nat
  BY SummaryOfLog DEF Summary!Interactive
<1>4. Latest = IF Failures = {} THEN None ELSE CHOOSE t \in Failures : \A u \in Failures : u <= t
  BY DEF Summary!LatestFailure
<1>5. Failures # {} => Latest \in Nat
  <2> SUFFICES ASSUME Failures # {} PROVE Latest \in Nat
    OBVIOUS
  <2>1. Failures \subseteq 1..summary.at
    BY <1>3
  <2> HIDE DEF Failures
  <2> DEFINE Left == {summary.at - t : t \in Failures}
  <2>2. Left \subseteq Nat /\ Left # {}
    <3>1. PICK t \in Failures : TRUE
      OBVIOUS
    <3>2. summary.at - t \in Left
      BY <3>1
    <3>3. \A u \in Failures : summary.at - u \in Nat
      BY <1>3, <2>1
    <3>4. QED
      BY <3>2, <3>3
  <2>3. \E x \in Left : \A y \in Left : x <= y
    <3> HIDE DEF Left
    <3>1. QED
      BY <2>2, LeastNumber
  <2>4. \E t \in Failures : \A u \in Failures : summary.at - t <= summary.at - u
    BY <2>3
  <2>5. \E t \in Failures : \A u \in Failures : u <= t
    BY <1>3, <2>1, <2>4
  <2>6. Latest \in Failures
    BY <1>4, <2>5
  <2>7. Latest \in 1..summary.at
    BY <2>1, <2>6
  <2>8. QED
    BY <1>3, <2>7
<1>6. Times \subseteq Nat \cup {None}
  BY <1>1, <1>2, <1>4, <1>5 DEF SummaryStatus
<1>7. Latest # None <=> \E a \in Calls : a.outcome # "succeeded"
  <2>1. Failures # {} <=> \E a \in Calls : a.outcome # "succeeded"
    OBVIOUS
  <2>2. Failures = {} => Latest = None
    BY <1>4
  <2> HIDE DEF Failures, Latest
  <2>3. QED
    BY <1>5, <2>1, <2>2, NoneAssumption
<1> HIDE DEF Latest
<1>8. Summary!Earliest(Times) # None <=> (\E key \in Chosen : st[key].since # None) \/ Latest # None
  <2>1. (\E t \in Times : t # None) <=> (\E key \in Chosen : st[key].since # None) \/ Latest # None
    OBVIOUS
  <2> HIDE DEF Times
  <2>2. QED
    BY <1>6, <2>1, SummaryEarliest
<1>9. /\ Summary!Agent(summary).state = Summary!AgentState(summary)
      /\ Summary!Agent(summary).since = IF Summary!AgentState(summary) = "operational" THEN None ELSE Summary!Earliest(Times)
  BY DEF Summary!Agent, Summary!AgentSince, Latest
<1> DEFINE states == {st[key].state : key \in Chosen}
<1>10. Summary!AgentState(summary) =
         CASE "outage" \in states -> "outage"
           [] /\ "outage" \notin states
              /\ \/ "degraded" \in states
                 \/ \E a \in Calls : a.outcome = "failed_queued" -> "degraded"
           [] OTHER -> IF Calls = {} THEN "monitoring" ELSE "operational"
  BY DEF Summary!AgentState
<1>11. \A key \in Chosen : st[key].since # None <=> st[key].state \in {"degraded", "outage"}
  BY <1>1, <1>2 DEF Summary!IsDown
<1> HIDE DEF Times, Calls, Chosen
<1>12. CASE Summary!AgentState(summary) \in {"outage", "degraded"}
  <2>1. (\E key \in Chosen : st[key].since # None) \/ Latest # None
    BY <1>7, <1>10, <1>11, <1>12
  <2>2. QED
    BY <1>8, <1>9, <1>12, <2>1 DEF Summary!IsDown
<1>13. CASE Summary!AgentState(summary) \notin {"outage", "degraded"}
  <2>1. Summary!AgentState(summary) = "operational" \/ (Calls = {} /\ \A key \in Chosen : st[key].since = None)
    BY <1>10, <1>11, <1>13
  <2>2. QED
    BY <1>7, <1>8, <1>9, <1>13, <2>1 DEF Summary!IsDown
<1>14. QED
  BY <1>12, <1>13

LEMMA SummaryDownSinceWhen == SummaryIInv => Summary!DownSinceWhen
<1> SUFFICES ASSUME SummaryWhole, NEW c \in Services \cup {"platform", "ai-agent"}
             PROVE  Summary!IsDown(Summary!Components(summary)[c]) <=> Summary!Components(summary)[c].since # None
  BY DEF Summary!DownSinceWhen, Summary!Components, SummaryWhole
<1> DEFINE shownComponent == Summary!Components(summary)[c]
<1>1. CASE c \in Services
  <2>1. shownComponent = [state |-> summary.statuses[c].state, since |-> summary.statuses[c].since]
    BY <1>1 DEF Summary!Components
  <2> HIDE DEF shownComponent
  <2>2. Summary!IsDown(shownComponent) <=> shownComponent.since # None
    BY <1>1, <2>1, SummaryOfLog DEF Summary!IsDown
  <2>3. QED
    BY <2>2 DEF shownComponent
<1>2. CASE c = "platform" /\ c \notin Services
  <2>1. shownComponent = Summary!Platform(summary)
    BY <1>2 DEF Summary!Components
  <2>2. QED
    BY <2>1, SummaryPlatform
<1>3. CASE c = "ai-agent" /\ c \notin Services
  <2>1. shownComponent = Summary!Agent(summary)
    BY <1>3 DEF Summary!Components
  <2>2. QED
    BY <2>1, SummaryAgent
<1>4. QED
  BY <1>1, <1>2, <1>3

\* What the log tells of a summary that was read in full.
LEMMA SummaryToldOfAll ==
    ASSUME SummaryWhole
    PROVE  Summary!Told(summary) = Summary!ToldBy(summary)[summary.at]
           /\ SummaryTold(summary, Summary!Told(summary), summary.at)
<1>1. summary.at \in Nat
  BY SummaryOfLog
<1>2. Summary!Told(summary) = Summary!ToldBy(summary)[summary.at]
  BY DEF Summary!Told
<1>3. SummaryTold(summary, Summary!ToldBy(summary)[summary.at], summary.at)
  BY <1>1, SummaryOfLog, SummaryAllTold
<1>4. QED
  BY <1>2, <1>3

SummaryStillOpen(s, key) ==
    [Summary!Told(s).open[key] EXCEPT
        !.state = IF s.statuses[key].state = "outage" THEN "outage" ELSE @,
        !.started = IF s.statuses[key].since = None THEN @ ELSE s.statuses[key].since,
        !.updated = IF s.statuses[key].failed = None THEN @ ELSE s.statuses[key].failed]

SummaryOfStatus(s, key) ==
    [key |-> key, state |-> s.statuses[key].state, started |-> s.statuses[key].since,
     resolved |-> None, updated |-> s.statuses[key].failed,
     records |-> s.statuses[key].failures]

\* The incidents of the timeline, and what is known of them.
LEMMA SummaryTimeline ==
    ASSUME SummaryWhole
    PROVE  /\ Summary!Timeline(summary) =
                 Summary!Told(summary).done
                   \cup {SummaryStillOpen(summary, key) : key \in DOMAIN Summary!Told(summary).open}
                   \cup {SummaryOfStatus(summary, key) : key \in Summary!Untracked(summary)}
           /\ DOMAIN Summary!Told(summary).open \subseteq Services
           /\ Summary!Untracked(summary) =
                 {key \in Services : key \notin DOMAIN Summary!Told(summary).open
                                     /\ Summary!IsDown(summary.statuses[key])}
           /\ \A key \in DOMAIN Summary!Told(summary).open :
                 LET i == SummaryStillOpen(summary, key)
                     o == Summary!Told(summary).open[key]
                 IN  /\ i.key = key /\ i.resolved = None /\ i.records = o.records /\ i.records \in Nat
                     /\ summary.statuses[key].since = None => i.started = o.started
                     /\ summary.statuses[key].since # None => i.started = summary.statuses[key].since
           /\ \A i \in Summary!Told(summary).done : i.resolved # None /\ i.resolved \in Nat
<1> DEFINE all == Summary!Told(summary)
<1>1. SummaryTold(summary, all, summary.at)
  BY SummaryToldOfAll
<1> HIDE DEF all
<1>2. DOMAIN all.open \subseteq Services
  BY <1>1 DEF SummaryTold
<1>3. Summary!Timeline(summary) =
         all.done \cup {SummaryStillOpen(summary, key) : key \in DOMAIN all.open}
                   \cup {SummaryOfStatus(summary, key) : key \in Summary!Untracked(summary)}
  BY DEF Summary!Timeline, SummaryStillOpen, SummaryOfStatus, all
<1>4. Summary!Untracked(summary) = {key \in Services : key \notin DOMAIN all.open /\ Summary!IsDown(summary.statuses[key])}
  BY DEF Summary!Untracked, all
<1>5. ASSUME NEW key \in DOMAIN all.open
      PROVE  /\ SummaryStillOpen(summary, key).key = key /\ SummaryStillOpen(summary, key).resolved = None
             /\ SummaryStillOpen(summary, key).records = all.open[key].records
             /\ SummaryStillOpen(summary, key).records \in Nat
             /\ summary.statuses[key].since = None => SummaryStillOpen(summary, key).started = all.open[key].started
             /\ summary.statuses[key].since # None => SummaryStillOpen(summary, key).started = summary.statuses[key].since
  <2> DEFINE o == all.open[key]
  <2>1. o \in SummaryIncident /\ o.key = key /\ o.resolved = None
    BY <1>1 DEF SummaryTold
  <2>2. SummaryStillOpen(summary, key) =
          [o EXCEPT !.state = IF summary.statuses[key].state = "outage" THEN "outage" ELSE @,
                    !.started = IF summary.statuses[key].since = None THEN @ ELSE summary.statuses[key].since,
                    !.updated = IF summary.statuses[key].failed = None THEN @ ELSE summary.statuses[key].failed]
    BY DEF SummaryStillOpen, all
  <2> HIDE DEF o
  <2>3. QED
    BY <2>1, <2>2 DEF SummaryIncident, o
<1>6. \A i \in all.done : i.resolved # None /\ i.resolved \in Nat
  BY <1>1, NoneAssumption DEF SummaryTold
<1>7. QED
  BY <1>2, <1>3, <1>4, <1>5, <1>6 DEF all

LEMMA SummaryResolvedAfterStart == SummaryIInv => Summary!ResolvedAfterStart
<1> SUFFICES ASSUME SummaryWhole, NEW i \in Summary!Timeline(summary), i.resolved # None,
                    ~Summary!IsDown(summary.statuses[i.key])
             PROVE  i.started < i.resolved
  BY DEF Summary!ResolvedAfterStart, SummaryWhole
<1>1. i \in Summary!Told(summary).done
  BY SummaryTimeline DEF SummaryOfStatus
<1>2. i.key \in Services
  BY <1>1, SummaryToldOfAll DEF SummaryTold, SummaryIncident
<1>3. summary.statuses[i.key].since = None
  BY <1>2, SummaryOfLog
<1>4. QED
  BY <1>1, <1>3, SummaryToldOfAll DEF SummaryTold

LEMMA SummaryStartedAtAFailure == SummaryIInv => Summary!StartedAtAFailure
<1> SUFFICES ASSUME SummaryWhole, NEW i \in Summary!Timeline(summary)
             PROVE  \E a \in summary.audits : a.key = i.key /\ a.outcome # "succeeded" /\ a.at = i.started
  BY DEF Summary!StartedAtAFailure, SummaryWhole
<1>1. \A key \in Services : summary.statuses[key].since # None =>
         SummaryFails(summary.audits, key, summary.statuses[key].since)
  BY SummaryOfLog DEF SummaryKnown, SummaryExplains
<1>2. CASE i \in Summary!Told(summary).done
  BY <1>2, SummaryToldOfAll DEF SummaryTold, SummaryFails
<1>3. CASE \E key \in DOMAIN Summary!Told(summary).open : i = SummaryStillOpen(summary, key)
  <2>1. PICK key \in DOMAIN Summary!Told(summary).open : i = SummaryStillOpen(summary, key)
    BY <1>3
  <2> DEFINE o == Summary!Told(summary).open[key]
  <2>2. /\ key \in Services /\ i.key = key
        /\ summary.statuses[key].since = None => i.started = o.started
        /\ summary.statuses[key].since # None => i.started = summary.statuses[key].since
    BY <2>1, SummaryTimeline
  <2>3. SummaryFails(summary.audits, key, o.started)
    BY SummaryToldOfAll DEF SummaryTold
  <2> HIDE DEF o
  <2>4. SummaryFails(summary.audits, key, i.started)
    BY <1>1, <2>2, <2>3
  <2>5. QED
    BY <2>2, <2>4 DEF SummaryFails
<1>4. CASE \E key \in Summary!Untracked(summary) : i = SummaryOfStatus(summary, key)
  <2>1. PICK key \in Summary!Untracked(summary) : i = SummaryOfStatus(summary, key)
    BY <1>4
  <2>2. key \in Services /\ Summary!IsDown(summary.statuses[key])
    BY SummaryTimeline
  <2>3. i.key = key /\ i.started = summary.statuses[key].since
    BY <2>1 DEF SummaryOfStatus
  <2>4. SummaryFails(summary.audits, key, i.started)
    BY <1>1, <2>2, <2>3, SummaryOfLog
  <2>5. QED
    BY <2>3, <2>4 DEF SummaryFails
<1>5. QED
  BY <1>2, <1>3, <1>4, SummaryTimeline

LEMMA SummaryFollowsLog == SummaryIInv => Summary!StatusFollowsLog
<1> SUFFICES ASSUME SummaryWhole, NEW key \in Services, NEW a \in Summary!Streak(summary, key),
                    a.at \in summary.told
             PROVE  Summary!IsDown(summary.statuses[key]) <=> a.outcome # "succeeded"
  BY DEF Summary!StatusFollowsLog, SummaryWhole
<1>1. /\ a \in summary.audits /\ a.key = key
      /\ \A b \in summary.audits : b.key = key /\ b.at >= a.at =>
            (b.outcome = "succeeded" <=> a.outcome = "succeeded")
  BY DEF Summary!Streak
<1>2. PICK b \in summary.audits : /\ b.key = a.key /\ b.at >= a.at
                                  /\ Summary!IsDown(summary.statuses[a.key]) <=> b.outcome # "succeeded"
  BY <1>1, SummaryOfLog DEF SummaryFollows
<1>3. QED
  BY <1>1, <1>2

LEMMA SummaryQuiet == SummaryIInv => Summary!QuietBannerMissesNothing
<1> SUFFICES ASSUME SummaryWhole, ~Summary!IsDown(Summary!Platform(summary)),
                    NEW incident \in Summary!Timeline(summary), incident.resolved = None,
                    NEW a \in summary.audits, a.key = incident.key, a.at >= incident.started
             PROVE  a.at \notin summary.told
  BY DEF Summary!QuietBannerMissesNothing, SummaryWhole
<1>1. \A key \in Services : summary.statuses[key].since = None /\ ~Summary!IsDown(summary.statuses[key])
  BY SummaryPlatform, SummaryOfLog
<1>2. incident \notin Summary!Told(summary).done
  BY SummaryTimeline
<1>3. PICK key \in DOMAIN Summary!Told(summary).open : incident = SummaryStillOpen(summary, key)
  BY <1>1, <1>2, SummaryTimeline
<1>4. key \in Services /\ incident.key = key /\ incident.started = Summary!Told(summary).open[key].started
  BY <1>1, <1>3, SummaryTimeline
<1>5. PICK i \in 1..summary.at : SummaryFailing(summary.audits, key, i, summary.at) /\ incident.started = i
  BY <1>1, <1>4, SummaryToldOfAll DEF SummaryTold
<1>6. \A b \in summary.audits : b.key = key /\ b.at >= i => b.outcome # "succeeded"
  BY <1>5, SummaryOfLog DEF SummaryFailing
<1>7. a.outcome # "succeeded" /\ a \in Summary!Streak(summary, key)
  BY <1>4, <1>5, <1>6, SummaryOfLog DEF Summary!Streak
<1>8. SummaryIInv /\ Summary!Complete
  BY DEF SummaryWhole
<1>9. a.at \in summary.told => Summary!IsDown(summary.statuses[key])
  BY <1>4, <1>7, <1>8, SummaryFollowsLog DEF Summary!StatusFollowsLog
<1>10. QED
  BY <1>1, <1>4, <1>9

LEMMA SummaryRecordsInTimeline == SummaryIInv => Summary!RecordsAreInTimeline
<1> DEFINE Of(key) == {i \in Summary!Timeline(summary) : i.key = key}
           Open(key) == {i \in Of(key) : i.resolved = None}
           Failures(key) == {a \in summary.audits : a.key = key /\ a.outcome # "succeeded"}
           all == Summary!Told(summary)
<1> SUFFICES ASSUME SummaryWhole, NEW key \in Services
             PROVE  /\ Summary!Cardinality(Open(key)) <= 1
                    /\ Summary!IsDown(summary.statuses[key]) => Open(key) # {}
                    /\ key \notin Summary!Untracked(summary) =>
                         Summary!Cardinality(Summary!Records(Of(key))) = Summary!Cardinality(Failures(key))
  BY DEF Summary!RecordsAreInTimeline, SummaryWhole
<1> DEFINE StillOpen == SummaryStillOpen(summary, key)
           OfStatus == SummaryOfStatus(summary, key)
           done == {i \in all.done : i.key = key}
<1>1. Of(key) = done \cup (IF key \in DOMAIN all.open THEN {StillOpen} ELSE {})
                     \cup (IF key \in Summary!Untracked(summary) THEN {OfStatus} ELSE {})
  <2>1. /\ Summary!Timeline(summary) =
                 all.done \cup {SummaryStillOpen(summary, k) : k \in DOMAIN all.open}
                           \cup {SummaryOfStatus(summary, k) : k \in Summary!Untracked(summary)}
        /\ \A k \in DOMAIN all.open : SummaryStillOpen(summary, k).key = k
    BY SummaryTimeline
  <2>2. \A k \in Summary!Untracked(summary) : SummaryOfStatus(summary, k).key = k
    BY DEF SummaryOfStatus
  <2> HIDE DEF all
  <2>3. QED
    BY <2>1, <2>2 DEF all
<1>2. OfStatus.resolved = None
  BY DEF SummaryOfStatus
<1>3. /\ key \in DOMAIN all.open => /\ StillOpen.resolved = None /\ StillOpen.records = all.open[key].records
                                     /\ StillOpen.records \in Nat
      /\ \A i \in done : i.resolved # None
      /\ key \in Summary!Untracked(summary) <=> key \notin DOMAIN all.open /\ Summary!IsDown(summary.statuses[key])
  BY SummaryTimeline
<1>4. SummaryTold(summary, all, summary.at)
  BY SummaryToldOfAll
<1> HIDE DEF StillOpen, OfStatus, all
<1>5. /\ key \in DOMAIN all.open => Open(key) = {StillOpen}
      /\ key \in Summary!Untracked(summary) => Open(key) = {OfStatus}
      /\ key \notin DOMAIN all.open /\ key \notin Summary!Untracked(summary) => Open(key) = {}
  BY <1>1, <1>2, <1>3
<1>6. Summary!Cardinality(Open(key)) <= 1
  <2> HIDE DEF Open
  <2>1. Open(key) = {} \/ \E x : Open(key) = {x}
    BY <1>5
  <2>2. Cardinality(Open(key)) \in {0, 1}
    BY <2>1, FS_EmptySet, FS_Singleton
  <2>3. QED
    BY <2>2, SameCardinality
<1>7. Summary!IsDown(summary.statuses[key]) => Open(key) # {}
  BY <1>3, <1>5
<1>8. ASSUME key \notin Summary!Untracked(summary)
      PROVE  Summary!Cardinality(Summary!Records(Of(key))) = Summary!Cardinality(Failures(key))
  <2> DEFINE F == SummaryFailures(summary.audits, key, summary.at)
  <2>1. /\ IsFiniteSet(Summary!Records(done))
        /\ Cardinality(Summary!Records(done)) + (IF key \in DOMAIN all.open THEN all.open[key].records ELSE 0)
              = Cardinality(F)
    BY <1>4, SummaryOfLog DEF SummaryTold
  <2>2. Cardinality(Summary!Records(Of(key))) = Cardinality(F)
    <3>1. CASE key \in DOMAIN all.open
      <4>1. Of(key) = done \cup {StillOpen} /\ StillOpen \notin done /\ StillOpen.records \in Nat
        BY <1>1, <1>3, <1>8, <3>1
      <4> HIDE DEF Of, done, F
      <4>2. Cardinality(Summary!Records(Of(key))) = Cardinality(Summary!Records(done)) + StillOpen.records
        BY <2>1, <4>1, SummaryRecordsOfOne
      <4>3. QED
        BY <1>3, <2>1, <3>1, <4>2
    <3>2. CASE key \notin DOMAIN all.open
      <4>1. Of(key) = done
        BY <1>1, <1>8, <3>2
      <4>2. Cardinality(Summary!Records(done)) \in Nat
        BY <2>1, FS_CardinalityType
      <4> HIDE DEF Of, done, F
      <4>3. QED
        BY <2>1, <3>2, <4>1, <4>2
    <3>3. QED
      BY <3>1, <3>2
  <2>3. Cardinality(Failures(key)) = Cardinality(F)
    <3> DEFINE f == [i \in F |-> CHOOSE a \in Failures(key) : a.at = i]
    <3>1. /\ \A i \in F : i \in 1..summary.at /\ \E a \in Failures(key) : a.at = i
          /\ \A a \in Failures(key) : a.at \in F
      BY SummaryOfLog DEF SummaryFailures, SummaryFails
    <3>2. \A i \in F : f[i] \in Failures(key) /\ f[i].at = i
      <4> HIDE DEF F, Failures
      <4>1. QED
        BY <3>1
    <3>3. \A a \in Failures(key) : \E i \in F : f[i] = a
      <4>1. \A a, b \in Failures(key) : a.at = b.at => a = b
        BY SummaryOfLog
      <4> HIDE DEF F, Failures, f
      <4>2. QED
        BY <3>1, <3>2, <4>1
    <3> HIDE DEF F
    <3>4. f \in [F -> Failures(key)] /\ \A i, j \in F : f[i] = f[j] => i = j
      BY <3>2
    <3> HIDE DEF f, Failures
    <3>5. f \in Bijection(F, Failures(key))
      BY <3>3, <3>4 DEF Bijection, Injection, Surjection, IsInjective
    <3>6. IsFiniteSet(F)
      <4>1. F \subseteq 1..summary.at /\ IsFiniteSet(1..summary.at)
        BY <3>1, SummaryOfLog, FS_Interval
      <4>2. QED
        BY <4>1, FS_Subset
    <3>7. QED
      BY <3>5, <3>6, FS_Bijection DEF ExistsBijection
  <2>4. QED
    BY <2>2, <2>3, SameCardinality
<1>9. QED
  BY <1>6, <1>7, <1>8

LEMMA SummaryHourGrows ==
    ASSUME NEW L \in Nat \ {0}, NEW a \in Nat, NEW b \in Nat, a <= b
    PROVE  (a \div L) \in Nat /\ (b \div L) \in Nat /\ a \div L <= b \div L
OBVIOUS

LEMMA SummaryBars == SummaryIInv => Summary!BarsCountRecords
<1> SUFFICES ASSUME SummaryWhole, NEW key \in Services,
                    NEW a \in Summary!FilteredAudits(summary, key, None, "all"),
                    Summary!Hour(a.at) > Summary!Hour(summary.at) - WindowHours
             PROVE  \E h \in Summary!Slots(summary) :
                        /\ a \in Summary!InspectHour(summary, key, h)
                        /\ Summary!Bar(summary, key, h) = Summary!InspectHour(summary, key, h)
                        /\ Summary!BarState(summary, key, h) # "empty"
  BY DEF Summary!BarsCountRecords, SummaryWhole
<1> DEFINE h == Summary!Hour(a.at)
           now == Summary!Hour(summary.at)
<1>1. key # "all" /\ HourLength \in Nat \ {0} /\ WindowHours \in Nat \ {0}
  BY ConstantsAssumption
<1>2. a \in summary.audits /\ a.key = key
  BY <1>1 DEF Summary!FilteredAudits
<1>3. a \in Summary!Audit /\ a.at \in Nat /\ summary.at \in Nat /\ a.at <= summary.at
  BY <1>2, SummaryOfLog
<1>4. h \in Nat /\ now \in Nat /\ h <= now
  BY <1>1, <1>3, SummaryHourGrows DEF Summary!Hour
<1> HIDE DEF h, now
<1>5. h \in Summary!Slots(summary)
  <2>1. now - h \in 0..(WindowHours - 1) /\ h = now - (now - h)
    BY <1>1, <1>4 DEF h, now
  <2>2. QED
    BY <2>1 DEF Summary!Slots, now
<1>6. h # None
  BY <1>4, NoneAssumption
<1>7. Summary!InspectHour(summary, key, h) = Summary!Bar(summary, key, h)
  BY <1>1, <1>6 DEF Summary!InspectHour, Summary!FilteredAudits, Summary!Bar, Summary!InMode
<1>8. a \in Summary!Bar(summary, key, h)
  BY <1>2 DEF Summary!Bar, h
<1>9. Summary!BarState(summary, key, h) # "empty"
  <2> DEFINE outcomes == {b.outcome : b \in Summary!Bar(summary, key, h)}
  <2>1. a.outcome \in outcomes
    BY <1>8
  <2>2. outcomes \subseteq {"succeeded", "failed", "failed_queued"}
    BY SummaryOfLog DEF Summary!Bar, Summary!Audit, Summary!Outcomes
  <2> HIDE DEF outcomes
  <2>3. "failed" \in outcomes \/ "failed_queued" \in outcomes \/ outcomes = {"succeeded"}
    BY <2>1, <2>2
  <2>4. QED
    BY <2>3 DEF Summary!BarState, outcomes
<1>10. QED
  BY <1>5, <1>7, <1>8, <1>9

LEMMA SummaryShows == SummaryIInv => Summary!SummaryTellsTheLog
BY SummaryStartedAtAFailure, SummaryFollowsLog,
   SummaryDownSinceWhen, SummaryRecordsInTimeline, SummaryResolvedAfterStart, SummaryQuiet, SummaryBars
   DEF Summary!SummaryTellsTheLog

\* Induction up to a number, of what a set of numbers says.
LEMMA CountUp ==
    ASSUME NEW N \in Nat, NEW S, 0 \in S, \A n \in 0..N : n < N /\ n \in S => n + 1 \in S
    PROVE  0..N \subseteq S
<1> DEFINE rest == (0..N) \ S
<1>1. SUFFICES ASSUME rest # {} PROVE FALSE
  OBVIOUS
<1>2. rest \subseteq Nat
  OBVIOUS
<1>3. PICK t \in rest : \A x \in rest : t <= x
  <2> HIDE DEF rest
  <2>1. QED
    BY <1>1, <1>2, LeastNumber
<1>4. t \in 1..N /\ t - 1 \in 0..N /\ t - 1 < N /\ ~(t <= t - 1) /\ t = t - 1 + 1
  OBVIOUS
<1>5. t - 1 \in S
  BY <1>3, <1>4
<1>6. QED
  BY <1>4, <1>5

\* Functions that are recursive in the number before.
StepFunctions(N, T) == [1..N -> [T -> T]]
Follows(f, N, T, base, next) ==
    f \in [0..N -> T] /\ f[0] = base /\ \A n \in 1..N : f[n] = next[n][f[n - 1]]

LEMMA RecursiveFunction ==
    ASSUME NEW N \in Nat, NEW T, NEW base \in T, NEW next \in StepFunctions(N, T)
    PROVE  \E f : Follows(f, N, T, base, next)
<1> USE DEF StepFunctions, Follows
<1> DEFINE Upto(k) == \E f \in [0..k -> T] : f[0] = base /\ \A n \in 1..k : f[n] = next[n][f[n - 1]]
           S == {k \in 0..N : Upto(k)}
<1>1. 0 \in S
  <2>1. [n \in 0..0 |-> base] \in [0..0 -> T] /\ [n \in 0..0 |-> base][0] = base /\ 1..0 = {}
    OBVIOUS
  <2>2. Upto(0)
    BY <2>1
  <2>3. QED
    BY <2>2
<1>2. ASSUME NEW k \in 0..N, k < N, k \in S PROVE k + 1 \in S
  <2>1. PICK f \in [0..k -> T] : f[0] = base /\ \A n \in 1..k : f[n] = next[n][f[n - 1]]
    BY <1>2
  <2>2. k + 1 \in 1..N /\ f[k] \in T /\ next[k + 1] \in [T -> T]
    BY <1>2
  <2> DEFINE last == next[k + 1][f[k]]
             g == [n \in 0..(k + 1) |-> IF n = k + 1 THEN last ELSE f[n]]
  <2>3. last \in T
    BY <2>2
  <2> HIDE DEF last
  <2>4. g \in [0..(k + 1) -> T] /\ g[0] = base
    BY <2>1, <2>3
  <2>5. ASSUME NEW n \in 1..(k + 1) PROVE g[n] = next[n][g[n - 1]]
    <3>1. CASE n = k + 1
      BY <3>1 DEF last
    <3>2. CASE n \in 1..k
      BY <2>1, <3>2
    <3>3. QED
      BY <3>1, <3>2
  <2> HIDE DEF g
  <2>6. Upto(k + 1)
    BY <2>4, <2>5
  <2>7. k + 1 \in 0..N
    BY <1>2
  <2> HIDE DEF Upto
  <2>8. QED
    BY <2>6, <2>7
<1> HIDE DEF S
<1>3. 0..N \subseteq S
  BY <1>1, <1>2, CountUp
<1>4. QED
  BY <1>3 DEF S

-----------------------------------------------------------------------------
(* Charts                                                                  *)

\* What is kept of a sequence are some of its elements.
LEMMA ChartKept ==
    ASSUME NEW S, NEW s \in Seq(S), NEW places, NEW T, \A i \in 1..Len(s) : i \in places => s[i] \in T
    PROVE  Chart!Kept(s, places) \in Seq(T)
<1> DEFINE N == Len(s)
           Step(n, t) == IF n \in places THEN Append(t, s[n]) ELSE t
           Is(f) == f = [n \in 0..N |-> IF n = 0 THEN <<>> ELSE Step(n, f[n - 1])]
           kept == CHOOSE f : Is(f)
           next == [n \in 1..N |-> [t \in Seq(T) |-> Step(n, t)]]
<1>1. N \in Nat
  OBVIOUS
<1>2. \A n \in 1..N, t \in Seq(T) : Step(n, t) \in Seq(T)
  OBVIOUS
<1> HIDE DEF N, Step
<1>3. next \in [1..N -> [Seq(T) -> Seq(T)]] /\ <<>> \in Seq(T)
  BY <1>2
<1>4. PICK f \in [0..N -> Seq(T)] : f[0] = <<>> /\ \A n \in 1..N : f[n] = next[n][f[n - 1]]
  <2>1. next \in StepFunctions(N, Seq(T))
    BY <1>3 DEF StepFunctions
  <2> HIDE DEF next
  <2>2. PICK f : Follows(f, N, Seq(T), <<>>, next)
    BY <1>1, <1>3, <2>1, RecursiveFunction
  <2>3. QED
    BY <2>2 DEF Follows
<1>5. ASSUME NEW n \in 1..N PROVE f[n] = Step(n, f[n - 1])
  <2>1. n - 1 \in 0..N
    BY <1>1
  <2>2. f[n - 1] \in Seq(T)
    BY <1>4, <2>1
  <2>3. next[n][f[n - 1]] = Step(n, f[n - 1])
    BY <2>2
  <2>4. QED
    BY <1>4, <2>3
<1>6. Is(f)
  BY <1>1, <1>4, <1>5
<1>7. Is(kept)
  BY <1>6
<1>8. Chart!Kept(s, places) = kept[N]
  BY DEF Chart!Kept, Step, N
<1> HIDE DEF kept
<1> DEFINE P == {n \in 0..N : kept[n] \in Seq(T)}
<1>9. 0 \in P
  BY <1>1, <1>3, <1>7
<1>10. ASSUME NEW n \in 0..N, n < N, n \in P PROVE n + 1 \in P
  <2>1. n + 1 \in 1..N /\ n + 1 \in 0..N /\ n + 1 # 0 /\ n + 1 - 1 = n
    BY <1>1, <1>10
  <2>2. kept[n + 1] = Step(n + 1, kept[n])
    BY <1>7, <2>1
  <2>3. QED
    BY <1>2, <1>10, <2>1, <2>2
<1> HIDE DEF P
<1>11. 0..N \subseteq P
  BY <1>1, <1>9, <1>10, CountUp
<1>12. QED
  BY <1>1, <1>8, <1>11 DEF P

ChartColor == OtherColors \cup {None}
ChartLine ==
    [name : DOMAIN KeyOf, color : ChartColor,
     points : Seq([label : DOMAIN KeyOf, value : Int \cup {None}, color : ChartColor])]

\* Points and series that a chart draws.
ChartPoint == [label : DOMAIN KeyOf, value : Int, color : ChartColor]
ChartSeries == [name : DOMAIN KeyOf, color : ChartColor, points : Seq(ChartPoint) \ {<<>>}]

LEMMA ChartPoints == ASSUME NEW l \in ChartLine PROVE Chart!Points(l) \in Seq(ChartPoint)
<1> DEFINE s == l.points
           S == [label : DOMAIN KeyOf, value : Int \cup {None}, color : ChartColor]
           places == {j \in DOMAIN s : s[j].value # None}
<1>1. s \in Seq(S)
  BY DEF ChartLine
<1>2. ASSUME NEW i \in 1..Len(s), i \in places PROVE s[i] \in ChartPoint
  <2>1. s[i].value # None
    BY <1>2
  <2>2. s[i] \in S
    <3> HIDE DEF s, S
    <3>1. QED
      BY <1>1
  <2> HIDE DEF s
  <2>3. QED
    BY <2>1, <2>2 DEF ChartPoint
<1>3. Chart!Points(l) = Chart!Kept(s, places)
  BY DEF Chart!Points
<1> HIDE DEF s, S, places
<1>4. QED
  BY <1>1, <1>2, <1>3, ChartKept

LEMMA ChartSeriesDrawn == ASSUME source \in Sources PROVE Chart!Series \in Seq(ChartSeries)
<1> DEFINE S == [name : DOMAIN KeyOf, color : ChartColor, points : Seq(ChartPoint)]
           Drawn(i) == [source[i] EXCEPT !.points = Chart!Points(source[i])]
           lists == [i \in DOMAIN source |-> Drawn(i)]
           places == {i \in DOMAIN lists : lists[i].points # <<>>}
<1>1. source \in Seq(ChartLine)
  BY ChartAssumption DEF ChartLine, ChartColor
<1>2. ASSUME NEW i \in 1..Len(source) PROVE Drawn(i) \in S
  <2>1. source[i] \in ChartLine
    BY <1>1
  <2>2. Chart!Points(source[i]) \in Seq(ChartPoint)
    BY <2>1, ChartPoints
  <2>3. QED
    BY <2>1, <2>2 DEF ChartLine
<1>3. lists \in Seq(S) /\ Len(lists) = Len(source)
  <2> HIDE DEF S, Drawn
  <2>1. QED
    BY <1>1, <1>2
<1>4. Chart!Series = Chart!Kept(lists, places)
  BY DEF Chart!Series
<1> HIDE DEF lists
<1>5. ASSUME NEW i \in 1..Len(lists), i \in places PROVE lists[i] \in ChartSeries
  <2>1. lists[i].points # <<>>
    BY <1>5
  <2>2. lists[i] \in S
    <3> HIDE DEF S
    <3>1. QED
      BY <1>3
  <2>3. QED
    BY <2>1, <2>2 DEF ChartSeries
<1> HIDE DEF S, places
<1>6. QED
  BY <1>3, <1>4, <1>5, ChartKept

LEMMA ChartPalette == ASSUME NEW i \in Nat, i > 0 PROVE Chart!PaletteColor(i) \in OtherColors
<1>1. Palette \in Seq(OtherColors) /\ Len(Palette) \in Nat \ {0}
  BY ChartAssumption
<1>2. ((i - 1) % Len(Palette)) + 1 \in 1..Len(Palette)
  BY <1>1
<1>3. QED
  BY <1>1, <1>2 DEF Chart!PaletteColor

ChartTypes ==
    /\ kind \in Chart!Kinds /\ source \in Sources
    /\ {valueColors, seriesColors} \subseteq [Chart!Keys -> Colors \cup {None}]
    /\ lineColor \in Colors \cup {None}
    /\ edited \in [section : {"Values", "Series", "Line", None}, key : Chart!Keys \cup {"__line__", None},
                   color : Colors \cup {None}, since : BOOLEAN]

\* What was edited last, and nothing else happened since, is still stored.
ChartEditIsStored ==
    ~edited.since =>
        /\ edited.color \in Colors
        /\ \/ edited.section = "Values" /\ edited.key \in Chart!Keys /\ valueColors[edited.key] = edited.color
           \/ edited.section = "Series" /\ edited.key \in Chart!Keys /\ seriesColors[edited.key] = edited.color
           \/ edited.section = "Line" /\ lineColor = edited.color

ChartIInv == ChartTypes /\ ChartEditIsStored

ChartUnpicked ==
    lineColor = None /\ \A key \in Chart!Keys : valueColors[key] = None /\ seriesColors[key] = None

LEMMA ChartKeys == \A l \in DOMAIN KeyOf : KeyOf[l] \in Chart!Keys
BY DEF Chart!Keys

\* The slices of a pie have what was picked for their labels.
LEMMA ChartSlices ==
    ASSUME ChartTypes, NEW p \in Chart!Range(Chart!Slices)
    PROVE  /\ p.label \in DOMAIN KeyOf
           /\ valueColors[KeyOf[p.label]] # None => p.color = valueColors[KeyOf[p.label]]
           /\ valueColors[KeyOf[p.label]] = None => p.color \in OtherColors
<1> DEFINE points == Chart!Points(source[1])
           Picked(q) == valueColors[KeyOf[q.label]]
           Slice(i) == [points[i] EXCEPT !.color = Chart!Else(Picked(points[i]), Chart!Else(@, Chart!PaletteColor(i)))]
           slices == [i \in DOMAIN points |-> Slice(i)]
           places == {i \in DOMAIN points : points[i].value > 0}
           T == {q \in [label : DOMAIN KeyOf, value : Int, color : Colors \cup OtherColors] :
                    /\ Picked(q) # None => q.color = Picked(q)
                    /\ Picked(q) = None => q.color \in OtherColors}
<1>1. source \in Seq(ChartLine)
  BY ChartAssumption DEF ChartTypes, ChartLine, ChartColor
<1>2. source # <<>> /\ source[1].name = None
  <2>1. DOMAIN <<>> = {} /\ p \in {Chart!Slices[i] : i \in DOMAIN Chart!Slices}
    BY DEF Chart!Range
  <2>2. QED
    BY <2>1 DEF Chart!Slices
<1>3. points \in Seq(ChartPoint)
  <2>1. source[1] \in ChartLine
    BY <1>1, <1>2
  <2>2. QED
    BY <2>1, ChartPoints
<1>4. Chart!Slices = Chart!Kept(slices, places)
  BY <1>2 DEF Chart!Slices
<1> HIDE DEF points
<1>5. ASSUME NEW i \in 1..Len(points) PROVE Slice(i) \in T
  <2> DEFINE q == points[i]
             c == Chart!Else(Picked(q), Chart!Else(q.color, Chart!PaletteColor(i)))
  <2>1. q \in ChartPoint
    BY <1>3
  <2>2. Chart!PaletteColor(i) \in OtherColors
    BY <1>3, ChartPalette
  <2>3. Picked(q) \in Colors \cup {None}
    BY <2>1, ChartKeys DEF ChartPoint, ChartTypes
  <2>4. /\ Picked(q) # None => c = Picked(q)
        /\ Picked(q) = None => c \in OtherColors
        /\ c \in Colors \cup OtherColors
    BY <2>1, <2>2, <2>3 DEF Chart!Else, ChartPoint, ChartColor
  <2>5. Slice(i) = [q EXCEPT !.color = c]
    OBVIOUS
  <2> HIDE DEF q, c, Slice
  <2>6. /\ [q EXCEPT !.color = c] \in [label : DOMAIN KeyOf, value : Int, color : Colors \cup OtherColors]
        /\ [q EXCEPT !.color = c].label = q.label /\ [q EXCEPT !.color = c].color = c
    BY <2>1, <2>4 DEF ChartPoint
  <2>7. QED
    BY <2>4, <2>5, <2>6
<1>6. slices \in Seq(T) /\ Len(slices) = Len(points)
  <2> HIDE DEF T, Slice
  <2>1. QED
    BY <1>3, <1>5
<1>7. Chart!Slices \in Seq(T)
  <2>1. ASSUME NEW i \in 1..Len(slices), i \in places PROVE slices[i] \in T
    <3> HIDE DEF slices, places, T
    <3>1. QED
      BY <1>6, <2>1
  <2> HIDE DEF slices, places, T
  <2>2. QED
    BY <1>4, <1>6, <2>1, ChartKept
<1>8. p \in T
  <2> HIDE DEF T
  <2>1. QED
    BY <1>7 DEF Chart!Range
<1>9. QED
  BY <1>8

\* A series has the colour picked for it, and a line alone the one picked for the line.
LEMMA ChartSeriesColor ==
    ASSUME ChartTypes, NEW series \in Seq(ChartSeries), NEW i \in 1..Len(series)
    PROVE  LET key == KeyOf[series[i].name]
               color == Chart!SeriesColor(series, i)
           IN  /\ key \in Chart!Keys /\ series[i] \in ChartSeries
               /\ seriesColors[key] # None => color = seriesColors[key]
               /\ seriesColors[key] = None /\ series[i].color = None /\ lineColor # None
                    /\ kind = "line" /\ Len(series) = 1 => color = lineColor
               /\ ChartUnpicked => color \in OtherColors
<1>1. series[i] \in ChartSeries
  OBVIOUS
<1>2. series[i].name \in DOMAIN KeyOf /\ series[i].color \in ChartColor
  BY <1>1 DEF ChartSeries
<1>3. KeyOf[series[i].name] \in Chart!Keys
  BY <1>2, ChartKeys
<1>4. Chart!PaletteColor(i) \in OtherColors
  BY ChartPalette
<1>5. QED
  BY <1>1, <1>2, <1>3, <1>4 DEF Chart!SeriesColor, Chart!Else, Chart!IsSingle, ChartUnpicked, ChartColor

\* A point has the colour picked for its label, and before that its own.
LEMMA ChartPointColor ==
    ASSUME ChartTypes, NEW series \in Seq(ChartSeries), NEW i \in 1..Len(series), NEW j \in 1..Len(series[i].points)
    PROVE  LET p == series[i].points[j]
               key == KeyOf[p.label]
               color == Chart!PointColor(series, i, j)
           IN  /\ key \in Chart!Keys /\ p \in ChartPoint
               /\ valueColors[key] # None => color = valueColors[key]
               /\ ChartUnpicked => color \in OtherColors
<1>1. series[i] \in ChartSeries /\ (ChartUnpicked => Chart!SeriesColor(series, i) \in OtherColors)
  BY ChartSeriesColor
<1>2. series[i].points[j] \in ChartPoint
  BY <1>1 DEF ChartSeries
<1>3. KeyOf[series[i].points[j].label] \in Chart!Keys
  BY <1>2, ChartKeys DEF ChartPoint
<1>4. Chart!PaletteColor(j) \in OtherColors
  <2>1. j \in Nat /\ j > 0
    BY <1>1 DEF ChartSeries
  <2>2. QED
    BY <2>1, ChartPalette
<1>5. QED
  BY <1>1, <1>2, <1>3, <1>4 DEF Chart!PointColor, Chart!UnpickedColor, Chart!Else, ChartPoint, ChartColor, ChartUnpicked

\* What the editor lists are keys, and what was picked for one shows.
LEMMA ChartItems ==
    ASSUME ChartTypes, NEW item \in Chart!Items
    PROVE  /\ item.section \in {"Values", "Series", "Line"}
           /\ item.section = "Values" => /\ item.key \in Chart!Keys
                                         /\ valueColors[item.key] # None => item.color = valueColors[item.key]
           /\ item.section = "Series" => /\ item.key \in Chart!Keys
                                         /\ seriesColors[item.key] # None => item.color = seriesColors[item.key]
           /\ item.section = "Line" => /\ item.key = "__line__"
                                       /\ lineColor # None /\ ~Chart!HasOwnColor => item.color = lineColor
           /\ ChartUnpicked => item.color \in OtherColors
<1> DEFINE series == Chart!Series
<1>1. series \in Seq(ChartSeries) /\ Len(series) \in Nat
  BY ChartSeriesDrawn DEF ChartTypes
<1>2. CASE kind = "pie"
  <2>1. PICK p \in Chart!Range(Chart!Slices) : item = [section |-> "Values", key |-> KeyOf[p.label], color |-> p.color]
    BY <1>2 DEF Chart!Items, Chart!ItemsOf, Chart!Values, Chart!Item
  <2>2. item.section = "Values" /\ item.key = KeyOf[p.label] /\ item.color = p.color
    BY <2>1
  <2>3. item.key \in Chart!Keys
    BY <2>2, ChartSlices, ChartKeys
  <2>4. QED
    BY <2>2, <2>3, ChartSlices DEF ChartUnpicked
<1>3. CASE kind # "pie" /\ Len(series) = 1 /\ item \in Chart!Values(series)
  <2> HIDE DEF series
  <2>1. 1 \in 1..Len(series) /\ series # <<>>
    BY <1>1, <1>3
  <2>2. DOMAIN series[1].points = 1..Len(series[1].points)
    <3>1. series[1] \in ChartSeries
      BY <1>1, <2>1
    <3>2. QED
      BY <3>1 DEF ChartSeries
  <2>3. PICK j \in 1..Len(series[1].points) :
            item = [section |-> "Values", key |-> KeyOf[series[1].points[j].label], color |-> Chart!PointColor(series, 1, j)]
    BY <1>3, <2>1, <2>2 DEF Chart!Values, Chart!Item, Chart!Labels
  <2>4. /\ item.section = "Values" /\ item.key = KeyOf[series[1].points[j].label]
        /\ item.color = Chart!PointColor(series, 1, j)
    BY <2>3
  <2>5. QED
    BY <1>1, <2>1, <2>4, ChartPointColor
<1>4. CASE kind = "line" /\ Len(series) = 1 /\ item = [section |-> "Line", key |-> "__line__", color |-> Chart!SeriesColor(series, 1)]
  <2>1. item.section = "Line" /\ item.key = "__line__" /\ item.color = Chart!SeriesColor(series, 1)
    BY <1>4
  <2>2. Chart!HasOwnColor = (series[1].color # None \/ seriesColors[KeyOf[series[1].name]] # None)
    BY DEF Chart!HasOwnColor
  <2> HIDE DEF series
  <2>3. 1 \in 1..Len(series)
    BY <1>1, <1>4
  <2>4. QED
    BY <1>1, <1>4, <2>1, <2>2, <2>3, ChartSeriesColor
<1>5. CASE kind # "pie" /\ Len(series) # 1
  <2>1. item \in {[section |-> "Series", key |-> KeyOf[series[i].name], color |-> Chart!SeriesColor(series, i)] :
                    i \in DOMAIN series}
    BY <1>5 DEF Chart!Items, Chart!ItemsOf, Chart!Item, Chart!IsSingle
  <2> HIDE DEF series
  <2>2. PICK i \in 1..Len(series) :
            item = [section |-> "Series", key |-> KeyOf[series[i].name], color |-> Chart!SeriesColor(series, i)]
    BY <1>1, <2>1
  <2>3. item.section = "Series" /\ item.key = KeyOf[series[i].name] /\ item.color = Chart!SeriesColor(series, i)
    BY <2>2
  <2>4. QED
    BY <1>1, <2>3, ChartSeriesColor
<1>6. \/ kind # "pie" /\ Len(series) = 1 /\ item \in Chart!Values(series)
      \/ kind = "line" /\ Len(series) = 1 /\ item = [section |-> "Line", key |-> "__line__", color |-> Chart!SeriesColor(series, 1)]
      \/ kind = "pie" \/ (kind # "pie" /\ Len(series) # 1)
  BY DEF Chart!Items, Chart!ItemsOf, Chart!Item, Chart!IsSingle
<1>7. QED
  BY <1>2, <1>3, <1>4, <1>5, <1>6

LEMMA ChartStart == Chart!Init => ChartIInv
BY DEF Chart!Init, ChartIInv, ChartTypes, ChartEditIsStored

\* Only an edit stores a colour; what happens otherwise keeps the picks, or the
\* history says that something happened.
LEMMA ChartStep == ChartIInv /\ [Chart!Next]_(Chart!vars) => ChartIInv'
<1> SUFFICES ASSUME ChartIInv, [Chart!Next]_(Chart!vars) PROVE ChartIInv'
  OBVIOUS
<1> USE DEF ChartIInv, ChartTypes, ChartEditIsStored
<1>1. CASE Chart!Refetch
  BY <1>1 DEF Chart!Refetch, Chart!picks
<1>2. CASE Chart!Reset
  BY <1>2 DEF Chart!Reset, Chart!Cleared
<1>3. CASE UNCHANGED <<kind, source, Chart!picks, edited>>
  BY <1>3 DEF Chart!picks
<1>4. ASSUME NEW item \in Chart!Items, NEW color \in Colors, Chart!Edit(item, color) PROVE ChartIInv'
  <2>1. /\ UNCHANGED <<kind, source>>
        /\ edited' = [section |-> item.section, key |-> item.key, color |-> color, since |-> FALSE]
    BY <1>4 DEF Chart!Edit
  <2>2. CASE item.section = "Values"
    <3>1. item.key \in Chart!Keys
      BY <2>2, ChartItems
    <3>2. valueColors' = [valueColors EXCEPT ![item.key] = color] /\ UNCHANGED <<seriesColors, lineColor>>
      BY <1>4, <2>2 DEF Chart!Edit
    <3>3. QED
      BY <2>1, <2>2, <3>1, <3>2
  <2>3. CASE item.section = "Series"
    <3>1. item.key \in Chart!Keys
      BY <2>3, ChartItems
    <3>2. seriesColors' = [seriesColors EXCEPT ![item.key] = color] /\ UNCHANGED <<valueColors, lineColor>>
      BY <1>4, <2>3 DEF Chart!Edit
    <3>3. QED
      BY <2>1, <2>3, <3>1, <3>2
  <2>4. CASE item.section = "Line"
    <3>1. item.key = "__line__"
      BY <2>4, ChartItems
    <3>2. lineColor' = color /\ UNCHANGED <<valueColors, seriesColors>>
      BY <1>4, <2>4 DEF Chart!Edit
    <3>3. QED
      BY <2>1, <2>4, <3>1, <3>2
  <2>5. QED
    BY <2>2, <2>3, <2>4, ChartItems
<1>5. QED
  BY <1>1, <1>2, <1>3, <1>4 DEF Chart!Next, Chart!Toggle, Chart!Leave, Chart!Enter, Chart!Move, Chart!vars

\* A finite set of numbers has a largest one.
LEMMA LargestNumber ==
    ASSUME NEW S, IsFiniteSet(S), S \subseteq Int, S # {}
    PROVE  \E m \in S : \A x \in S : x <= m
<1> DEFINE Has(T) == \E m \in T : \A x \in T : x <= m
           N == Cardinality(S)
           P == {n \in 0..N : \A T \in SUBSET S : T # {} /\ Cardinality(T) = n => Has(T)}
<1>1. N \in Nat /\ \A T \in SUBSET S : IsFiniteSet(T) /\ Cardinality(T) \in Nat
  BY FS_CardinalityType, FS_Subset
<1>2. 0 \in P
  BY <1>1, FS_EmptySet
<1>3. ASSUME NEW n \in 0..N, n < N, n \in P PROVE n + 1 \in P
  <2>1. ASSUME NEW T \in SUBSET S, T # {}, Cardinality(T) = n + 1 PROVE Has(T)
    <3>1. PICK x \in T : TRUE
      BY <2>1
    <3>2. T \ {x} \in SUBSET S /\ Cardinality(T \ {x}) = n
      <4>1. IsFiniteSet(T) /\ x \in T
        BY <1>1, <3>1
      <4>2. Cardinality(T \ {x}) = Cardinality(T) - 1
        BY <4>1, FS_RemoveElement
      <4>3. QED
        BY <2>1, <4>2
    <3>3. T \subseteq Int
      OBVIOUS
    <3>4. CASE T \ {x} = {}
      BY <3>1, <3>3, <3>4
    <3>5. CASE T \ {x} # {}
      <4>1. PICK m \in T \ {x} : \A y \in T \ {x} : y <= m
        BY <1>3, <3>2, <3>5
      <4>2. CASE x <= m
        BY <3>3, <4>1, <4>2
      <4>3. CASE ~(x <= m)
        BY <3>1, <3>3, <4>1, <4>3
      <4>4. QED
        BY <4>2, <4>3
    <3>6. QED
      BY <3>4, <3>5
  <2> HIDE DEF Has, N
  <2>2. QED
    BY <1>1, <1>3, <2>1
<1> HIDE DEF P, N, Has
<1>4. 0..N \subseteq P
  BY <1>1, <1>2, <1>3, CountUp
<1>5. N \in P /\ S \in SUBSET S
  BY <1>1, <1>4
<1>6. QED
  BY <1>5 DEF P, N, Has

LEMMA ChartLargest ==
    ASSUME NEW S, IsFiniteSet(S), S \subseteq Int
    PROVE  Chart!Largest(S) \in Int /\ Chart!Largest(S) >= 1 /\ \A x \in S : Chart!Largest(S) >= x
<1> DEFINE T == S \cup {1}
<1>1. IsFiniteSet(T) /\ T \subseteq Int /\ T # {}
  BY FS_AddElement
<1>2. PICK m \in T : \A x \in T : x <= m
  <2> HIDE DEF T
  <2>1. QED
    BY <1>1, LargestNumber
<1>3. \A x \in T : m >= x
  BY <1>2
<1>4. Chart!Largest(S) \in T /\ \A x \in T : Chart!Largest(S) >= x
  BY <1>3 DEF Chart!Largest
<1>5. QED
  BY <1>1, <1>4

\* The values of a finite sequence are finitely many.
LEMMA FiniteValues == ASSUME NEW n \in Nat, NEW f, DOMAIN f = 1..n PROVE IsFiniteSet({f[i] : i \in DOMAIN f})
<1> DEFINE T == {f[i] : i \in DOMAIN f}
           g == [i \in 1..n |-> f[i]]
<1>1. g \in [1..n -> T] /\ \A t \in T : \E i \in 1..n : g[i] = t
  OBVIOUS
<1> HIDE DEF g, T
<1>2. g \in Surjection(1..n, T)
  BY <1>1 DEF Surjection
<1>3. IsFiniteSet(1..n)
  BY FS_Interval
<1>4. QED
  BY <1>2, <1>3, FS_Surjection DEF T

LEMMA ChartValue ==
    ASSUME NEW series \in Seq(ChartSeries), NEW i \in 1..Len(series), NEW j
    PROVE  /\ Chart!Value(series, i, j) \in Int
           /\ (\A s \in Chart!Range(series) : \A p \in Chart!Range(s.points) : p.value >= 0) => Chart!Value(series, i, j) >= 0
<1> DEFINE s == series[i]
<1>1. s \in ChartSeries /\ s \in Chart!Range(series)
  BY DEF Chart!Range
<1>2. CASE j \in DOMAIN s.points
  <2>1. s.points[j] \in ChartPoint /\ s.points[j] \in Chart!Range(s.points)
    BY <1>1, <1>2 DEF ChartSeries, Chart!Range
  <2>2. s.points[j].value \in Int /\ Chart!Value(series, i, j) = s.points[j].value
    BY <1>2, <2>1 DEF ChartPoint, Chart!Value
  <2> HIDE DEF s
  <2>3. QED
    BY <1>1, <2>1, <2>2
<1>3. CASE j \notin DOMAIN s.points
  BY <1>3 DEF Chart!Value
<1>4. QED
  BY <1>2, <1>3

\* The stack of one more series is longer by its value.
LEMMA ChartStack ==
    ASSUME NEW series \in Seq(ChartSeries), NEW j
    PROVE  \A n \in 0..Len(series) :
             /\ Chart!Stack(series, j, n) \in Int
             /\ n < Len(series) => Chart!Stack(series, j, n + 1) = Chart!Stack(series, j, n) + Chart!Value(series, n + 1, j)
<1> DEFINE N == Len(series)
           v(n) == Chart!Value(series, n, j)
           Is(f) == f = [n \in 0..N |-> IF n = 0 THEN 0 ELSE f[n - 1] + v(n)]
           sum == CHOOSE f : Is(f)
           next == [n \in 1..N |-> [t \in Int |-> t + v(n)]]
<1>1. N \in Nat
  OBVIOUS
<1>2. \A n \in 1..N : v(n) \in Int
  BY ChartValue
<1> HIDE DEF N, v
<1>3. PICK f : Follows(f, N, Int, 0, next)
  <2>1. next \in StepFunctions(N, Int) /\ 0 \in Int
    BY <1>2 DEF StepFunctions
  <2> HIDE DEF next
  <2>2. QED
    BY <1>1, <2>1, RecursiveFunction
<1>4. ASSUME NEW n \in 1..N PROVE f[n] = f[n - 1] + v(n)
  <2>1. n - 1 \in 0..N
    BY <1>1
  <2>2. f[n - 1] \in Int
    BY <1>3, <2>1 DEF Follows
  <2>3. next[n][f[n - 1]] = f[n - 1] + v(n)
    BY <2>2
  <2>4. QED
    BY <1>3, <2>3 DEF Follows
<1>5. f \in [0..N -> Int] /\ f[0] = 0
  BY <1>3 DEF Follows
<1> HIDE DEF next
<1>6. Is(f)
  BY <1>1, <1>4, <1>5
<1>7. Is(sum)
  BY <1>6
<1>8. \A n \in 0..N : Chart!Stack(series, j, n) = sum[n]
  BY DEF Chart!Stack, N, v
<1> HIDE DEF sum
<1> DEFINE P == {n \in 0..N : sum[n] \in Int}
<1>9. 0 \in P
  BY <1>1, <1>7
<1>10. ASSUME NEW n \in 0..N, n < N PROVE n + 1 \in 0..N /\ sum[n + 1] = sum[n] + v(n + 1) /\ v(n + 1) \in Int
  <2>1. n + 1 \in 1..N /\ n + 1 \in 0..N /\ n + 1 # 0 /\ n + 1 - 1 = n
    BY <1>1, <1>10
  <2>2. QED
    BY <1>2, <1>7, <2>1
<1>11. ASSUME NEW n \in 0..N, n < N, n \in P PROVE n + 1 \in P
  BY <1>10, <1>11
<1> HIDE DEF P
<1>12. 0..N \subseteq P
  BY <1>1, <1>9, <1>11, CountUp
<1>13. \A n \in 0..N : sum[n] \in Int
  BY <1>12 DEF P
<1>14. \A n \in 0..N : n < N => Chart!Stack(series, j, n + 1) = Chart!Stack(series, j, n) + v(n + 1)
  BY <1>8, <1>10
<1>15. QED
  BY <1>8, <1>13, <1>14 DEF N, v

LEMMA ChartStackGrows ==
    ASSUME NEW series \in Seq(ChartSeries), NEW j, NEW i \in 0..Len(series),
           \A s \in Chart!Range(series) : \A p \in Chart!Range(s.points) : p.value >= 0
    PROVE  Chart!Stack(series, j, i) <= Chart!Stack(series, j, Len(series))
<1> DEFINE N == Len(series)
           S(n) == Chart!Stack(series, j, n)
           P == {n \in 0..N : i <= n => S(i) <= S(n)}
<1>1. N \in Nat /\ \A n \in 0..N : S(n) \in Int
  BY ChartStack
<1>2. ASSUME NEW n \in 0..N, n < N PROVE S(n + 1) \in Int /\ S(n) <= S(n + 1)
  <2>1. n + 1 \in 1..N /\ n + 1 \in 0..N
    BY <1>1, <1>2
  <2>2. Chart!Value(series, n + 1, j) \in Int /\ Chart!Value(series, n + 1, j) >= 0
    BY <2>1, ChartValue
  <2>3. S(n + 1) = S(n) + Chart!Value(series, n + 1, j)
    BY <1>2, ChartStack
  <2> HIDE DEF S, N
  <2>4. QED
    BY <1>1, <2>1, <2>2, <2>3
<1> HIDE DEF S, N
<1>3. 0 \in P
  BY <1>1
<1>4. ASSUME NEW n \in 0..N, n < N, n \in P PROVE n + 1 \in P
  <2>1. n + 1 \in 0..N /\ i \in 0..N
    BY <1>1, <1>4 DEF N
  <2>2. QED
    BY <1>1, <1>2, <1>4, <2>1
<1> HIDE DEF P
<1>5. 0..N \subseteq P
  BY <1>1, <1>3, <1>4, CountUp
<1>6. N \in P /\ i <= N
  BY <1>1, <1>5 DEF N
<1>7. QED
  BY <1>6 DEF P, S, N

LEMMA ChartLabels ==
    ASSUME NEW series \in Seq(ChartSeries)
    PROVE  /\ Chart!Labels(series) # <<>> => series # <<>> /\ Len(series) >= 1
           /\ Len(Chart!Labels(series)) \in Nat /\ DOMAIN Chart!Labels(series) = 1..Len(Chart!Labels(series))
<1>1. CASE series = <<>>
  BY <1>1 DEF Chart!Labels
<1>2. CASE series # <<>>
  <2>1. Len(series) >= 1 /\ series[1] \in ChartSeries
    BY <1>2
  <2>2. series[1].points \in Seq(ChartPoint)
    BY <2>1 DEF ChartSeries
  <2>3. Chart!Labels(series) = [i \in 1..Len(series[1].points) |-> series[1].points[i].label]
    BY <1>2, <2>2 DEF Chart!Labels
  <2>4. Chart!Labels(series) \in Seq({series[1].points[i].label : i \in 1..Len(series[1].points)})
    BY <2>2, <2>3
  <2>5. QED
    BY <1>2, <2>1, <2>4
<1>3. QED
  BY <1>1, <1>2

\* The length of a full bar is that of the longest.
LEMMA ChartMaxValue ==
    ASSUME NEW series \in Seq(ChartSeries)
    PROVE  /\ Chart!MaxValue(series) \in Int /\ Chart!MaxValue(series) >= 1
           /\ kind = "stacked" => \A j \in DOMAIN Chart!Labels(series) :
                                     Chart!MaxValue(series) >= Chart!Stack(series, j, Len(series))
           /\ kind # "stacked" => \A i \in DOMAIN series : \A j \in DOMAIN series[i].points :
                                     Chart!MaxValue(series) >= series[i].points[j].value
<1>1. CASE kind = "stacked"
  <2> DEFINE n == Len(Chart!Labels(series))
             f == [j \in 1..n |-> Chart!Stack(series, j, Len(series))]
             S == {f[j] : j \in DOMAIN f}
  <2>1. n \in Nat /\ DOMAIN Chart!Labels(series) = 1..n /\ Len(series) \in 0..Len(series)
    BY ChartLabels
  <2>2. S = {Chart!Stack(series, j, Len(series)) : j \in DOMAIN Chart!Labels(series)}
    BY <2>1
  <2>3. S \subseteq Int
    BY <2>1, ChartStack
  <2>4. DOMAIN f = 1..n
    OBVIOUS
  <2>5. IsFiniteSet(S)
    <3> HIDE DEF f, n
    <3>1. QED
      BY <2>1, <2>4, FiniteValues
  <2>6. Chart!MaxValue(series) = Chart!Largest(S)
    BY <1>1, <2>2 DEF Chart!MaxValue
  <2> HIDE DEF S
  <2>7. QED
    BY <1>1, <2>2, <2>3, <2>5, <2>6, ChartLargest
<1>2. CASE kind # "stacked"
  <2> DEFINE Of(s) == {p.value : p \in Chart!Range(s.points)}
             S == UNION {Of(s) : s \in Chart!Range(series)}
             f == [i \in 1..Len(series) |-> Of(series[i])]
             T == {f[i] : i \in DOMAIN f}
  <2>1. ASSUME NEW s \in ChartSeries PROVE IsFiniteSet(Of(s)) /\ Of(s) \subseteq Int
    <3> DEFINE g == [j \in 1..Len(s.points) |-> s.points[j].value]
    <3>1. s.points \in Seq(ChartPoint) /\ Len(s.points) \in Nat
      BY DEF ChartSeries
    <3>2. \A j \in 1..Len(s.points) : s.points[j] \in ChartPoint
      BY <3>1
    <3>3. Of(s) = {g[j] : j \in DOMAIN g} /\ DOMAIN g = 1..Len(s.points)
      <4>1. DOMAIN s.points = 1..Len(s.points)
        BY <3>1
      <4>2. \A v : v \in Of(s) <=> \E j \in DOMAIN s.points : v = s.points[j].value
        BY DEF Chart!Range
      <4>3. \A v : v \in {g[j] : j \in DOMAIN g} <=> \E j \in 1..Len(s.points) : v = s.points[j].value
        OBVIOUS
      <4> HIDE DEF Of, g
      <4>4. Of(s) = {g[j] : j \in DOMAIN g}
        BY <4>1, <4>2, <4>3
      <4>5. QED
        BY <4>4 DEF g
    <3>4. Of(s) \subseteq Int
      BY <3>2, <3>3 DEF ChartPoint
    <3> HIDE DEF g, Of
    <3>5. QED
      BY <3>1, <3>3, <3>4, FiniteValues
  <2> HIDE DEF Of
  <2>2. \A i \in 1..Len(series) : series[i] \in ChartSeries
    OBVIOUS
  <2>3. {Of(s) : s \in Chart!Range(series)} = T /\ DOMAIN f = 1..Len(series) /\ Len(series) \in Nat
    BY DEF Chart!Range
  <2>4. \A t \in T : IsFiniteSet(t) /\ t \subseteq Int
    BY <2>1, <2>2
  <2>5. IsFiniteSet(T)
    <3> HIDE DEF f
    <3>1. QED
      BY <2>3, FiniteValues
  <2>6. IsFiniteSet(S) /\ S \subseteq Int
    <3> HIDE DEF T
    <3>1. QED
      BY <2>3, <2>4, <2>5, FS_UNION
  <2>7. Chart!MaxValue(series) = Chart!Largest(S)
    BY <1>2 DEF Chart!MaxValue, Of
  <2>8. ASSUME NEW i \in DOMAIN series, NEW j \in DOMAIN series[i].points PROVE series[i].points[j].value \in S
    BY DEF Of, Chart!Range
  <2> HIDE DEF S
  <2>9. QED
    BY <1>2, <2>6, <2>7, <2>8, ChartLargest
<1>3. QED
  BY <1>1, <1>2

LEMMA ChartBarsFit == ASSUME ChartTypes PROVE Chart!BarsFit
<1> DEFINE series == Chart!Series
           max == Chart!MaxValue(series)
<1>1. series \in Seq(ChartSeries)
  BY ChartSeriesDrawn DEF ChartTypes
<1> HIDE DEF series
<1>2. SUFFICES ASSUME kind \in {"bar", "stacked"},
                      \A s \in Chart!Range(series) : \A p \in Chart!Range(s.points) : p.value >= 0,
                      NEW j \in DOMAIN Chart!Labels(series), NEW i \in DOMAIN series
               PROVE  10 * (IF kind = "stacked" THEN Chart!Stack(series, j, i) ELSE Chart!Value(series, i, j)) <= 11 * max
  BY DEF Chart!BarsFit, series
<1>3. i \in 1..Len(series) /\ i \in 0..Len(series) /\ Len(series) \in 0..Len(series)
  BY <1>1
<1>4. max \in Int /\ max >= 1
  BY <1>1, ChartMaxValue
<1>5. CASE kind = "stacked"
  <2>1. Chart!Stack(series, j, i) <= Chart!Stack(series, j, Len(series))
    BY <1>1, <1>2, <1>3, ChartStackGrows
  <2>2. Chart!Stack(series, j, i) \in Int /\ Chart!Stack(series, j, Len(series)) \in Int
    BY <1>1, <1>3, ChartStack
  <2>3. max >= Chart!Stack(series, j, Len(series))
    BY <1>1, <1>5, ChartMaxValue
  <2> HIDE DEF max
  <2>4. QED
    BY <1>4, <1>5, <2>1, <2>2, <2>3
<1>6. CASE kind # "stacked"
  <2>1. Chart!Value(series, i, j) \in Int
    BY <1>1, <1>3, ChartValue
  <2>2. max >= Chart!Value(series, i, j)
    <3>1. CASE j \in DOMAIN series[i].points
      BY <1>1, <1>3, <1>6, <3>1, ChartMaxValue DEF Chart!Value
    <3>2. CASE j \notin DOMAIN series[i].points
      BY <1>4, <3>2 DEF Chart!Value
    <3>3. QED
      BY <3>1, <3>2
  <2> HIDE DEF max
  <2>3. QED
    BY <1>4, <1>6, <2>1, <2>2
<1>7. QED
  BY <1>5, <1>6

LEMMA ChartBarsFollow == ASSUME ChartTypes PROVE Chart!BarsFollowEditor
<1> DEFINE series == Chart!Series
<1>1. series \in Seq(ChartSeries)
  BY ChartSeriesDrawn DEF ChartTypes
<1>2. SUFFICES ASSUME kind \in {"bar", "stacked"}, NEW i \in DOMAIN series, NEW j \in DOMAIN series[i].points
               PROVE  LET p == series[i].points[j]
                          color == Chart!PointColor(series, i, j)
                      IN  \/ Len(series) = 1 /\ Chart!Item("Values", KeyOf[p.label], color) \in Chart!Items
                          \/ Len(series) # 1 /\ Chart!Item("Series", KeyOf[series[i].name], color) \in Chart!Items
                          \/ Len(series) # 1 /\ (p.color # None \/ valueColors[KeyOf[p.label]] # None)
  BY DEF Chart!BarsFollowEditor, Chart!IsSingle, Chart!Items
<1>3. Chart!Items = Chart!ItemsOf(series)
  BY DEF Chart!Items
<1> HIDE DEF series
<1>4. CASE Len(series) = 1
  <2>1. i = 1 /\ series # <<>>
    BY <1>1, <1>4
  <2>2. Chart!Labels(series) = [k \in DOMAIN series[1].points |-> series[1].points[k].label]
    BY <2>1 DEF Chart!Labels
  <2>3. Chart!Item("Values", KeyOf[series[1].points[j].label], Chart!PointColor(series, 1, j)) \in Chart!Values(series)
    BY <1>2, <2>1, <2>2 DEF Chart!Values
  <2>4. QED
    BY <1>2, <1>3, <1>4, <2>1, <2>3 DEF Chart!ItemsOf, Chart!IsSingle
<1>5. CASE Len(series) # 1
  <2>1. Chart!Item("Series", KeyOf[series[i].name], Chart!SeriesColor(series, i)) \in Chart!ItemsOf(series)
    BY <1>2, <1>5 DEF Chart!ItemsOf, Chart!IsSingle
  <2>2. QED
    BY <1>3, <1>5, <2>1 DEF Chart!PointColor, Chart!UnpickedColor, Chart!IsSingle, Chart!Else
<1>6. QED
  BY <1>4, <1>5

LEMMA ChartShowsPicks == ChartIInv => Chart!PickedColorShows
<1> SUFFICES ASSUME ChartIInv, ~edited.since, ~(edited.section = "Line" /\ Chart!HasOwnColor),
                    NEW item \in Chart!Items, item.section = edited.section, item.key = edited.key
             PROVE  item.color = edited.color
  BY DEF Chart!PickedColorShows
<1>1. edited.color \in Colors /\ edited.color # None
  BY ChartAssumption DEF ChartIInv, ChartEditIsStored
<1>2. QED
  BY <1>1, ChartItems DEF ChartIInv, ChartEditIsStored

LEMMA ChartHolds == ChartIInv => Chart!ColorsAndBarsHold
BY ChartBarsFit, ChartBarsFollow, ChartShowsPicks DEF ChartIInv, Chart!ColorsAndBarsHold

\* When nothing is picked the editor lists colours of the data and the palette.
ChartForgets == ChartUnpicked => \A item \in Chart!Items : item.color \notin Colors

LEMMA ChartUnpickedForgets == ChartIInv => ChartForgets
BY ChartItems, ChartAssumption DEF ChartIInv, ChartForgets

LEMMA ChartResetForgets == ChartForgets' => Chart!ResetForgets
BY DEF ChartForgets, Chart!ResetForgets, Chart!Reset, Chart!Cleared, ChartUnpicked

LEMMA TimesIsMonotone == ASSUME NEW a \in Int, NEW b \in Int, NEW c \in Nat, a <= b PROVE a * c <= b * c
OBVIOUS

\* The nearest of n points, b apart, to a place a.
LEMMA ChartRound ==
    ASSUME NEW b \in Nat \ {0}, NEW n \in Nat \ {0}, NEW a \in Nat, a <= (n - 1) * b
    PROVE  LET q == Chart!Round(a, b)
           IN  q \in 0..(n - 1) /\ 2 * (q * b - a) <= b /\ 2 * (a - q * b) <= b
<1> DEFINE q == Chart!Round(a, b)
<1>1. q = (2 * a + b) \div (2 * b) /\ 2 * b \in Nat \ {0} /\ 2 * a + b \in Nat
  BY DEF Chart!Round
<1> HIDE DEF q
<1>2. q \in Nat /\ q * (2 * b) <= 2 * a + b /\ 2 * a + b < q * (2 * b) + 2 * b
  BY <1>1
<1>3. q * (2 * b) = 2 * (q * b) /\ q * b \in Nat
  BY <1>2
<1>4. 2 * (q * b - a) <= b /\ 2 * (a - q * b) <= b
  BY <1>2, <1>3
<1>5. q <= n - 1
  <2>1. SUFFICES ASSUME n <= q PROVE FALSE
    BY <1>2
  <2>2. n * b <= q * b
    BY <1>2, <2>1, TimesIsMonotone
  <2>3. n * b = (n - 1) * b + b
    OBVIOUS
  <2>4. QED
    BY <1>3, <1>4, <2>2, <2>3
<1>6. QED
  BY <1>2, <1>4, <1>5 DEF q

LEMMA ChartNearest == ASSUME ChartTypes PROVE Chart!NearestShown
<1> DEFINE n == Len(Chart!Labels(Chart!Series))
           b == PlaneWidth
           Away(d) == IF d < 0 THEN -d ELSE d
<1>1. n \in Nat /\ b \in Nat \ {0}
  BY ChartSeriesDrawn, ChartLabels, ConstantsAssumption DEF ChartTypes
<1>2. SUFFICES ASSUME NEW x \in 0..b, Chart!Move(x)
               PROVE  /\ hovered' \in 1..n
                      /\ \A i \in 1..n : Away((hovered' - 1) * b - x * (n - 1)) <= Away((i - 1) * b - x * (n - 1))
  BY DEF Chart!NearestShown
<1>3. n > 0 /\ hovered' = Chart!Round(x * (n - 1), b) + 1
  BY <1>2 DEF Chart!Move
<1> DEFINE a == x * (n - 1)
           q == Chart!Round(a, b)
<1> HIDE DEF n, b
<1>4. a \in Nat /\ a <= (n - 1) * b
  <2>1. x \in Nat /\ x <= b /\ n - 1 \in Nat
    BY <1>1, <1>2, <1>3
  <2>2. x * (n - 1) <= b * (n - 1)
    BY <1>1, <2>1, TimesIsMonotone
  <2>3. b * (n - 1) = (n - 1) * b /\ x * (n - 1) \in Nat
    BY <1>1, <2>1
  <2>4. QED
    BY <2>2, <2>3
<1>5. hovered' - 1 = q /\ hovered' = q + 1
  <2>1. q \in Int
    BY <1>1, <1>4 DEF Chart!Round
  <2>2. QED
    BY <1>3, <2>1
<1> HIDE DEF a, q
<1>6. q \in 0..(n - 1) /\ 2 * (q * b - a) <= b /\ 2 * (a - q * b) <= b
  BY <1>1, <1>3, <1>4, ChartRound DEF q
<1>7. ASSUME NEW i \in 1..n PROVE Away(q * b - a) <= Away((i - 1) * b - a)
  <2>1. i - 1 \in Nat /\ q \in Nat /\ b \in Nat /\ q * b \in Nat /\ (i - 1) * b \in Nat
    BY <1>1, <1>6
  <2>2. CASE i - 1 = q
    <3>1. (i - 1) * b - a = q * b - a /\ q * b - a \in Int
      BY <1>4, <2>1, <2>2
    <3> DEFINE d == q * b - a
    <3> HIDE DEF d
    <3>2. Away(d) <= Away(d) /\ (i - 1) * b - a = d
      BY <3>1 DEF d
    <3>3. QED
      BY <3>2 DEF d
  <2>3. CASE i - 1 < q
    <3>1. i - 1 + 1 <= q
      BY <2>1, <2>3
    <3>2. (i - 1 + 1) * b <= q * b
      BY <2>1, <3>1, TimesIsMonotone
    <3>3. (i - 1 + 1) * b = (i - 1) * b + b
      BY <2>1
    <3> DEFINE u == (i - 1) * b
               v == q * b
    <3> HIDE DEF u, v
    <3>4. u + b <= v /\ u \in Nat /\ v \in Nat
      BY <2>1, <3>2, <3>3 DEF u, v
    <3>5. Away(v - a) <= Away(u - a)
      BY <1>1, <1>4, <1>6, <3>4 DEF v
    <3>6. QED
      BY <3>5 DEF u, v
  <2>4. CASE q < i - 1
    <3>1. q + 1 <= i - 1
      BY <2>1, <2>4
    <3>2. (q + 1) * b <= (i - 1) * b
      BY <2>1, <3>1, TimesIsMonotone
    <3>3. (q + 1) * b = q * b + b
      BY <2>1
    <3> DEFINE u == (i - 1) * b
               v == q * b
    <3> HIDE DEF u, v
    <3>4. v + b <= u /\ u \in Nat /\ v \in Nat
      BY <2>1, <3>2, <3>3 DEF u, v
    <3>5. Away(v - a) <= Away(u - a)
      BY <1>1, <1>4, <1>6, <3>4 DEF v
    <3>6. QED
      BY <3>5 DEF u, v
  <2>5. QED
    BY <2>1, <2>2, <2>3, <2>4
<1>8. hovered' \in 1..n
  BY <1>1, <1>3, <1>5, <1>6
<1>9. QED
  BY <1>5, <1>7, <1>8 DEF a

LEMMA ChartObeys == ASSUME ChartTypes, ChartForgets' PROVE Chart!ResetForgets /\ Chart!NearestShown
BY ChartNearest, ChartResetForgets

-----------------------------------------------------------------------------
(* DataTable                                                               *)

TableTypes ==
    /\ rows \in Seq([Columns -> DOMAIN NumberOf])
    /\ page \in Nat \ {0}
    /\ sort # None => sort \in [key : Columns, dir : {"asc", "desc"}]

\* The bisection: a turn takes half of what is left.
TableTurn(s, i, t) ==
    LET mid == (t.from + t.to) \div 2
    IN  IF t.from = t.to THEN t
        ELSE IF Grid!Before(i, s[mid + 1]) THEN [t EXCEPT !.to = mid] ELSE [t EXCEPT !.from = mid + 1]

TableTurns(s) == {t \in [from : 0..Len(s), to : 0..Len(s)] : t.from <= t.to}

\* In s a row i stays before each row after one it is before.
TableStays(s, i) ==
    \A k, l \in 1..Len(s) : k < l /\ Grid!Before(i, s[k]) => Grid!Before(i, s[l])

\* What a turn has found out: the row is not before the first ones and before the last.
TableFound(s, i, t) ==
    TableStays(s, i) => \A k \in 1..Len(s) : /\ k <= t.from => ~Grid!Before(i, s[k])
                                             /\ k > t.to => Grid!Before(i, s[k])

LEMMA TableTurnGoesOn ==
    ASSUME NEW s, Len(s) \in Nat, NEW i, NEW t \in TableTurns(s), TableFound(s, i, t)
    PROVE  /\ TableTurn(s, i, t) \in TableTurns(s)
           /\ TableFound(s, i, TableTurn(s, i, t))
           /\ t.from = t.to => TableTurn(s, i, t) = t
           /\ t.from # t.to => TableTurn(s, i, t).to - TableTurn(s, i, t).from < t.to - t.from
<1> DEFINE L == Len(s)
           mid == (t.from + t.to) \div 2
           low == [t EXCEPT !.to = mid]
           high == [t EXCEPT !.from = mid + 1]
           B(k) == Grid!Before(i, s[k])
<1>1. t \in [from : 0..L, to : 0..L] /\ t.from <= t.to /\ t.from \in 0..L /\ t.to \in 0..L
  BY DEF TableTurns
<1>2. CASE t.from = t.to
  BY <1>1, <1>2 DEF TableTurn
<1>3. CASE t.from # t.to
  <2>1. mid \in t.from..(t.to - 1) /\ mid \in 0..L /\ mid + 1 \in 1..L
    BY <1>1, <1>3
  <2> HIDE DEF mid
  <2>2. low \in [from : 0..L, to : 0..L] /\ low.from = t.from /\ low.to = mid
    BY <1>1, <2>1
  <2>3. high \in [from : 0..L, to : 0..L] /\ high.from = mid + 1 /\ high.to = t.to
    BY <1>1, <2>1
  <2>4. TableTurn(s, i, t) = IF B(mid + 1) THEN low ELSE high
    BY <1>3 DEF TableTurn, mid
  <2>5. TableStays(s, i) => \A k \in 1..L : /\ k <= t.from => ~B(k)
                                            /\ k > t.to => B(k)
    BY DEF TableFound
  <2>6. TableStays(s, i) => \A k, l \in 1..L : k < l /\ B(k) => B(l)
    BY DEF TableStays
  <2> HIDE DEF L, low, high, B
  <2>7. CASE B(mid + 1)
    <3>1. TableTurn(s, i, t) = low
      BY <2>4, <2>7
    <3>2. low \in TableTurns(s)
      BY <2>1, <2>2 DEF TableTurns, L
    <3>3. TableStays(s, i) => \A k \in 1..L : /\ k <= low.from => ~B(k)
                                              /\ k > low.to => B(k)
      <4>1. SUFFICES ASSUME TableStays(s, i), NEW k \in 1..L
                     PROVE  (k <= low.from => ~B(k)) /\ (k > low.to => B(k))
        OBVIOUS
      <4>2. k <= low.from => ~B(k)
        BY <2>2, <2>5, <4>1
      <4>3. k > low.to => k = mid + 1 \/ mid + 1 < k
        BY <2>1, <2>2, <4>1
      <4>4. QED
        BY <2>1, <2>6, <2>7, <4>1, <4>2, <4>3
    <3>4. low.to - low.from < t.to - t.from
      BY <1>1, <2>1, <2>2
    <3>5. QED
      BY <1>3, <3>1, <3>2, <3>3, <3>4 DEF TableFound, L, B
  <2>8. CASE ~B(mid + 1)
    <3>1. TableTurn(s, i, t) = high
      BY <2>4, <2>8
    <3>2. high \in TableTurns(s)
      BY <2>1, <2>3 DEF TableTurns, L
    <3>3. TableStays(s, i) => \A k \in 1..L : /\ k <= high.from => ~B(k)
                                              /\ k > high.to => B(k)
      <4>1. SUFFICES ASSUME TableStays(s, i), NEW k \in 1..L
                     PROVE  (k <= high.from => ~B(k)) /\ (k > high.to => B(k))
        OBVIOUS
      <4>2. k > high.to => B(k)
        BY <2>3, <2>5, <4>1
      <4>3. k <= high.from => k = mid + 1 \/ k < mid + 1
        BY <2>1, <2>3, <4>1
      <4>4. QED
        BY <2>1, <2>6, <2>8, <4>1, <4>2, <4>3
    <3>4. high.to - high.from < t.to - t.from
      BY <1>1, <2>1, <2>3
    <3>5. QED
      BY <1>3, <3>1, <3>2, <3>3, <3>4 DEF TableFound, L, B
  <2>9. QED
    BY <2>7, <2>8
<1>4. QED
  BY <1>2, <1>3

\* Where the bisection ends, after as many turns as there are rows at the latest.
LEMMA TablePlace ==
    ASSUME NEW s, Len(s) \in Nat, NEW i
    PROVE  /\ Grid!Place(s, i) \in 0..Len(s)
           /\ TableStays(s, i) => \A k \in 1..Len(s) : k <= Grid!Place(s, i) <=> ~Grid!Before(i, s[k])
<1> DEFINE L == Len(s)
           all == [from |-> 0, to |-> L]
           T == {t \in TableTurns(s) : TableFound(s, i, t)}
           Is(f) == f = [n \in 0..L |-> IF n = 0 THEN all ELSE TableTurn(s, i, f[n - 1])]
           turn == CHOOSE f : Is(f)
           next == [n \in 1..L |-> [t \in T |-> TableTurn(s, i, t)]]
<1>1. L \in Nat
  OBVIOUS
<1>2. all \in T
  <2>1. all \in TableTurns(s)
    BY <1>1 DEF TableTurns
  <2>2. TableFound(s, i, all)
    BY <1>1 DEF TableFound
  <2>3. QED
    BY <2>1, <2>2
<1>3. \A t \in T : TableTurn(s, i, t) \in T
  BY TableTurnGoesOn
<1>4. \A t \in T : /\ t.from = t.to => TableTurn(s, i, t) = t
                   /\ t.from # t.to => TableTurn(s, i, t).to - TableTurn(s, i, t).from < t.to - t.from
  BY TableTurnGoesOn
<1>5. \A t \in T : t.from \in 0..L /\ t.to \in 0..L /\ t.from <= t.to
  BY DEF TableTurns
<1>6. all.to - all.from = L
  BY <1>1
<1>7. Grid!Place(s, i) = turn[L].from
  BY DEF Grid!Place, TableTurn
<1>8. \A t \in T : TableStays(s, i) => \A k \in 1..L : /\ k <= t.from => ~Grid!Before(i, s[k])
                                                       /\ k > t.to => Grid!Before(i, s[k])
  BY DEF TableFound
<1> HIDE DEF L, T, all
<1>9. PICK f : Follows(f, L, T, all, next)
  <2>1. next \in StepFunctions(L, T)
    BY <1>3 DEF StepFunctions
  <2> HIDE DEF next
  <2>2. QED
    BY <1>1, <1>2, <2>1, RecursiveFunction
<1>10. ASSUME NEW n \in 1..L PROVE f[n] = TableTurn(s, i, f[n - 1])
  <2>1. n - 1 \in 0..L
    BY <1>1
  <2>2. f[n - 1] \in T
    BY <1>9, <2>1 DEF Follows
  <2>3. next[n][f[n - 1]] = TableTurn(s, i, f[n - 1])
    BY <2>2
  <2>4. QED
    BY <1>9, <2>3 DEF Follows
<1>11. f \in [0..L -> T] /\ f[0] = all
  BY <1>9 DEF Follows
<1> HIDE DEF next
<1>12. Is(f)
  BY <1>1, <1>10, <1>11
<1>13. Is(turn)
  BY <1>12
<1> HIDE DEF turn
<1> DEFINE P == {n \in 0..L : turn[n] \in T /\ turn[n].to - turn[n].from <= L - n}
<1>14. 0 \in P
  BY <1>1, <1>2, <1>6, <1>13
<1>15. ASSUME NEW n \in 0..L, n < L, n \in P PROVE n + 1 \in P
  <2>1. n + 1 \in 1..L /\ n + 1 \in 0..L /\ n + 1 # 0 /\ n + 1 - 1 = n
    BY <1>1, <1>15
  <2>2. turn[n + 1] = TableTurn(s, i, turn[n])
    BY <1>13, <2>1
  <2> DEFINE t == turn[n]
             u == turn[n + 1]
  <2>3. t \in T /\ t.to - t.from <= L - n /\ u = TableTurn(s, i, t)
    BY <1>15, <2>2
  <2> HIDE DEF t, u
  <2>4. u \in T
    BY <1>3, <2>3
  <2>5. t.from \in 0..L /\ t.to \in 0..L /\ u.from \in 0..L /\ u.to \in 0..L
    BY <1>5, <2>3, <2>4
  <2>6. u.to - u.from <= L - (n + 1)
    <3>1. CASE t.from = t.to
      <4>1. u = t
        BY <1>4, <2>3, <3>1
      <4>2. QED
        BY <1>1, <2>1, <2>5, <3>1, <4>1
    <3>2. CASE t.from # t.to
      <4>1. u.to - u.from < t.to - t.from
        BY <1>4, <2>3, <3>2
      <4>2. QED
        BY <1>1, <2>1, <2>3, <2>5, <4>1
    <3>3. QED
      BY <3>1, <3>2
  <2>7. QED
    BY <2>1, <2>4, <2>6 DEF u
<1> HIDE DEF P
<1>16. 0..L \subseteq P
  BY <1>1, <1>14, <1>15, CountUp
<1> DEFINE last == turn[L]
<1>17. last \in T /\ last.to - last.from <= L - L
  BY <1>1, <1>16 DEF P
<1> HIDE DEF last
<1>18. last.from \in 0..L /\ last.to = last.from
  BY <1>1, <1>5, <1>17
<1>19. TableStays(s, i) => \A k \in 1..L : k <= last.from <=> ~Grid!Before(i, s[k])
  BY <1>1, <1>8, <1>17, <1>18
<1>20. QED
  BY <1>7, <1>18, <1>19 DEF last, L

\* Cells of the rows that match.
TableCell == DOMAIN NumberOf
TableOrdered == sort = None \/ Grid!Comparable(sort.key)

LEMMA TableRows ==
    ASSUME TableTypes
    PROVE  /\ Len(rows) \in Nat
           /\ Grid!Filtered \subseteq 1..Len(rows)
           /\ sort # None => \A i \in Grid!Filtered : rows[i][sort.key] \in TableCell
<1>1. Len(rows) \in Nat /\ \A i \in 1..Len(rows) : rows[i] \in [Columns -> DOMAIN NumberOf]
  BY DEF TableTypes
<1>2. Grid!Filtered \subseteq 1..Len(rows)
  BY DEF Grid!Filtered, TableTypes
<1>3. sort # None => sort.key \in Columns
  BY DEF TableTypes
<1>4. QED
  BY <1>1, <1>2, <1>3 DEF TableCell

LEMMA TableRank == \A a \in TableCell : Grid!Rank(a) \in Int
BY TableAssumption DEF TableCell, Grid!Rank

\* What comparable cells have is an order.
LEMMA TableLower ==
    ASSUME NEW a \in TableCell, NEW b \in TableCell, NEW c \in TableCell
    PROVE  /\ ~(Grid!Lower(a, b) /\ Grid!Lower(b, a))
           /\ Grid!Lower(a, b) /\ ~Grid!Lower(c, b) => Grid!Lower(a, c)
           /\ Grid!Lower(b, a) /\ ~Grid!Lower(b, c) => Grid!Lower(c, a)
<1>1. Grid!Rank(a) \in Int /\ Grid!Rank(b) \in Int /\ Grid!Rank(c) \in Int
  BY TableRank
<1>2. QED
  BY <1>1 DEF Grid!Lower

\* The comparison agrees with it.
LEMMA TableBefore ==
    ASSUME TableTypes, sort # None, Grid!Comparable(sort.key),
           NEW i \in Grid!Filtered, NEW j \in Grid!Filtered
    PROVE  Grid!Before(i, j) <=> Grid!Ahead(i, j)
<1> DEFINE a == rows[i][sort.key]
           b == rows[j][sort.key]
           cells == {rows[k][sort.key] : k \in Grid!Filtered} \ {Absent}
<1>1. (\A x \in cells : NumberOf[x] # None) \/ (\A x \in cells : NumberOf[x] = None)
  BY DEF Grid!Comparable
<1>2. (a # Absent => a \in cells) /\ (b # Absent => b \in cells)
  OBVIOUS
<1>3. Grid!Before(i, j) <=> IF sort.dir = "asc" THEN Grid!Less(a, b) ELSE Grid!Less(b, a)
  BY DEF Grid!Before
<1>4. Grid!Ahead(i, j) <=> IF sort.dir = "asc" THEN Grid!Lower(a, b) ELSE Grid!Lower(b, a)
  BY DEF Grid!Ahead
<1> HIDE DEF a, b, cells
<1>5. Grid!Less(a, b) <=> Grid!Lower(a, b)
  BY <1>1, <1>2 DEF Grid!Less, Grid!Lower, Grid!Rank
<1>6. Grid!Less(b, a) <=> Grid!Lower(b, a)
  BY <1>1, <1>2 DEF Grid!Less, Grid!Lower, Grid!Rank
<1>7. QED
  BY <1>3, <1>4, <1>5, <1>6

LEMMA TableAhead ==
    ASSUME TableTypes, sort # None,
           NEW i \in Grid!Filtered, NEW j \in Grid!Filtered, NEW k \in Grid!Filtered
    PROVE  /\ ~(Grid!Ahead(i, j) /\ Grid!Ahead(j, i))
           /\ Grid!Ahead(i, j) /\ ~Grid!Ahead(k, j) => Grid!Ahead(i, k)
<1> DEFINE a == rows[i][sort.key]
           b == rows[j][sort.key]
           c == rows[k][sort.key]
<1>1. a \in TableCell /\ b \in TableCell /\ c \in TableCell
  BY TableRows
<1>2. /\ Grid!Ahead(i, j) <=> IF sort.dir = "asc" THEN Grid!Lower(a, b) ELSE Grid!Lower(b, a)
      /\ Grid!Ahead(j, i) <=> IF sort.dir = "asc" THEN Grid!Lower(b, a) ELSE Grid!Lower(a, b)
      /\ Grid!Ahead(k, j) <=> IF sort.dir = "asc" THEN Grid!Lower(c, b) ELSE Grid!Lower(b, c)
      /\ Grid!Ahead(i, k) <=> IF sort.dir = "asc" THEN Grid!Lower(a, c) ELSE Grid!Lower(c, a)
  BY DEF Grid!Ahead
<1> HIDE DEF a, b, c
<1>3. QED
  BY <1>1, <1>2, TableLower

\* What is sorted of the first n rows: those that match, each once, and in order if
\* there is one.
TableSorted(s, n) ==
    /\ s \in Seq(Nat)
    /\ {s[k] : k \in 1..Len(s)} = {i \in Grid!Filtered : i <= n}
    /\ \A k, l \in 1..Len(s) : s[k] = s[l] => k = l
    /\ TableOrdered => \A k, l \in 1..Len(s) : k < l => Grid!Precedes(s[k], s[l])

\* Where a row that comes after those in s is put.
LEMMA TableNext ==
    ASSUME TableTypes, NEW n \in Nat, NEW s, TableSorted(s, n), n + 1 \in Grid!Filtered
    PROVE  \E place \in 0..Len(s) :
              /\ Grid!Put(s, n + 1) = [k \in 1..(Len(s) + 1) |-> IF k <= place THEN s[k]
                                                               ELSE IF k = place + 1 THEN n + 1 ELSE s[k - 1]]
              /\ TableOrdered => \A k \in 1..Len(s) :
                    IF k <= place THEN Grid!Precedes(s[k], n + 1) ELSE Grid!Precedes(n + 1, s[k])
<1> DEFINE i == n + 1
           L == Len(s)
           place == IF sort = None THEN L ELSE Grid!Place(s, i)
<1>1. L \in Nat /\ \A k \in 1..L : s[k] \in Grid!Filtered /\ s[k] < i
  <2>1. L \in Nat /\ \A k \in 1..L : s[k] \in Nat /\ s[k] \in Grid!Filtered /\ s[k] <= n
    BY DEF TableSorted
  <2>2. QED
    BY <2>1
<1>2. TableOrdered => \A k, l \in 1..L : k < l => Grid!Precedes(s[k], s[l])
  BY DEF TableSorted
<1>3. Grid!Put(s, i) = [k \in 1..(L + 1) |-> IF k <= place THEN s[k]
                                           ELSE IF k = place + 1 THEN i ELSE s[k - 1]]
  BY DEF Grid!Put
<1>4. i \in Grid!Filtered
  OBVIOUS
<1>5. Grid!Place(s, i) \in 0..L /\ (TableStays(s, i) => \A k \in 1..L : k <= Grid!Place(s, i) <=> ~Grid!Before(i, s[k]))
  BY <1>1, TablePlace
<1>6. place \in 0..L
  BY <1>1, <1>5
<1> HIDE DEF i, L
<1>7. ASSUME TableOrdered, NEW k \in 1..L
      PROVE  IF k <= place THEN Grid!Precedes(s[k], i) ELSE Grid!Precedes(i, s[k])
  <2>1. CASE sort = None
    <3>1. place = L /\ k <= place /\ s[k] < i
      BY <1>1, <1>7, <2>1
    <3>2. QED
      BY <2>1, <3>1 DEF Grid!Precedes
  <2>2. CASE sort # None
    <3>1. Grid!Comparable(sort.key)
      BY <1>7, <2>2 DEF TableOrdered
    <3>2. ASSUME NEW l \in 1..L PROVE Grid!Before(i, s[l]) <=> Grid!Ahead(i, s[l])
      BY <1>1, <1>4, <2>2, <3>1, <3>2, TableBefore
    <3>3. ASSUME NEW l \in 1..L, NEW m \in 1..L, l < m, Grid!Ahead(i, s[l]) PROVE Grid!Ahead(i, s[m])
      <4>1. Grid!Precedes(s[l], s[m]) /\ s[l] \in Grid!Filtered /\ s[m] \in Grid!Filtered
        BY <1>1, <1>2, <1>7, <3>3
      <4>2. ~Grid!Ahead(s[m], s[l])
        BY <2>2, <4>1, TableAhead DEF Grid!Precedes
      <4>3. QED
        BY <1>4, <2>2, <3>3, <4>1, <4>2, TableAhead
    <3>4. TableStays(s, i)
      BY <3>2, <3>3 DEF TableStays, L
    <3>5. k <= place <=> ~Grid!Ahead(i, s[k])
      BY <1>5, <1>7, <2>2, <3>2, <3>4
    <3>6. CASE k <= place
      <4>1. ~Grid!Ahead(i, s[k]) /\ s[k] < i
        BY <1>1, <1>7, <3>5, <3>6
      <4>2. QED
        BY <2>2, <3>6, <4>1 DEF Grid!Precedes
    <3>7. CASE ~(k <= place)
      <4>1. Grid!Ahead(i, s[k])
        BY <3>5, <3>7
      <4>2. QED
        BY <2>2, <3>7, <4>1 DEF Grid!Precedes
    <3>8. QED
      BY <3>6, <3>7
  <2>3. QED
    BY <2>1, <2>2
<1> HIDE DEF place
<1>8. QED
  BY <1>3, <1>6, <1>7 DEF i, L

\* With it the rows are sorted as before.
LEMMA TablePut ==
    ASSUME TableTypes, NEW n \in Nat, NEW s, TableSorted(s, n), n + 1 \in Grid!Filtered
    PROVE  TableSorted(Grid!Put(s, n + 1), n + 1)
<1> DEFINE i == n + 1
           L == Len(s)
           t == Grid!Put(s, i)
<1>1. /\ L \in Nat /\ i \in Nat
      /\ \A k \in 1..L : s[k] \in Nat
      /\ {s[k] : k \in 1..L} = {j \in Grid!Filtered : j <= n}
      /\ \A k, l \in 1..L : s[k] = s[l] => k = l
      /\ TableOrdered => \A k, l \in 1..L : k < l => Grid!Precedes(s[k], s[l])
  BY DEF TableSorted
<1>2. PICK place \in 0..L :
              /\ t = [k \in 1..(L + 1) |-> IF k <= place THEN s[k] ELSE IF k = place + 1 THEN i ELSE s[k - 1]]
              /\ TableOrdered => \A k \in 1..L :
                    IF k <= place THEN Grid!Precedes(s[k], i) ELSE Grid!Precedes(i, s[k])
  BY TableNext
<1>3. i \in Grid!Filtered /\ Grid!Filtered \subseteq Nat
  BY TableRows
<1>4. \A j \in Nat : j <= i <=> j <= n \/ j = i
  BY <1>1
<1>5. \A k \in 1..L : s[k] # i
  <2>1. \A k \in 1..L : s[k] <= n
    BY <1>1
  <2>2. QED
    BY <1>1, <2>1
<1> HIDE DEF i, L, t
<1>6. ASSUME NEW k \in 1..(L + 1)
      PROVE  t[k] = IF k <= place THEN s[k] ELSE IF k = place + 1 THEN i ELSE s[k - 1]
  BY <1>2
<1>7. t \in Seq(Nat) /\ Len(t) = L + 1
  <2>1. t \in [1..(L + 1) -> Nat] /\ L + 1 \in Nat
    BY <1>1, <1>2
  <2>2. t \in Seq(Nat)
    BY <2>1
  <2>3. QED
    BY <2>1, <2>2
<1>8. {t[k] : k \in 1..(L + 1)} = {j \in Grid!Filtered : j <= i}
  <2>1. ASSUME NEW k \in 1..(L + 1) PROVE t[k] \in {s[l] : l \in 1..L} \cup {i}
    <3>1. CASE k <= place
      BY <1>1, <1>2, <1>6, <3>1
    <3>2. CASE k = place + 1
      BY <1>2, <1>6, <3>2
    <3>3. CASE k > place + 1
      <4>1. k - 1 \in 1..L /\ t[k] = s[k - 1]
        BY <1>1, <1>2, <1>6, <3>3
      <4>2. QED
        BY <4>1
    <3>4. QED
      BY <1>2, <3>1, <3>2, <3>3
  <2>2. ASSUME NEW l \in 1..L PROVE \E k \in 1..(L + 1) : t[k] = s[l]
    <3>1. CASE l <= place
      <4>1. l \in 1..(L + 1) /\ t[l] = s[l]
        BY <1>1, <1>6, <3>1
      <4>2. QED
        BY <4>1
    <3>2. CASE l > place
      <4>1. l + 1 \in 1..(L + 1) /\ ~(l + 1 <= place) /\ l + 1 # place + 1 /\ l + 1 - 1 = l
        BY <1>1, <1>2, <3>2
      <4>2. t[l + 1] = s[l]
        BY <1>6, <4>1
      <4>3. QED
        BY <4>1, <4>2
    <3>3. QED
      BY <1>2, <3>1, <3>2
  <2>3. \E k \in 1..(L + 1) : t[k] = i
    <3>1. place + 1 \in 1..(L + 1) /\ ~(place + 1 <= place)
      BY <1>1, <1>2
    <3>2. QED
      BY <1>6, <3>1
  <2>4. {t[k] : k \in 1..(L + 1)} = {s[l] : l \in 1..L} \cup {i}
    BY <2>1, <2>2, <2>3
  <2>5. {j \in Grid!Filtered : j <= i} = {j \in Grid!Filtered : j <= n} \cup {i}
    BY <1>3, <1>4, <1>1
  <2>6. QED
    BY <1>1, <2>4, <2>5
<1> DEFINE Old(k) == IF k <= place THEN k ELSE k - 1
<1>9. ASSUME NEW k \in 1..(L + 1), k # place + 1
      PROVE  Old(k) \in 1..L /\ t[k] = s[Old(k)] /\ (Old(k) <= place <=> k <= place)
  BY <1>1, <1>2, <1>6, <1>9
<1>10. t[place + 1] = i
  <2>1. place + 1 \in 1..(L + 1) /\ ~(place + 1 <= place)
    BY <1>1, <1>2
  <2>2. QED
    BY <1>6, <2>1
<1>11. ASSUME NEW k \in 1..(L + 1), NEW l \in 1..(L + 1), t[k] = t[l] PROVE k = l
  <2>1. CASE k = place + 1 \/ l = place + 1
    BY <1>5, <1>9, <1>10, <1>11, <2>1
  <2>2. CASE k # place + 1 /\ l # place + 1
    <3>1. Old(k) = Old(l)
      <4>1. Old(k) \in 1..L /\ Old(l) \in 1..L /\ s[Old(k)] = s[Old(l)]
        BY <1>9, <1>11, <2>2
      <4> HIDE DEF Old
      <4>2. QED
        BY <1>1, <4>1
    <3>2. QED
      BY <1>1, <1>2, <2>2, <3>1
  <2>3. QED
    BY <2>1, <2>2
<1>12. ASSUME TableOrdered, NEW k \in 1..(L + 1), NEW l \in 1..(L + 1), k < l PROVE Grid!Precedes(t[k], t[l])
  <2>1. CASE k = place + 1
    <3>1. l # place + 1 /\ ~(l <= place)
      BY <1>1, <1>2, <1>12, <2>1
    <3>2. Old(l) \in 1..L /\ t[l] = s[Old(l)] /\ ~(Old(l) <= place)
      BY <1>9, <3>1
    <3> HIDE DEF Old
    <3>3. Grid!Precedes(i, s[Old(l)])
      BY <1>2, <1>12, <3>2
    <3>4. QED
      BY <1>10, <2>1, <3>2, <3>3
  <2>2. CASE l = place + 1
    <3>1. k # place + 1 /\ k <= place
      BY <1>1, <1>2, <1>12, <2>2
    <3>2. Old(k) \in 1..L /\ t[k] = s[Old(k)] /\ Old(k) <= place
      BY <1>9, <3>1
    <3> HIDE DEF Old
    <3>3. Grid!Precedes(s[Old(k)], i)
      BY <1>2, <1>12, <3>2
    <3>4. QED
      BY <1>10, <2>2, <3>2, <3>3
  <2>3. CASE k # place + 1 /\ l # place + 1
    <3>1. Old(k) < Old(l)
      BY <1>1, <1>2, <1>12, <2>3
    <3>2. Old(k) \in 1..L /\ t[k] = s[Old(k)] /\ Old(l) \in 1..L /\ t[l] = s[Old(l)]
      BY <1>9, <2>3
    <3> HIDE DEF Old
    <3>3. Grid!Precedes(s[Old(k)], s[Old(l)])
      BY <1>1, <1>12, <3>1, <3>2
    <3>4. QED
      BY <3>2, <3>3
  <2>4. QED
    BY <2>1, <2>2, <2>3
<1>13. TableSorted(t, i)
  BY <1>7, <1>8, <1>11, <1>12 DEF TableSorted
<1>14. QED
  BY <1>13 DEF t, i

LEMMA TablePutIsSequence ==
    ASSUME NEW s \in Seq(Nat), NEW i \in Nat PROVE Grid!Put(s, i) \in Seq(Nat)
<1> DEFINE L == Len(s)
           place == IF sort = None THEN L ELSE Grid!Place(s, i)
<1>1. L \in Nat /\ \A k \in 1..L : s[k] \in Nat
  OBVIOUS
<1>2. place \in 0..L
  BY <1>1, TablePlace
<1>3. Grid!Put(s, i) = [k \in 1..(L + 1) |-> IF k <= place THEN s[k] ELSE IF k = place + 1 THEN i ELSE s[k - 1]]
  BY DEF Grid!Put
<1> HIDE DEF place, L
<1>4. Grid!Put(s, i) \in [1..(L + 1) -> Nat] /\ L + 1 \in Nat
  BY <1>1, <1>2, <1>3
<1>5. QED
  BY <1>4

\* The rows that match, each once, and in order if there is one.
LEMMA TableSortedRows == ASSUME TableTypes PROVE TableSorted(Grid!Sorted, Len(rows))
<1> DEFINE N == Len(rows)
           Step(n, s) == IF n \in Grid!Filtered THEN Grid!Put(s, n) ELSE s
           Is(f) == f = [n \in 0..N |-> IF n = 0 THEN <<>> ELSE Step(n, f[n - 1])]
           sorted == CHOOSE f : Is(f)
           next == [n \in 1..N |-> [s \in Seq(Nat) |-> Step(n, s)]]
<1>1. N \in Nat /\ Grid!Filtered \subseteq 1..N
  BY TableRows
<1>2. Grid!Sorted = sorted[N]
  BY DEF Grid!Sorted
<1>3. \A n \in 1..N, s \in Seq(Nat) : Step(n, s) \in Seq(Nat)
  BY TablePutIsSequence
<1>4. ASSUME NEW n \in 0..N, n < N, NEW s, TableSorted(s, n) PROVE TableSorted(Step(n + 1, s), n + 1)
  <2>1. n \in Nat
    OBVIOUS
  <2>2. CASE n + 1 \in Grid!Filtered
    BY <1>4, <2>1, <2>2, TablePut
  <2>3. CASE n + 1 \notin Grid!Filtered
    <3>1. ASSUME NEW i \in Grid!Filtered PROVE i <= n + 1 <=> i <= n
      <4>1. i \in Nat /\ i # n + 1
        BY <1>1, <2>3
      <4>2. QED
        BY <2>1, <4>1
    <3>2. {i \in Grid!Filtered : i <= n + 1} = {i \in Grid!Filtered : i <= n}
      BY <3>1
    <3>3. QED
      BY <1>4, <2>3, <3>2 DEF TableSorted
  <2>4. QED
    BY <2>2, <2>3
<1>5. TableSorted(<<>>, 0)
  <2>1. {i \in Grid!Filtered : i <= 0} = {}
    <3>1. \A i \in Grid!Filtered : ~(i <= 0)
      BY <1>1
    <3>2. QED
      BY <3>1
  <2>2. <<>> \in Seq(Nat) /\ Len(<<>>) = 0 /\ 1..0 = {}
    OBVIOUS
  <2>3. QED
    BY <2>1, <2>2 DEF TableSorted
<1> HIDE DEF N, Step
<1>6. PICK f : Follows(f, N, Seq(Nat), <<>>, next)
  <2>1. next \in StepFunctions(N, Seq(Nat)) /\ <<>> \in Seq(Nat)
    BY <1>3 DEF StepFunctions
  <2> HIDE DEF next
  <2>2. QED
    BY <1>1, <2>1, RecursiveFunction
<1>7. ASSUME NEW n \in 1..N PROVE f[n] = Step(n, f[n - 1])
  <2>1. n - 1 \in 0..N
    BY <1>1
  <2>2. f[n - 1] \in Seq(Nat)
    BY <1>6, <2>1 DEF Follows
  <2>3. next[n][f[n - 1]] = Step(n, f[n - 1])
    BY <2>2
  <2>4. QED
    BY <1>6, <2>3 DEF Follows
<1>8. f \in [0..N -> Seq(Nat)] /\ f[0] = <<>>
  BY <1>6 DEF Follows
<1> HIDE DEF next
<1>9. Is(f)
  BY <1>1, <1>7, <1>8
<1>10. Is(sorted)
  BY <1>9
<1> HIDE DEF sorted
<1> DEFINE P == {n \in 0..N : TableSorted(sorted[n], n)}
<1>11. 0 \in P
  BY <1>1, <1>5, <1>10
<1>12. ASSUME NEW n \in 0..N, n < N, n \in P PROVE n + 1 \in P
  <2>1. n + 1 \in 1..N /\ n + 1 \in 0..N /\ n + 1 # 0 /\ n + 1 - 1 = n
    BY <1>1, <1>12
  <2>2. sorted[n + 1] = Step(n + 1, sorted[n])
    BY <1>10, <2>1
  <2>3. TableSorted(sorted[n], n)
    BY <1>12
  <2>4. TableSorted(sorted[n + 1], n + 1)
    BY <1>4, <1>12, <2>2, <2>3
  <2>5. QED
    BY <2>1, <2>4
<1> HIDE DEF P
<1>13. 0..N \subseteq P
  BY <1>1, <1>11, <1>12, CountUp
<1>14. QED
  BY <1>1, <1>2, <1>13 DEF P, N

TableSlots == UNION {{n} \X DOMAIN Grid!Pages[n] : n \in DOMAIN Grid!Pages}
TableSlot(x) == Grid!Pages[x[1]][x[2]]

\* As many pages as are needed for L rows.
LEMMA TablePagesEnough ==
    ASSUME TableTypes
    PROVE  LET L == Len(Grid!Sorted)
               T == Grid!TotalPages
           IN  /\ L \in Nat /\ T \in Nat \ {0}
               /\ L <= T * PageSize
               /\ L > 0 => (T - 1) * PageSize < L
               /\ L = 0 => T = 1
<1> DEFINE L == Len(Grid!Sorted)
           P == PageSize
           q == (L + P - 1) \div P
           T == Grid!TotalPages
<1>1. L \in Nat /\ P \in Nat \ {0}
  BY TableSortedRows, ConstantsAssumption DEF TableSorted
<1>2. T = Grid!Most(1, q)
  BY DEF Grid!TotalPages
<1> HIDE DEF L, P
<1>3. q \in Nat /\ q * P <= L + P - 1 /\ L + P - 1 < q * P + P
  BY <1>1
<1> HIDE DEF q, T
<1>4. T = IF q >= 1 THEN q ELSE 1
  BY <1>1, <1>2, <1>3 DEF Grid!Most
<1>5. CASE q = 0
  <2>1. T = 1 /\ q * P = 0
    BY <1>1, <1>4, <1>5
  <2>2. L = 0
    BY <1>1, <1>3, <2>1
  <2>3. QED
    BY <1>1, <2>1, <2>2 DEF L, P, T
<1>6. CASE q > 0
  <2>1. T = q /\ T \in Nat \ {0}
    BY <1>3, <1>4, <1>6
  <2>2. (T - 1) * P = q * P - P /\ q * P \in Nat
    BY <1>1, <1>3, <2>1
  <2>3. L <= q * P /\ (T - 1) * P < L
    BY <1>1, <1>3, <2>2
  <2>4. 0 <= (T - 1) * P
    BY <1>1, <2>1
  <2>5. QED
    BY <1>1, <2>1, <2>2, <2>3, <2>4 DEF L, P, T
<1>7. QED
  BY <1>3, <1>5, <1>6

\* What is on a page.
LEMMA TablePage ==
    ASSUME TableTypes, NEW n \in 1..Grid!TotalPages
    PROVE  LET L == Len(Grid!Sorted)
               b == (n - 1) * PageSize
           IN  /\ b \in Nat /\ L \in Nat /\ PageSize \in Nat \ {0}
               /\ Len(Grid!PageOf(n)) \in Nat
               /\ DOMAIN Grid!PageOf(n) = 1..Len(Grid!PageOf(n))
               /\ Len(Grid!PageOf(n)) = IF PageSize <= L - b THEN PageSize ELSE L - b
               /\ L > 0 => Len(Grid!PageOf(n)) > 0
               /\ \A k \in 1..Len(Grid!PageOf(n)) :
                     b + k \in 1..L /\ Grid!PageOf(n)[k] = Grid!Sorted[b + k]
<1> DEFINE s == Grid!Sorted
           L == Len(s)
           P == PageSize
           T == Grid!TotalPages
           b == (n - 1) * P
           e == Grid!Least(n * P, L)
<1>1. /\ L \in Nat /\ T \in Nat \ {0} /\ L <= T * P /\ (L > 0 => (T - 1) * P < L) /\ (L = 0 => T = 1)
      /\ P \in Nat \ {0} /\ s \in Seq(Nat)
  BY TablePagesEnough, TableSortedRows, ConstantsAssumption DEF TableSorted
<1>2. n \in 1..T
  OBVIOUS
<1>3. Grid!PageOf(n) = SubSeq(s, b + 1, e)
  BY DEF Grid!PageOf
<1>4. \A k \in 1..L : s[k] \in Nat
  BY <1>1
<1> HIDE DEF s, L, P, T
<1>5. b \in Nat /\ n * P = b + P /\ n * P \in Nat
  BY <1>1, <1>2
<1>6. b <= (T - 1) * P
  <2>1. n - 1 \in Int /\ T - 1 \in Int /\ n - 1 <= T - 1 /\ P \in Nat
    BY <1>1, <1>2
  <2>2. QED
    BY <2>1, TimesIsMonotone
<1>7. L > 0 => b < L
  <2>1. (T - 1) * P \in Int
    BY <1>1
  <2>2. QED
    BY <1>1, <1>5, <1>6, <2>1
<1>8. L = 0 => b = 0
  BY <1>1, <1>2
<1>9. e = IF b + P <= L THEN b + P ELSE L
  BY <1>5 DEF Grid!Least
<1> HIDE DEF b, e
<1>10. e \in Nat /\ b <= e /\ e <= L /\ (L > 0 => b < e)
  BY <1>1, <1>5, <1>7, <1>8, <1>9
<1>11. /\ SubSeq(s, b + 1, e) \in Seq(Nat)
       /\ Len(SubSeq(s, b + 1, e)) = IF b + 1 <= e THEN e - (b + 1) + 1 ELSE 0
       /\ \A k \in 1..(e - (b + 1) + 1) : SubSeq(s, b + 1, e)[k] = s[b + 1 + k - 1]
  <2>1. b + 1 \in Int /\ e \in Int /\ \A k \in (b + 1)..e : s[k] \in Nat
    BY <1>4, <1>5, <1>10, <1>1
  <2>2. QED
    BY <2>1, SubSeqProperties
<1> DEFINE p == SubSeq(s, b + 1, e)
<1>12. p \in Seq(Nat)
  BY <1>11
<1>13. Len(p) = e - b
  BY <1>5, <1>10, <1>11
<1>14. \A k \in 1..(e - b) : p[k] = s[b + k]
  <2>1. ASSUME NEW k \in 1..(e - b) PROVE k \in 1..(e - (b + 1) + 1) /\ b + 1 + k - 1 = b + k
    BY <1>5, <1>10
  <2>2. QED
    BY <1>11, <2>1
<1>15. DOMAIN p = 1..Len(p) /\ Len(p) \in Nat
  BY <1>12
<1> HIDE DEF p
<1>16. ASSUME NEW k \in 1..Len(p) PROVE b + k \in 1..L /\ p[k] = s[b + k]
  <2>1. k \in 1..(e - b)
    BY <1>13
  <2>2. b + k \in 1..L
    BY <1>1, <1>5, <1>10, <2>1
  <2>3. QED
    BY <1>14, <2>1, <2>2
<1>17. Len(p) = IF P <= L - b THEN P ELSE L - b
  BY <1>1, <1>5, <1>9, <1>13
<1>18. L > 0 => Len(p) > 0
  BY <1>5, <1>10, <1>13
<1>19. Grid!PageOf(n) = p
  BY <1>3 DEF p
<1>20. QED
  BY <1>1, <1>5, <1>15, <1>16, <1>17, <1>18, <1>19 DEF L, s, P, b

\* A slot of the pages is a place among the sorted rows.
TablePosition(x) == (x[1] - 1) * PageSize + x[2]

LEMMA TableSlotsAre ==
    ASSUME TableTypes
    PROVE  /\ \A x : x \in TableSlots <=>
                       \E n \in 1..Grid!TotalPages : \E k \in 1..Len(Grid!PageOf(n)) : x = <<n, k>>
           /\ \A n \in 1..Grid!TotalPages : Grid!Pages[n] = Grid!PageOf(n)
<1>1. Grid!Pages = [n \in 1..Grid!TotalPages |-> Grid!PageOf(n)]
  BY DEF Grid!Pages
<1>2. \A n \in 1..Grid!TotalPages : Grid!Pages[n] = Grid!PageOf(n) /\ DOMAIN Grid!PageOf(n) = 1..Len(Grid!PageOf(n))
  BY <1>1, TablePage
<1>3. DOMAIN Grid!Pages = 1..Grid!TotalPages
  BY <1>1
<1>4. QED
  BY <1>2, <1>3 DEF TableSlots

LEMMA TableSlotShows ==
    ASSUME TableTypes, NEW x \in TableSlots
    PROVE  /\ x[1] \in 1..Grid!TotalPages /\ x[2] \in 1..PageSize /\ x = <<x[1], x[2]>>
           /\ TablePosition(x) \in 1..Len(Grid!Sorted)
           /\ TableSlot(x) = Grid!Sorted[TablePosition(x)]
<1>1. PICK n \in 1..Grid!TotalPages : \E k \in 1..Len(Grid!PageOf(n)) : x = <<n, k>>
  BY TableSlotsAre
<1>2. PICK k \in 1..Len(Grid!PageOf(n)) : x = <<n, k>>
  BY <1>1
<1>3. x[1] = n /\ x[2] = k /\ Grid!Pages[n] = Grid!PageOf(n)
  BY <1>2, TableSlotsAre
<1> DEFINE L == Len(Grid!Sorted)
           b == (n - 1) * PageSize
           l == Len(Grid!PageOf(n))
<1>4. /\ b \in Nat /\ L \in Nat /\ PageSize \in Nat \ {0}
      /\ l \in Nat /\ l = IF PageSize <= L - b THEN PageSize ELSE L - b
      /\ b + k \in 1..L /\ Grid!PageOf(n)[k] = Grid!Sorted[b + k]
  BY TablePage
<1>5. k \in 1..l
  OBVIOUS
<1> HIDE DEF l, L, b
<1>6. k \in 1..PageSize
  BY <1>4, <1>5
<1>7. TablePosition(x) = b + k
  BY <1>3 DEF TablePosition, b
<1>8. TableSlot(x) = Grid!Sorted[b + k]
  BY <1>3, <1>4 DEF TableSlot
<1>9. QED
  BY <1>2, <1>3, <1>4, <1>6, <1>7, <1>8 DEF L

\* Later slots are later places.
LEMMA TableSlotsInTurn ==
    ASSUME TableTypes, NEW x \in TableSlots, NEW y \in TableSlots
    PROVE  /\ x[1] < y[1] \/ (x[1] = y[1] /\ x[2] < y[2]) => TablePosition(x) < TablePosition(y)
           /\ x = y \/ x[1] < y[1] \/ (x[1] = y[1] /\ x[2] < y[2]) \/ y[1] < x[1] \/ (x[1] = y[1] /\ y[2] < x[2])
<1> DEFINE m == x[1]
           k == x[2]
           n == y[1]
           l == y[2]
           P == PageSize
<1>1. m \in Nat /\ n \in Nat /\ k \in 1..P /\ l \in 1..P /\ P \in Nat \ {0} /\ x = <<m, k>> /\ y = <<n, l>>
  <2>1. Grid!TotalPages \in Nat /\ P \in Nat \ {0}
    BY TablePagesEnough, ConstantsAssumption
  <2>2. m \in 1..Grid!TotalPages /\ k \in 1..P /\ x = <<m, k>>
    BY TableSlotShows
  <2>3. n \in 1..Grid!TotalPages /\ l \in 1..P /\ y = <<n, l>>
    BY TableSlotShows
  <2>4. QED
    BY <2>1, <2>2, <2>3
<1>2. TablePosition(x) = (m - 1) * P + k /\ TablePosition(y) = (n - 1) * P + l
  BY DEF TablePosition
<1> HIDE DEF m, k, n, l, P
<1>3. (m - 1) * P \in Int /\ (n - 1) * P \in Int /\ m * P = (m - 1) * P + P
  BY <1>1
<1>4. m < n => m * P <= (n - 1) * P
  <2>1. m \in Int /\ n - 1 \in Int /\ (m < n => m <= n - 1) /\ P \in Nat
    BY <1>1
  <2>2. QED
    BY <2>1, TimesIsMonotone
<1> DEFINE u == (m - 1) * P
           v == (n - 1) * P
<1>5. u \in Int /\ v \in Int /\ (m < n => u + P <= v) /\ (m = n => u = v)
      /\ TablePosition(x) = u + k /\ TablePosition(y) = v + l
  BY <1>2, <1>3, <1>4
<1> HIDE DEF u, v
<1>6. m < n \/ (m = n /\ k < l) => TablePosition(x) < TablePosition(y)
  BY <1>1, <1>5
<1>7. x = y \/ m < n \/ (m = n /\ k < l) \/ n < m \/ (m = n /\ l < k)
  BY <1>1
<1>8. QED
  BY <1>6, <1>7 DEF m, k, n, l

\* Every place has its slot.
LEMMA TableSlotOf ==
    ASSUME TableTypes, NEW q \in 1..Len(Grid!Sorted)
    PROVE  \E x \in TableSlots : TablePosition(x) = q
<1> DEFINE L == Len(Grid!Sorted)
           P == PageSize
           T == Grid!TotalPages
           d == (q - 1) \div P
           n == d + 1
           k == q - d * P
<1>1. L \in Nat /\ T \in Nat \ {0} /\ L <= T * P /\ P \in Nat \ {0} /\ q \in 1..L
  BY TablePagesEnough, ConstantsAssumption
<1> HIDE DEF L, P, T
<1>2. d \in Nat /\ d * P <= q - 1 /\ q - 1 < d * P + P /\ d * P \in Nat
  BY <1>1
<1> HIDE DEF d
<1>3. n \in 1..T
  <2>1. SUFFICES ASSUME T <= d PROVE FALSE
    BY <1>1, <1>2
  <2>2. T * P <= d * P
    BY <1>1, <1>2, <2>1, TimesIsMonotone
  <2>3. T * P \in Int
    BY <1>1
  <2>4. QED
    BY <1>1, <1>2, <2>2, <2>3
<1>4. n - 1 = d /\ k \in 1..P /\ k <= L - d * P
  BY <1>1, <1>2
<1>5. Len(Grid!PageOf(n)) = IF P <= L - (n - 1) * P THEN P ELSE L - (n - 1) * P
  BY <1>3, TablePage DEF L, P, T
<1>6. k \in 1..Len(Grid!PageOf(n))
  BY <1>1, <1>2, <1>4, <1>5
<1>7. <<n, k>> \in TableSlots
  BY <1>3, <1>6, TableSlotsAre DEF T
<1>8. TablePosition(<<n, k>>) = q
  <2>1. TablePosition(<<n, k>>) = d * P + k
    BY <1>4 DEF TablePosition, P
  <2>2. QED
    BY <1>1, <1>2, <2>1
<1>9. QED
  BY <1>7, <1>8

LEMMA TableRowsArePaged == ASSUME TableTypes PROVE Grid!RowsArePaged
<1> DEFINE s == Grid!Sorted
           L == Len(s)
<1>1. /\ L \in Nat /\ {s[k] : k \in 1..L} = Grid!Filtered
      /\ \A k, l \in 1..L : s[k] = s[l] => k = l
  <2>1. \A i \in Grid!Filtered : i <= Len(rows)
    BY TableRows
  <2>2. TableSorted(s, Len(rows))
    BY TableSortedRows
  <2> HIDE DEF s
  <2>3. QED
    BY <2>1, <2>2 DEF TableSorted
<1>2. \A x \in TableSlots : TablePosition(x) \in 1..L /\ TableSlot(x) = s[TablePosition(x)]
  BY TableSlotShows
<1>3. \A q \in 1..L : \E x \in TableSlots : TablePosition(x) = q
  BY TableSlotOf
<1>4. ASSUME NEW x \in TableSlots, NEW y \in TableSlots, TableSlot(x) = TableSlot(y) PROVE x = y
  <2>1. TablePosition(x) = TablePosition(y)
    BY <1>1, <1>2, <1>4
  <2>2. TablePosition(x) \in Int
    BY <1>2
  <2>3. QED
    BY <2>1, <2>2, TableSlotsInTurn
<1>5. Grid!Filtered # {} => Grid!Paged # <<>>
  <2>1. SUFFICES ASSUME Grid!Filtered # {} PROVE Grid!Paged # <<>>
    OBVIOUS
  <2>2. L > 0
    BY <1>1, <2>1
  <2>3. Grid!SafePage \in 1..Grid!TotalPages
    BY TablePagesEnough DEF Grid!SafePage, Grid!Least, TableTypes
  <2>4. Len(Grid!Paged) > 0
    BY <2>2, <2>3, TablePage DEF Grid!Paged
  <2>5. QED
    BY <2>4
<1> HIDE DEF s, L
<1>6. {TableSlot(x) : x \in TableSlots} = Grid!Filtered
  <2>1. ASSUME NEW x \in TableSlots PROVE TableSlot(x) \in Grid!Filtered
    BY <1>1, <1>2
  <2>2. ASSUME NEW i \in Grid!Filtered PROVE \E x \in TableSlots : TableSlot(x) = i
    <3>1. PICK q \in 1..L : s[q] = i
      BY <1>1
    <3>2. PICK x \in TableSlots : TablePosition(x) = q
      BY <1>3
    <3>3. QED
      BY <1>2, <3>1, <3>2
  <2>3. QED
    BY <2>1, <2>2
<1>7. QED
  BY <1>4, <1>5, <1>6 DEF Grid!RowsArePaged, TableSlots, TableSlot

LEMMA TableSortedStably == ASSUME TableTypes PROVE Grid!SortedStably
<1> DEFINE s == Grid!Sorted
           L == Len(s)
<1>1. SUFFICES ASSUME TableOrdered,
                      NEW m \in DOMAIN Grid!Pages, NEW n \in DOMAIN Grid!Pages,
                      NEW k \in DOMAIN Grid!Pages[m], NEW l \in DOMAIN Grid!Pages[n],
                      m < n \/ (m = n /\ k < l)
               PROVE  Grid!Precedes(Grid!Pages[m][k], Grid!Pages[n][l])
  BY DEF Grid!SortedStably, TableOrdered
<1> DEFINE x == <<m, k>>
           y == <<n, l>>
<1>2. x \in TableSlots /\ y \in TableSlots
  BY DEF TableSlots
<1>3. x[1] = m /\ x[2] = k /\ y[1] = n /\ y[2] = l
  OBVIOUS
<1>4. TableSlot(x) = Grid!Pages[m][k] /\ TableSlot(y) = Grid!Pages[n][l]
  BY DEF TableSlot
<1>5. \A i, j \in 1..L : i < j => Grid!Precedes(s[i], s[j])
  BY <1>1, TableSortedRows DEF TableSorted
<1> HIDE DEF x, y
<1>6. TablePosition(x) < TablePosition(y)
  BY <1>1, <1>2, <1>3, TableSlotsInTurn
<1>7. /\ TablePosition(x) \in 1..L /\ TableSlot(x) = s[TablePosition(x)]
      /\ TablePosition(y) \in 1..L /\ TableSlot(y) = s[TablePosition(y)]
  BY <1>2, TableSlotShows
<1>8. QED
  BY <1>4, <1>5, <1>6, <1>7

LEMMA TableStart == Grid!Init => TableTypes
BY TableAssumption DEF Grid!Init, TableTypes

LEMMA TableStep == TableTypes /\ [Grid!Next]_(Grid!vars) => TableTypes'
<1> SUFFICES ASSUME TableTypes, [Grid!Next]_(Grid!vars) PROVE TableTypes'
  OBVIOUS
<1>1. Grid!TotalPages \in Nat \ {0}
  BY TablePagesEnough
<1>2. CASE Grid!Refetch
  BY <1>2, TableAssumption DEF Grid!Refetch, TableTypes
<1>3. CASE Grid!Previous
  BY <1>3 DEF Grid!Previous, Grid!Most, TableTypes
<1>4. CASE Grid!Following
  BY <1>1, <1>4 DEF Grid!Following, Grid!Least, TableTypes
<1>5. ASSUME NEW q \in Queries, Grid!Search(q) PROVE TableTypes'
  BY <1>5 DEF Grid!Search, TableTypes
<1>6. ASSUME NEW c \in Columns, Grid!ToggleSort(c) PROVE TableTypes'
  <2>1. sort' = None \/ sort' \in [key : Columns, dir : {"asc", "desc"}]
    BY <1>6 DEF Grid!ToggleSort
  <2>2. rows' = rows /\ page' = 1
    BY <1>6 DEF Grid!ToggleSort
  <2>3. QED
    BY <2>1, <2>2 DEF TableTypes
<1>7. CASE UNCHANGED Grid!vars
  BY <1>7 DEF Grid!vars, TableTypes
<1>8. QED
  BY <1>2, <1>3, <1>4, <1>5, <1>6, <1>7 DEF Grid!Next

-----------------------------------------------------------------------------
(* UiValues                                                                *)

LEMMA SubSeqAgain ==
    ASSUME NEW S, NEW p \in Seq(S), NEW a \in 0..Len(p), NEW c \in Nat \ {0}, NEW d \in Nat,
           d <= Len(p) - a, c <= d + 1
    PROVE  SubSeq(SubSeq(p, a + 1, Len(p)), c, d) = SubSeq(p, a + c, a + d)
<1> DEFINE L == Len(p)
<1>1. L \in Nat
  OBVIOUS
<1>2. CASE c = d + 1
  <2>1. SubSeq(SubSeq(p, a + 1, L), c, d) = <<>>
    BY <1>2, SubSeqEmpty
  <2>2. a + c \in Int /\ a + d \in Int /\ a + d < a + c
    BY <1>2
  <2>3. SubSeq(p, a + c, a + d) = <<>>
    BY <2>2, SubSeqEmpty
  <2>4. QED
    BY <2>1, <2>3
<1>3. CASE c <= d
  <2>1. a + 1 \in 1..L /\ L \in 1..L /\ c \in 1..(L - (a + 1) + 1) /\ d \in 1..(L - (a + 1) + 1)
    BY <1>1, <1>3
  <2>2. SubSeq(SubSeq(p, a + 1, L), c, d) = SubSeq(p, a + 1 + c - 1, a + 1 + d - 1)
    BY <2>1, SubSeqOfSubSeq
  <2>3. a + 1 + c - 1 = a + c /\ a + 1 + d - 1 = a + d
    BY <1>1
  <2>4. QED
    BY <2>2, <2>3
<1>4. QED
  BY <1>2, <1>3

\* The segments after the first a.
Rest(p, a) == SubSeq(p, a + 1, Len(p))

LEMMA ValuesRest ==
    ASSUME NEW p \in Seq(Segments), NEW a \in 0..Len(p)
    PROVE  Rest(p, a) \in Seq(Segments) /\ Len(Rest(p, a)) = Len(p) - a
<1>1. Len(p) \in Nat /\ a + 1 \in Int /\ Len(p) \in Int /\ \A i \in (a + 1)..Len(p) : p[i] \in Segments
  OBVIOUS
<1>2. Rest(p, a) \in Seq(Segments) /\ Len(Rest(p, a)) = IF a + 1 <= Len(p) THEN Len(p) - (a + 1) + 1 ELSE 0
  BY <1>1, SubSeqProperties DEF Rest
<1>3. QED
  BY <1>1, <1>2

LEMMA ValuesRestOfAll == ASSUME NEW p \in Seq(Segments) PROVE Rest(p, 0) = p
<1>1. SubSeq(p, 1, Len(p)) = p
  BY SubSeqFull
<1>2. QED
  BY <1>1 DEF Rest

LEMMA ValuesRestOfRest ==
    ASSUME NEW p \in Seq(Segments), NEW a \in 0..Len(p), NEW t \in 1..(Len(p) - a)
    PROVE  /\ SubSeq(Rest(p, a), 1, t) = SubSeq(p, a + 1, a + t)
           /\ Rest(Rest(p, a), t) = Rest(p, a + t)
<1> DEFINE L == Len(p)
<1>1. L \in Nat
  OBVIOUS
<1>2. t \in Nat /\ t <= L - a /\ 1 <= t + 1 /\ 1 \in Nat \ {0}
  BY <1>1
<1>3. SubSeq(Rest(p, a), 1, t) = SubSeq(p, a + 1, a + t)
  BY <1>2, SubSeqAgain DEF Rest
<1>4. t + 1 \in Nat \ {0} /\ L - a \in Nat /\ L - a <= L - a /\ t + 1 <= L - a + 1
  BY <1>1
<1>5. SubSeq(Rest(p, a), t + 1, L - a) = SubSeq(p, a + (t + 1), a + (L - a))
  BY <1>4, SubSeqAgain DEF Rest
<1>6. a + (t + 1) = a + t + 1 /\ a + (L - a) = L
  BY <1>1
<1>7. Rest(Rest(p, a), t) = SubSeq(Rest(p, a), t + 1, L - a)
  BY ValuesRest DEF Rest
<1>8. QED
  BY <1>3, <1>5, <1>6, <1>7 DEF Rest

\* The longest key.
LEMMA ValuesTaken ==
    ASSUME NEW v, NEW p, Len(p) \in Nat
    PROVE  LET t == UiData!Taken(v, p)
           IN  /\ t \in 0..Len(p)
               /\ t # 0 => UiData!HasOwn(v, SubSeq(p, 1, t))
               /\ \A n \in 1..Len(p) : UiData!HasOwn(v, SubSeq(p, 1, n)) => t # 0 /\ n <= t
<1> DEFINE L == Len(p)
           own == {n \in 1..L : UiData!HasOwn(v, SubSeq(p, 1, n))}
           t == UiData!Taken(v, p)
<1>1. t = IF own = {} THEN 0 ELSE CHOOSE n \in own : \A m \in own : n >= m
  BY DEF UiData!Taken
<1>2. own \subseteq 1..L /\ L \in Nat
  OBVIOUS
<1>3. \A n \in 1..L : n \in own <=> UiData!HasOwn(v, SubSeq(p, 1, n))
  OBVIOUS
<1> HIDE DEF own, L, t
<1>4. own # {} => \E n \in own : \A m \in own : n >= m
  <2>1. SUFFICES ASSUME own # {} PROVE \E n \in own : \A m \in own : n >= m
    OBVIOUS
  <2>2. IsFiniteSet(own) /\ own \subseteq Int
    <3>1. IsFiniteSet(1..L)
      BY <1>2, FS_Interval, SMT
    <3>2. IsFiniteSet(own)
      BY <1>2, <3>1, FS_Subset
    <3>3. own \subseteq Int
      BY <1>2
    <3>4. QED
      BY <3>2, <3>3
  <2>3. PICK n \in own : \A m \in own : m <= n
    BY <2>1, <2>2, LargestNumber
  <2>4. QED
    BY <1>2, <2>2, <2>3
<1>5. CASE own = {}
  BY <1>1, <1>2, <1>3, <1>5 DEF L, t
<1>6. CASE own # {}
  <2>1. t \in own /\ \A m \in own : t >= m
    BY <1>1, <1>4, <1>6
  <2>2. t \in 1..L /\ t # 0
    BY <1>2, <2>1
  <2>3. \A n \in 1..L : n \in own => n <= t
    BY <2>1, <2>2
  <2>4. QED
    BY <1>2, <1>3, <2>1, <2>2, <2>3 DEF L, t
<1>7. QED
  BY <1>5, <1>6

ValuesAt == [value : JsonValues \cup {UiData!Undefined}, rest : Seq(Segments)]

LEMMA ValuesUndefined == UiData!Undefined \notin JsonValues /\ ~UiData!IsRecord(UiData!Undefined)
BY DocumentsAssumption DEF UiData!Undefined, UiData!IsRecord

LEMMA ValuesField ==
    ASSUME NEW v \in JsonValues \cup {UiData!Undefined}, NEW k
    PROVE  /\ UiData!Field(v, k) \in JsonValues \cup {UiData!Undefined}
           /\ UiData!Field(v, k) # UiData!Undefined <=> UiData!HasOwn(v, k)
           /\ UiData!HasOwn(v, k) => UiData!Field(v, k) = v.fields[k]
<1>1. CASE UiData!HasOwn(v, k)
  <2>1. v.kind = "object" /\ k \in DOMAIN v.fields /\ v \in JsonValues
    BY <1>1, ValuesUndefined DEF UiData!HasOwn, UiData!IsRecord
  <2>2. v.fields[k] \in JsonValues
    BY <2>1, DocumentsAssumption
  <2>3. UiData!Field(v, k) = v.fields[k]
    BY <1>1 DEF UiData!Field
  <2>4. QED
    BY <1>1, <2>2, <2>3, ValuesUndefined
<1>2. CASE ~UiData!HasOwn(v, k)
  BY <1>2 DEF UiData!Field
<1>3. QED
  BY <1>1, <1>2

\* One round, from a value with segments that are left.
LEMMA ValuesWalk ==
    ASSUME NEW at \in ValuesAt
    PROVE  /\ UiData!Walk(at) \in ValuesAt
           /\ at.rest = <<>> => UiData!Walk(at) = at
           /\ at.rest # <<>> =>
                LET t == UiData!Taken(at.value, at.rest)
                IN  /\ t = 0 => UiData!Walk(at).value = UiData!Undefined
                    /\ t # 0 => /\ UiData!HasOwn(at.value, SubSeq(at.rest, 1, t))
                                /\ UiData!Walk(at) = [value |-> UiData!Field(at.value, SubSeq(at.rest, 1, t)),
                                                      rest |-> Rest(at.rest, t)]
<1> DEFINE v == at.value
           r == at.rest
           t == UiData!Taken(v, r)
           none == [value |-> UiData!Undefined, rest |-> <<>>]
           on == [value |-> UiData!Field(v, SubSeq(r, 1, t)), rest |-> Rest(r, t)]
<1>1. v \in JsonValues \cup {UiData!Undefined} /\ r \in Seq(Segments) /\ Len(r) \in Nat
  BY DEF ValuesAt
<1>2. r = <<>> => UiData!Walk(at) = at
  BY DEF UiData!Walk
<1>3. r # <<>> /\ t = 0 => UiData!Walk(at) = none
  BY DEF UiData!Walk
<1>4. t \in 0..Len(r) /\ (t # 0 => UiData!HasOwn(v, SubSeq(r, 1, t)))
  BY <1>1, ValuesTaken
<1>5. UiData!HasOwn(v, SubSeq(r, 1, t)) => UiData!Field(v, SubSeq(r, 1, t)) = v.fields[SubSeq(r, 1, t)]
  BY <1>1, ValuesField
<1>6. r # <<>> /\ t # 0 => UiData!Walk(at) = on
  BY <1>4, <1>5 DEF UiData!Walk, Rest
<1>7. UiData!Field(v, SubSeq(r, 1, t)) \in JsonValues \cup {UiData!Undefined}
  BY <1>1, ValuesField
<1>8. Rest(r, t) \in Seq(Segments)
  BY <1>1, <1>4, ValuesRest
<1>9. none \in ValuesAt /\ on \in ValuesAt /\ none.value = UiData!Undefined
  <2> HIDE DEF v, r, t
  <2>1. <<>> \in Seq(Segments)
    OBVIOUS
  <2>2. QED
    BY <1>7, <1>8, <2>1 DEF ValuesAt
<1> HIDE DEF none, on, t
<1>10. UiData!Walk(at) \in ValuesAt
  BY <1>2, <1>3, <1>6, <1>9
<1>11. QED
  BY <1>2, <1>3, <1>4, <1>6, <1>9, <1>10 DEF on, t

\* The rounds of the loop.
ValuesRounds(v, p, at) ==
    /\ at \in [0..Len(p) -> ValuesAt]
    /\ at[0] = [value |-> v, rest |-> p]
    /\ \A n \in 1..Len(p) : at[n] = UiData!Walk(at[n - 1])

LEMMA ValuesPath ==
    ASSUME NEW v \in JsonValues, NEW p \in Seq(Segments) \ {<<>>}
    PROVE  \E at : ValuesRounds(v, p, at) /\ UiData!GetByPath(v, p) = at[Len(p)].value
<1> DEFINE L == Len(p)
           first == [value |-> v, rest |-> p]
           Is(f) == f = [n \in 0..L |-> IF n = 0 THEN first ELSE UiData!Walk(f[n - 1])]
           at == CHOOSE f : Is(f)
           next == [n \in 1..L |-> [t \in ValuesAt |-> UiData!Walk(t)]]
<1>1. L \in Nat
  OBVIOUS
<1>2. UiData!GetByPath(v, p) = at[L].value
  BY DEF UiData!GetByPath
<1>3. first \in ValuesAt
  BY DEF ValuesAt
<1> HIDE DEF L, first
<1>4. PICK f : Follows(f, L, ValuesAt, first, next)
  <2>1. next \in StepFunctions(L, ValuesAt)
    BY ValuesWalk DEF StepFunctions
  <2> HIDE DEF next
  <2>2. QED
    BY <1>1, <1>3, <2>1, RecursiveFunction
<1>5. ASSUME NEW n \in 1..L PROVE f[n] = UiData!Walk(f[n - 1])
  <2>1. n - 1 \in 0..L
    BY <1>1
  <2>2. f[n - 1] \in ValuesAt
    BY <1>4, <2>1 DEF Follows
  <2>3. next[n][f[n - 1]] = UiData!Walk(f[n - 1])
    BY <2>2
  <2>4. QED
    BY <1>4, <2>3 DEF Follows
<1>6. f \in [0..L -> ValuesAt] /\ f[0] = first
  BY <1>4 DEF Follows
<1> HIDE DEF next
<1>7. Is(f)
  BY <1>1, <1>5, <1>6
<1>8. Is(at)
  BY <1>7
<1> HIDE DEF at
<1> DEFINE P == {n \in 0..L : at[n] \in ValuesAt}
<1>9. 0 \in P
  BY <1>1, <1>3, <1>8
<1>10. ASSUME NEW n \in 0..L, n < L, n \in P PROVE n + 1 \in P
  <2>1. n + 1 \in 1..L /\ n + 1 \in 0..L /\ n + 1 # 0 /\ n + 1 - 1 = n
    BY <1>1, <1>10
  <2>2. at[n + 1] = UiData!Walk(at[n])
    BY <1>8, <2>1
  <2>3. QED
    BY <1>10, <2>1, <2>2, ValuesWalk
<1> HIDE DEF P
<1>11. 0..L \subseteq P
  BY <1>1, <1>9, <1>10, CountUp
<1>12. at \in [0..L -> ValuesAt]
  BY <1>8, <1>11 DEF P
<1>13. at[0] = first /\ \A n \in 1..L : at[n] = UiData!Walk(at[n - 1])
  BY <1>1, <1>8
<1>14. QED
  BY <1>2, <1>12, <1>13 DEF ValuesRounds, L, first

\* What is reached in one more segment.
ValuesStep(p, n, r) ==
    r \cup {<<n, w>> : w \in {UiData!Field(x[2], SubSeq(p, x[1] + 1, n)) : x \in r} \ {UiData!Undefined}}

\* What some reading leads to begins with the value itself, and goes on with any key.
LEMMA ValuesReached ==
    ASSUME NEW v \in JsonValues, NEW p \in Seq(Segments)
    PROVE  LET R == UiData!Reached(v, p)
           IN  /\ R \subseteq (0..Len(p)) \X JsonValues
               /\ <<0, v>> \in R
               /\ \A x \in R, n \in 1..Len(p) :
                     x[1] < n /\ UiData!HasOwn(x[2], SubSeq(p, x[1] + 1, n))
                        => <<n, UiData!Field(x[2], SubSeq(p, x[1] + 1, n))>> \in R
               /\ \A y \in R : y = <<0, v>> \/
                     \E x \in R : /\ x[1] < y[1]
                                  /\ UiData!HasOwn(x[2], SubSeq(p, x[1] + 1, y[1]))
                                  /\ y[2] = UiData!Field(x[2], SubSeq(p, x[1] + 1, y[1]))
<1> DEFINE L == Len(p)
           start == {<<0, v>>}
           Is(f) == f = [n \in 0..L |-> IF n = 0 THEN start ELSE ValuesStep(p, n, f[n - 1])]
           r == CHOOSE f : Is(f)
           T == SUBSET ((0..L) \X JsonValues)
           next == [n \in 1..L |-> [t \in T |-> ValuesStep(p, n, t)]]
<1>1. L \in Nat
  OBVIOUS
<1>2. UiData!Reached(v, p) = r[L]
  BY DEF UiData!Reached, ValuesStep
<1>3. start \in T
  BY <1>1
<1>4. ASSUME NEW n \in 1..L, NEW t \in T PROVE ValuesStep(p, n, t) \in T
  <2>1. ASSUME NEW x \in t, UiData!Field(x[2], SubSeq(p, x[1] + 1, n)) # UiData!Undefined
        PROVE  UiData!Field(x[2], SubSeq(p, x[1] + 1, n)) \in JsonValues
    <3>1. x[2] \in JsonValues
      BY <1>4
    <3>2. QED
      BY <2>1, <3>1, ValuesField
  <2>2. n \in 0..L
    BY <1>1
  <2>3. QED
    BY <1>4, <2>1, <2>2 DEF ValuesStep
<1> HIDE DEF L, T, start
<1>5. PICK f : Follows(f, L, T, start, next)
  <2>1. next \in StepFunctions(L, T)
    BY <1>4 DEF StepFunctions
  <2> HIDE DEF next
  <2>2. QED
    BY <1>1, <1>3, <2>1, RecursiveFunction
<1>6. ASSUME NEW n \in 1..L PROVE f[n] = ValuesStep(p, n, f[n - 1])
  <2>1. n - 1 \in 0..L
    BY <1>1
  <2>2. f[n - 1] \in T
    BY <1>5, <2>1 DEF Follows
  <2>3. next[n][f[n - 1]] = ValuesStep(p, n, f[n - 1])
    BY <2>2
  <2>4. QED
    BY <1>5, <2>3 DEF Follows
<1>7. f \in [0..L -> T] /\ f[0] = start
  BY <1>5 DEF Follows
<1> HIDE DEF next
<1>8. Is(f)
  BY <1>1, <1>6, <1>7
<1>9. Is(r)
  BY <1>8
<1> HIDE DEF r
<1> DEFINE New(y, m) == \E x \in r[m] : /\ x[1] < y[1]
                                       /\ UiData!HasOwn(x[2], SubSeq(p, x[1] + 1, y[1]))
                                       /\ y[2] = UiData!Field(x[2], SubSeq(p, x[1] + 1, y[1]))
           P == {n \in 0..L : /\ r[n] \in T /\ <<0, v>> \in r[n]
                              /\ \A m \in 0..n : r[m] \subseteq r[n]
                              /\ \A y \in r[n] : y[1] <= n /\ y \in r[y[1]]
                              /\ \A y \in r[n] : y = <<0, v>> \/ New(y, n)}
<1>10. 0 \in P
  <2>1. r[0] = start /\ 0 \in 0..L
    BY <1>1, <1>9
  <2>2. start = {<<0, v>>}
    BY DEF start
  <2>3. r[0] \in T /\ <<0, v>> \in r[0] /\ \A y \in r[0] : y = <<0, v>>
    BY <1>3, <2>1, <2>2
  <2>4. \A y \in r[0] : y[1] <= 0 /\ y \in r[y[1]]
    BY <2>3
  <2>5. \A m \in 0..0 : r[m] \subseteq r[0]
    BY <1>1
  <2> HIDE DEF New
  <2>6. QED
    BY <2>1, <2>3, <2>4, <2>5
<1>11. ASSUME NEW n \in 0..L, n < L, n \in P PROVE n + 1 \in P
  <2>1. n + 1 \in 1..L /\ n + 1 \in 0..L /\ n + 1 # 0 /\ n + 1 - 1 = n /\ n \in Nat
    BY <1>1, <1>11
  <2>2. r[n + 1] = ValuesStep(p, n + 1, r[n])
    BY <1>9, <2>1
  <2>3. /\ r[n] \in T /\ <<0, v>> \in r[n] /\ \A m \in 0..n : r[m] \subseteq r[n]
        /\ \A y \in r[n] : y[1] <= n /\ y \in r[y[1]]
        /\ \A y \in r[n] : y = <<0, v>> \/ New(y, n)
    BY <1>11
  <2>4. r[n + 1] \in T
    BY <1>4, <2>1, <2>2, <2>3
  <2>5. r[n] \subseteq r[n + 1]
    BY <2>2 DEF ValuesStep
  <2>6. ASSUME NEW y \in r[n + 1], y \notin r[n] PROVE y[1] = n + 1 /\ New(y, n)
    <3>1. PICK x \in r[n] : /\ UiData!Field(x[2], SubSeq(p, x[1] + 1, n + 1)) # UiData!Undefined
                            /\ y = <<n + 1, UiData!Field(x[2], SubSeq(p, x[1] + 1, n + 1))>>
      BY <2>2, <2>6 DEF ValuesStep
    <3>2. x[2] \in JsonValues /\ x[1] \in 0..L /\ x[1] <= n
      BY <2>3 DEF T
    <3>3. y[1] = n + 1 /\ y[2] = UiData!Field(x[2], SubSeq(p, x[1] + 1, n + 1))
      BY <3>1
    <3>4. UiData!HasOwn(x[2], SubSeq(p, x[1] + 1, n + 1))
      BY <3>1, <3>2, ValuesField
    <3>5. x[1] < y[1]
      BY <1>1, <2>1, <3>2, <3>3
    <3>6. QED
      BY <3>3, <3>4, <3>5
  <2>7. ASSUME NEW m \in 0..(n + 1) PROVE r[m] \subseteq r[n + 1]
    <3>1. m = n + 1 \/ m \in 0..n
      BY <2>1
    <3>2. QED
      BY <2>3, <2>5, <3>1
  <2>8. ASSUME NEW y \in r[n + 1] PROVE y[1] <= n + 1 /\ y \in r[y[1]]
    <3>1. CASE y \in r[n]
      <4>1. y[1] <= n /\ y \in r[y[1]] /\ y[1] \in 0..L
        BY <2>3, <3>1 DEF T
      <4>2. QED
        BY <1>1, <2>1, <4>1
    <3>2. CASE y \notin r[n]
      BY <2>1, <2>6, <3>2
    <3>3. QED
      BY <3>1, <3>2
  <2>9. ASSUME NEW y \in r[n + 1], y # <<0, v>> PROVE New(y, n + 1)
    <3>1. New(y, n)
      BY <2>3, <2>6, <2>9
    <3>2. QED
      BY <2>5, <3>1
  <2> HIDE DEF New
  <2>10. QED
    BY <2>1, <2>3, <2>4, <2>5, <2>7, <2>8, <2>9
<1> HIDE DEF P
<1>12. 0..L \subseteq P
  BY <1>1, <1>10, <1>11, CountUp
<1>13. \A n \in 0..L : /\ r[n] \in T /\ <<0, v>> \in r[n]
                       /\ \A m \in 0..n : r[m] \subseteq r[n]
                       /\ \A y \in r[n] : y[1] <= n /\ y \in r[y[1]]
                       /\ \A y \in r[n] : y = <<0, v>> \/ New(y, n)
  BY <1>12 DEF P
<1>14. L \in 0..L
  BY <1>1
<1>15. ASSUME NEW x \in r[L], NEW n \in 1..L, x[1] < n, UiData!HasOwn(x[2], SubSeq(p, x[1] + 1, n))
       PROVE  <<n, UiData!Field(x[2], SubSeq(p, x[1] + 1, n))>> \in r[L]
  <2>1. x[1] \in 0..L /\ x[2] \in JsonValues /\ x \in r[x[1]]
    BY <1>13, <1>14 DEF T
  <2>2. n - 1 \in 0..L /\ x[1] \in 0..(n - 1) /\ n \in 0..L /\ n # 0
    BY <1>1, <1>15, <2>1
  <2>3. x \in r[n - 1]
    BY <1>13, <2>1, <2>2
  <2>4. r[n] = ValuesStep(p, n, r[n - 1])
    BY <1>9, <2>2
  <2>5. UiData!Field(x[2], SubSeq(p, x[1] + 1, n)) # UiData!Undefined
    BY <1>15, <2>1, ValuesField
  <2>6. <<n, UiData!Field(x[2], SubSeq(p, x[1] + 1, n))>> \in r[n]
    BY <2>3, <2>4, <2>5 DEF ValuesStep
  <2>7. n \in 0..L /\ r[n] \subseteq r[L]
    BY <1>13, <1>14, <2>2
  <2>8. QED
    BY <2>6, <2>7
<1>16. r[L] \subseteq (0..L) \X JsonValues
  BY <1>13, <1>14 DEF T
<1>17. <<0, v>> \in r[L] /\ \A y \in r[L] : y = <<0, v>> \/ New(y, L)
  BY <1>13, <1>14
<1>18. QED
  BY <1>2, <1>15, <1>16, <1>17 DEF L

\* What a path finds was reached by a reading of it.
LEMMA ValuesFoundIsReached ==
    ASSUME NEW v \in JsonValues, NEW p \in Seq(Segments) \ {<<>>},
           UiData!GetByPath(v, p) # UiData!Undefined
    PROVE  UiData!GetByPath(v, p) \in UiData!Reachable(v, p)
<1> DEFINE L == Len(p)
           R == UiData!Reached(v, p)
<1>1. L \in Nat /\ p \in Seq(Segments)
  OBVIOUS
<1>2. PICK at : ValuesRounds(v, p, at) /\ UiData!GetByPath(v, p) = at[L].value
  BY ValuesPath
<1>3. /\ at \in [0..L -> ValuesAt] /\ at[0] = [value |-> v, rest |-> p]
      /\ \A n \in 1..L : at[n] = UiData!Walk(at[n - 1])
  BY <1>2 DEF ValuesRounds
<1>4. /\ R \subseteq (0..L) \X JsonValues /\ <<0, v>> \in R
      /\ \A x \in R, n \in 1..L :
            x[1] < n /\ UiData!HasOwn(x[2], SubSeq(p, x[1] + 1, n))
               => <<n, UiData!Field(x[2], SubSeq(p, x[1] + 1, n))>> \in R
  BY ValuesReached
<1>5. ASSUME NEW a \in 0..L
      PROVE  /\ Rest(p, a) \in Seq(Segments) /\ Len(Rest(p, a)) = L - a
             /\ \A t \in 1..(L - a) : /\ SubSeq(Rest(p, a), 1, t) = SubSeq(p, a + 1, a + t)
                                      /\ Rest(Rest(p, a), t) = Rest(p, a + t)
  <2>1. Rest(p, a) \in Seq(Segments) /\ Len(Rest(p, a)) = L - a
    BY <1>1, ValuesRest
  <2>2. ASSUME NEW t \in 1..(L - a)
        PROVE  /\ SubSeq(Rest(p, a), 1, t) = SubSeq(p, a + 1, a + t)
               /\ Rest(Rest(p, a), t) = Rest(p, a + t)
    BY <1>1, ValuesRestOfRest
  <2>3. QED
    BY <2>1, <2>2
<1>51. Rest(p, 0) = p
  BY <1>1, ValuesRestOfAll
<1> HIDE DEF L, R
<1> DEFINE Here(n) == \E x \in R : /\ n <= x[1] /\ at[n].value = x[2] /\ at[n].rest = Rest(p, x[1])
           P == {n \in 0..L : at[n].value = UiData!Undefined \/ Here(n)}
<1>6. 0 \in P
  <2>1. at[0].value = v /\ at[0].rest = Rest(p, 0) /\ <<0, v>>[1] = 0 /\ <<0, v>>[2] = v
    BY <1>3, <1>51
  <2>2. Here(0)
    BY <1>4, <2>1
  <2>3. QED
    BY <1>1, <2>2
<1>7. ASSUME NEW n \in 0..L, n < L, n \in P PROVE n + 1 \in P
  <2>1. n + 1 \in 1..L /\ n + 1 \in 0..L /\ n + 1 - 1 = n /\ n \in Nat
    BY <1>1, <1>7
  <2>2. at[n + 1] = UiData!Walk(at[n]) /\ at[n] \in ValuesAt
    BY <1>3, <2>1
  <2> DEFINE t == UiData!Taken(at[n].value, at[n].rest)
  <2>3. /\ at[n].rest = <<>> => at[n + 1] = at[n]
        /\ at[n].rest # <<>> =>
             /\ t = 0 => at[n + 1].value = UiData!Undefined
             /\ t # 0 => /\ UiData!HasOwn(at[n].value, SubSeq(at[n].rest, 1, t))
                         /\ at[n + 1] = [value |-> UiData!Field(at[n].value, SubSeq(at[n].rest, 1, t)),
                                         rest |-> Rest(at[n].rest, t)]
    BY <2>2, ValuesWalk
  <2>4. t \in 0..Len(at[n].rest)
    <3>1. at[n].rest \in Seq(Segments)
      BY <2>2 DEF ValuesAt
    <3>2. Len(at[n].rest) \in Nat
      BY <3>1
    <3>3. QED
      BY <3>2, ValuesTaken
  <2> HIDE DEF t
  <2>5. CASE at[n].value = UiData!Undefined
    <3>1. ~UiData!HasOwn(at[n].value, SubSeq(at[n].rest, 1, t))
      BY <2>5, ValuesUndefined DEF UiData!HasOwn
    <3>2. at[n + 1].value = UiData!Undefined
      BY <2>3, <2>5, <3>1
    <3>3. QED
      BY <2>1, <3>2
  <2>6. CASE Here(n)
    <3>1. PICK x \in R : n <= x[1] /\ at[n].value = x[2] /\ at[n].rest = Rest(p, x[1])
      BY <2>6
    <3> DEFINE a == x[1]
               b == a + t
    <3>2. a \in 0..L /\ a \in Nat
      BY <1>1, <1>4, <3>1
    <3>3. Len(at[n].rest) = L - a /\ at[n].rest = Rest(p, a) /\ Rest(p, a) \in Seq(Segments)
      BY <1>5, <3>1, <3>2
    <3>4. CASE a = L
      <4>1. at[n].rest = <<>>
        BY <1>1, <3>3, <3>4
      <4>2. at[n + 1] = at[n] /\ n + 1 <= x[1]
        BY <1>1, <1>7, <2>1, <2>3, <3>4, <4>1
      <4>3. Here(n + 1)
        BY <3>1, <4>2
      <4>4. QED
        BY <2>1, <4>3
    <3>5. CASE a # L
      <4>1. at[n].rest # <<>>
        BY <1>1, <3>2, <3>3, <3>5
      <4>2. CASE t = 0
        BY <2>1, <2>3, <4>1, <4>2
      <4>3. CASE t # 0
        <5>1. t \in 1..(L - a) /\ b \in 1..L /\ a < b /\ n + 1 <= b
          BY <1>1, <2>1, <2>4, <3>1, <3>2, <3>3, <4>3
        <5>2. SubSeq(at[n].rest, 1, t) = SubSeq(p, a + 1, b) /\ Rest(at[n].rest, t) = Rest(p, b)
          BY <1>5, <3>2, <3>3, <5>1
        <5> DEFINE w == UiData!Field(x[2], SubSeq(p, a + 1, b))
        <5>3. UiData!HasOwn(x[2], SubSeq(p, a + 1, b)) /\ at[n + 1] = [value |-> w, rest |-> Rest(p, b)]
          BY <2>3, <3>1, <4>1, <4>3, <5>2
        <5>4. <<b, w>> \in R
          BY <1>4, <5>1, <5>3
        <5> HIDE DEF w, b
        <5>5. Here(n + 1)
          BY <5>1, <5>3, <5>4
        <5>6. QED
          BY <2>1, <5>5
      <4>4. QED
        BY <4>2, <4>3
    <3>6. QED
      BY <3>4, <3>5
  <2>7. QED
    BY <1>7, <2>5, <2>6
<1> HIDE DEF P
<1>8. L \in P
  <2>1. 0..L \subseteq P
    BY <1>1, <1>6, <1>7, CountUp
  <2>2. QED
    BY <1>1, <2>1
<1>9. at[L].value # UiData!Undefined
  BY <1>2
<1>10. PICK x \in R : L <= x[1] /\ at[L].value = x[2]
  BY <1>8, <1>9 DEF P
<1>11. x[1] = L
  BY <1>1, <1>4, <1>10
<1>12. QED
  BY <1>2, <1>10, <1>11 DEF UiData!Reachable, R, L

\* Once nothing is left of the path, nothing changes.
LEMMA ValuesStays ==
    ASSUME NEW v \in JsonValues, NEW p \in Seq(Segments), NEW at, ValuesRounds(v, p, at),
           NEW n \in 0..Len(p), at[n].rest = <<>>
    PROVE  at[Len(p)] = at[n]
<1> DEFINE L == Len(p)
           Q == {m \in 0..(L - n) : at[n + m] = at[n]}
<1>1. L \in Nat
  OBVIOUS
<1>2. at \in [0..L -> ValuesAt] /\ \A m \in 1..L : at[m] = UiData!Walk(at[m - 1])
  BY DEF ValuesRounds
<1>3. 0 \in Q
  BY <1>1
<1>4. ASSUME NEW m \in 0..(L - n), m < L - n, m \in Q PROVE m + 1 \in Q
  <2>1. n + m + 1 \in 1..L /\ n + m + 1 - 1 = n + m /\ n + m \in 0..L /\ n + (m + 1) = n + m + 1
    BY <1>1, <1>4
  <2>2. at[n + m + 1] = UiData!Walk(at[n + m]) /\ at[n + m] \in ValuesAt
    BY <1>2, <2>1
  <2>3. at[n + m].rest = <<>>
    BY <1>4
  <2>4. at[n + m + 1] = at[n + m]
    BY <2>2, <2>3, ValuesWalk
  <2>5. m + 1 \in 0..(L - n)
    BY <1>1, <1>4
  <2>6. QED
    BY <1>4, <2>1, <2>4, <2>5
<1> HIDE DEF Q
<1>5. L - n \in Nat
  BY <1>1
<1>6. 0..(L - n) \subseteq Q
  BY <1>3, <1>4, <1>5, CountUp
<1>7. L - n \in Q /\ n + (L - n) = L
  BY <1>1, <1>5, <1>6
<1>8. QED
  BY <1>7 DEF Q

\* If no key on the way begins like another, all that is reached is found.
LEMMA ValuesReachedIsFound ==
    ASSUME NEW v \in JsonValues, NEW p \in Seq(Segments) \ {<<>>}, ~UiData!Ambiguous(v, p)
    PROVE  UiData!Reachable(v, p) \subseteq {UiData!GetByPath(v, p)}
<1> DEFINE L == Len(p)
           R == UiData!Reached(v, p)
<1>1. L \in Nat /\ L > 0 /\ p \in Seq(Segments)
  OBVIOUS
<1>2. PICK at : ValuesRounds(v, p, at) /\ UiData!GetByPath(v, p) = at[L].value
  BY ValuesPath
<1>3. /\ at \in [0..L -> ValuesAt] /\ at[0] = [value |-> v, rest |-> p]
      /\ \A n \in 1..L : at[n] = UiData!Walk(at[n - 1])
  BY <1>2 DEF ValuesRounds
<1>4. /\ R \subseteq (0..L) \X JsonValues
      /\ \A y \in R : y = <<0, v>> \/
           \E x \in R : /\ x[1] < y[1]
                        /\ UiData!HasOwn(x[2], SubSeq(p, x[1] + 1, y[1]))
                        /\ y[2] = UiData!Field(x[2], SubSeq(p, x[1] + 1, y[1]))
  BY ValuesReached
<1>5. Rest(p, 0) = p
  BY <1>1, ValuesRestOfAll
<1>6. ASSUME NEW a \in 0..L
      PROVE  /\ Rest(p, a) \in Seq(Segments) /\ Len(Rest(p, a)) = L - a
             /\ \A t \in 1..(L - a) : /\ SubSeq(Rest(p, a), 1, t) = SubSeq(p, a + 1, a + t)
                                      /\ Rest(Rest(p, a), t) = Rest(p, a + t)
  <2>1. Rest(p, a) \in Seq(Segments) /\ Len(Rest(p, a)) = L - a
    BY <1>1, ValuesRest
  <2>2. ASSUME NEW t \in 1..(L - a)
        PROVE  /\ SubSeq(Rest(p, a), 1, t) = SubSeq(p, a + 1, a + t)
               /\ Rest(Rest(p, a), t) = Rest(p, a + t)
    BY <1>1, ValuesRestOfRest
  <2>3. QED
    BY <2>1, <2>2
<1>7. \A x \in R : UiData!IsRecord(x[2]) => \A k, l \in DOMAIN x[2].fields : ~UiData!BeginsLike(k, l)
  BY DEF UiData!Ambiguous
<1> DEFINE At(y) == \E n \in 0..y[1] : at[n].value = y[2] /\ at[n].rest = Rest(p, y[1])
           P == {m \in 0..L : \A y \in R : y[1] <= m => At(y)}
<1>8. ASSUME NEW y \in R, \A x \in R : x[1] < y[1] => At(x) PROVE At(y)
  <2>1. CASE y = <<0, v>>
    <3>1. y[1] = 0 /\ y[2] = v /\ 0 \in 0..0
      BY <2>1
    <3>2. at[0].value = v /\ at[0].rest = Rest(p, 0)
      BY <1>3, <1>5
    <3>3. QED
      BY <3>1, <3>2
  <2>2. CASE y # <<0, v>>
    <3>1. PICK x \in R : /\ x[1] < y[1]
                         /\ UiData!HasOwn(x[2], SubSeq(p, x[1] + 1, y[1]))
                         /\ y[2] = UiData!Field(x[2], SubSeq(p, x[1] + 1, y[1]))
      BY <1>4, <2>2
    <3> DEFINE a == x[1]
               b == y[1]
               u == x[2]
    <3>2. a \in 0..L /\ b \in 0..L /\ a < b /\ u \in JsonValues
      BY <1>4, <3>1
    <3>3. PICK n \in 0..a : at[n].value = u /\ at[n].rest = Rest(p, a)
      BY <1>8, <3>1
    <3>4. UiData!IsRecord(u) => \A k, l \in DOMAIN u.fields : ~UiData!BeginsLike(k, l)
      BY <1>7
    <3>5. UiData!HasOwn(u, SubSeq(p, a + 1, b)) /\ y[2] = UiData!Field(u, SubSeq(p, a + 1, b))
      BY <3>1
    <3> HIDE DEF a, b, u
    <3> DEFINE r == Rest(p, a)
               c == b - a
               t == UiData!Taken(u, r)
    <3>6. /\ r \in Seq(Segments) /\ Len(r) = L - a /\ c \in 1..(L - a)
          /\ \A s \in 1..(L - a) : /\ SubSeq(r, 1, s) = SubSeq(p, a + 1, a + s)
                                   /\ Rest(r, s) = Rest(p, a + s)
      <4>1. c \in 1..(L - a)
        BY <1>1, <3>2
      <4>2. QED
        BY <1>6, <3>2, <4>1
    <3>7. a + c = b
      BY <3>2
    <3>8. SubSeq(r, 1, c) = SubSeq(p, a + 1, b) /\ Rest(r, c) = Rest(p, b)
      BY <3>6, <3>7
    <3>9. /\ t \in 0..(L - a)
          /\ t # 0 => UiData!HasOwn(u, SubSeq(r, 1, t))
          /\ t # 0 /\ c <= t
      <4>1. Len(r) \in Nat
        BY <3>6
      <4>2. UiData!HasOwn(u, SubSeq(r, 1, c))
        BY <3>5, <3>8
      <4>3. QED
        BY <3>6, <4>1, <4>2, ValuesTaken
    <3> HIDE DEF r, t, c
    <3>10. t = c
      <4>1. SUFFICES ASSUME t # c PROVE FALSE
        OBVIOUS
      <4>2. c \in 1..Len(r) /\ t \in 1..Len(r) /\ c < t /\ Len(r) \in Nat
        BY <3>2, <3>6, <3>9, <4>1, <1>1
      <4>3. SubSeq(r, 1, c) \in DOMAIN u.fields /\ SubSeq(r, 1, t) \in DOMAIN u.fields /\ UiData!IsRecord(u)
        BY <3>5, <3>8, <3>9 DEF UiData!HasOwn
      <4>4. Len(SubSeq(r, 1, c)) = c /\ Len(SubSeq(r, 1, t)) = t
        BY <3>6, <4>2
      <4>5. SubSeq(SubSeq(r, 1, t), 1, c) = SubSeq(r, 1, c)
        <5>1. 1 \in 1..Len(r) /\ 1 \in 1..(t - 1 + 1) /\ c \in 1..(t - 1 + 1)
          BY <4>2
        <5>2. SubSeq(SubSeq(r, 1, t), 1, c) = SubSeq(r, 1 + 1 - 1, 1 + c - 1)
          BY <3>6, <4>2, <5>1, SubSeqOfSubSeq
        <5>3. 1 + 1 - 1 = 1 /\ 1 + c - 1 = c
          BY <4>2
        <5>4. QED
          BY <5>2, <5>3
      <4>6. UiData!BeginsLike(SubSeq(r, 1, c), SubSeq(r, 1, t))
        BY <4>2, <4>4, <4>5 DEF UiData!BeginsLike
      <4>7. QED
        BY <3>4, <4>3, <4>6
    <3>11. n \in 0..L /\ n + 1 \in 1..L /\ n + 1 \in 0..b /\ n + 1 - 1 = n
      BY <1>1, <3>2, <3>3 DEF a
    <3>12. at[n + 1] = UiData!Walk(at[n]) /\ at[n] \in ValuesAt
      BY <1>3, <3>11
    <3>13. at[n].value = u /\ at[n].rest = r /\ r # <<>>
      <4>1. Len(r) # 0
        BY <1>1, <3>2, <3>6
      <4>2. QED
        BY <3>3, <4>1 DEF r
    <3>14. at[n + 1] = [value |-> UiData!Field(u, SubSeq(r, 1, c)), rest |-> Rest(r, c)]
      BY <3>9, <3>10, <3>12, <3>13, ValuesWalk DEF t
    <3>15. at[n + 1].value = y[2] /\ at[n + 1].rest = Rest(p, b)
      <4>1. at[n + 1].value = UiData!Field(u, SubSeq(r, 1, c)) /\ at[n + 1].rest = Rest(r, c)
        BY <3>14
      <4>2. UiData!Field(u, SubSeq(r, 1, c)) = y[2] /\ Rest(r, c) = Rest(p, b)
        BY <3>5, <3>8
      <4>3. QED
        BY <4>1, <4>2
    <3>16. QED
      BY <3>11, <3>15 DEF b
  <2>3. QED
    BY <2>1, <2>2
<1>9. \A y \in R : y[1] \in 0..L
  BY <1>4
<1> HIDE DEF At, R, L
<1>10. 0 \in P
  <2>1. ASSUME NEW y \in R, y[1] <= 0 PROVE At(y)
    <3>1. \A x \in R : ~(x[1] < y[1])
      BY <1>1, <1>9, <2>1
    <3>2. QED
      BY <1>8, <3>1
  <2>2. QED
    BY <1>1, <2>1
<1>11. ASSUME NEW m \in 0..L, m < L, m \in P PROVE m + 1 \in P
  <2>1. ASSUME NEW y \in R, y[1] <= m + 1 PROVE At(y)
    <3>1. ASSUME NEW x \in R, x[1] < y[1] PROVE At(x)
      <4>1. x[1] <= m
        BY <1>1, <1>9, <2>1, <3>1
      <4>2. QED
        BY <1>11, <4>1
    <3>2. QED
      BY <1>8, <3>1
  <2>2. m + 1 \in 0..L
    BY <1>1, <1>11
  <2>3. QED
    BY <2>1, <2>2
<1>12. \A y \in R : At(y)
  <2> HIDE DEF P
  <2>1. 0..L \subseteq P
    BY <1>1, <1>10, <1>11, CountUp
  <2>2. L \in P
    BY <1>1, <2>1
  <2>3. QED
    BY <1>1, <1>9, <2>2 DEF P
<1>13. SUFFICES ASSUME NEW y \in R, y[1] = L PROVE y[2] = at[L].value
  BY <1>2 DEF UiData!Reachable, R, L
<1>14. PICK n \in 0..L : at[n].value = y[2] /\ at[n].rest = Rest(p, L)
  BY <1>12, <1>13 DEF At
<1>15. Rest(p, L) = <<>>
  <2>1. Rest(p, L) \in Seq(Segments) /\ Len(Rest(p, L)) = L - L
    BY <1>1, <1>6
  <2>2. QED
    BY <1>1, <2>1
<1>16. at[L] = at[n]
  BY <1>2, <1>14, <1>15, ValuesStays DEF L
<1>17. QED
  BY <1>14, <1>16

\* A value under the whole path as its name is what the path finds.
LEMMA ValuesOwnIsFound ==
    ASSUME NEW v \in JsonValues, NEW p \in Seq(Segments) \ {<<>>}, UiData!HasOwn(v, p)
    PROVE  UiData!GetByPath(v, p) = v.fields[p]
<1> DEFINE L == Len(p)
           t == UiData!Taken(v, p)
<1>1. L \in Nat /\ L > 0 /\ p \in Seq(Segments)
  OBVIOUS
<1>2. PICK at : ValuesRounds(v, p, at) /\ UiData!GetByPath(v, p) = at[L].value
  BY ValuesPath
<1>3. SubSeq(p, 1, L) = p
  BY <1>1, SubSeqFull
<1>4. t = L
  <2>1. t \in 0..L /\ (UiData!HasOwn(v, SubSeq(p, 1, L)) => t # 0 /\ L <= t)
    BY <1>1, ValuesTaken
  <2>2. UiData!HasOwn(v, SubSeq(p, 1, L))
    BY <1>3
  <2>3. t \in 0..L /\ L <= t
    BY <2>1, <2>2
  <2> HIDE DEF t, L
  <2>4. QED
    BY <1>1, <2>3
<1>5. at[0] \in ValuesAt /\ at[0].value = v /\ at[0].rest = p /\ at[1] = UiData!Walk(at[0]) /\ 1 \in 0..L
  BY <1>1, <1>2 DEF ValuesRounds
<1>6. UiData!Walk(at[0]) = [value |-> UiData!Field(v, SubSeq(p, 1, t)), rest |-> Rest(p, t)]
  BY <1>1, <1>4, <1>5, ValuesWalk
<1>7. at[1].value = UiData!Field(v, p) /\ at[1].rest = Rest(p, L)
  <2> HIDE DEF t, L
  <2>1. at[1].value = UiData!Field(v, SubSeq(p, 1, L)) /\ at[1].rest = Rest(p, L)
    BY <1>4, <1>5, <1>6
  <2>2. QED
    BY <1>3, <2>1
<1>8. Rest(p, L) = <<>>
  <2>1. L \in 0..L /\ L - L = 0
    BY <1>1
  <2>2. Rest(p, L) \in Seq(Segments) /\ Len(Rest(p, L)) = 0
    BY <1>1, <2>1, ValuesRest
  <2>3. QED
    BY <2>2
<1>9. at[L] = at[1]
  BY <1>1, <1>2, <1>5, <1>7, <1>8, ValuesStays
<1>10. UiData!Field(v, p) = v.fields[p]
  BY ValuesField
<1>11. QED
  BY <1>2, <1>7, <1>9, <1>10

\* What is there is found by the renderer, the table and a reference alike.
LEMMA ValuesLookups ==
    ASSUME NEW d \in JsonValues, NEW p \in Seq(Segments) \ {<<>>}, ~UiData!Nullish(UiData!GetByPath(d, p))
    PROVE  /\ UiData!Lookup(d, p) = UiData!GetByPath(d, p)
           /\ UiData!ResolveFromDataKey(d, p) = UiData!GetByPath(d, p)
           /\ UiData!FullReference(d, p) = UiData!GetByPath(d, p)
           /\ UiData!InlineReference(d, p) = UiData!GetByPath(d, p)
<1> DEFINE found == UiData!GetByPath(d, p)
<1>1. found # UiData!Undefined
  BY DEF UiData!Nullish
<1>2. UiData!HasOwn(d, p) => found = d.fields[p]
  BY ValuesOwnIsFound
<1> HIDE DEF found
<1>3. UiData!Lookup(d, p) = found
  BY DEF UiData!Lookup, UiData!Else, found
<1>4. UiData!ResolveFromDataKey(d, p) = found
  BY <1>1, <1>2 DEF UiData!ResolveFromDataKey, found
<1>5. UiData!FullReference(d, p) = found
  BY <1>1, <1>3 DEF UiData!FullReference
<1>6. UiData!InlineReference(d, p) = found
  BY <1>3 DEF UiData!InlineReference, found
<1>7. QED
  BY <1>3, <1>4, <1>5, <1>6 DEF found

\* A lookup that finds an array or an object took it from the path.
LEMMA ValuesLookupFinds ==
    ASSUME NEW d \in JsonValues, NEW p \in Seq(Segments) \ {<<>>}, ~UiData!Nullish(UiData!Lookup(d, p))
    PROVE  ~UiData!Nullish(UiData!GetByPath(d, p))
<1> DEFINE found == UiData!GetByPath(d, p)
<1>1. SUFFICES ASSUME UiData!Nullish(found) PROVE FALSE
  OBVIOUS
<1>2. UiData!Lookup(d, p) = UiData!Field(d, p)
  BY <1>1 DEF UiData!Lookup, UiData!Else
<1>3. UiData!HasOwn(d, p) => UiData!Field(d, p) = found
  BY ValuesOwnIsFound, ValuesField
<1>4. ~UiData!HasOwn(d, p) => UiData!Nullish(UiData!Field(d, p))
  BY DEF UiData!Field, UiData!Nullish
<1>5. QED
  BY <1>1, <1>2, <1>3, <1>4

\* An array, or the one array of an object, is what is extracted.
LEMMA ValuesExtracted ==
    ASSUME NEW v, NEW w, UiData!IsArray(w),
           (v = w /\ UiData!IsArray(v)) \/ (UiData!IsRecord(v) /\ UiData!Arrays(v) = {w})
    PROVE  UiData!ExtractArray(v) = {w} /\ (UiData!IsRecord(v) => UiData!SomeArray(v) = {w})
<1> DEFINE listed == {i \in DOMAIN ListKeys : UiData!IsArray(UiData!Field(v, ListKeys[i]))}
           least == CHOOSE i \in listed : \A j \in listed : i <= j
<1>1. CASE v = w /\ UiData!IsArray(v)
  BY <1>1 DEF UiData!ExtractArray, UiData!IsArray, UiData!IsRecord
<1>2. CASE UiData!IsRecord(v) /\ UiData!Arrays(v) = {w}
  <2>1. UiData!SomeArray(v) = {w}
    BY <1>2 DEF UiData!SomeArray
  <2>2. ~UiData!IsArray(v)
    BY <1>2 DEF UiData!IsArray, UiData!IsRecord
  <2>3. CASE listed = {}
    <3>1. UiData!ExtractArray(v) = UiData!SomeArray(v)
      BY <1>2, <2>2, <2>3 DEF UiData!ExtractArray
    <3>2. QED
      BY <2>1, <3>1
  <2>4. CASE listed # {}
    <3>1. UiData!ExtractArray(v) = {v.fields[ListKeys[least]]}
      BY <1>2, <2>2, <2>4 DEF UiData!ExtractArray
    <3>2. listed \subseteq Nat
      BY DocumentsAssumption
    <3>3. \E i \in listed : \A j \in listed : i <= j
      <4> HIDE DEF listed
      <4>1. QED
        BY <2>4, <3>2, LeastNumber
    <3>4. least \in listed
      <4> HIDE DEF listed
      <4>1. QED
        BY <3>3
    <3>5. UiData!IsArray(UiData!Field(v, ListKeys[least]))
      BY <3>4
    <3> DEFINE key == ListKeys[least]
    <3> HIDE DEF least, listed, key
    <3>6. UiData!HasOwn(v, key) /\ UiData!Field(v, key) = v.fields[key]
      <4>1. ~UiData!IsArray(UiData!Undefined)
        BY DEF UiData!IsArray, UiData!Undefined
      <4>2. QED
        BY <3>5, <4>1 DEF UiData!Field, key
    <3>7. v.fields[key] \in UiData!Arrays(v)
      BY <3>5, <3>6 DEF UiData!Arrays, UiData!HasOwn, key
    <3>8. QED
      BY <1>2, <2>1, <3>1, <3>7 DEF key
  <2>5. QED
    BY <2>3, <2>4
<1>3. QED
  BY <1>1, <1>2

\* Where there is one list at the key, the adapter and the table both find it.
LEMMA ValuesRowsAgree ==
    ASSUME NEW d \in JsonValues, NEW p \in Seq(Segments) \ {<<>>}, NEW w, UiData!IsArray(w),
           \/ UiData!Lookup(d, p) = w
           \/ UiData!IsRecord(UiData!Lookup(d, p)) /\ UiData!Arrays(UiData!Lookup(d, p)) = {w}
    PROVE  UiData!TableRows(d, p) = {w} /\ \A name : UiData!Rows(d, p, name) = {w}
<1> DEFINE v == UiData!Lookup(d, p)
<1>1. (UiData!IsArray(v) /\ v = w) \/ (UiData!IsRecord(v) /\ UiData!Arrays(v) = {w})
  <2>1. v = w => UiData!IsArray(v)
    BY DEF UiData!IsArray
  <2> HIDE DEF v
  <2>2. v = w \/ (UiData!IsRecord(v) /\ UiData!Arrays(v) = {w})
    BY DEF v
  <2>3. QED
    BY <2>1, <2>2
<1>2. ~UiData!Nullish(v) /\ v # UiData!Undefined /\ w # UiData!Undefined
  BY <1>1 DEF UiData!Nullish, UiData!IsArray, UiData!IsRecord, UiData!Undefined, UiData!Null
<1>3. ~UiData!Nullish(UiData!GetByPath(d, p))
  BY <1>2, ValuesLookupFinds
<1>4. UiData!ResolveFromDataKey(d, p) = v
  BY <1>3, ValuesLookups
<1>5. UiData!AdaptedValue(d, p) = {v}
  BY <1>2 DEF UiData!AdaptedValue
<1> HIDE DEF v
<1>6. UiData!ExtractArray(v) = {w} /\ (UiData!IsRecord(v) => UiData!SomeArray(v) = {w})
  BY <1>1, ValuesExtracted
<1>7. UiData!TableRows(d, p) = {w}
  BY <1>2, <1>4, <1>6 DEF UiData!TableRows
<1> DEFINE adapted(x) == CASE UiData!IsArray(x) -> {x} [] UiData!IsRecord(x) -> UiData!SomeArray(x)
                           [] OTHER -> {UiData!Undefined}
<1>8. adapted(v) = {w}
  BY <1>1, <1>6 DEF UiData!IsArray, UiData!IsRecord
<1>9. UiData!AdaptedRows(d, p) = UNION {adapted(x) : x \in {v}}
  BY <1>5 DEF UiData!AdaptedRows
<1> HIDE DEF adapted
<1>10. UiData!AdaptedRows(d, p) = {w}
  BY <1>8, <1>9
<1>11. UNION {IF x = UiData!Undefined THEN UiData!TableRows(d, p) ELSE {x} : x \in UiData!AdaptedRows(d, p)} = {w}
  BY <1>2, <1>10
<1>12. ASSUME NEW name PROVE UiData!Rows(d, p, name) = {w}
  BY <1>7, <1>11 DEF UiData!Rows
<1>13. QED
  BY <1>7, <1>12

ValuesIInv ==
    /\ data \in Documents /\ path \in Paths
    /\ rows = UiData!Undefined \/ rows \in UiData!Rows(data, path, spelling)

LEMMA ValuesStart == UiData!Init => ValuesIInv
BY DEF UiData!Init, ValuesIInv

LEMMA ValuesSteps == ValuesIInv /\ [UiData!Next]_(UiData!vars) => ValuesIInv'
<1>1. SUFFICES ASSUME ValuesIInv, UiData!Next \/ UNCHANGED UiData!vars PROVE ValuesIInv'
  OBVIOUS
<1>2. CASE UiData!Next
  <2>1. UNCHANGED <<data, path, spelling>> /\ rows' \in UiData!Rows(data, path, spelling)
    BY <1>2 DEF UiData!Next, UiData!Render
  <2>2. UiData!Rows(data, path, spelling)' = UiData!Rows(data, path, spelling)
    BY <2>1
  <2>3. QED
    BY <1>1, <2>1, <2>2 DEF ValuesIInv
<1>3. CASE UNCHANGED UiData!vars
  <2>1. UNCHANGED <<data, path, spelling, rows>>
    BY <1>3 DEF UiData!vars
  <2>2. QED
    BY <1>1, <2>1 DEF ValuesIInv
<1>4. QED
  BY <1>1, <1>2, <1>3

LEMMA ValuesFound == ASSUME ValuesIInv PROVE UiData!ValuesAreFound
<1>1. data \in JsonValues /\ path \in Seq(Segments) \ {<<>>} /\ path \in Seq(Segments)
  BY DocumentsAssumption DEF ValuesIInv
<1>2. UiData!PathFindsItsValue
  <2> DEFINE found == UiData!GetByPath(data, path)
  <2>1. found # UiData!Undefined => found \in UiData!Reachable(data, path)
    BY <1>1, ValuesFoundIsReached
  <2>2. ~UiData!Ambiguous(data, path) => UiData!Reachable(data, path) \subseteq {found}
    BY <1>1, ValuesReachedIsFound
  <2>3. UiData!HasOwn(data, path) => found = data.fields[path]
    BY <1>1, ValuesOwnIsFound
  <2>4. QED
    BY <2>1, <2>2, <2>3 DEF UiData!PathFindsItsValue
<1>3. UiData!LookupsAgree
  <2>1. SUFFICES ASSUME ~UiData!Nullish(UiData!GetByPath(data, path))
                 PROVE  /\ UiData!ResolveFromDataKey(data, path) = UiData!Lookup(data, path)
                        /\ UiData!FullReference(data, path) = UiData!Lookup(data, path)
                        /\ UiData!InlineReference(data, path) = UiData!Lookup(data, path)
    BY DEF UiData!LookupsAgree, UiData!Nullish
  <2>2. QED
    BY <1>1, <2>1, ValuesLookups
<1>4. UiData!SpellingDoesNotMatter
  <2> DEFINE v == UiData!Lookup(data, path)
  <2>1. SUFFICES ASSUME rows # UiData!Undefined,
                        NEW w, UiData!IsArray(w), v = w \/ (UiData!IsRecord(v) /\ UiData!Arrays(v) = {w})
                 PROVE  UiData!Rows(data, path, "registered") = {rows} /\ UiData!TableRows(data, path) = {rows}
    <3>1. \A w : UiData!Arrays(v) = {w} => UiData!IsArray(w)
      BY DEF UiData!Arrays
    <3> DEFINE goal == UiData!Rows(data, path, "registered") = {rows} /\ UiData!TableRows(data, path) = {rows}
    <3>2. rows # UiData!Undefined /\ UiData!IsArray(v) => goal
      BY <2>1
    <3>3. ASSUME rows # UiData!Undefined, UiData!IsRecord(v), \E w \in UiData!Arrays(v) : UiData!Arrays(v) = {w}
          PROVE  goal
      <4>1. PICK w : UiData!Arrays(v) = {w}
        BY <3>3
      <4>2. UiData!IsArray(w)
        BY <3>1, <4>1
      <4> HIDE DEF v, goal
      <4>3. QED
        BY <2>1, <3>3, <4>1, <4>2 DEF goal, v
    <3>4. UiData!SpellingDoesNotMatter <=>
            (rows # UiData!Undefined
               /\ (UiData!IsArray(v) \/ (UiData!IsRecord(v) /\ \E w \in UiData!Arrays(v) : UiData!Arrays(v) = {w}))
             => goal)
      BY DEF UiData!SpellingDoesNotMatter
    <3> HIDE DEF v, goal
    <3>5. QED
      BY <3>2, <3>3, <3>4
  <2>2. UiData!TableRows(data, path) = {w} /\ \A name : UiData!Rows(data, path, name) = {w}
    BY <1>1, <2>1, ValuesRowsAgree
  <2>3. rows = w
    BY <2>1, <2>2 DEF ValuesIInv
  <2>4. QED
    BY <2>2, <2>3
<1>5. QED
  BY <1>2, <1>3, <1>4 DEF UiData!ValuesAreFound

-----------------------------------------------------------------------------
(* LiveData                                                                *)

\* Data: lists under different names, in some order.
IsData(d) ==
    /\ \E S : d \in Seq(S)
    /\ \A i, j \in DOMAIN d : d[i].key = d[j].key => i = j

LEMMA LiveIsSequence ==
    ASSUME NEW s, IsSequence(s) PROVE Len(s) \in Nat /\ DOMAIN s = 1..Len(s) /\ \E S : s \in Seq(S)
<1>1. s \in Seq({s[i] : i \in DOMAIN s})
  BY DEF IsSequence
<1>2. QED
  BY <1>1

LEMMA LiveLength == ASSUME NEW d, IsData(d) PROVE Len(d) \in Nat /\ DOMAIN d = 1..Len(d) /\ (d = <<>> <=> Len(d) = 0)
<1>1. PICK S : d \in Seq(S)
  BY DEF IsData
<1>2. QED
  BY <1>1

\* The list under a name is the one that was put there.
LEMMA LiveListAt ==
    ASSUME NEW d, IsData(d), NEW i \in DOMAIN d
    PROVE  Live!HasList(d, d[i].key) /\ Live!ListAt(d, d[i].key) = d[i].rows
<1> DEFINE key == d[i].key
           j == CHOOSE j \in DOMAIN d : d[j].key = key
<1>1. j \in DOMAIN d /\ d[j].key = key
  OBVIOUS
<1>2. j = i
  BY <1>1 DEF IsData
<1> HIDE DEF j
<1>3. Live!HasList(d, key)
  BY DEF Live!HasList
<1>4. Live!ListAt(d, key) = d[j].rows
  BY <1>3 DEF Live!ListAt, j
<1>5. QED
  BY <1>2, <1>3, <1>4

LEMMA LiveListIsOne ==
    ASSUME NEW d, IsData(d), NEW key, Live!HasList(d, key)
    PROVE  \E i \in DOMAIN d : d[i].key = key /\ Live!ListAt(d, key) = d[i].rows
<1>1. PICK i \in DOMAIN d : d[i].key = key
  BY DEF Live!HasList
<1>2. QED
  BY <1>1, LiveListAt

\* Where there is a list, one is found.
LEMMA LiveListIn ==
    ASSUME NEW d, IsData(d), d # <<>>, NEW S, NEW keys \in Seq(S)
    PROVE  \E i \in DOMAIN d : Live!ListIn(d, keys) = d[i].rows
<1> DEFINE listed == {n \in DOMAIN keys : Live!HasList(d, keys[n])}
           first == Live!First(listed)
<1>1. CASE listed = {}
  <2>1. Live!ListIn(d, keys) = Head(d).rows
    BY <1>1 DEF Live!ListIn
  <2>2. PICK T : d \in Seq(T)
    BY DEF IsData
  <2>3. Head(d) = d[1] /\ 1 \in DOMAIN d
    BY <2>2
  <2>4. QED
    BY <2>1, <2>3
<1>2. CASE listed # {}
  <2>1. Live!ListIn(d, keys) = Live!ListAt(d, keys[first])
    BY <1>2 DEF Live!ListIn
  <2>2. listed \subseteq Nat
    OBVIOUS
  <2>3. first \in listed
    <3> HIDE DEF listed
    <3>1. \E i \in listed : \A j \in listed : i <= j
      BY <1>2, <2>2, LeastNumber
    <3>2. QED
      BY <3>1 DEF Live!First
  <2>4. Live!HasList(d, keys[first])
    BY <2>3
  <2> HIDE DEF first
  <2>5. QED
    BY <2>1, <2>4, LiveListIsOne
<1>3. QED
  BY <1>1, <1>2

\* What is set is under its name, and nothing that was there moves.
LEMMA LiveSetNode ==
    ASSUME NEW d, IsData(d), NEW key, NEW new
    PROVE  LET e == Live!SetNode(d, key, new)
           IN  /\ IsData(e) /\ e # <<>> /\ Live!ListAt(e, key) = new
               /\ d # <<>> => e[1].key = d[1].key
               /\ \A i \in DOMAIN e : e[i].rows = new \/ (i \in DOMAIN d /\ e[i].rows = d[i].rows)
<1> DEFINE e == Live!SetNode(d, key, new)
           entry == Live!Entry(key, new)
           L == Len(d)
<1>1. PICK S : d \in Seq(S)
  BY DEF IsData
<1>2. L \in Nat /\ DOMAIN d = 1..L /\ (d = <<>> <=> L = 0)
  BY <1>1
<1>3. entry.key = key /\ entry.rows = new
  BY DEF Live!Entry
<1> HIDE DEF entry
<1>4. CASE Live!HasList(d, key)
  <2>1. e = [i \in DOMAIN d |-> IF d[i].key = key THEN entry ELSE d[i]]
    BY <1>4 DEF Live!SetNode, entry
  <2> HIDE DEF e
  <2>2. DOMAIN e = 1..L /\ \A i \in 1..L : e[i] = IF d[i].key = key THEN entry ELSE d[i]
    BY <1>2, <2>1
  <2>3. e \in [1..L -> S \cup {entry}]
    BY <1>1, <1>2, <2>1
  <2>4. e \in Seq(S \cup {entry})
    BY <1>2, <2>3
  <2>5. \A i \in 1..L : e[i].key = d[i].key
    BY <1>3, <2>2
  <2>6. IsData(e)
    <3>1. \A i, j \in DOMAIN e : e[i].key = e[j].key => i = j
      BY <1>2, <2>2, <2>5 DEF IsData
    <3>2. QED
      BY <2>4, <3>1 DEF IsData
  <2>7. PICK i \in 1..L : d[i].key = key
    BY <1>2, <1>4 DEF Live!HasList
  <2>8. Live!ListAt(e, key) = new
    <3>1. Live!ListAt(e, e[i].key) = e[i].rows
      BY <2>2, <2>6, LiveListAt
    <3>2. e[i].key = key /\ e[i].rows = new
      BY <1>3, <2>2, <2>5, <2>7
    <3>3. QED
      BY <3>1, <3>2
  <2>9. e # <<>> /\ (d # <<>> => e[1].key = d[1].key)
    BY <1>2, <2>2, <2>5, <2>7
  <2>10. \A m \in DOMAIN e : e[m].rows = new \/ (m \in DOMAIN d /\ e[m].rows = d[m].rows)
    BY <1>2, <1>3, <2>2
  <2>11. QED
    BY <2>6, <2>8, <2>9, <2>10 DEF e
<1>5. CASE ~Live!HasList(d, key)
  <2>1. e = Append(d, entry)
    BY <1>5 DEF Live!SetNode, entry
  <2> HIDE DEF e
  <2>2. /\ e \in Seq(S \cup {entry}) /\ Len(e) = L + 1 /\ e[L + 1] = entry
        /\ \A i \in 1..L : e[i] = d[i]
    BY <1>1, <2>1
  <2>3. DOMAIN e = 1..(L + 1) /\ L + 1 \in 1..(L + 1) /\ \A i \in 1..(L + 1) : i \in 1..L \/ i = L + 1
    BY <1>2, <2>2
  <2>4. \A i \in 1..L : d[i].key # key
    BY <1>2, <1>5 DEF Live!HasList
  <2>5. IsData(e)
    <3>1. ASSUME NEW i \in 1..(L + 1), NEW j \in 1..(L + 1), e[i].key = e[j].key PROVE i = j
      <4>1. CASE i \in 1..L /\ j \in 1..L
        BY <1>2, <2>2, <3>1, <4>1 DEF IsData
      <4>2. CASE i = L + 1
        BY <1>3, <2>2, <2>3, <2>4, <3>1, <4>2
      <4>3. CASE j = L + 1
        BY <1>3, <2>2, <2>3, <2>4, <3>1, <4>3
      <4>4. QED
        BY <2>3, <4>1, <4>2, <4>3
    <3>2. QED
      BY <2>2, <2>3, <3>1 DEF IsData
  <2>6. Live!ListAt(e, key) = new
    <3>1. Live!ListAt(e, e[L + 1].key) = e[L + 1].rows
      BY <2>3, <2>5, LiveListAt
    <3>2. QED
      BY <1>3, <2>2, <3>1
  <2>7. e # <<>> /\ (d # <<>> => e[1].key = d[1].key)
    <3>1. Len(e) # 0
      BY <1>2, <2>2
    <3>2. d # <<>> => 1 \in 1..L
      BY <1>2
    <3>3. QED
      BY <2>2, <3>1, <3>2
  <2>8. \A m \in DOMAIN e : e[m].rows = new \/ (m \in DOMAIN d /\ e[m].rows = d[m].rows)
    BY <1>2, <1>3, <2>2, <2>3
  <2>9. QED
    BY <2>5, <2>6, <2>7, <2>8 DEF e
<1>6. QED
  BY <1>4, <1>5

\* The steps of the folds; a fold starts from its base and takes one element at a time.
LEMMA LiveSpreadSteps ==
    ASSUME NEW d, NEW other, Len(other) \in Nat
    PROVE  \E f : /\ f[0] = d /\ Live!Spread(d, other) = f[Len(other)]
                  /\ \A n \in 1..Len(other) : f[n] = Live!SetNode(f[n - 1], other[n].key, other[n].rows)
<1> DEFINE L == Len(other)
           step(x, n) == Live!SetNode(x, other[n].key, other[n].rows)
           Is(f) == f = [n \in 0..L |-> IF n = 0 THEN d ELSE step(f[n - 1], n)]
           Upto(k, f) == f = [n \in 0..k |-> IF n = 0 THEN d ELSE step(f[n - 1], n)]
           P == {k \in 0..L : \E f : Upto(k, f)}
           fold == CHOOSE f : Is(f)
<1>1. Live!Spread(d, other) = fold[L]
  BY DEF Live!Spread, Live!Fold
<1>2. \A f, n : step(f[n - 1], n) = Live!SetNode(f[n - 1], other[n].key, other[n].rows)
  OBVIOUS
<1> HIDE DEF step
<1>3. L \in Nat
  OBVIOUS
<1> HIDE DEF L
<1>4. 0 \in P
  <2>1. Upto(0, [n \in 0..0 |-> d])
    OBVIOUS
  <2> HIDE DEF Upto
  <2>2. QED
    BY <1>3, <2>1
<1>5. ASSUME NEW k \in 0..L, k < L, k \in P PROVE k + 1 \in P
  <2>1. PICK f : Upto(k, f)
    BY <1>5
  <2>2. \A n \in 0..k : f[n] = IF n = 0 THEN d ELSE step(f[n - 1], n)
    BY <2>1
  <2> DEFINE last == step(f[k], k + 1)
             g == [n \in 0..(k + 1) |-> IF n = k + 1 THEN last ELSE f[n]]
  <2>3. k \in Nat /\ k + 1 \in 0..L /\ k + 1 - 1 = k
    BY <1>3, <1>5
  <2>4. g[k] = f[k] /\ g[k + 1] = last /\ \A n \in 0..k : g[n] = f[n]
    BY <2>3
  <2>5. ASSUME NEW n \in 0..(k + 1) PROVE g[n] = IF n = 0 THEN d ELSE step(g[n - 1], n)
    <3> HIDE DEF g, last
    <3>1. CASE n = k + 1
      BY <2>3, <2>4, <3>1 DEF last
    <3>2. CASE n \in 0..k
      <4>1. n # 0 => n - 1 \in 0..k
        BY <2>3, <3>2
      <4>2. QED
        BY <2>2, <2>4, <3>2, <4>1
    <3>3. QED
      BY <2>3, <3>1, <3>2
  <2>6. g = [n \in 0..(k + 1) |-> IF n = 0 THEN d ELSE step(g[n - 1], n)]
    <3>1. g = [n \in 0..(k + 1) |-> g[n]]
      OBVIOUS
    <3> HIDE DEF g
    <3>2. QED
      BY <2>5, <3>1
  <2>7. Upto(k + 1, g)
    <3> HIDE DEF g
    <3>1. QED
      BY <2>6
  <2> HIDE DEF Upto, g
  <2>8. QED
    BY <2>3, <2>7
<1>6. \E f : Is(f)
  <2> HIDE DEF P
  <2>1. 0..L \subseteq P
    BY <1>3, <1>4, <1>5, CountUp
  <2>2. L \in P
    BY <1>3, <2>1
  <2>3. QED
    BY <2>2 DEF P
<1>7. Is(fold)
  BY <1>6
<1> HIDE DEF fold
<1>8. fold[0] = d /\ \A n \in 1..L : fold[n] = step(fold[n - 1], n)
  BY <1>3, <1>7
<1>9. QED
  BY <1>1, <1>2, <1>8 DEF L

LEMMA LiveBuildSteps ==
    ASSUME NEW components, Len(components) \in Nat
    PROVE  \E f : /\ f[0] = <<>> /\ Live!SourceData(components) = f[Len(components)]
                  /\ \A n \in 1..Len(components) : f[n] = Live!Spread(f[n - 1], Live!DeriveSourceData(components[n]))
<1> DEFINE L == Len(components)
           step(x, n) == Live!Spread(x, Live!DeriveSourceData(components[n]))
           Is(f) == f = [n \in 0..L |-> IF n = 0 THEN <<>> ELSE step(f[n - 1], n)]
           Upto(k, f) == f = [n \in 0..k |-> IF n = 0 THEN <<>> ELSE step(f[n - 1], n)]
           P == {k \in 0..L : \E f : Upto(k, f)}
           fold == CHOOSE f : Is(f)
<1>1. Live!SourceData(components) = fold[L]
  BY DEF Live!SourceData, Live!Fold
<1>2. \A f, n : step(f[n - 1], n) = Live!Spread(f[n - 1], Live!DeriveSourceData(components[n]))
  OBVIOUS
<1> HIDE DEF step
<1>3. L \in Nat
  OBVIOUS
<1> HIDE DEF L
<1>4. 0 \in P
  <2>1. Upto(0, [n \in 0..0 |-> <<>>])
    OBVIOUS
  <2> HIDE DEF Upto
  <2>2. QED
    BY <1>3, <2>1
<1>5. ASSUME NEW k \in 0..L, k < L, k \in P PROVE k + 1 \in P
  <2>1. PICK f : Upto(k, f)
    BY <1>5
  <2>2. \A n \in 0..k : f[n] = IF n = 0 THEN <<>> ELSE step(f[n - 1], n)
    BY <2>1
  <2> DEFINE last == step(f[k], k + 1)
             g == [n \in 0..(k + 1) |-> IF n = k + 1 THEN last ELSE f[n]]
  <2>3. k \in Nat /\ k + 1 \in 0..L /\ k + 1 - 1 = k
    BY <1>3, <1>5
  <2>4. g[k] = f[k] /\ g[k + 1] = last /\ \A n \in 0..k : g[n] = f[n]
    BY <2>3
  <2>5. ASSUME NEW n \in 0..(k + 1) PROVE g[n] = IF n = 0 THEN <<>> ELSE step(g[n - 1], n)
    <3> HIDE DEF g, last
    <3>1. CASE n = k + 1
      BY <2>3, <2>4, <3>1 DEF last
    <3>2. CASE n \in 0..k
      <4>1. n # 0 => n - 1 \in 0..k
        BY <2>3, <3>2
      <4>2. QED
        BY <2>2, <2>4, <3>2, <4>1
    <3>3. QED
      BY <2>3, <3>1, <3>2
  <2>6. g = [n \in 0..(k + 1) |-> IF n = 0 THEN <<>> ELSE step(g[n - 1], n)]
    <3>1. g = [n \in 0..(k + 1) |-> g[n]]
      OBVIOUS
    <3> HIDE DEF g
    <3>2. QED
      BY <2>5, <3>1
  <2>7. Upto(k + 1, g)
    <3> HIDE DEF g
    <3>1. QED
      BY <2>6
  <2> HIDE DEF Upto, g
  <2>8. QED
    BY <2>3, <2>7
<1>6. \E f : Is(f)
  <2> HIDE DEF P
  <2>1. 0..L \subseteq P
    BY <1>3, <1>4, <1>5, CountUp
  <2>2. L \in P
    BY <1>3, <2>1
  <2>3. QED
    BY <2>2 DEF P
<1>7. Is(fold)
  BY <1>6
<1> HIDE DEF fold
<1>8. fold[0] = <<>> /\ \A n \in 1..L : fold[n] = step(fold[n - 1], n)
  BY <1>3, <1>7
<1>9. QED
  BY <1>1, <1>2, <1>8 DEF L

LEMMA LiveTransformSteps ==
    ASSUME NEW d, NEW transforms, Len(transforms) \in Nat
    PROVE  \E f : /\ f[0] = d /\ Live!ApplyTransforms(d, transforms) = f[Len(transforms)]
                  /\ \A n \in 1..Len(transforms) : f[n] = Live!ApplyTransform(f[n - 1], transforms[n])
<1> DEFINE L == Len(transforms)
           step(x, n) == Live!ApplyTransform(x, transforms[n])
           Is(f) == f = [n \in 0..L |-> IF n = 0 THEN d ELSE step(f[n - 1], n)]
           Upto(k, f) == f = [n \in 0..k |-> IF n = 0 THEN d ELSE step(f[n - 1], n)]
           P == {k \in 0..L : \E f : Upto(k, f)}
           fold == CHOOSE f : Is(f)
<1>1. Live!ApplyTransforms(d, transforms) = fold[L]
  BY DEF Live!ApplyTransforms, Live!Fold
<1>2. \A f, n : step(f[n - 1], n) = Live!ApplyTransform(f[n - 1], transforms[n])
  OBVIOUS
<1> HIDE DEF step
<1>3. L \in Nat
  OBVIOUS
<1> HIDE DEF L
<1>4. 0 \in P
  <2>1. Upto(0, [n \in 0..0 |-> d])
    OBVIOUS
  <2> HIDE DEF Upto
  <2>2. QED
    BY <1>3, <2>1
<1>5. ASSUME NEW k \in 0..L, k < L, k \in P PROVE k + 1 \in P
  <2>1. PICK f : Upto(k, f)
    BY <1>5
  <2>2. \A n \in 0..k : f[n] = IF n = 0 THEN d ELSE step(f[n - 1], n)
    BY <2>1
  <2> DEFINE last == step(f[k], k + 1)
             g == [n \in 0..(k + 1) |-> IF n = k + 1 THEN last ELSE f[n]]
  <2>3. k \in Nat /\ k + 1 \in 0..L /\ k + 1 - 1 = k
    BY <1>3, <1>5
  <2>4. g[k] = f[k] /\ g[k + 1] = last /\ \A n \in 0..k : g[n] = f[n]
    BY <2>3
  <2>5. ASSUME NEW n \in 0..(k + 1) PROVE g[n] = IF n = 0 THEN d ELSE step(g[n - 1], n)
    <3> HIDE DEF g, last
    <3>1. CASE n = k + 1
      BY <2>3, <2>4, <3>1 DEF last
    <3>2. CASE n \in 0..k
      <4>1. n # 0 => n - 1 \in 0..k
        BY <2>3, <3>2
      <4>2. QED
        BY <2>2, <2>4, <3>2, <4>1
    <3>3. QED
      BY <2>3, <3>1, <3>2
  <2>6. g = [n \in 0..(k + 1) |-> IF n = 0 THEN d ELSE step(g[n - 1], n)]
    <3>1. g = [n \in 0..(k + 1) |-> g[n]]
      OBVIOUS
    <3> HIDE DEF g
    <3>2. QED
      BY <2>5, <3>1
  <2>7. Upto(k + 1, g)
    <3> HIDE DEF g
    <3>1. QED
      BY <2>6
  <2> HIDE DEF Upto, g
  <2>8. QED
    BY <2>3, <2>7
<1>6. \E f : Is(f)
  <2> HIDE DEF P
  <2>1. 0..L \subseteq P
    BY <1>3, <1>4, <1>5, CountUp
  <2>2. L \in P
    BY <1>3, <2>1
  <2>3. QED
    BY <2>2 DEF P
<1>7. Is(fold)
  BY <1>6
<1> HIDE DEF fold
<1>8. fold[0] = d /\ \A n \in 1..L : fold[n] = step(fold[n - 1], n)
  BY <1>3, <1>7
<1>9. QED
  BY <1>1, <1>2, <1>8 DEF L

\* What is spread over data is under its names.
LEMMA LiveSpread ==
    ASSUME NEW d, IsData(d), NEW other, Len(other) \in Nat, NEW r, \A n \in 1..Len(other) : other[n].rows = r
    PROVE  LET e == Live!Spread(d, other)
           IN  /\ IsData(e)
               /\ d # <<>> \/ Len(other) > 0 => e # <<>>
               /\ \A i \in DOMAIN e : e[i].rows = r \/ (i \in DOMAIN d /\ e[i].rows = d[i].rows)
<1> DEFINE L == Len(other)
           From(x) == \A i \in DOMAIN x : x[i].rows = r \/ (i \in DOMAIN d /\ x[i].rows = d[i].rows)
<1>1. PICK f : /\ f[0] = d /\ Live!Spread(d, other) = f[L]
               /\ \A n \in 1..L : f[n] = Live!SetNode(f[n - 1], other[n].key, other[n].rows)
  BY LiveSpreadSteps
<1>2. L \in Nat
  OBVIOUS
<1> DEFINE P == {n \in 0..L : IsData(f[n]) /\ (d # <<>> \/ n > 0 => f[n] # <<>>) /\ From(f[n])}
<1>3. 0 \in P
  BY <1>1, <1>2
<1>4. ASSUME NEW n \in 0..L, n < L, n \in P PROVE n + 1 \in P
  <2>1. n + 1 \in 1..L /\ n + 1 \in 0..L /\ n + 1 - 1 = n
    BY <1>2, <1>4
  <2>2. f[n + 1] = Live!SetNode(f[n], other[n + 1].key, r)
    BY <1>1, <2>1
  <2>3. IsData(f[n]) /\ From(f[n])
    BY <1>4
  <2>4. /\ IsData(f[n + 1]) /\ f[n + 1] # <<>>
        /\ \A i \in DOMAIN f[n + 1] : f[n + 1][i].rows = r
              \/ (i \in DOMAIN f[n] /\ f[n + 1][i].rows = f[n][i].rows)
    BY <2>2, <2>3, LiveSetNode
  <2>5. From(f[n + 1])
    BY <2>3, <2>4
  <2> HIDE DEF From
  <2>6. QED
    BY <2>1, <2>4, <2>5
<1> HIDE DEF P, From
<1>5. 0..L \subseteq P
  BY <1>2, <1>3, <1>4, CountUp
<1>6. L \in P
  BY <1>2, <1>5
<1>7. QED
  BY <1>1, <1>6 DEF P, From

LEMMA LiveContributes ==
    ASSUME NEW c
    PROVE  LET s == Live!DeriveSourceData(c)
           IN  /\ Len(s) \in Nat /\ (Live!Contributes(c) <=> Len(s) > 0)
               /\ \A n \in 1..Len(s) : s[n].rows = Live!Rows(c)
<1> DEFINE s == Live!DeriveSourceData(c)
<1>1. \/ \E k, l : s = <<Live!Entry(k, Live!Rows(c)), Live!Entry(l, Live!Rows(c))>>
      \/ \E k : s = <<Live!Entry(k, Live!Rows(c))>>
      \/ s = <<>>
  BY DEF Live!DeriveSourceData
<1> HIDE DEF s
<1>2. Len(s) \in Nat /\ (s # <<>> <=> Len(s) > 0) /\ \A n \in 1..Len(s) : s[n].rows = Live!Rows(c)
  <2>1. ASSUME NEW k, NEW l, s = <<Live!Entry(k, Live!Rows(c)), Live!Entry(l, Live!Rows(c))>> PROVE Len(s) \in Nat /\ (s # <<>> <=> Len(s) > 0) /\ \A n \in 1..Len(s) : s[n].rows = Live!Rows(c)
    <3>1. Len(s) = 2 /\ s # <<>> /\ s[1].rows = Live!Rows(c) /\ s[2].rows = Live!Rows(c)
      BY <2>1 DEF Live!Entry
    <3>2. QED
      BY <3>1
  <2>2. ASSUME NEW k, s = <<Live!Entry(k, Live!Rows(c))>> PROVE Len(s) \in Nat /\ (s # <<>> <=> Len(s) > 0) /\ \A n \in 1..Len(s) : s[n].rows = Live!Rows(c)
    <3>1. Len(s) = 1 /\ s # <<>> /\ s[1].rows = Live!Rows(c)
      BY <2>2 DEF Live!Entry
    <3>2. QED
      BY <3>1
  <2>3. CASE s = <<>>
    BY <2>3
  <2>4. QED
    BY <1>1, <2>1, <2>2, <2>3
<1>3. QED
  BY <1>2 DEF Live!Contributes, s

\* A source has the rows of components that contribute to it, and no others.
LEMMA LiveBuilt ==
    ASSUME NEW components, IsSequence(components)
    PROVE  LET d == Live!SourceData(components)
           IN  /\ IsData(d)
               /\ \A j \in DOMAIN components : Live!Contributes(components[j]) => d # <<>>
               /\ \A i \in DOMAIN d : \E j \in DOMAIN components :
                     Live!Contributes(components[j]) /\ d[i].rows = Live!Rows(components[j])
<1> DEFINE L == Len(components)
           Of(x) == \A i \in DOMAIN x : \E j \in 1..L :
                       Live!Contributes(components[j]) /\ x[i].rows = Live!Rows(components[j])
<1>1. L \in Nat /\ DOMAIN components = 1..L
  BY LiveIsSequence
<1>2. PICK f : /\ f[0] = <<>> /\ Live!SourceData(components) = f[L]
               /\ \A n \in 1..L : f[n] = Live!Spread(f[n - 1], Live!DeriveSourceData(components[n]))
  BY <1>1, LiveBuildSteps
<1> HIDE DEF L
<1> DEFINE P == {n \in 0..L : /\ IsData(f[n]) /\ Of(f[n])
                              /\ \A j \in 1..n : Live!Contributes(components[j]) => f[n] # <<>>}
<1>3. 0 \in P
  <2>1. IsData(<<>>)
    <3>1. <<>> \in Seq({}) /\ DOMAIN <<>> = {}
      OBVIOUS
    <3>2. QED
      BY <3>1 DEF IsData
  <2>2. Of(<<>>)
    OBVIOUS
  <2> HIDE DEF Of
  <2>3. 0 \in 0..L /\ 1..0 = {}
    BY <1>1
  <2>4. QED
    BY <1>2, <2>1, <2>2, <2>3
<1>4. ASSUME NEW n \in 0..L, n < L, n \in P PROVE n + 1 \in P
  <2> DEFINE c == components[n + 1]
             s == Live!DeriveSourceData(c)
  <2>1. n + 1 \in 1..L /\ n + 1 \in 0..L /\ n + 1 - 1 = n /\ \A j \in 1..(n + 1) : j = n + 1 \/ j \in 1..n
    BY <1>1, <1>4
  <2>2. f[n + 1] = Live!Spread(f[n], s)
    BY <1>2, <2>1
  <2>3. IsData(f[n]) /\ Of(f[n]) /\ \A j \in 1..n : Live!Contributes(components[j]) => f[n] # <<>>
    BY <1>4
  <2>4. Len(s) \in Nat /\ (Live!Contributes(c) <=> Len(s) > 0) /\ \A m \in 1..Len(s) : s[m].rows = Live!Rows(c)
    BY LiveContributes
  <2> DEFINE here == Live!Rows(c)
  <2> HIDE DEF s, Of, here
  <2>41. \A m \in 1..Len(s) : s[m].rows = here
    BY <2>4 DEF here
  <2>5. /\ IsData(f[n + 1])
        /\ f[n] # <<>> \/ Len(s) > 0 => f[n + 1] # <<>>
        /\ \A i \in DOMAIN f[n + 1] : f[n + 1][i].rows = here
              \/ (i \in DOMAIN f[n] /\ f[n + 1][i].rows = f[n][i].rows)
    <3> DEFINE d == f[n]
    <3> HIDE DEF d
    <3>1. IsData(d) /\ Len(s) \in Nat /\ f[n + 1] = Live!Spread(d, s)
      BY <2>2, <2>3, <2>4 DEF d
    <3> DEFINE e == Live!Spread(d, s)
    <3>2. /\ IsData(e) /\ (d # <<>> \/ Len(s) > 0 => e # <<>>)
          /\ \A i \in DOMAIN e : e[i].rows = here \/ (i \in DOMAIN d /\ e[i].rows = d[i].rows)
      BY <2>41, <3>1, LiveSpread
    <3> HIDE DEF e
    <3>3. e = f[n + 1]
      BY <3>1 DEF e
    <3>4. QED
      BY <3>2, <3>3 DEF d
  <2>6. Of(f[n + 1])
    <3>1. CASE Live!Contributes(c)
      BY <2>1, <2>3, <2>5, <3>1 DEF Of, here
    <3>2. CASE ~Live!Contributes(c)
      <4>1. Len(s) = 0
        BY <2>4, <3>2
      <4>2. s = <<>>
        BY <3>2 DEF Live!Contributes, s
      <4>3. f[n + 1] = f[n]
        <5>1. PICK g : g[0] = f[n] /\ Live!Spread(f[n], s) = g[Len(s)]
          BY <4>1, LiveSpreadSteps
        <5>2. QED
          BY <2>2, <4>1, <5>1
      <4>4. QED
        BY <2>3, <4>3
    <3>3. QED
      BY <3>1, <3>2
  <2>7. \A j \in 1..(n + 1) : Live!Contributes(components[j]) => f[n + 1] # <<>>
    BY <2>1, <2>3, <2>4, <2>5
  <2>8. QED
    BY <2>1, <2>5, <2>6, <2>7
<1> HIDE DEF P, Of
<1>5. 0..L \subseteq P
  BY <1>1, <1>3, <1>4, CountUp
<1>6. L \in P
  BY <1>1, <1>5
<1>7. QED
  BY <1>1, <1>2, <1>6 DEF P, Of

LiveNames == {"items", "products", "rows", "data", "results", "list", "categories", "series", "kpis"}

\* What a component shows of a source with lists is one of them.
LEMMA LiveShown ==
    ASSUME NEW c, IsData(data), data # <<>>,
           c.name \in {"dataTable", "barChart", "pieChart", "summaryPanel", "productCarousel"}
    PROVE  \E i \in DOMAIN data : Live!Shown(c) = data[i].rows
<1>1. \A keys \in Seq(LiveNames) : \E i \in DOMAIN data : Live!ExtractArray(data, keys) = data[i].rows
  <2>1. SUFFICES ASSUME NEW keys \in Seq(LiveNames)
                 PROVE  \E i \in DOMAIN data : Live!ExtractArray(data, keys) = data[i].rows
    OBVIOUS
  <2>2. keys \o Live!CommonListKeys \in Seq(LiveNames)
    <3>1. Live!CommonListKeys \in Seq(LiveNames)
      BY DEF Live!CommonListKeys, LiveNames
    <3>2. QED
      BY <2>1, <3>1
  <2>3. QED
    BY <2>2, LiveListIn DEF Live!ExtractArray
<1>2. CASE c.name = "dataTable"
  <2>1. Head(data) = data[1] /\ 1 \in DOMAIN data
    <3>1. PICK S : data \in Seq(S)
      BY DEF IsData
    <3>2. QED
      BY <3>1
  <2>2. QED
    BY <1>2, <2>1 DEF Live!Shown, Live!TableRows
<1>3. CASE c.name \in {"barChart", "pieChart"}
  <2>1. Live!Shown(c) = Live!ChartRows
    BY <1>3 DEF Live!Shown
  <2>2. CASE collection # None /\ Live!HasList(data, collection)
    BY <2>1, <2>2, LiveListIsOne DEF Live!ChartRows
  <2>3. CASE ~(collection # None /\ Live!HasList(data, collection))
    <3>1. <<"series", "rows", "items", "data", "results">> \in Seq(LiveNames)
      BY DEF LiveNames
    <3>2. Live!ChartRows = Live!ExtractArray(data, <<"series", "rows", "items", "data", "results">>)
      BY <2>3 DEF Live!ChartRows
    <3>3. QED
      BY <1>1, <2>1, <3>1, <3>2
  <2>4. QED
    BY <2>2, <2>3
<1>4. CASE c.name = "summaryPanel"
  <2>1. <<"items", "kpis", "data">> \in Seq(LiveNames)
    BY DEF LiveNames
  <2>2. Live!Shown(c) = Live!ExtractArray(data, <<"items", "kpis", "data">>)
    BY <1>4 DEF Live!Shown
  <2>3. QED
    BY <1>1, <2>1, <2>2
<1>5. CASE c.name = "productCarousel"
  <2>1. <<"products", "items", "results">> \in Seq(LiveNames)
    BY DEF LiveNames
  <2>2. Live!Shown(c) = Live!ExtractArray(data, <<"products", "items", "results">>)
    BY <1>5 DEF Live!Shown
  <2>3. QED
    BY <1>1, <2>1, <2>2
<1>6. QED
  BY <1>2, <1>3, <1>4, <1>5

LiveIInv ==
    /\ response \in Responses
    /\ answer = None => data = None \/ data = Live!SourceData(response.components)
    /\ answer # None =>
         /\ answer \in Answers
         /\ data = Live!ApplyTransforms(answer.lists, Live!Transforms)
         /\ collection = Live!CollectionPath(answer.collection, response.collection, Live!Transforms)

LEMMA LiveStart == Live!Init => LiveIInv
BY DEF Live!Init, LiveIInv

LEMMA LiveSteps == LiveIInv /\ [Live!Next]_(Live!vars) => LiveIInv'
<1>1. SUFFICES ASSUME LiveIInv, Live!Next \/ UNCHANGED Live!vars PROVE LiveIInv'
  OBVIOUS
<1>2. CASE Live!Build
  <2>1. data = None /\ data' = Live!SourceData(response.components) /\ UNCHANGED <<response, answer>>
        /\ collection' = response.collection
    BY <1>2 DEF Live!Build
  <2>2. CASE answer = None
    BY <1>1, <2>1, <2>2 DEF LiveIInv
  <2>3. CASE answer # None
    BY <1>1, <2>1, <2>3, LiveAssumption DEF LiveIInv, Live!Transforms
  <2>4. QED
    BY <2>2, <2>3
<1>3. ASSUME NEW a \in Answers, Live!Query(a) PROVE LiveIInv'
  <2>1. /\ data' = Live!ApplyTransforms(a.lists, Live!Transforms)
        /\ collection' = Live!CollectionPath(a.collection, response.collection, Live!Transforms)
        /\ answer' = a /\ UNCHANGED response /\ a # None
    BY <1>3, LiveAssumption DEF Live!Query, Live!Transforms
  <2>2. Live!Transforms' = Live!Transforms
    BY <2>1 DEF Live!Transforms
  <2>3. QED
    BY <1>1, <2>1, <2>2 DEF LiveIInv
<1>4. CASE UNCHANGED Live!vars
  <2>1. UNCHANGED <<response, data, collection, answer>>
    BY <1>4 DEF Live!vars
  <2>2. Live!Transforms' = Live!Transforms
    BY <2>1 DEF Live!Transforms
  <2>3. QED
    BY <1>1, <2>1, <2>2 DEF LiveIInv
<1>5. QED
  BY <1>1, <1>2, <1>3, <1>4 DEF Live!Next

\* What the agent gave is shown until the source is queried.
LEMMA LiveGivenIsShown == ASSUME LiveIInv PROVE Live!GivenIsShown
<1> DEFINE components == response.components
<1>1. SUFFICES ASSUME data # None, answer = None, NEW i \in DOMAIN components, components[i].given # None
               PROVE  \/ Live!Shown(components[i]) = components[i].given
                      \/ \E k, j \in DOMAIN components :
                            /\ k # j /\ components[k] = components[i] /\ Live!Contributes(components[j])
                            /\ Live!Shown(components[i]) \in {Live!Rows(d) : d \in Live!Components}
  BY DEF Live!GivenIsShown, Live!Components
<1> DEFINE c == components[i]
<1>2. IsSequence(components) /\ data = Live!SourceData(components)
  BY <1>1, LiveAssumption DEF LiveIInv
<1>3. c.name \in {"dataTable", "barChart", "pieChart", "summaryPanel", "productCarousel", "categoryChips"}
  BY <1>1, LiveAssumption DEF LiveIInv
<1>4. /\ IsData(data)
      /\ \A j \in DOMAIN components : Live!Contributes(components[j]) => data # <<>>
      /\ \A m \in DOMAIN data : \E j \in DOMAIN components :
            Live!Contributes(components[j]) /\ data[m].rows = Live!Rows(components[j])
  BY <1>2, LiveBuilt
<1> HIDE DEF c
<1>5. CASE c.name = "categoryChips"
  <2>1. Live!Shown(c) = c.given
    BY <1>1, <1>5 DEF Live!Shown, Live!ChipRows, c
  <2>2. QED
    BY <2>1 DEF c
<1>6. CASE c.name # "categoryChips"
  <2>1. Live!Contributes(c)
    BY <1>3, <1>6 DEF Live!Contributes, Live!DeriveSourceData
  <2>2. data # <<>>
    BY <1>4, <2>1 DEF c
  <2>3. PICK m \in DOMAIN data : Live!Shown(c) = data[m].rows
    BY <1>3, <1>4, <1>6, <2>2, LiveShown
  <2>4. PICK j \in DOMAIN components : Live!Contributes(components[j]) /\ data[m].rows = Live!Rows(components[j])
    BY <1>4
  <2>5. CASE j = i
    BY <1>1, <2>3, <2>4, <2>5 DEF Live!Rows, c
  <2>6. CASE j # i
    <3>1. Live!Shown(c) \in {Live!Rows(d) : d \in Live!Components}
      BY <2>3, <2>4 DEF Live!Components
    <3>2. QED
      BY <2>4, <2>6, <3>1 DEF c
  <2>7. QED
    BY <2>5, <2>6
<1>7. QED
  BY <1>5, <1>6

\* Charts follow the hint of the last projection.
LEMMA LiveChartsShowDerived == ASSUME LiveIInv PROVE Live!ChartsShowDerived
<1> DEFINE last == Live!LastDeclared
<1>1. SUFFICES ASSUME NEW c, c.name \in {"barChart", "pieChart"}, NEW key, Live!HasList(data, key),
                      answer # None, Live!Declared # {}, Live!OutputPath(last) = key,
                      last.output # None, last.hint \in {None, key}
               PROVE  Live!Shown(c) = Live!ListAt(data, key)
  BY DEF Live!ChartsShowDerived, Live!Derived, Live!HasList
<1>2. collection = Live!CollectionPath(answer.collection, response.collection, Live!Transforms)
  BY <1>1 DEF LiveIInv
<1>3. last.output = key /\ key # None
  BY <1>1 DEF Live!OutputPath
<1>4. collection = key
  BY <1>1, <1>2, <1>3 DEF Live!CollectionPath, Live!Declared, Live!LastDeclared
<1>5. Live!Shown(c) = Live!ChartRows
  BY <1>1 DEF Live!Shown
<1>6. QED
  BY <1>1, <1>3, <1>4, <1>5 DEF Live!ChartRows

\* Transforms keep the first list where it is.
LEMMA LiveTransformed ==
    ASSUME NEW d, IsData(d), NEW transforms, IsSequence(transforms)
    PROVE  LET e == Live!ApplyTransforms(d, transforms)
           IN  IsData(e) /\ (d # <<>> => e # <<>> /\ e[1].key = d[1].key)
<1> DEFINE L == Len(transforms)
<1>1. L \in Nat
  BY LiveIsSequence
<1>2. PICK f : /\ f[0] = d /\ Live!ApplyTransforms(d, transforms) = f[L]
               /\ \A n \in 1..L : f[n] = Live!ApplyTransform(f[n - 1], transforms[n])
  BY <1>1, LiveTransformSteps
<1> HIDE DEF L
<1> DEFINE P == {n \in 0..L : IsData(f[n]) /\ (d # <<>> => f[n] # <<>> /\ f[n][1].key = d[1].key)}
<1>3. 0 \in P
  BY <1>1, <1>2
<1>4. ASSUME NEW n \in 0..L, n < L, n \in P PROVE n + 1 \in P
  <2> DEFINE x == f[n]
             t == transforms[n + 1]
             new == [i \in DOMAIN Live!InputRows(x, t) |-> Live!ProjectRow(t, Live!InputRows(x, t)[i])]
             e == Live!SetNode(x, Live!OutputPath(t), new)
  <2>1. n + 1 \in 1..L /\ n + 1 \in 0..L /\ n + 1 - 1 = n
    BY <1>1, <1>4
  <2>2. f[n + 1] \in {x, e}
    BY <1>2, <2>1 DEF Live!ApplyTransform
  <2>3. IsData(x) /\ (d # <<>> => x # <<>> /\ x[1].key = d[1].key)
    BY <1>4
  <2> HIDE DEF new, x
  <2>4. IsData(e) /\ e # <<>> /\ (x # <<>> => e[1].key = x[1].key)
    BY <2>3, LiveSetNode
  <2> HIDE DEF e
  <2>5. QED
    BY <2>1, <2>2, <2>3, <2>4
<1> HIDE DEF P
<1>5. 0..L \subseteq P
  BY <1>1, <1>3, <1>4, CountUp
<1>6. L \in P
  BY <1>1, <1>5
<1>7. QED
  BY <1>2, <1>6 DEF P

LEMMA LiveAnswer ==
    ASSUME LiveIInv, answer # None
    PROVE  /\ IsData(answer.lists) /\ IsSequence(Live!Transforms)
           /\ Len(Live!Transforms) = Len(response.transforms)
           /\ data = Live!ApplyTransforms(answer.lists, Live!Transforms)
<1>1. answer \in Answers /\ response \in Responses /\ data = Live!ApplyTransforms(answer.lists, Live!Transforms)
  BY DEF LiveIInv
<1>2. IsData(answer.lists)
  <2>1. /\ IsSequence(answer.lists)
        /\ \A i, j \in DOMAIN answer.lists : answer.lists[i].key = answer.lists[j].key => i = j
    BY <1>1, LiveAssumption
  <2>2. QED
    BY <2>1, LiveIsSequence DEF IsData
<1>3. IsSequence(response.transforms)
  BY <1>1, LiveAssumption
<1>4. Len(response.transforms) \in Nat /\ DOMAIN response.transforms = 1..Len(response.transforms)
  BY <1>3, LiveIsSequence
<1> DEFINE s == Live!Transforms
           L == Len(response.transforms)
<1>5. s = [i \in 1..L |-> [response.transforms[i] EXCEPT
                              !.fields = SelectSeq(response.transforms[i].fields, LAMBDA f : f.key # None)]]
  BY <1>4 DEF Live!Transforms, Live!ToUiDataTransforms
<1>6. DOMAIN s = 1..L /\ s = [i \in 1..L |-> s[i]]
  BY <1>5
<1> HIDE DEF s, L
<1>7. IsSequence(s) /\ Len(s) = L
  <2>1. s \in [1..L -> {s[i] : i \in 1..L}] /\ L \in Nat
    BY <1>4, <1>6 DEF L
  <2>2. s \in Seq({s[i] : i \in 1..L}) /\ Len(s) = L
    BY <2>1
  <2>3. QED
    BY <1>6, <2>2 DEF IsSequence
<1>8. QED
  BY <1>1, <1>2, <1>7 DEF s, L

LEMMA LiveDerivedInPlaceIsShown == ASSUME LiveIInv PROVE Live!DerivedInPlaceIsShown
<1>1. SUFFICES ASSUME NEW c, c.name = "dataTable", answer # None, answer.lists # <<>>
               PROVE  Live!Shown(c) = Live!ListAt(data, Head(answer.lists).key)
  BY DEF Live!DerivedInPlaceIsShown
<1>2. IsData(data) /\ data # <<>> /\ data[1].key = answer.lists[1].key /\ IsData(answer.lists)
  BY <1>1, LiveAnswer, LiveTransformed
<1>3. \A d : IsData(d) /\ d # <<>> => Head(d) = d[1] /\ 1 \in DOMAIN d
  <2>1. SUFFICES ASSUME NEW d, IsData(d), d # <<>> PROVE Head(d) = d[1] /\ 1 \in DOMAIN d
    OBVIOUS
  <2>2. PICK S : d \in Seq(S)
    BY <2>1 DEF IsData
  <2>3. QED
    BY <2>1, <2>2
<1>4. Live!Shown(c) = data[1].rows
  BY <1>1, <1>2, <1>3 DEF Live!Shown, Live!TableRows
<1>5. Live!ListAt(data, data[1].key) = data[1].rows
  BY <1>2, <1>3, LiveListAt
<1>6. QED
  BY <1>1, <1>2, <1>3, <1>4, <1>5

\* What is applied to two operands.
LEMMA LiveSumOfTwo ==
    ASSUME NEW a, NEW b
    PROVE  Live!Sum(<<a, b>>) = IF Live!IsNumber(b) THEN (IF Live!IsNumber(a) THEN 0 + a ELSE 0) + b
                                ELSE IF Live!IsNumber(a) THEN 0 + a ELSE 0
<1> DEFINE s == <<a, b>>
           plus(x, y) == IF Live!IsNumber(y) THEN x + y ELSE x
           Is(f) == f = [n \in 0..Len(s) |-> IF n = 0 THEN 0 ELSE plus(f[n - 1], s[n])]
           fold == CHOOSE f : Is(f)
           g == [n \in 0..2 |-> IF n = 0 THEN 0 ELSE IF n = 1 THEN plus(0, a) ELSE plus(plus(0, a), b)]
<1>1. Live!Sum(s) = fold[Len(s)]
  BY DEF Live!Sum, Live!Fold
<1>2. Len(s) = 2 /\ s[1] = a /\ s[2] = b
  OBVIOUS
<1>3. plus(plus(0, a), b) = IF Live!IsNumber(b) THEN (IF Live!IsNumber(a) THEN 0 + a ELSE 0) + b
                            ELSE IF Live!IsNumber(a) THEN 0 + a ELSE 0
  OBVIOUS
<1> HIDE DEF s, plus
<1>4. \A n \in 0..2 : g[n] = IF n = 0 THEN 0 ELSE plus(g[n - 1], s[n])
  BY <1>2
<1>5. Is(g)
  BY <1>2, <1>4
<1>6. Is(fold)
  <2> HIDE DEF Is, g
  <2>1. QED
    BY <1>5
<1> HIDE DEF fold
<1>7. fold[2] = plus(plus(0, a), b)
  <2>1. fold[0] = 0 /\ fold[1] = plus(fold[0], s[1]) /\ fold[2] = plus(fold[1], s[2])
    BY <1>2, <1>6
  <2>2. QED
    BY <1>2, <2>1
<1>8. QED
  BY <1>1, <1>2, <1>3, <1>7 DEF s

LEMMA LiveProductOfTwo ==
    ASSUME NEW a, NEW b
    PROVE  Live!Product(<<a, b>>) = IF Live!IsNumber(b) THEN (IF Live!IsNumber(a) THEN 1 * a ELSE 1) * b
                                ELSE IF Live!IsNumber(a) THEN 1 * a ELSE 1
<1> DEFINE s == <<a, b>>
           times(x, y) == IF Live!IsNumber(y) THEN x * y ELSE x
           Is(f) == f = [n \in 0..Len(s) |-> IF n = 0 THEN 1 ELSE times(f[n - 1], s[n])]
           fold == CHOOSE f : Is(f)
           g == [n \in 0..2 |-> IF n = 0 THEN 1 ELSE IF n = 1 THEN times(1, a) ELSE times(times(1, a), b)]
<1>1. Live!Product(s) = fold[Len(s)]
  BY DEF Live!Product, Live!Fold
<1>2. Len(s) = 2 /\ s[1] = a /\ s[2] = b
  OBVIOUS
<1>3. times(times(1, a), b) = IF Live!IsNumber(b) THEN (IF Live!IsNumber(a) THEN 1 * a ELSE 1) * b
                            ELSE IF Live!IsNumber(a) THEN 1 * a ELSE 1
  OBVIOUS
<1> HIDE DEF s, times
<1>4. \A n \in 0..2 : g[n] = IF n = 0 THEN 1 ELSE times(g[n - 1], s[n])
  BY <1>2
<1>5. Is(g)
  BY <1>2, <1>4
<1>6. Is(fold)
  <2> HIDE DEF Is, g
  <2>1. QED
    BY <1>5
<1> HIDE DEF fold
<1>7. fold[2] = times(times(1, a), b)
  <2>1. fold[0] = 1 /\ fold[1] = times(fold[0], s[1]) /\ fold[2] = times(fold[1], s[2])
    BY <1>2, <1>6
  <2>2. QED
    BY <1>2, <2>1
<1>8. QED
  BY <1>1, <1>2, <1>3, <1>7 DEF s

LEMMA LiveDifferenceOfTwo ==
    ASSUME NEW a, NEW b
    PROVE  Live!Difference(<<a, b>>) = IF Live!IsNumber(b) THEN a - b ELSE a
<1> DEFINE s == Tail(<<a, b>>)
           base == Head(<<a, b>>)
           minus(x, y) == IF Live!IsNumber(y) THEN x - y ELSE x
           Is(f) == f = [n \in 0..Len(s) |-> IF n = 0 THEN base ELSE minus(f[n - 1], s[n])]
           fold == CHOOSE f : Is(f)
           g == [n \in 0..1 |-> IF n = 0 THEN a ELSE minus(a, b)]
<1>1. Live!Difference(<<a, b>>) = fold[Len(s)]
  BY DEF Live!Difference, Live!Fold
<1>2. Len(s) = 1 /\ s[1] = b /\ base = a
  OBVIOUS
<1>3. minus(a, b) = IF Live!IsNumber(b) THEN a - b ELSE a
  OBVIOUS
<1> HIDE DEF s, base, minus
<1>4. \A n \in 0..1 : g[n] = IF n = 0 THEN base ELSE minus(g[n - 1], s[n])
  BY <1>2
<1>5. Is(g)
  BY <1>2, <1>4
<1>6. Is(fold)
  <2> HIDE DEF Is, g
  <2>1. QED
    BY <1>5
<1> HIDE DEF fold
<1>7. fold[1] = minus(a, b)
  <2>1. fold[0] = base /\ fold[1] = minus(fold[0], s[1])
    BY <1>2, <1>6
  <2>2. QED
    BY <1>2, <2>1
<1>8. QED
  BY <1>1, <1>2, <1>3, <1>7

LEMMA LiveQuotientOfTwo ==
    ASSUME NEW a, NEW b
    PROVE  Live!Quotient(<<a, b>>) = IF a = None \/ ~Live!IsNumber(b) \/ b = 0 THEN None ELSE Live!DivideBy(a, b)
<1> DEFINE s == Tail(<<a, b>>)
           base == Head(<<a, b>>)
           by(x, y) == IF x = None \/ ~Live!IsNumber(y) \/ y = 0 THEN None ELSE Live!DivideBy(x, y)
           Is(f) == f = [n \in 0..Len(s) |-> IF n = 0 THEN base ELSE by(f[n - 1], s[n])]
           fold == CHOOSE f : Is(f)
           g == [n \in 0..1 |-> IF n = 0 THEN a ELSE by(a, b)]
<1>1. Live!Quotient(<<a, b>>) = fold[Len(s)]
  BY DEF Live!Quotient, Live!Fold
<1>2. Len(s) = 1 /\ s[1] = b /\ base = a
  OBVIOUS
<1>3. by(a, b) = IF a = None \/ ~Live!IsNumber(b) \/ b = 0 THEN None ELSE Live!DivideBy(a, b)
  OBVIOUS
<1> HIDE DEF s, base, by
<1>4. \A n \in 0..1 : g[n] = IF n = 0 THEN base ELSE by(g[n - 1], s[n])
  BY <1>2
<1>5. Is(g)
  BY <1>2, <1>4
<1>6. Is(fold)
  <2> HIDE DEF Is, g
  <2>1. QED
    BY <1>5
<1> HIDE DEF fold
<1>7. fold[1] = by(a, b)
  <2>1. fold[0] = base /\ fold[1] = by(fold[0], s[1])
    BY <1>2, <1>6
  <2>2. QED
    BY <1>2, <2>1
<1>8. QED
  BY <1>1, <1>2, <1>3, <1>7

LEMMA LiveDivided ==
    ASSUME NEW a \in Int, NEW b \in Int, b # 0
    PROVE  LET v == Live!DivideBy(a, b)
           IN  /\ b > 0 => v * b <= a /\ a < (v + 1) * b
               /\ b < 0 => v * b >= a /\ a > (v + 1) * b
<1>1. CASE b > 0
  <2>1. (a \div b) * b <= a /\ a < (a \div b + 1) * b
    BY <1>1
  <2>2. Live!DivideBy(a, b) = a \div b /\ ~(b < 0)
    BY <1>1 DEF Live!DivideBy
  <2>3. QED
    BY <2>1, <2>2
<1>2. CASE b < 0
  <2>1. ((0 - a) \div (0 - b)) * b >= a /\ a > ((0 - a) \div (0 - b) + 1) * b
    BY <1>2
  <2>2. Live!DivideBy(a, b) = (0 - a) \div (0 - b) /\ ~(b > 0)
    BY <1>2 DEF Live!DivideBy
  <2>3. QED
    BY <2>1, <2>2
<1>3. QED
  BY <1>1, <1>2

LEMMA LiveComputed == ASSUME NEW op, NEW a, NEW b PROVE Live!Computed(op, a, b, Live!Apply(op, <<a, b>>))
<1> DEFINE args == <<a, b>>
           v == Live!Apply(op, args)
           numbers == {i \in DOMAIN args : Live!IsNumber(args[i])}
<1>1. DOMAIN args = {1, 2} /\ args[1] = a /\ args[2] = b
  OBVIOUS
<1>2. (1 \in numbers <=> Live!IsNumber(a)) /\ (2 \in numbers <=> Live!IsNumber(b)) /\ numbers \subseteq {1, 2}
  BY <1>1
<1> HIDE DEF numbers, args
<1>3. numbers = {} <=> ~Live!IsNumber(a) /\ ~Live!IsNumber(b)
  BY <1>2
<1>4. CASE op = "add"
  <2>1. v = IF numbers = {} THEN None ELSE Live!Sum(args)
    BY <1>4 DEF Live!Apply, numbers
  <2>2. v = IF numbers = {} THEN None
            ELSE IF Live!IsNumber(b) THEN (IF Live!IsNumber(a) THEN 0 + a ELSE 0) + b
            ELSE IF Live!IsNumber(a) THEN 0 + a ELSE 0
    BY <2>1, LiveSumOfTwo DEF args
  <2> HIDE DEF v
  <2>3. Live!Computed(op, a, b, v)
    BY <1>3, <1>4, <2>2 DEF Live!Computed, Live!IsNumber
  <2>4. QED
    BY <2>3 DEF v, args
<1>5. CASE op = "multiply"
  <2>1. v = IF numbers = {} THEN None ELSE Live!Product(args)
    BY <1>5 DEF Live!Apply, numbers
  <2>2. v = IF numbers = {} THEN None
            ELSE IF Live!IsNumber(b) THEN (IF Live!IsNumber(a) THEN 1 * a ELSE 1) * b
            ELSE IF Live!IsNumber(a) THEN 1 * a ELSE 1
    BY <2>1, LiveProductOfTwo DEF args
  <2> HIDE DEF v
  <2>3. Live!Computed(op, a, b, v)
    <3>1. CASE Live!IsNumber(a) /\ Live!IsNumber(b)
      <4>1. v = b * a
        BY <1>3, <2>2, <3>1 DEF Live!IsNumber
      <4>2. QED
        BY <1>5, <3>1, <4>1 DEF Live!Computed
    <3>2. CASE ~(Live!IsNumber(a) /\ Live!IsNumber(b))
      BY <1>3, <1>5, <2>2, <3>2 DEF Live!Computed, Live!IsNumber
    <3>3. QED
      BY <3>1, <3>2
  <2>4. QED
    BY <2>3 DEF v, args
<1>6. CASE op = "subtract"
  <2>1. v = IF 1 \in numbers THEN Live!Difference(args) ELSE None
    BY <1>6 DEF Live!Apply, numbers
  <2>2. v = IF Live!IsNumber(a) THEN IF Live!IsNumber(b) THEN a - b ELSE a ELSE None
    BY <1>2, <2>1, LiveDifferenceOfTwo DEF args
  <2> HIDE DEF v
  <2>3. Live!Computed(op, a, b, v)
    BY <1>6, <2>2 DEF Live!Computed, Live!IsNumber
  <2>4. QED
    BY <2>3 DEF v, args
<1>7. CASE op = "divide"
  <2>1. v = IF 1 \in numbers THEN Live!Quotient(args) ELSE None
    BY <1>7 DEF Live!Apply, numbers
  <2>2. v = IF Live!IsNumber(a)
            THEN IF a = None \/ ~Live!IsNumber(b) \/ b = 0 THEN None ELSE Live!DivideBy(a, b)
            ELSE None
    BY <1>2, <2>1, LiveQuotientOfTwo DEF args
  <2> HIDE DEF v
  <2>3. Live!Computed(op, a, b, v)
    <3>1. CASE Live!IsNumber(a) /\ Live!IsNumber(b) /\ b # 0
      <4>1. v = Live!DivideBy(a, b) /\ a \in Int /\ b \in Int
        BY <2>2, <3>1, NoneAssumption DEF Live!IsNumber
      <4>2. /\ b > 0 => v * b <= a /\ a < (v + 1) * b
            /\ b < 0 => v * b >= a /\ a > (v + 1) * b
        BY <3>1, <4>1, LiveDivided
      <4>3. b > 0 \/ b < 0
        BY <3>1, <4>1
      <4> DEFINE below == v * b <= a /\ a < (v + 1) * b
                 above == v * b >= a /\ a > (v + 1) * b
      <4>4. Live!Computed(op, a, b, v) <=>
              CASE b = 0 -> v = None [] b > 0 -> below [] b < 0 -> above
        BY <1>7, <3>1 DEF Live!Computed
      <4> HIDE DEF below, above
      <4>5. (b > 0 => below /\ ~(b < 0)) /\ (b < 0 => above /\ ~(b > 0))
        BY <4>1, <4>2 DEF below, above
      <4>6. QED
        BY <3>1, <4>3, <4>4, <4>5
    <3>2. CASE Live!IsNumber(a) /\ Live!IsNumber(b) /\ b = 0
      BY <1>7, <2>2, <3>2 DEF Live!Computed
    <3>3. CASE ~(Live!IsNumber(a) /\ Live!IsNumber(b))
      BY <1>7, <2>2, <3>3 DEF Live!Computed
    <3>4. QED
      BY <3>1, <3>2, <3>3
  <2>4. QED
    BY <2>3 DEF v, args
<1>8. CASE op = "max"
  <2> DEFINE most == CHOOSE i \in numbers : \A j \in numbers : args[i] >= args[j]
  <2>1. v = IF numbers = {} THEN None ELSE args[most]
    BY <1>8 DEF Live!Apply, numbers
  <2>2. numbers # {} => \E i \in numbers : \A j \in numbers : args[i] >= args[j]
    <3>1. \A i \in numbers : args[i] \in Int /\ i \in {1, 2}
      BY <1>1, <1>2 DEF Live!IsNumber
    <3>2. CASE 1 \in numbers /\ 2 \in numbers
      <4>1. args[1] \in Int /\ args[2] \in Int
        BY <3>1, <3>2
      <4>2. args[1] >= args[2] \/ args[2] >= args[1]
        BY <4>1
      <4>3. QED
        BY <3>1, <3>2, <4>1, <4>2
    <3>3. CASE ~(1 \in numbers /\ 2 \in numbers)
      <4>1. \A i, j \in numbers : i = j
        BY <3>1, <3>3
      <4>2. \A i, j \in numbers : args[i] >= args[j]
        BY <3>1, <4>1
      <4>3. QED
        BY <4>2
    <3>4. QED
      BY <3>2, <3>3
  <2>3. numbers # {} => most \in numbers /\ \A j \in numbers : args[most] >= args[j]
    BY <2>2
  <2> HIDE DEF v, most
  <2>4. Live!Computed(op, a, b, v)
    <3>1. CASE numbers = {}
      BY <1>3, <1>8, <2>1, <3>1 DEF Live!Computed
    <3>2. CASE numbers # {}
      BY <1>1, <1>2, <1>8, <2>1, <2>3, <3>2 DEF Live!Computed, Live!IsNumber
    <3>3. QED
      BY <3>1, <3>2
  <2>5. QED
    BY <2>4 DEF v, args
<1>9. CASE op \notin {"add", "multiply", "subtract", "divide", "max"}
  BY <1>9 DEF Live!Computed
<1>10. QED
  BY <1>4, <1>5, <1>6, <1>7, <1>8, <1>9

\* The value of an operation is what is applied to the values of its operands.
LEMMA LiveNodeValue ==
    ASSUME NEW e, IsExpression(e), NEW row, NEW i \in DOMAIN e, e[i].kind = "op"
    PROVE  Live!NodeValues(e, row)[i] =
             Live!Apply(e[i].op, [k \in DOMAIN e[i].args |-> Live!NodeValues(e, row)[e[i].args[k]]])
<1> DEFINE L == Len(e)
           at(f, n) == Live!NodeValue(e[n], row, f)
           Upto(m, f) == f = [n \in 1..m |-> at(f, n)]
           P == {m \in 0..L : \E f : Upto(m, f)}
           Is(f) == f = [n \in DOMAIN e |-> at(f, n)]
           values == CHOOSE f : Is(f)
<1>1. L \in Nat /\ DOMAIN e = 1..L
  BY LiveIsSequence DEF IsExpression
<1>2. Live!NodeValues(e, row) = values
  BY DEF Live!NodeValues
<1>3. ASSUME NEW f, NEW g, NEW n \in 1..L, \A m \in 1..(n - 1) : f[m] = g[m] PROVE at(f, n) = at(g, n)
  <2>1. CASE e[n].kind = "op"
    <3>1. e[n].args \in Seq(1..(n - 1))
      BY <1>1, <2>1 DEF IsExpression
    <3>2. \A k \in DOMAIN e[n].args : e[n].args[k] \in 1..(n - 1)
      BY <3>1
    <3>3. [k \in DOMAIN e[n].args |-> f[e[n].args[k]]] = [k \in DOMAIN e[n].args |-> g[e[n].args[k]]]
      BY <1>3, <3>2
    <3>4. QED
      BY <2>1, <3>3 DEF Live!NodeValue
  <2>2. CASE e[n].kind # "op"
    <3>1. e[n].kind \in {"field", "const"}
      BY <1>1, <2>2 DEF IsExpression
    <3>2. QED
      BY <3>1 DEF Live!NodeValue
  <2>3. QED
    BY <2>1, <2>2
<1>4. at(values, i) = Live!Apply(e[i].op, [k \in DOMAIN e[i].args |-> values[e[i].args[k]]])
  <2> HIDE DEF values
  <2>1. QED
    BY DEF Live!NodeValue
<1> HIDE DEF L, at
<1>5. 0 \in P
  <2>1. Upto(0, [n \in 1..0 |-> n])
    OBVIOUS
  <2> HIDE DEF Upto
  <2>2. QED
    BY <1>1, <2>1
<1>6. ASSUME NEW m \in 0..L, m < L, m \in P PROVE m + 1 \in P
  <2>1. PICK f : Upto(m, f)
    BY <1>6
  <2> DEFINE last == at(f, m + 1)
             g == [n \in 1..(m + 1) |-> IF n = m + 1 THEN last ELSE f[n]]
  <2>2. m \in Nat /\ m + 1 \in 0..L /\ m + 1 \in 1..L /\ m + 1 - 1 = m
    BY <1>1, <1>6
  <2>3. g[m + 1] = last /\ \A n \in 1..m : g[n] = f[n] /\ f[n] = at(f, n)
    <3> HIDE DEF last
    <3>1. g[m + 1] = last
      BY <2>2
    <3>2. \A n \in 1..m : n \in 1..(m + 1) /\ n # m + 1
      BY <2>2
    <3>3. \A n \in 1..m : g[n] = f[n]
      BY <3>2
    <3>4. \A n \in 1..m : f[n] = at(f, n)
      BY <2>1
    <3>5. QED
      BY <3>1, <3>3, <3>4
  <2>4. g = [n \in 1..(m + 1) |-> g[n]]
    OBVIOUS
  <2> HIDE DEF g, last
  <2>5. ASSUME NEW n \in 1..(m + 1) PROVE g[n] = at(g, n)
    <3>1. n \in 1..L /\ \A l \in 1..(n - 1) : l \in 1..m
      BY <1>1, <2>2
    <3>2. \A l \in 1..(n - 1) : f[l] = g[l]
      BY <2>3, <3>1
    <3>3. at(f, n) = at(g, n)
      BY <1>3, <3>1, <3>2
    <3>4. CASE n = m + 1
      BY <2>3, <3>3, <3>4 DEF last
    <3>5. CASE n \in 1..m
      BY <2>3, <3>3, <3>5
    <3>6. QED
      BY <2>2, <3>4, <3>5
  <2>6. Upto(m + 1, g)
    BY <2>4, <2>5
  <2> HIDE DEF Upto
  <2>7. QED
    BY <2>2, <2>6
<1>7. \E f : Is(f)
  <2>1. 0..L \subseteq P
    <3> HIDE DEF P
    <3>1. QED
      BY <1>1, <1>5, <1>6, CountUp
  <2>2. L \in P
    BY <1>1, <2>1
  <2>3. QED
    BY <1>1, <2>2
<1>8. Is(values)
  BY <1>7
<1> HIDE DEF values
<1>9. values[i] = at(values, i)
  BY <1>8
<1>10. QED
  BY <1>2, <1>4, <1>9

\* What is derived is what the projection computes of each row.
LEMMA LiveDerivedIsComputed == ASSUME LiveIInv PROVE Live!DerivedIsComputed
<1> DEFINE t == Live!LastDeclared
           input == Live!InputRows(answer.lists, t)
           new == [i \in DOMAIN input |-> Live!ProjectRow(t, input[i])]
           output == Live!ListAt(data, Live!OutputPath(t))
<1>1. SUFFICES ASSUME answer # None, Len(response.transforms) = 1, Live!Declared # {},
                      Live!Projects(t), Live!HasInput(answer.lists, t)
               PROVE  /\ DOMAIN output = DOMAIN input
                      /\ \A i \in DOMAIN input, n \in DOMAIN t.fields :
                            LET f == t.fields[n]
                                values == Live!NodeValues(f.expression, input[i])
                                root == f.expression[Len(f.expression)]
                            IN  /\ f.expression # None /\ root.kind = "op" /\ Len(root.args) = 2
                                /\ \A m \in DOMAIN t.fields : t.fields[m].key = f.key => m <= n
                                => Live!Computed(root.op, values[root.args[1]], values[root.args[2]],
                                                 output[i][f.key])
  BY DEF Live!DerivedIsComputed
<1>2. /\ IsData(answer.lists) /\ IsSequence(Live!Transforms) /\ Len(Live!Transforms) = 1
      /\ data = Live!ApplyTransforms(answer.lists, Live!Transforms)
  BY <1>1, LiveAnswer
<1>3. t = Live!Transforms[1] /\ 1 \in DOMAIN Live!Transforms
  <2>1. DOMAIN Live!Transforms = {1}
    BY <1>2, LiveIsSequence
  <2>2. Live!Declared = {1}
    BY <1>1, <2>1 DEF Live!Declared, Live!Projections
  <2>3. Live!Last({1}) = 1
    BY DEF Live!Last
  <2>4. QED
    BY <2>1, <2>2, <2>3 DEF Live!LastDeclared
<1>4. output = new
  <2>1. PICK f : /\ f[0] = answer.lists /\ data = f[1]
                 /\ \A n \in 1..1 : f[n] = Live!ApplyTransform(f[n - 1], Live!Transforms[n])
    <3>1. Len(Live!Transforms) \in Nat
      BY <1>2
    <3>2. QED
      BY <1>2, <3>1, LiveTransformSteps
  <2>2. data = Live!ApplyTransform(answer.lists, t)
    BY <1>3, <2>1
  <2>3. data = Live!SetNode(answer.lists, Live!OutputPath(t), new)
    BY <1>1, <2>2 DEF Live!ApplyTransform
  <2> HIDE DEF new
  <2>4. QED
    BY <1>2, <2>3, LiveSetNode
<1>5. DOMAIN output = DOMAIN input /\ \A i \in DOMAIN input : output[i] = Live!ProjectRow(t, input[i])
  BY <1>4
<1> HIDE DEF output, input, new, t
<1>6. ASSUME NEW i \in DOMAIN input, NEW n \in DOMAIN t.fields,
             t.fields[n].expression # None,
             \A m \in DOMAIN t.fields : t.fields[m].key = t.fields[n].key => m <= n,
             NEW e, e = t.fields[n].expression, e[Len(e)].kind = "op", Len(e[Len(e)].args) = 2
      PROVE  Live!Computed(e[Len(e)].op, Live!NodeValues(e, input[i])[e[Len(e)].args[1]],
                           Live!NodeValues(e, input[i])[e[Len(e)].args[2]], output[i][t.fields[n].key])
  <2> DEFINE f == t.fields[n]
             root == e[Len(e)]
             values == Live!NodeValues(e, input[i])
  <2>1. IsSequence(t.fields) /\ IsExpression(e)
    <3>1. response \in Responses /\ t = Live!ToUiDataTransforms(response.transforms)[1]
          /\ 1 \in DOMAIN Live!ToUiDataTransforms(response.transforms)
      BY <1>3 DEF LiveIInv, Live!Transforms
    <3>2. QED
      BY <1>6, <3>1, LiveAssumption
  <2>2. Live!Last({m \in DOMAIN t.fields : t.fields[m].key = f.key}) = n
    <3> DEFINE S == {m \in DOMAIN t.fields : t.fields[m].key = f.key}
    <3>1. DOMAIN t.fields = 1..Len(t.fields) /\ Len(t.fields) \in Nat
      BY <2>1, LiveIsSequence
    <3>2. S \subseteq Int /\ n \in S /\ \A m \in S : n >= m
      BY <1>6, <3>1
    <3> HIDE DEF S
    <3>3. ASSUME NEW x \in S, \A m \in S : x >= m PROVE x = n
      <4>1. x \in Int /\ n \in Int /\ x >= n /\ n >= x
        BY <3>2, <3>3
      <4>2. QED
        BY <4>1
    <3>4. Live!Last(S) = n
      BY <3>2, <3>3 DEF Live!Last
    <3>5. QED
      BY <3>4 DEF S
  <2>3. output[i][f.key] = Live!ResolveTransformFieldValue(f, input[i])
    <3>1. f.key \in {t.fields[m].key : m \in DOMAIN t.fields}
      OBVIOUS
    <3>2. output[i] = Live!ProjectRow(t, input[i])
      BY <1>5
    <3> HIDE DEF f
    <3>3. Live!ProjectRow(t, input[i])[f.key] = Live!ResolveTransformFieldValue(t.fields[n], input[i])
      BY <2>2, <3>1 DEF Live!ProjectRow
    <3>4. QED
      BY <3>2, <3>3 DEF f
  <2>4. Live!ResolveTransformFieldValue(f, input[i]) = values[Len(e)]
    BY <1>6 DEF Live!ResolveTransformFieldValue, Live!EvaluateExpression
  <2>5. Len(e) \in DOMAIN e /\ root.args \in Seq(1..(Len(e) - 1))
    <3>1. Len(e) \in Nat /\ DOMAIN e = 1..Len(e) /\ e # <<>>
      BY <2>1, LiveIsSequence DEF IsExpression
    <3>2. PICK S : e \in Seq(S)
      BY <2>1, LiveIsSequence DEF IsExpression
    <3>3. Len(e) \in DOMAIN e
      BY <3>1, <3>2
    <3>4. QED
      BY <1>6, <2>1, <3>3 DEF IsExpression
  <2>6. values[Len(e)] = Live!Apply(root.op, [k \in DOMAIN root.args |-> values[root.args[k]]])
    <3>1. ASSUME NEW row, NEW place \in DOMAIN e, e[place].kind = "op"
          PROVE  Live!NodeValues(e, row)[place] =
                   Live!Apply(e[place].op, [k \in DOMAIN e[place].args |-> Live!NodeValues(e, row)[e[place].args[k]]])
      BY <2>1, <3>1, LiveNodeValue
    <3>2. QED
      BY <1>6, <2>5, <3>1
  <2> HIDE DEF values, root
  <2>7. [k \in DOMAIN root.args |-> values[root.args[k]]] = <<values[root.args[1]], values[root.args[2]]>>
    <3>1. DOMAIN root.args = 1..2
      BY <1>6, <2>5 DEF root
    <3>2. QED
      BY <3>1
  <2>8. output[i][f.key] = Live!Apply(root.op, <<values[root.args[1]], values[root.args[2]]>>)
    BY <2>3, <2>4, <2>6, <2>7
  <2> HIDE DEF f
  <2>9. Live!Computed(root.op, values[root.args[1]], values[root.args[2]], output[i][f.key])
    BY <2>8, LiveComputed
  <2>10. QED
    BY <2>9 DEF values, root, f
<1>7. QED
  BY <1>5, <1>6 DEF t, input, output

LEMMA LiveShows == ASSUME LiveIInv PROVE Live!LiveDataIsShown
BY LiveGivenIsShown, LiveChartsShowDerived, LiveDerivedInPlaceIsShown, LiveDerivedIsComputed
   DEF Live!LiveDataIsShown

-----------------------------------------------------------------------------
(* The whole                                                               *)

LEMMA StartIsOwn ==
    ASSUME Init
    PROVE  /\ component = "polling" => Polling!Init
           /\ component = "timer" => Timer!Init
           /\ component = "account" => Account!Init
           /\ component = "form" => Input!Init
           /\ component = "viewer" => Viewer!Init
           /\ component = "access" => Tabs!Init
           /\ component = "summary" => Summary!Init
           /\ component = "chart" => Chart!Init
           /\ component = "table" => Grid!Init
           /\ component = "values" => UiData!Init
           /\ component = "live" => Live!Init
BY DEF Init

LEMMA StepIsOwn ==
    ASSUME [Next]_vars
    PROVE  /\ component' = component
           /\ component = "polling" => [Polling!Next]_(Polling!vars)
           /\ component = "timer" => [Timer!Next]_(Timer!vars)
           /\ component = "account" => [Account!Next]_(Account!vars)
           /\ component = "form" => [Input!Next]_(Input!vars)
           /\ component = "viewer" => [Viewer!Next]_(Viewer!vars)
           /\ component = "access" => [Tabs!Next]_(Tabs!vars)
           /\ component = "summary" => [Summary!Next]_(Summary!vars)
           /\ component = "chart" => [Chart!Next]_(Chart!vars)
           /\ component = "table" => [Grid!Next]_(Grid!vars)
           /\ component = "values" => [UiData!Next]_(UiData!vars)
           /\ component = "live" => [Live!Next]_(Live!vars)
<1>1. CASE Next
  BY <1>1 DEF Next
<1>2. CASE UNCHANGED vars
  <2>1. /\ UNCHANGED component /\ UNCHANGED pollingVars /\ UNCHANGED timerVars
        /\ UNCHANGED connectionVars /\ UNCHANGED formVars /\ UNCHANGED viewerVars
        /\ UNCHANGED accessVars /\ UNCHANGED summaryVars /\ UNCHANGED chartVars
        /\ UNCHANGED tableVars /\ UNCHANGED valuesVars /\ UNCHANGED liveVars
        /\ UNCHANGED sharedVars
    BY <1>2 DEF vars
  <2>2. UNCHANGED <<summary, rows, kind, data, rendered, shown, loading, open>>
    BY <2>1 DEF sharedVars
  <2>3. UNCHANGED Polling!vars
    BY <2>1, <2>2 DEF pollingVars, Polling!vars, Polling!page
  <2>4. UNCHANGED Timer!vars
    BY <2>1, <2>2 DEF timerVars, Timer!vars, Timer!shown, Timer!clock
  <2>5. UNCHANGED Account!vars
    BY <2>1, <2>2 DEF connectionVars, Account!vars, Account!page
  <2>6. UNCHANGED Input!vars
    BY <2>1, <2>2 DEF formVars, Input!vars, Input!given
  <2>7. UNCHANGED Viewer!vars
    BY <2>1, <2>2 DEF viewerVars, Viewer!vars, Viewer!view, Viewer!hands
  <2>8. UNCHANGED Tabs!vars
    BY <2>1, <2>2 DEF accessVars, Tabs!vars, Tabs!session, Tabs!pages, Tabs!history
  <2>9. UNCHANGED Summary!vars
    BY <2>1, <2>2 DEF summaryVars, Summary!vars
  <2>10. UNCHANGED Chart!vars
    BY <2>1, <2>2 DEF chartVars, Chart!vars, Chart!picks
  <2>11. UNCHANGED Grid!vars
    BY <2>1, <2>2 DEF tableVars, Grid!vars
  <2>12. UNCHANGED UiData!vars
    BY <2>1, <2>2 DEF valuesVars, UiData!vars
  <2>13. UNCHANGED Live!vars
    BY <2>1, <2>2 DEF liveVars, Live!vars
  <2>14. QED
    BY <2>1, <2>3, <2>4, <2>5, <2>6, <2>7, <2>8, <2>9, <2>10, <2>11, <2>12, <2>13
<1>3. QED
  BY <1>1, <1>2

PollingInv == component = "polling" => PollingIInv

\* However polls, refreshes and answers overlap, a refresh turns its spinner only
\* while it is under way, and never brings an answer from before the click.
THEOREM RefreshAlwaysHonest == Spec => []RefreshIsHonest
<1>1. ASSUME Init PROVE PollingInv
  BY <1>1, StartIsOwn, PollingStart DEF PollingInv
<1>2. ASSUME PollingInv, [Next]_vars, component' = "polling" PROVE PollingIInv'
  <2>1. [Polling!Next]_(Polling!vars) /\ PollingIInv
    BY <1>2, StepIsOwn DEF PollingInv
  <2>2. QED
    BY <2>1, PollingStep
<1>3. PollingInv /\ [Next]_vars => PollingInv'
  BY <1>2 DEF PollingInv
<1>4. PollingInv => RefreshIsHonest
  BY DEF PollingInv, PollingIInv, RefreshIsHonest, Polling!RefreshIsHonest
<1>5. QED
  BY <1>1, <1>3, <1>4, PTL DEF Spec

TimerInv == component = "timer" => TimerIInv

\* However toggles, resets and deferred advances of the timer overlap, no two
\* intervals count its seconds, and the long break comes after as many sessions of
\* work as it should, unless the user interfered with an advance.
THEOREM TimerAlwaysCounts == Spec => []TimerCounts
<1>1. ASSUME Init PROVE TimerInv
  BY <1>1, StartIsOwn, TimerStart DEF TimerInv
<1>2. ASSUME TimerInv, [Next]_vars, component' = "timer" PROVE TimerIInv'
  <2>1. [Timer!Next]_(Timer!vars) /\ TimerIInv
    BY <1>2, StepIsOwn DEF TimerInv
  <2>2. QED
    BY <2>1, TimerStep
<1>3. TimerInv /\ [Next]_vars => TimerInv'
  BY <1>2 DEF TimerInv
<1>4. TimerInv => TimerCounts
  BY TimerShows DEF TimerInv, TimerCounts
<1>5. QED
  BY <1>1, <1>3, <1>4, PTL DEF Spec

AccountInv == component = "account" => AccountIInv

\* However the page's mounts, redirects and calls overlap, the settings end up
\* showing what the server has unless a call failed or went astray, and a disabled
\* button has its call still under way.
THEOREM SettingsAlwaysTrue == Spec => []SettingsAreTrue
<1>1. ASSUME Init PROVE AccountInv
  BY <1>1, StartIsOwn, AccountStart DEF AccountInv
<1>2. ASSUME AccountInv, [Next]_vars, component' = "account" PROVE AccountIInv'
  <2>1. [Account!Next]_(Account!vars) /\ AccountIInv
    BY <1>2, StepIsOwn DEF AccountInv
  <2>2. QED
    BY <2>1, AccountStep
<1>3. AccountInv /\ [Next]_vars => AccountInv'
  BY <1>2 DEF AccountInv
<1>4. AccountInv => SettingsAreTrue
  BY AccountShows DEF AccountInv, SettingsAreTrue
<1>5. QED
  BY <1>1, <1>3, <1>4, PTL DEF Spec

FormInv == component = "form" => FormIInv

\* However renders, effects, edits and resets follow one another, what the user
\* typed is lost only to the parent's renders, or in a form that lacks one of its
\* sources; and a form left alone shows what it is given.
THEOREM FormAlwaysKeepsInput == Spec => []FormKeepsInput
<1>1. ASSUME Init PROVE FormInv
  BY <1>1, StartIsOwn, FormStart DEF FormInv
<1>2. ASSUME FormInv, [Next]_vars, component' = "form" PROVE FormIInv'
  <2>1. [Input!Next]_(Input!vars) /\ FormIInv
    BY <1>2, StepIsOwn DEF FormInv
  <2>2. QED
    BY <2>1, FormStep
<1>3. FormInv /\ [Next]_vars => FormInv'
  BY <1>2 DEF FormInv
<1>4. FormInv => FormKeepsInput
  BY FormShows DEF FormInv, FormKeepsInput
<1>5. QED
  BY <1>1, <1>3, <1>4, PTL DEF Spec

ViewerInv == component = "viewer" => ViewerIInv

\* However pointers go down and up, and however the image is zoomed, dragged and
\* loaded, it stays in its frame, no gesture outlives its pointers, and a pinch of
\* two is of the two it began with; for images and zooms of any size.
THEOREM ViewerAlwaysHolds == Spec => []ViewerHolds
<1>1. ASSUME Init PROVE ViewerInv
  BY <1>1, StartIsOwn, ViewerStart DEF ViewerInv
<1>2. ASSUME ViewerInv, [Next]_vars, component' = "viewer" PROVE ViewerIInv'
  <2>1. [Viewer!Next]_(Viewer!vars) /\ ViewerIInv
    BY <1>2, StepIsOwn DEF ViewerInv
  <2>2. QED
    BY <2>1, ViewerStep
<1>3. ViewerInv /\ [Next]_vars => ViewerInv'
  BY <1>2 DEF ViewerInv
<1>4. ViewerInv => ViewerHolds
  BY ViewerShows DEF ViewerInv, ViewerHolds
<1>5. QED
  BY <1>1, <1>3, <1>4, PTL DEF Spec

AccessInv == component = "access" => AccessIInv

\* However checks, refreshes, logins, other tabs and navigations overlap, once the
\* tab is quiet it shows the account of its token, on a page that account may see
\* and that was asked for; the guards redirect at most four times after an event,
\* and each login plays at most one intro; for any number of events.
THEOREM AccessAlwaysSettles == Spec => []AccessSettles
<1>1. ASSUME Init PROVE AccessInv
  BY <1>1, StartIsOwn, AccessStart DEF AccessInv
<1>2. ASSUME AccessInv, [Next]_vars, component' = "access" PROVE AccessIInv'
  <2>1. [Tabs!Next]_(Tabs!vars) /\ AccessIInv
    BY <1>2, StepIsOwn DEF AccessInv
  <2>2. QED
    BY <2>1, AccessStep
<1>3. AccessInv /\ [Next]_vars => AccessInv'
  BY <1>2 DEF AccessInv
<1>4. AccessInv => AccessSettles
  BY AccessShows DEF AccessInv, AccessSettles
<1>5. QED
  BY <1>1, <1>3, <1>4, PTL DEF Spec

SummaryInv == component = "summary" => SummaryIInv

\* However recordings of calls overlap, replace each other's statuses and stop on the
\* way while a summary is read, its banner, components, timeline and bars tell what the
\* log and the statuses say; for any number of services and records and any lengths of
\* hours and windows.
THEOREM SummaryAlwaysTellsTheLog == Spec => []SummaryTellsTheLog
<1>1. ASSUME Init PROVE SummaryInv
  BY <1>1, StartIsOwn, SummaryStart DEF SummaryInv
<1>2. ASSUME SummaryInv, [Next]_vars, component' = "summary" PROVE SummaryIInv'
  <2>1. [Summary!Next]_(Summary!vars) /\ SummaryIInv
    BY <1>2, StepIsOwn DEF SummaryInv
  <2>2. QED
    BY <2>1, SummaryStep
<1>3. SummaryInv /\ [Next]_vars => SummaryInv'
  BY <1>2 DEF SummaryInv
<1>4. SummaryInv => SummaryTellsTheLog
  BY SummaryShows DEF SummaryInv, SummaryTellsTheLog
<1>5. QED
  BY <1>1, <1>3, <1>4, PTL DEF Spec

ChartInv == component = "chart" => ChartIInv

ChartAfter == component = "chart" => ChartForgets

LEMMA ChartInvHolds ==
    /\ Init => ChartInv
    /\ ChartInv /\ [Next]_vars => ChartInv'
<1>1. ASSUME Init PROVE ChartInv
  BY <1>1, StartIsOwn, ChartStart DEF ChartInv
<1>2. ASSUME ChartInv, [Next]_vars, component' = "chart" PROVE ChartIInv'
  <2>1. [Chart!Next]_(Chart!vars) /\ ChartIInv
    BY <1>2, StepIsOwn DEF ChartInv
  <2>2. QED
    BY <2>1, ChartStep
<1>3. QED
  BY <1>1, <1>2 DEF ChartInv

\* Whatever a chart is given and whatever is picked, reset and loaded again: its editor
\* shows what was picked in it, its bars have the colours of the editor, and none is
\* longer than the chart; for any series, points, labels, keys and colours.
THEOREM ChartsAlwaysHold == Spec => []ColorsAndBarsHold
<1>1. ChartInv => ColorsAndBarsHold
  BY ChartHolds DEF ChartInv, ColorsAndBarsHold
<1>2. QED
  BY <1>1, ChartInvHolds, PTL DEF Spec

\* A reset of the editor forgets every picked colour, and the mouse over a line chart
\* of any width shows the point nearest to it.
THEOREM ChartsAlwaysObey == Spec => ChartsObey
<1>1. ChartInv => ChartAfter
  BY ChartUnpickedForgets DEF ChartInv, ChartAfter
<1>2. ASSUME ChartInv, ChartAfter', [Next]_vars, component = "chart"
      PROVE  Chart!ResetForgets /\ Chart!NearestShown
  <2>1. ChartTypes /\ ChartForgets'
    BY <1>2, StepIsOwn DEF ChartInv, ChartIInv, ChartAfter
  <2>2. QED
    BY <2>1, ChartObeys
<1>3. ChartInv /\ ChartAfter' /\ [Next]_vars
        => [component = "chart" => Chart!ResetForgets /\ Chart!NearestShown]_vars
  BY <1>2
<1>4. QED
  BY <1>1, <1>3, ChartInvHolds, PTL DEF Spec, ChartsObey

TableInv == component = "table" => TableTypes

\* However a table is searched, sorted and paged: the rows that match are on its pages,
\* each once and no others, in the order asked for; for any table, page size and query.
THEOREM TableAlwaysShowsRows == Spec => []TableShowsRows
<1>1. ASSUME Init PROVE TableInv
  BY <1>1, StartIsOwn, TableStart DEF TableInv
<1>2. ASSUME TableInv, [Next]_vars, component' = "table" PROVE TableTypes'
  <2>1. [Grid!Next]_(Grid!vars) /\ TableTypes
    BY <1>2, StepIsOwn DEF TableInv
  <2>2. QED
    BY <2>1, TableStep
<1>3. TableInv /\ [Next]_vars => TableInv'
  BY <1>2 DEF TableInv
<1>4. TableInv => TableShowsRows
  BY TableRowsArePaged, TableSortedStably DEF TableInv, TableShowsRows, Grid!TableShowsRows
<1>5. QED
  BY <1>1, <1>3, <1>4, PTL DEF Spec

ValuesInv == component = "values" => ValuesIInv
LiveInv == component = "live" => LiveIInv

LEMMA ValuesInvHolds ==
    /\ Init => ValuesInv
    /\ ValuesInv /\ [Next]_vars => ValuesInv'
<1>1. ASSUME Init PROVE ValuesInv
  BY <1>1, StartIsOwn, ValuesStart DEF ValuesInv
<1>2. ASSUME ValuesInv, [Next]_vars, component' = "values" PROVE ValuesIInv'
  <2>1. [UiData!Next]_(UiData!vars) /\ ValuesIInv
    BY <1>2, StepIsOwn DEF ValuesInv
  <2>2. QED
    BY <2>1, ValuesSteps
<1>3. QED
  BY <1>1, <1>2 DEF ValuesInv

LEMMA LiveInvHolds ==
    /\ Init => LiveInv
    /\ LiveInv /\ [Next]_vars => LiveInv'
<1>1. ASSUME Init PROVE LiveInv
  BY <1>1, StartIsOwn, LiveStart DEF LiveInv
<1>2. ASSUME LiveInv, [Next]_vars, component' = "live" PROVE LiveIInv'
  <2>1. [Live!Next]_(Live!vars) /\ LiveIInv
    BY <1>2, StepIsOwn DEF LiveInv
  <2>2. QED
    BY <2>1, LiveSteps
<1>3. QED
  BY <1>1, <1>2 DEF LiveInv

\* A path finds what some reading of it names, and all of it that is unambiguous; the
\* renderer, the table and references find the same. The components of a source show
\* what the agent gave them until it is queried; then charts, and tables whose list was
\* replaced in its place, show the rows the agent asked to be derived, each computed as
\* it said. For documents of any shape and paths of any length, and for any components,
\* answers and projections.
THEOREM DataAlwaysFound == Spec => []DataAreFound
<1>1. ValuesInv /\ LiveInv => DataAreFound
  BY ValuesFound, LiveShows DEF ValuesInv, LiveInv, DataAreFound
<1>2. QED
  BY <1>1, ValuesInvHolds, LiveInvHolds, PTL DEF Spec

=============================================================================
