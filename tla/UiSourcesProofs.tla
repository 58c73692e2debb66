---------------------------- MODULE UiSourcesProofs ----------------------------
(***************************************************************************)
(* Proofs about UiSources, for any responses, numbers of keys, uses and    *)
(* openings, however answers, refreshes and messages are interleaved.      *)
(***************************************************************************)
EXTENDS UiSources, FiniteSetTheorems, TLAPS

\* A datum that is a page there is.
PageOk(datum) ==
    Skip(datum.args) \in Nat /\ Total(datum) \in Nat /\ Skip(datum.args) < Total(datum)

\* More arguments than these, and none of them otherwise.
Extends(more, args) == \A a \in DOMAIN args : a \in DOMAIN more /\ more[a] = args[a]

\* What a component of u sends of its own accord searches only if its source
\* always does.
ComponentFits(u, c) ==
    /\ c.key # None => c.key \in DOMAIN u.registry
    /\ Skip(c.template) = 0
    /\ "q" \in DOMAIN c.template => c.key # None /\ "q" \in DOMAIN u.registry[c.key].default
    /\ c.name = "pagination" => c.key # None
    /\ c.key # None /\ c.action # None /\ c.action \in DOMAIN u.actions =>
           u.actions[c.action].source \in {u.registry[c.key].id, None}

ActionFits(u, a) ==
    /\ Skip(a.args) = 0
    /\ "q" \in DOMAIN a.args =>
           /\ \E k \in DOMAIN u.registry : u.registry[k].id = a.source
           /\ \A k \in DOMAIN u.registry :
                 u.registry[k].id = a.source /\ Solo(u, k) => "q" \in DOMAIN u.registry[k].default

IsSource(s) ==
    DOMAIN s = {"id", "handler", "default", "last", "refresh", "fetched", "strays", "mixed"}

IsUi(u) == DOMAIN u = {"instance", "components", "registry", "data", "actions"}

IsLoop(l) == DOMAIN l = {"instance", "sources", "queue", "cancelled"}

\* What does not change about a UI.
WellBuilt(u) ==
    /\ IsUi(u) /\ \A k \in DOMAIN u.registry : IsSource(u.registry[k])
    /\ DOMAIN u.registry \subseteq Nat /\ DOMAIN u.data = DOMAIN u.registry
    /\ u.instance \in {1, 2}
    /\ \A k \in DOMAIN u.registry : /\ Skip(u.registry[k].default) = 0
                                    /\ Over(u.registry[k].default, u.registry[k].default) = u.registry[k].default
                                    /\ Entries[u.registry[k].handler] \in Nat \ {0}
                                    /\ u.registry[k].mixed \in BOOLEAN /\ u.registry[k].id # None
    /\ \A j, k \in DOMAIN u.registry :
          u.registry[j].id = u.registry[k].id => u.registry[j].handler = u.registry[k].handler
    /\ \A c \in u.components : ComponentFits(u, c)
    /\ \A id \in DOMAIN u.actions : ActionFits(u, u.actions[id])

Foreign == {"ui", "handler"}

\* ShownIsAnswered of one UI; and a source that is not mixed shows its own handler's.
Answered(u) ==
    \A k \in DOMAIN u.registry :
        LET source == u.registry[k]
        IN  /\ Extends(u.data[k].args, source.last)
            /\ source.strays = {} => u.data[k].args = Over(source.last, source.default)
            /\ source.strays \cap Foreign = {} => u.data[k].handler = source.handler
            /\ ~source.mixed => source.strays \cap Foreign = {}

\* PageExists of one UI; and what it was built with is always asked for again.
Paged(u) ==
    \A k \in DOMAIN u.registry : Solo(u, k) /\ ~u.registry[k].mixed =>
        /\ PageOk(u.data[k])
        /\ DOMAIN u.registry[k].default \subseteq DOMAIN u.registry[k].last

Good(u) == WellBuilt(u) /\ Answered(u) /\ Paged(u)

UisAreGood == \A m \in Messages : ui[m] # None => Good(ui[m])

\* Which UI is the conversation's.
ConversationUiIsShown ==
    /\ phase = "none" => conversationUi = ui[1] /\ ui[2] = None
    /\ phase = "done" => conversationUi = ui[2]
    /\ phase \in {"pending", "failed"} =>
           conversationUi = ui[2] \/ (ui[2] = None /\ conversationUi = ui[1])

\* The second instance comes with the second message's answer.
InstancesInTurn ==
    /\ ui[1] # None => ui[1].instance = 1
    /\ ui[2] # None => ui[2].instance = (IF phase = "done" THEN 2 ELSE 1)
    /\ phase # "done" => \A x \in requests \cup loops : x.instance = 1

Current(x) == conversationUi # None /\ x.instance = conversationUi.instance

\* The source of a request is the one its key has, or one the UI has if its key is
\* another UI's.
IsTarget(u, r, t) ==
    /\ t \in DOMAIN u.registry
    /\ u.registry[t].id = r.source.id /\ u.registry[t].handler = r.source.handler
    /\ u.registry[t].default = r.source.default
    /\ r.key \in DOMAIN u.registry \/ r.own => r.key = t

\* What a request of the present UI will patch in, fits in.
RequestFits(r) ==
    Current(r) /\ r.source # None =>
        LET u == conversationUi
        IN  /\ \E t \in DOMAIN u.registry : IsTarget(u, r, t)
            /\ ~r.query => \A k \in DOMAIN u.registry :
                   u.registry[k].id = r.action.source => u.registry[k].id = r.source.id
            /\ r.own /\ ~u.registry[r.key].mixed /\ Solo(u, r.key) /\ Handler(r) = r.source.handler =>
                /\ PageOk(Datum(r))
                /\ DOMAIN r.source.default \subseteq DOMAIN r.requestArgs

\* What a source is asked again.
Again(source) == [handler |-> source.handler, args |-> Over(source.last, source.default)]

\* So does what a loop over its sources brings.
LoopFits(l) ==
    /\ IsLoop(l) /\ l.queue # {} /\ l.queue \subseteq DOMAIN l.sources /\ DOMAIN l.sources \subseteq Nat
    /\ Current(l) =>
        /\ DOMAIN l.sources = DOMAIN conversationUi.registry
        /\ \A k \in DOMAIN l.sources :
            LET source == conversationUi.registry[k]
            IN  /\ l.sources[k].handler = source.handler /\ l.sources[k].default = source.default
                /\ ~source.mixed /\ Solo(conversationUi, k) =>
                    /\ PageOk(Again(l.sources[k]))
                    /\ DOMAIN source.default \subseteq DOMAIN l.sources[k].last

RequestsFit == \A r \in requests : RequestFits(r) /\ r.own \in BOOLEAN /\ r.instance \in {1, 2}

LoopsFit == \A l \in loops : LoopFits(l) /\ l.instance \in {1, 2}

Bounds ==
    /\ phase \in {"none", "pending", "done", "failed"}
    /\ active \in BOOLEAN /\ effectDue \in BOOLEAN
    /\ clicks \in 0..MaxClicks /\ visits \in 0..MaxVisits
    /\ \A r \in requests : r.number \in 0..MaxClicks
    /\ ui = [m \in Messages |-> ui[m]]

IInv == /\ Bounds /\ UisAreGood /\ ConversationUiIsShown /\ InstancesInTurn
        /\ RequestsFit /\ LoopsFit

-----------------------------------------------------------------------------
(* The operators                                                           *)

LEMMA OverHas ==
    ASSUME NEW f, NEW g
    PROVE  /\ DOMAIN Over(f, g) = DOMAIN f \cup DOMAIN g
           /\ \A x \in DOMAIN f : Over(f, g)[x] = f[x]
           /\ \A x \in DOMAIN g : x \notin DOMAIN f => Over(f, g)[x] = g[x]
BY DEF Over

LEMMA OverExtends == ASSUME NEW f, NEW g PROVE Extends(Over(f, g), f)
BY DEF Over, Extends

LEMMA OverItself == ASSUME NEW f, NEW g PROVE Over(Over(f, g), Over(f, g)) = Over(f, g)
<1> DEFINE h == Over(f, g)
<1>1. h = [x \in DOMAIN h |-> h[x]]
  BY DEF Over
<1>2. Over(h, h) = [x \in DOMAIN h |-> h[x]]
  BY DEF Over
<1>3. QED
  BY <1>1, <1>2

LEMMA OverSkips ==
    ASSUME NEW f, NEW g
    PROVE  /\ "skip" \in DOMAIN f => Skip(Over(f, g)) = Skip(f)
           /\ "skip" \notin DOMAIN f => Skip(Over(f, g)) = Skip(g)
BY DEF Over, Skip

LEMMA OverSearches ==
    ASSUME NEW f, NEW g
    PROVE  "q" \in DOMAIN Over(f, g) <=> "q" \in DOMAIN f \/ "q" \in DOMAIN g
BY DEF Over

LEMMA OverStarts ==
    ASSUME NEW f, NEW g, Skip(f) = 0, Skip(g) = 0 PROVE Skip(Over(f, g)) = 0
BY OverSkips

LEMMA FirstPageOk ==
    ASSUME NEW datum, Skip(datum.args) = 0, Entries[datum.handler] \in Nat \ {0} PROVE PageOk(datum)
BY DEF PageOk, Total

LEMMA MinIsFirst ==
    ASSUME NEW S, S \subseteq Nat, S # {} PROVE Min(S) \in S /\ \A x \in S : Min(S) <= x
<1>1. PICK t \in S : \A y \in S : <<y, t>> \notin OpToRel(<, Nat)
  BY NatLessThanWellFounded, WFMin
<1>2. \A y \in S : t <= y
  <2>1. \A y \in Nat : y < t => <<y, t>> \in OpToRel(<, Nat)
    BY DEF OpToRel
  <2>2. SUFFICES ASSUME NEW y \in S PROVE t <= y
    OBVIOUS
  <2>3. y \in Nat /\ t \in Nat
    OBVIOUS
  <2>4. ~(y < t)
    BY <1>1, <2>1
  <2>5. QED
    BY <2>3, <2>4
<1>3. QED
  BY <1>2 DEF Min

LEMMA MinIsOnly == ASSUME NEW x \in Nat PROVE Min({x}) = x
BY MinIsFirst

-----------------------------------------------------------------------------
(* Building a UI                                                           *)

LEMMA NumbersAscend ==
    ASSUME NEW response \in Responses, NEW i \in Firsts(response), NEW j \in Firsts(response), i < j
    PROVE  Number(response, i) < Number(response, j)
<1> DEFINE UpTo(n) == {f \in Firsts(response) : f <= n}
<1>1. Firsts(response) \subseteq Nat /\ IsFiniteSet(Firsts(response))
  BY ConstantsAssumption, FS_Subset DEF Firsts
<1>2. IsFiniteSet(UpTo(j)) /\ UpTo(j) \subseteq Firsts(response)
  BY <1>1, FS_Subset
<1>3. UpTo(i) \in SUBSET UpTo(j) /\ j \in UpTo(j) /\ j \notin UpTo(i)
  BY <1>1
<1>4. Cardinality(UpTo(i)) <= Cardinality(UpTo(j)) /\ Cardinality(UpTo(i)) # Cardinality(UpTo(j))
  BY <1>2, <1>3, FS_Subset
<1>5. Cardinality(UpTo(i)) \in Nat /\ Cardinality(UpTo(j)) \in Nat
  BY <1>2, <1>3, FS_Subset, FS_CardinalityType
<1>6. QED
  BY <1>4, <1>5 DEF Number

LEMMA NumberIsNat ==
    ASSUME NEW response \in Responses, NEW i \in Firsts(response) PROVE Number(response, i) \in Nat
<1>1. IsFiniteSet(Firsts(response))
  BY ConstantsAssumption, FS_Subset DEF Firsts
<1>2. IsFiniteSet({j \in Firsts(response) : j <= i})
  BY <1>1, FS_Subset
<1>3. QED
  BY <1>2, FS_CardinalityType DEF Number

\* Each key is that of some component.
LEMMA KeysAreSignatures ==
    ASSUME NEW response \in Responses, NEW k \in DOMAIN Keys(response)
    PROVE  /\ k \in Nat
           /\ \E i \in Firsts(response) :
                k = Number(response, i) /\ Keys(response)[k] = Signature(response, response.components[i])
<1> DEFINE i == CHOOSE i \in Firsts(response) : Number(response, i) = k
<1>1. PICK j \in Firsts(response) : k = Number(response, j)
  BY DEF Keys
<1>2. i \in Firsts(response) /\ Number(response, i) = k
  BY <1>1
<1>3. Keys(response)[k] = Signature(response, response.components[i])
  BY <1>1 DEF Keys
<1>4. QED
  BY <1>1, <1>2, <1>3, NumberIsNat

\* Each component with a source has its key.
LEMMA ComponentsHaveKeys ==
    ASSUME NEW response \in Responses, NEW c \in ToSet(response.components), c.source # None
    PROVE  /\ KeyOf(response, c) \in DOMAIN Keys(response)
           /\ Keys(response)[KeyOf(response, c)] = Signature(response, c)
<1> DEFINE D == DOMAIN response.components
           Signed(j) == Signature(response, response.components[j])
           Same == {j \in D : response.components[j].source # None /\ Signed(j) = Signature(response, c)}
<1>1. PICK n \in D : response.components[n] = c
  BY DEF ToSet
<1>2. D \subseteq Nat /\ Same \subseteq Nat /\ n \in Same
  BY <1>1, ConstantsAssumption
<1> DEFINE f == Min(Same)
<1>3. f \in Same /\ \A j \in Same : f <= j
  BY <1>2, MinIsFirst
<1> HIDE DEF f
<1>4. f \in Firsts(response)
  <2>1. SUFFICES ASSUME NEW j \in D, j < f, response.components[j].source # None
                 PROVE  Signed(j) # Signed(f)
    BY <1>3 DEF Firsts
  <2>2. j \notin Same
    BY <1>2, <1>3, <2>1
  <2>3. QED
    BY <2>1, <2>2, <1>3
<1> DEFINE k == Number(response, f)
<1>5. k \in DOMAIN Keys(response)
  BY <1>4 DEF Keys
<1>6. PICK i \in Firsts(response) : k = Number(response, i) /\ Keys(response)[k] = Signed(i)
  BY <1>5, KeysAreSignatures
<1>7. i = f
  <2>1. i \in Nat /\ f \in Nat
    BY <1>2, <1>4 DEF Firsts
  <2>2. Number(response, i) \in Nat /\ Number(response, f) \in Nat
    BY <1>4, NumberIsNat
  <2>3. ~(i < f) /\ ~(f < i)
    BY <1>4, <1>6, <2>2, NumbersAscend
  <2>4. QED
    BY <2>1, <2>3
<1>8. Keys(response)[k] = Signature(response, c)
  BY <1>3, <1>6, <1>7
<1>9. QED
  BY <1>5, <1>8 DEF KeyOf

\* The actions inferred for a component have the arguments of its source.
LEMMA ActionsAreDeclaredOrInferred ==
    ASSUME NEW response \in Responses, NEW id \in DOMAIN Actions(response),
           id \notin DOMAIN response.actions
    PROVE  \E c \in ToSet(response.components) :
              /\ c.source # None
              /\ Actions(response)[id].source = c.source
              /\ Actions(response)[id].args = SourceArgs(response, c)
<1> DEFINE D == DOMAIN response.components
           C(i) == response.components[i]
           Inferring == {i \in D : InferredAction(C(i)) # None}
           Infer(i) == [source |-> C(i).source, handler |-> response.sources[C(i).source].handler,
                        args |-> SourceArgs(response, C(i)), refreshes |-> {}]
           Ids == {InferredAction(C(i)) : i \in Inferring}
           Same == {i \in Inferring : InferredAction(C(i)) = id}
           Inferred == [x \in Ids |-> Infer(Min({i \in Inferring : InferredAction(C(i)) = x}))]
<1>1. Actions(response) = Over(response.actions, Inferred)
  BY DEF Actions
<1>2. id \in Ids /\ Actions(response)[id] = Infer(Min(Same))
  BY <1>1 DEF Over
<1>3. Same \subseteq Nat /\ Same # {}
  BY <1>2, ConstantsAssumption
<1>4. Min(Same) \in Same
  BY <1>3, MinIsFirst
<1>5. C(Min(Same)) \in ToSet(response.components) /\ InferredAction(C(Min(Same))) # None
  BY <1>4 DEF ToSet
<1>6. C(Min(Same)).source # None
  BY <1>5 DEF InferredAction
<1> DEFINE c == C(Min(Same))
<1>7. c \in ToSet(response.components) /\ c.source # None
  BY <1>5, <1>6
<1>8. Actions(response)[id].source = c.source /\ Actions(response)[id].args = SourceArgs(response, c)
  BY <1>2
<1> HIDE DEF c
<1>9. QED
  BY <1>7, <1>8

LEMMA BuiltIsGood ==
    ASSUME NEW response \in Responses, NEW m \in Messages, BuildUi(response, m) # None
    PROVE  LET u == BuildUi(response, m) IN
           WellBuilt(u) /\ Answered(u) /\ Paged(u) /\ u.instance = m
<1> DEFINE u == BuildUi(response, m)
           K == DOMAIN Keys(response)
           Component(c) == [name |-> c.name, key |-> IF Bound(c) THEN KeyOf(response, c) ELSE None,
                            says |-> DataSourceId(c), action |-> ActionOf(c), type |-> ActionType(c),
                            template |-> EnsurePayloadTemplate(response, c)]
           HandlerOf(k) == response.sources[Keys(response)[k][1]].handler
<1>1. u = [instance |-> m,
           components |-> {Component(c) : c \in ToSet(response.components)},
           registry |-> [k \in K |-> ToUiDataSourceState(response, Keys(response)[k])],
           data |-> [k \in K |-> [handler |-> HandlerOf(k), args |-> Keys(response)[k][2]]],
           actions |-> Actions(response)]
  BY DEF BuildUi
<1>2. IsUi(u) /\ DOMAIN u.registry = K /\ DOMAIN u.data = K /\ u.instance = m
      /\ u.actions = Actions(response)
      /\ u.components = {Component(c) : c \in ToSet(response.components)}
  BY <1>1 DEF IsUi
<1>3. ASSUME NEW k \in K
      PROVE  /\ IsSource(u.registry[k])
             /\ u.registry[k].id = Keys(response)[k][1] /\ u.registry[k].default = Keys(response)[k][2]
             /\ u.registry[k].last = Keys(response)[k][2] /\ u.registry[k].handler = HandlerOf(k)
             /\ u.registry[k].strays = {} /\ u.registry[k].mixed = FALSE
             /\ u.data[k].handler = HandlerOf(k) /\ u.data[k].args = Keys(response)[k][2]
  BY SMTT(60), <1>1, <1>3 DEF IsSource, ToUiDataSourceState
<1>h. ASSUME NEW k \in K PROVE HandlerOf(k) = response.sources[Keys(response)[k][1]].handler
  OBVIOUS
<1> HIDE DEF HandlerOf, u
<1>4. ASSUME NEW k \in K
      PROVE  /\ k \in Nat /\ Skip(Keys(response)[k][2]) = 0
             /\ Keys(response)[k][1] \in DOMAIN response.sources /\ Keys(response)[k][1] # None
             /\ Over(Keys(response)[k][2], Keys(response)[k][2]) = Keys(response)[k][2]
  <2>1. PICK i \in Firsts(response) : Keys(response)[k] = Signature(response, response.components[i])
    BY <1>4, KeysAreSignatures
  <2>2. response.components[i] \in ToSet(response.components) /\ response.components[i].source # None
    BY DEF Firsts, ToSet
  <2>3. Skip(SourceArgs(response, response.components[i])) = 0
    BY <2>2, PagingAssumption
  <2>4. response.components[i].source \in DOMAIN response.sources /\ response.components[i].source # None
    BY <2>2, ConstantsAssumption DEF Firsts
  <2>5. Over(SourceArgs(response, response.components[i]), SourceArgs(response, response.components[i]))
            = SourceArgs(response, response.components[i])
    BY OverItself DEF SourceArgs
  <2>6. QED
    BY <1>4, <2>1, <2>3, <2>4, <2>5, KeysAreSignatures DEF Signature
<1>5. ASSUME NEW c \in ToSet(response.components), c.source # None
      PROVE  /\ KeyOf(response, c) \in K /\ KeyOf(response, c) # None
             /\ u.registry[KeyOf(response, c)].id = c.source
             /\ u.registry[KeyOf(response, c)].default = SourceArgs(response, c)
  <2>1. KeyOf(response, c) \in K /\ Keys(response)[KeyOf(response, c)] = Signature(response, c)
    BY <1>5, ComponentsHaveKeys
  <2>2. KeyOf(response, c) # None
    BY <2>1, <1>4, ConstantsAssumption
  <2>3. /\ u.registry[KeyOf(response, c)].id = Keys(response)[KeyOf(response, c)][1]
        /\ u.registry[KeyOf(response, c)].default = Keys(response)[KeyOf(response, c)][2]
    BY <1>3, <2>1
  <2>4. QED
    BY <2>1, <2>2, <2>3 DEF Signature
<1> HIDE DEF K
<1>6. ASSUME NEW c \in ToSet(response.components) PROVE ComponentFits(u, Component(c))
  <2>1. Skip(c.payload) = 0 /\ "q" \notin DOMAIN c.payload /\ (c.name = "pagination" => Bound(c))
    BY <1>6, PagingAssumption
  <2>2. CASE ~Bound(c)
    <3>1. EnsurePayloadTemplate(response, c) = c.payload /\ Component(c).key = None
      BY <2>2 DEF EnsurePayloadTemplate
    <3>2. QED
      BY <2>1, <2>2, <3>1 DEF ComponentFits
  <2>3. CASE Bound(c)
    <3>0. c.source # None /\ Component(c).key = KeyOf(response, c)
      BY <2>3 DEF Bound
    <3>1. EnsurePayloadTemplate(response, c) = Over(SourceArgs(response, c), c.payload)
      BY <2>3 DEF EnsurePayloadTemplate
    <3>2. Skip(SourceArgs(response, c)) = 0
      BY <3>0, <1>6, PagingAssumption
    <3>3. Skip(EnsurePayloadTemplate(response, c)) = 0
      BY <3>1, <3>2, <2>1, OverStarts
    <3>4. "q" \in DOMAIN EnsurePayloadTemplate(response, c) => "q" \in DOMAIN SourceArgs(response, c)
      BY <3>1, <2>1, OverSearches
    <3>5. ActionOf(c) \in DOMAIN Actions(response) =>
              Actions(response)[ActionOf(c)].source \in {c.source, None}
      BY <2>3, <1>6, PagingAssumption
    <3>6. QED
      BY <1>2, <1>5, <3>0, <3>3, <3>4, <3>5 DEF ComponentFits
  <2>4. QED
    BY <2>2, <2>3
<1>7. ASSUME NEW id \in DOMAIN Actions(response) PROVE ActionFits(u, Actions(response)[id])
  <2>1. CASE id \in DOMAIN response.actions
    <3>1. Actions(response)[id] = response.actions[id]
      BY <2>1 DEF Actions, Over
    <3>2. Skip(response.actions[id].args) = 0 /\ "q" \notin DOMAIN response.actions[id].args
      BY <2>1, PagingAssumption
    <3>3. QED
      BY <3>1, <3>2 DEF ActionFits
  <2>2. CASE id \notin DOMAIN response.actions
    <3>1. PICK c \in ToSet(response.components) :
              /\ c.source # None
              /\ Actions(response)[id].source = c.source
              /\ Actions(response)[id].args = SourceArgs(response, c)
      BY <1>7, <2>2, ActionsAreDeclaredOrInferred
    <3>2. Skip(SourceArgs(response, c)) = 0
      BY <3>1, PagingAssumption
    <3>3. ASSUME NEW k \in DOMAIN u.registry, u.registry[k].id = c.source, Solo(u, k)
          PROVE  u.registry[k].default = SourceArgs(response, c)
      <4>1. KeyOf(response, c) = k
        BY <1>2, <1>5, <3>1, <3>3 DEF Solo
      <4>2. QED
        BY <1>5, <3>1, <4>1
    <3>4. KeyOf(response, c) \in DOMAIN u.registry /\ u.registry[KeyOf(response, c)].id = c.source
      BY <1>2, <1>5, <3>1
    <3>5. QED
      BY <3>1, <3>2, <3>3, <3>4 DEF ActionFits
  <2>3. QED
    BY <2>1, <2>2
<1>8. WellBuilt(u)
  <2>1. ASSUME NEW k \in DOMAIN u.registry
        PROVE  IsSource(u.registry[k]) /\ Skip(u.registry[k].default) = 0 /\ k \in Nat
    <3>1. k \in K
      BY <1>2, <2>1
    <3>2. IsSource(u.registry[k]) /\ u.registry[k].default = Keys(response)[k][2]
      BY <1>3, <3>1
    <3>3. QED
      BY <1>4, <3>1, <3>2
  <2>2. \A c \in u.components : ComponentFits(u, c)
    BY <1>2, <1>6
  <2>3. \A id \in DOMAIN u.actions : ActionFits(u, u.actions[id])
    BY <1>2, <1>7
  <2>4. ASSUME NEW k \in DOMAIN u.registry
        PROVE  /\ Entries[u.registry[k].handler] \in Nat \ {0} /\ u.registry[k].mixed \in BOOLEAN
               /\ u.registry[k].id # None
               /\ Over(u.registry[k].default, u.registry[k].default) = u.registry[k].default
    <3>1. k \in K
      BY <1>2
    <3>2. Entries[HandlerOf(k)] \in Nat \ {0}
      BY <1>h, <1>4, <3>1, ConstantsAssumption
    <3>3. QED
      BY <1>3, <1>4, <3>1, <3>2
  <2>5. ASSUME NEW j \in DOMAIN u.registry, NEW k \in DOMAIN u.registry, u.registry[j].id = u.registry[k].id
        PROVE  u.registry[j].handler = u.registry[k].handler
    <3>1. j \in K /\ k \in K
      BY <1>2
    <3>2. HandlerOf(j) = HandlerOf(k)
      <4>1. Keys(response)[j][1] = Keys(response)[k][1]
        BY <1>3, <2>5, <3>1
      <4>2. QED
        BY <1>h, <3>1, <4>1
    <3>3. QED
      BY <1>3, <3>1, <3>2
  <2> HIDE DEF Component
  <2>6. DOMAIN u.registry \subseteq Nat /\ DOMAIN u.data = DOMAIN u.registry /\ u.instance \in {1, 2} /\ IsUi(u)
    BY <1>2, <2>1 DEF Messages
  <2>7. QED
    BY <2>1, <2>2, <2>3, <2>4, <2>5, <2>6 DEF WellBuilt
<1>9. Answered(u)
  <2>1. ASSUME NEW k \in DOMAIN u.registry
        PROVE  u.data[k].args = Over(u.registry[k].last, u.registry[k].default)
    <3>1. k \in K
      BY <1>2, <2>1
    <3>2. QED
      BY <1>3, <1>4, <3>1
  <2>2. ASSUME NEW k \in DOMAIN u.registry PROVE Extends(u.data[k].args, u.registry[k].last)
    BY <1>2, <1>3, <2>2 DEF Extends
  <2>3. QED
    BY <1>2, <1>3, <2>1, <2>2 DEF Answered
<1>10. Paged(u)
  <2>1. ASSUME NEW k \in DOMAIN u.registry PROVE PageOk(u.data[k])
    <3>0. k \in K
      BY <1>2, <2>1
    <3>1. Entries[u.data[k].handler] \in Nat \ {0} /\ Skip(u.data[k].args) = 0
      <4>1. u.data[k].handler = HandlerOf(k) /\ u.data[k].args = Keys(response)[k][2]
        BY <1>3, <3>0
      <4>2. Entries[HandlerOf(k)] \in Nat \ {0}
        BY <1>h, <1>4, <3>0, ConstantsAssumption
      <4>3. QED
        BY <1>4, <3>0, <4>1, <4>2
    <3>2. QED
      BY <3>1, FirstPageOk
  <2>2. QED
    BY <1>2, <1>3, <2>1 DEF Paged
<1>11. QED
  BY <1>2, <1>8, <1>9, <1>10 DEF u

-----------------------------------------------------------------------------
(* Patching a UI                                                           *)

\* v is u with other data.
SameShape(v, u) ==
    /\ IsUi(v) /\ v.instance = u.instance /\ v.components = u.components /\ v.actions = u.actions
    /\ DOMAIN v.registry = DOMAIN u.registry /\ DOMAIN v.data = DOMAIN u.registry
    /\ \A k \in DOMAIN u.registry :
          /\ IsSource(v.registry[k])
          /\ v.registry[k].id = u.registry[k].id /\ v.registry[k].default = u.registry[k].default
          /\ v.registry[k].handler = u.registry[k].handler
          /\ v.registry[k].mixed \in BOOLEAN /\ (u.registry[k].mixed => v.registry[k].mixed)

LEMMA ShapeKeepsSolo ==
    ASSUME NEW u, NEW v, SameShape(v, u), NEW k \in DOMAIN u.registry PROVE Solo(v, k) <=> Solo(u, k)
BY DEF SameShape, Solo

LEMMA ShapeKeepsBuild == ASSUME NEW u, NEW v, WellBuilt(u), SameShape(v, u) PROVE WellBuilt(v)
<1>1. ASSUME NEW c \in v.components PROVE ComponentFits(v, c)
  BY <1>1 DEF WellBuilt, SameShape, ComponentFits
<1>2. ASSUME NEW id \in DOMAIN v.actions PROVE ActionFits(v, v.actions[id])
  <2>1. ActionFits(u, v.actions[id])
    BY <1>2 DEF WellBuilt, SameShape
  <2>2. QED
    BY <2>1, ShapeKeepsSolo DEF ActionFits, SameShape
<1>3. QED
  BY <1>1, <1>2 DEF WellBuilt, SameShape

\* v is u with the datum D[k] for the arguments A[k] at each of the keys.
Patches(v, u, keys, D, A, S, own) ==
    /\ IsUi(v) /\ v.instance = u.instance /\ v.components = u.components /\ v.actions = u.actions
    /\ DOMAIN v.registry = DOMAIN u.registry /\ DOMAIN v.data = DOMAIN u.registry
    /\ \A k \in DOMAIN u.registry : k \notin keys =>
          v.registry[k] = u.registry[k] /\ v.data[k] = u.data[k]
    /\ \A k \in DOMAIN u.registry : k \in keys =>
          /\ IsSource(v.registry[k]) /\ v.registry[k].id = u.registry[k].id
          /\ v.registry[k].default = u.registry[k].default
          /\ v.registry[k].handler = u.registry[k].handler
          /\ v.registry[k].last = A[k] /\ v.registry[k].strays = S[k] /\ v.data[k] = D[k]
          /\ v.registry[k].mixed = (u.registry[k].mixed \/ ~own \/ S[k] \cap Foreign # {})

\* An answer that fits the source with key k.
FitsKey(u, k, datum, args, why, own) ==
    /\ Extends(datum.args, args)
    /\ why = {} => datum.args = Over(args, u.registry[k].default)
    /\ why \cap Foreign = {} => datum.handler = u.registry[k].handler
    /\ own /\ why \cap Foreign = {} /\ ~u.registry[k].mixed /\ Solo(u, k) =>
          PageOk(datum) /\ DOMAIN u.registry[k].default \subseteq DOMAIN args

LEMMA PatchedIsGood ==
    ASSUME NEW u, Good(u), NEW v, NEW keys, NEW D, NEW A, NEW S, NEW own \in BOOLEAN,
           Patches(v, u, keys, D, A, S, own),
           \A k \in DOMAIN u.registry : k \in keys => FitsKey(u, k, D[k], A[k], S[k], own)
    PROVE  SameShape(v, u) /\ Good(v)
<1> DEFINE K == DOMAIN u.registry
<1>1. WellBuilt(u) /\ Answered(u) /\ Paged(u)
  BY DEF Good
<1>2. SameShape(v, u)
  <2>1. ASSUME NEW k \in K
        PROVE  /\ IsSource(v.registry[k])
               /\ v.registry[k].id = u.registry[k].id /\ v.registry[k].default = u.registry[k].default
               /\ v.registry[k].handler = u.registry[k].handler
               /\ v.registry[k].mixed \in BOOLEAN /\ (u.registry[k].mixed => v.registry[k].mixed)
    <3>1. IsSource(u.registry[k]) /\ u.registry[k].mixed \in BOOLEAN
      BY <1>1 DEF WellBuilt
    <3>2. CASE k \in keys
      BY <3>1, <3>2 DEF Patches
    <3>3. CASE k \notin keys
      BY <3>1, <3>3 DEF Patches
    <3>4. QED
      BY <3>2, <3>3
  <2>2. QED
    BY <2>1 DEF Patches, SameShape
<1>3. Answered(v)
  <2>1. SUFFICES ASSUME NEW k \in K
                 PROVE  /\ Extends(v.data[k].args, v.registry[k].last)
                        /\ v.registry[k].strays = {} =>
                              v.data[k].args = Over(v.registry[k].last, v.registry[k].default)
                        /\ v.registry[k].strays \cap Foreign = {} => v.data[k].handler = v.registry[k].handler
                        /\ ~v.registry[k].mixed => v.registry[k].strays \cap Foreign = {}
    BY <1>2 DEF Answered, SameShape
  <2>2. CASE k \in keys
    <3>1. FitsKey(u, k, D[k], A[k], S[k], own)
      BY <2>2
    <3>2. QED
      BY <2>2, <3>1 DEF Patches, FitsKey
  <2>3. CASE k \notin keys
    BY <1>1, <2>3 DEF Patches, Answered
  <2>4. QED
    BY <2>2, <2>3
<1>4. Paged(v)
  <2>1. SUFFICES ASSUME NEW k \in K, Solo(v, k), ~v.registry[k].mixed
                 PROVE  PageOk(v.data[k]) /\ DOMAIN v.registry[k].default \subseteq DOMAIN v.registry[k].last
    BY <1>2 DEF Paged, SameShape
  <2>2. Solo(u, k)
    BY <1>2, <2>1, ShapeKeepsSolo
  <2>3. CASE k \in keys
    <3>1. FitsKey(u, k, D[k], A[k], S[k], own)
      BY <2>3
    <3>2. QED
      BY <2>1, <2>2, <2>3, <3>1 DEF Patches, FitsKey
  <2>4. CASE k \notin keys
    BY <1>1, <2>1, <2>2, <2>4 DEF Patches, Paged
  <2>5. QED
    BY <2>3, <2>4
<1>5. QED
  BY <1>1, <1>2, <1>3, <1>4, ShapeKeepsBuild DEF Good

\* Patching sets the data, and the history with it.
LEMMA MarkedPatches ==
    ASSUME NEW u, WellBuilt(u), NEW keys, keys \subseteq DOMAIN u.registry, NEW D, NEW A,
           NEW S, DOMAIN S = keys, NEW own, NEW w, IsUi(w),
           w.instance = u.instance, w.components = u.components, w.actions = u.actions,
           w.data = [k \in DOMAIN u.registry |-> IF k \in keys THEN D[k] ELSE u.data[k]],
           w.registry = [k \in DOMAIN u.registry |-> IF k \in keys
                            THEN [u.registry[k] EXCEPT !.last = A[k], !.fetched = TRUE]
                            ELSE u.registry[k]]
    PROVE  Patches(MarkStrays(w, S, own), u, keys, D, A, S, own)
<1> DEFINE K == DOMAIN u.registry
           v == MarkStrays(w, S, own)
<1>1. DOMAIN w.registry = K /\ DOMAIN w.data = K
  OBVIOUS
<1>2. /\ IsUi(v) /\ v.instance = u.instance /\ v.components = u.components /\ v.actions = u.actions
      /\ v.data = w.data
      /\ v.registry = [k \in K |-> IF k \in keys
             THEN [w.registry[k] EXCEPT !.strays = S[k],
                      !.mixed = w.registry[k].mixed \/ ~own \/ S[k] \cap {"ui", "handler"} # {}]
             ELSE w.registry[k]]
  BY <1>1 DEF MarkStrays, IsUi
<1> HIDE DEF v
<1>3. ASSUME NEW k \in K, k \notin keys PROVE v.registry[k] = u.registry[k] /\ v.data[k] = u.data[k]
  <2>1. v.registry[k] = w.registry[k]
    BY <1>2, <1>3
  <2>2. w.registry[k] = u.registry[k] /\ w.data[k] = u.data[k]
    BY <1>3
  <2>3. QED
    BY <1>2, <2>1, <2>2
<1>4. ASSUME NEW k \in K, k \in keys
      PROVE  /\ IsSource(v.registry[k]) /\ v.registry[k].id = u.registry[k].id
             /\ v.registry[k].default = u.registry[k].default
             /\ v.registry[k].handler = u.registry[k].handler
             /\ v.registry[k].last = A[k] /\ v.registry[k].strays = S[k] /\ v.data[k] = D[k]
             /\ v.registry[k].mixed = (u.registry[k].mixed \/ ~own \/ S[k] \cap Foreign # {})
  <2>1. IsSource(u.registry[k])
    BY <1>4 DEF WellBuilt
  <2>2. w.registry[k] = [u.registry[k] EXCEPT !.last = A[k], !.fetched = TRUE]
    BY <1>4
  <2>3. v.registry[k] = [w.registry[k] EXCEPT !.strays = S[k],
                      !.mixed = w.registry[k].mixed \/ ~own \/ S[k] \cap {"ui", "handler"} # {}]
    BY <1>2, <1>4
  <2>4. w.data[k] = D[k]
    BY <1>4
  <2> DEFINE mark == ~own \/ S[k] \cap {"ui", "handler"} # {}
  <2>5. IsSource(w.registry[k]) /\ w.registry[k].id = u.registry[k].id
        /\ w.registry[k].default = u.registry[k].default /\ w.registry[k].handler = u.registry[k].handler
        /\ w.registry[k].last = A[k] /\ w.registry[k].mixed = u.registry[k].mixed
    BY <2>1, <2>2 DEF IsSource
  <2>6. v.registry[k] = [w.registry[k] EXCEPT !.strays = S[k], !.mixed = w.registry[k].mixed \/ mark]
    BY Zenon, <2>3
  <2> HIDE DEF mark
  <2>7. IsSource(v.registry[k]) /\ v.registry[k].id = u.registry[k].id
        /\ v.registry[k].default = u.registry[k].default /\ v.registry[k].handler = u.registry[k].handler
        /\ v.registry[k].last = A[k] /\ v.registry[k].strays = S[k]
        /\ v.registry[k].mixed = (u.registry[k].mixed \/ mark)
    BY <2>5, <2>6 DEF IsSource
  <2>8. QED
    BY <1>2, <2>4, <2>7 DEF mark, Foreign
<1>5. QED
  BY <1>1, <1>2, <1>3, <1>4 DEF Patches, v

\* An answer that fits the keys it is patched in under.
LEMMA PatchIsGood ==
    ASSUME NEW u, Good(u), NEW keys, keys \subseteq DOMAIN u.registry, NEW datum, NEW args,
           NEW S, DOMAIN S = keys, NEW own \in BOOLEAN,
           \A k \in keys : FitsKey(u, k, datum, args, S[k], own)
    PROVE  LET v == MarkStrays(PatchUiDataSourceResult(u, keys, datum, args), S, own)
           IN  SameShape(v, u) /\ Good(v)
<1> DEFINE K == DOMAIN u.registry
           w == PatchUiDataSourceResult(u, keys, datum, args)
           D == [k \in K |-> datum]
           A == [k \in K |-> args]
<1>1. /\ IsUi(w) /\ w.instance = u.instance /\ w.components = u.components /\ w.actions = u.actions
      /\ w.data = [k \in K |-> IF k \in keys THEN datum ELSE u.data[k]]
      /\ w.registry = [k \in K |-> IF k \in keys
                           THEN [u.registry[k] EXCEPT !.last = args, !.fetched = TRUE]
                           ELSE u.registry[k]]
  BY DEF PatchUiDataSourceResult, Good, WellBuilt, IsUi
<1> HIDE DEF w
<1>2. /\ w.data = [k \in K |-> IF k \in keys THEN D[k] ELSE u.data[k]]
      /\ w.registry = [k \in K |-> IF k \in keys
                           THEN [u.registry[k] EXCEPT !.last = A[k], !.fetched = TRUE]
                           ELSE u.registry[k]]
  BY <1>1
<1>3. \A k \in K : k \in keys => FitsKey(u, k, D[k], A[k], S[k], own)
  OBVIOUS
<1> HIDE DEF D, A
<1>w. WellBuilt(u) /\ IsUi(w) /\ w.instance = u.instance /\ w.components = u.components /\ w.actions = u.actions
  BY <1>1 DEF Good
<1>4. Patches(MarkStrays(w, S, own), u, keys, D, A, S, own)
  BY <1>2, <1>w, MarkedPatches
<1>5. QED
  BY <1>3, <1>4, PatchedIsGood DEF w

LEMMA FirstKeyIsOne ==
    ASSUME NEW u, DOMAIN u.registry \subseteq Nat, NEW k \in DOMAIN u.registry
    PROVE  LET f == FirstKey(u, u.registry[k].id)
           IN  f \in DOMAIN u.registry /\ u.registry[f].id = u.registry[k].id /\ (Solo(u, k) => f = k)
<1> DEFINE S == {j \in DOMAIN u.registry : u.registry[j].id = u.registry[k].id}
<1>1. S \subseteq Nat /\ k \in S
  OBVIOUS
<1>2. FirstKey(u, u.registry[k].id) = Min(S)
  BY <1>1 DEF FirstKey
<1>3. Min(S) \in S
  BY <1>1, MinIsFirst
<1>4. Solo(u, k) => Min(S) = k
  BY <1>3 DEF Solo
<1>5. QED
  BY <1>2, <1>3, <1>4

\* Default arguments fit everywhere.
LEMMA RefreshIsGood ==
    ASSUME NEW u, Good(u), NEW keys, keys \subseteq DOMAIN u.registry, NEW strays
    PROVE  LET v == PatchRefreshes(u, keys, strays)
           IN  SameShape(v, u) /\ Good(v)
<1> DEFINE K == DOMAIN u.registry
           First(k) == FirstKey(u, u.registry[k].id)
           Default(k) == u.registry[First(k)].default
           D == [k \in K |-> [handler |-> u.registry[k].handler, args |-> Default(k)]]
           A == [k \in K |-> Default(k)]
           S == [k \in keys |-> strays \cup View(k, First(k))]
           w == [u EXCEPT !.data = [k \in DOMAIN @ |->
                              IF k \in keys THEN [handler |-> u.registry[k].handler, args |-> Default(k)]
                                             ELSE @[k]],
                          !.registry = [k \in DOMAIN @ |->
                              IF k \in keys THEN [@[k] EXCEPT !.last = Default(k), !.fetched = TRUE]
                                             ELSE @[k]]]
<1>1. WellBuilt(u)
  BY DEF Good
<1>2. PatchRefreshes(u, keys, strays) = MarkStrays(w, S, TRUE)
  BY DEF PatchRefreshes
<1>3. /\ IsUi(w) /\ w.instance = u.instance /\ w.components = u.components /\ w.actions = u.actions
      /\ w.data = [k \in K |-> IF k \in keys THEN D[k] ELSE u.data[k]]
      /\ w.registry = [k \in K |-> IF k \in keys
                           THEN [u.registry[k] EXCEPT !.last = A[k], !.fetched = TRUE]
                           ELSE u.registry[k]]
  BY <1>1 DEF WellBuilt, IsUi
<1> HIDE DEF w
<1>4. ASSUME NEW k \in K
      PROVE  /\ Skip(Default(k)) = 0
             /\ Solo(u, k) => Default(k) = u.registry[k].default
             /\ First(k) = k => Default(k) = u.registry[k].default
             /\ Over(Default(k), Default(k)) = Default(k)
  <2>1. First(k) \in K /\ (Solo(u, k) => First(k) = k)
    BY <1>1, FirstKeyIsOne DEF WellBuilt
  <2>2. QED
    BY <1>1, <2>1 DEF WellBuilt
<1>5. ASSUME NEW k \in keys PROVE FitsKey(u, k, D[k], A[k], S[k], TRUE)
  <2> DEFINE d == Default(k)
  <2>1. D[k].args = d /\ D[k].handler = u.registry[k].handler /\ A[k] = d
    OBVIOUS
  <2>2. S[k] = {} => First(k) = k
    BY DEF View
  <2> HIDE DEF D, A, S, Default, First
  <2>3. Extends(d, d)
    BY DEF Extends
  <2>4. S[k] = {} => d = Over(d, u.registry[k].default)
    BY <1>4, <2>2
  <2>5. Entries[u.registry[k].handler] \in Nat \ {0}
    BY <1>1 DEF WellBuilt
  <2>6. PageOk(D[k])
    BY <1>4, <2>1, <2>5, FirstPageOk
  <2>7. Solo(u, k) => DOMAIN u.registry[k].default \subseteq DOMAIN d
    BY <1>4
  <2>8. QED
    BY <2>1, <2>3, <2>4, <2>6, <2>7 DEF FitsKey
<1> HIDE DEF D, A
<1>6. DOMAIN S = keys
  OBVIOUS
<1> HIDE DEF S
<1>7. Patches(MarkStrays(w, S, TRUE), u, keys, D, A, S, TRUE)
  BY ZenonT(60), <1>1, <1>3, <1>6, MarkedPatches
<1>8. SameShape(MarkStrays(w, S, TRUE), u) /\ Good(MarkStrays(w, S, TRUE))
  BY <1>5, <1>7, PatchedIsGood
<1>9. QED
  BY <1>2, <1>8

LEMMA ShapesCompose == ASSUME NEW u, NEW v, NEW w, SameShape(v, u), SameShape(w, v) PROVE SameShape(w, u)
BY DEF SameShape

-----------------------------------------------------------------------------
(* Asking for a page                                                       *)

LEMMA PageOkBelow ==
    ASSUME NEW a, NEW s, PageOk(s), a.handler = s.handler, Entries[s.handler] \in Nat \ {0},
           Skip(a.args) \in Nat, Skip(a.args) <= Skip(s.args),
           "q" \in DOMAIN a.args => "q" \in DOMAIN s.args
    PROVE  PageOk(a)
BY DEF PageOk, Total

\* What is remembered asks for no later page than the one that is shown.
LEMMA RememberedPage ==
    ASSUME NEW u, Good(u), NEW k \in DOMAIN u.registry, ~u.registry[k].mixed, Solo(u, k)
    PROVE  LET source == u.registry[k]
               shown == u.data[k].args
           IN  /\ PageOk(u.data[k]) /\ u.data[k].handler = source.handler
               /\ Entries[source.handler] \in Nat \ {0}
               /\ Skip(source.last) \in Nat /\ Skip(source.last) <= Skip(shown)
               /\ "q" \in DOMAIN source.last => "q" \in DOMAIN shown
               /\ DOMAIN source.default \subseteq DOMAIN source.last
               /\ PageOk(Again(source))
<1> DEFINE source == u.registry[k]
           shown == u.data[k].args
<1>0. u.data[k].handler = source.handler /\ Entries[source.handler] \in Nat \ {0} /\ Skip(source.default) = 0
  BY DEF Good, WellBuilt, Answered
<1>1. PageOk(u.data[k]) /\ DOMAIN source.default \subseteq DOMAIN source.last
  BY DEF Good, Paged
<1>2. Extends(shown, source.last)
  BY DEF Good, Answered
<1>3. Skip(source.last) \in Nat /\ Skip(source.last) <= Skip(shown)
  <2>1. "skip" \in DOMAIN source.last => Skip(source.last) = Skip(shown)
    BY <1>2 DEF Extends, Skip
  <2>2. "skip" \notin DOMAIN source.last => Skip(source.last) = 0
    BY DEF Skip
  <2>3. QED
    BY <1>1, <2>1, <2>2 DEF PageOk
<1>4. "q" \in DOMAIN source.last => "q" \in DOMAIN shown
  BY <1>2 DEF Extends
<1> DEFINE next == Over(source.last, source.default)
<1>5. PageOk(Again(source))
  <2>1. Skip(source.default) = 0
    BY <1>0
  <2>2. Skip(next) = Skip(source.last) \/ Skip(next) = 0
    BY <2>1, OverSkips
  <2>3. "q" \in DOMAIN next => "q" \in DOMAIN shown
    BY <1>1, <1>4, OverSearches
  <2>4. Skip(next) \in Nat /\ Skip(next) <= Skip(shown)
    BY <1>1, <1>3, <2>2 DEF PageOk
  <2>5. Again(source).args = next /\ Again(source).handler = source.handler
    BY DEF Again
  <2> HIDE DEF next, shown, source
  <2>6. Skip(Again(source).args) <= Skip(u.data[k].args) /\ ("q" \in DOMAIN Again(source).args => "q" \in DOMAIN u.data[k].args)
    BY <2>3, <2>4, <2>5 DEF shown
  <2>7. QED
    BY <1>0, <1>1, <2>4, <2>5, <2>6, PageOkBelow
<1>6. QED
  BY <1>0, <1>1, <1>3, <1>4, <1>5

\* The source that is asked is one the UI has, the one with the key the answer is for
\* if the UI has that key, and the one of the component's action if it has that.
LEMMA TargetFits ==
    ASSUME NEW u, WellBuilt(u), NEW c, TargetSource(u, c) # None
    PROVE  LET target == TargetSource(u, c) IN
           /\ target \in DOMAIN u.registry
           /\ TargetKey(u, c) \in DOMAIN u.registry => TargetKey(u, c) = target
           /\ ResolvedAction(u, c) # None => \A k \in DOMAIN u.registry :
                 u.registry[k].id = ResolvedAction(u, c).source =>
                     u.registry[target].id = ResolvedAction(u, c).source
<1> DEFINE K == DOMAIN u.registry
           action == ResolvedAction(u, c)
<1>1. K \subseteq Nat /\ None \notin K
  BY ConstantsAssumption DEF WellBuilt
<1>2. ASSUME NEW id, FirstKey(u, id) # None
      PROVE  FirstKey(u, id) \in K /\ u.registry[FirstKey(u, id)].id = id
  <2>1. PICK k \in K : u.registry[k].id = id
    BY <1>2 DEF FirstKey
  <2>2. QED
    BY <1>1, <2>1, FirstKeyIsOne
<1>3. TargetSource(u, c) \in K
  BY <1>2 DEF TargetSource
<1>4. ASSUME action # None, NEW k \in K, u.registry[k].id = action.source
      PROVE  u.registry[TargetSource(u, c)].id = action.source
  <2>1. FirstKey(u, action.source) \in K /\ u.registry[FirstKey(u, action.source)].id = action.source
    BY <1>1, <1>4, FirstKeyIsOne
  <2>2. FirstKey(u, action.source) # None
    BY <1>1, <2>1
  <2>3. TargetKey(u, c) = FirstKey(u, action.source)
    BY <1>4, <2>2 DEF TargetKey, ActionTarget
  <2>4. QED
    BY <2>1, <2>3 DEF TargetSource
<1>5. QED
  BY <1>3, <1>4 DEF TargetSource

\* A component of the UI itself has a key of it: the answer is for the source that is
\* asked, the component's own unless another has its id.
LEMMA OwnTargetFits ==
    ASSUME NEW u, WellBuilt(u), NEW c \in u.components, TargetSource(u, c) # None
    PROVE  /\ TargetKey(u, c) = TargetSource(u, c)
           /\ c.key # None /\ Solo(u, TargetSource(u, c)) => TargetSource(u, c) = c.key
<1> DEFINE K == DOMAIN u.registry
           action == ResolvedAction(u, c)
<1>1. K \subseteq Nat /\ None \notin K /\ ComponentFits(u, c)
  BY ConstantsAssumption DEF WellBuilt
<1>2. ASSUME NEW id, FirstKey(u, id) # None
      PROVE  FirstKey(u, id) \in K /\ u.registry[FirstKey(u, id)].id = id
  <2>1. PICK k \in K : u.registry[k].id = id
    BY <1>2 DEF FirstKey
  <2>2. QED
    BY <1>1, <2>1, FirstKeyIsOne
<1>3. c.key # None => c.key \in K
  BY <1>1 DEF ComponentFits
<1>4. TargetKey(u, c) # None => TargetKey(u, c) \in K
  BY <1>2, <1>3 DEF TargetKey, ActionTarget
<1>5. TargetKey(u, c) = None => FirstKey(u, c.says) = None
  BY DEF TargetKey
<1>6. TargetKey(u, c) = TargetSource(u, c)
  BY <1>4, <1>5 DEF TargetSource
<1>7. ASSUME c.key # None, ActionTarget(u, c) # None PROVE u.registry[ActionTarget(u, c)].id = u.registry[c.key].id
  <2>1. action # None /\ ActionTarget(u, c) = FirstKey(u, action.source)
    BY <1>7 DEF ActionTarget
  <2>2. c.action # None /\ c.action \in DOMAIN u.actions /\ action = u.actions[c.action]
    BY <2>1 DEF ResolvedAction
  <2>3. action.source \in {u.registry[c.key].id, None}
    BY <1>1, <1>7, <2>2 DEF ComponentFits
  <2>4. u.registry[ActionTarget(u, c)].id = action.source /\ ActionTarget(u, c) \in K
    BY <1>2, <1>7, <2>1
  <2>5. CASE action.source = None
    BY <2>4, <2>5 DEF WellBuilt
  <2>6. QED
    BY <2>3, <2>4, <2>5
<1>8. ASSUME c.key # None, Solo(u, TargetSource(u, c)) PROVE TargetSource(u, c) = c.key
  <2>1. CASE ActionTarget(u, c) # None
    <3>1. TargetSource(u, c) = ActionTarget(u, c)
      BY <1>6, <2>1 DEF TargetKey
    <3>2. QED
      BY <1>3, <1>7, <1>8, <2>1, <3>1 DEF Solo
  <2>2. CASE ActionTarget(u, c) = None
    BY <1>6, <1>8, <2>2 DEF TargetKey
  <2>3. QED
    BY <2>1, <2>2
<1>9. QED
  BY <1>6, <1>8

\* A page that was asked for is a page there is, if the component's source is the
\* only one with its id.
LEMMA SentFits ==
    ASSUME NEW u, Good(u), NEW c \in u.components, TargetSource(u, c) # None,
           Solo(u, TargetSource(u, c)), ~u.registry[TargetSource(u, c)].mixed, NEW said, NEW more,
           Skip(more) = 0,
           "q" \in DOMAIN more => "q" \in DOMAIN u.registry[TargetSource(u, c)].default,
           \/ said = NoArgs
           \/ "q" \in DOMAIN said /\ "skip" \in DOMAIN said /\ Skip(said) = 0
           \/ /\ DOMAIN said = {"skip"} /\ c.key # None
              /\ Skip(said) \in Nat /\ Skip(said) < Total(u.data[c.key])
    PROVE  LET source == u.registry[TargetSource(u, c)]
               requestArgs == Over(Payload(c, said), source.last)
           IN  /\ PageOk([handler |-> source.handler, args |-> Over(requestArgs, Over(more, source.default))])
               /\ DOMAIN source.default \subseteq DOMAIN requestArgs
<1> DEFINE target == TargetSource(u, c)
           source == u.registry[target]
           datum == u.data[target]
           shown == u.data[target].args
           payload == Payload(c, said)
           requestArgs == Over(payload, source.last)
           rest == Over(more, source.default)
           sent == Over(requestArgs, rest)
           answer == [handler |-> source.handler, args |-> sent]
<1>1. target \in DOMAIN u.registry /\ (c.key # None => target = c.key)
  BY TargetFits, OwnTargetFits DEF Good
<1> HIDE DEF target
<1>2. /\ PageOk(datum) /\ datum.handler = source.handler /\ Entries[source.handler] \in Nat \ {0}
      /\ Skip(source.last) \in Nat /\ Skip(source.last) <= Skip(shown)
      /\ "q" \in DOMAIN source.last => "q" \in DOMAIN shown
      /\ DOMAIN source.default \subseteq DOMAIN source.last
  BY <1>1, RememberedPage DEF target
<1>3. DOMAIN source.default \subseteq DOMAIN requestArgs
  BY <1>2 DEF Over
<1>4. ComponentFits(u, c) /\ Skip(source.default) = 0
  BY <1>1 DEF Good, WellBuilt
<1>5. Skip(more) = 0 /\ ("q" \in DOMAIN more => "q" \in DOMAIN source.default)
  BY DEF target
<1>6. Skip(rest) = 0 /\ ("q" \in DOMAIN rest => "q" \in DOMAIN source.default)
  BY <1>4, <1>5, OverStarts, OverSearches
<1>7. "q" \in DOMAIN c.template => "q" \in DOMAIN source.default
  BY <1>1, <1>4 DEF ComponentFits
<1>8. payload = Over(c.template, said)
  BY DEF Payload
<1> HIDE DEF payload, rest, source, shown, datum
<1>9. /\ "q" \in DOMAIN sent <=> "q" \in DOMAIN c.template \/ "q" \in DOMAIN said
                                 \/ "q" \in DOMAIN source.last \/ "q" \in DOMAIN rest
      /\ "skip" \in DOMAIN payload => Skip(sent) = Skip(payload)
      /\ "skip" \notin DOMAIN payload => Skip(sent) \in {Skip(source.last), Skip(rest)}
  <2>1. "q" \in DOMAIN sent <=> "q" \in DOMAIN requestArgs \/ "q" \in DOMAIN rest
    BY OverSearches
  <2>2. "q" \in DOMAIN requestArgs <=> "q" \in DOMAIN payload \/ "q" \in DOMAIN source.last
    BY OverSearches
  <2>3. "q" \in DOMAIN payload <=> "q" \in DOMAIN c.template \/ "q" \in DOMAIN said
    BY <1>8, OverSearches
  <2>4. "skip" \in DOMAIN requestArgs <=> "skip" \in DOMAIN payload \/ "skip" \in DOMAIN source.last
    BY DEF Over
  <2>5. Skip(sent) \in {Skip(requestArgs), Skip(rest)} /\ ("skip" \in DOMAIN requestArgs => Skip(sent) = Skip(requestArgs))
    BY OverSkips
  <2>6. /\ "skip" \in DOMAIN payload => Skip(requestArgs) = Skip(payload)
        /\ "skip" \notin DOMAIN payload => Skip(requestArgs) = Skip(source.last)
    BY OverSkips
  <2>7. QED
    BY <2>1, <2>2, <2>3, <2>4, <2>5, <2>6
<1>10. "skip" \in DOMAIN payload =>
          \/ Skip(payload) = 0
          \/ "skip" \in DOMAIN said /\ Skip(payload) = Skip(said)
  <2>1. Skip(c.template) = 0
    BY <1>4 DEF ComponentFits
  <2>2. "skip" \in DOMAIN c.template => Skip(payload) = 0
    BY <2>1, <1>8, OverSkips
  <2>3. "skip" \notin DOMAIN c.template => Skip(payload) = Skip(said)
    BY <1>8, OverSkips
  <2>4. "skip" \in DOMAIN payload => "skip" \in DOMAIN c.template \/ "skip" \in DOMAIN said
    BY <1>8 DEF Over
  <2>5. QED
    BY <2>2, <2>3, <2>4
<1> HIDE DEF sent
<1>a. answer.args = sent /\ answer.handler = datum.handler /\ datum.args = shown /\ Entries[datum.handler] \in Nat \ {0}
  BY <1>2 DEF datum, shown
<1> HIDE DEF answer
<1>11. CASE said = NoArgs
  <2>1. DOMAIN said = {}
    BY <1>11 DEF NoArgs
  <2>2. Skip(sent) \in Nat /\ Skip(sent) <= Skip(shown)
    BY <1>2, <1>6, <1>9, <1>10, <1>a, <2>1 DEF PageOk
  <2>3. "q" \in DOMAIN sent => "q" \in DOMAIN shown
    BY <1>2, <1>6, <1>7, <1>9, <2>1
  <2>4. PageOk(answer)
    BY <1>2, <1>a, <2>2, <2>3, PageOkBelow
  <2>5. QED
    BY <1>3, <2>4 DEF answer, sent, payload, rest, source, target
<1>12. CASE "q" \in DOMAIN said /\ "skip" \in DOMAIN said /\ Skip(said) = 0
  <2>1. "skip" \in DOMAIN payload
    BY <1>8, <1>12 DEF Over
  <2>2. Skip(sent) = 0
    BY <1>9, <1>10, <1>12, <2>1
  <2>3. PageOk(answer)
    BY <1>a, <2>2, FirstPageOk
  <2>4. QED
    BY <1>3, <2>3 DEF answer, sent, payload, rest, source, target
<1>13. CASE /\ DOMAIN said = {"skip"} /\ c.key # None
            /\ Skip(said) \in Nat /\ Skip(said) < Total(u.data[c.key])
  <2>1. "skip" \in DOMAIN payload
    BY <1>8, <1>13 DEF Over
  <2>2. Skip(sent) = 0 \/ Skip(sent) = Skip(said)
    BY <1>9, <1>10, <2>1
  <2>3. "q" \in DOMAIN sent => "q" \in DOMAIN shown
    BY <1>2, <1>6, <1>7, <1>9, <1>13
  <2>4. u.data[c.key] = datum
    BY <1>1, <1>13 DEF datum
  <2>5. Total(datum) <= Total(answer) /\ Total(datum) \in Nat /\ Total(answer) \in Nat
    BY <1>a, <2>3 DEF Total
  <2>6. PageOk(answer)
    BY <1>13, <1>a, <2>2, <2>4, <2>5, FirstPageOk DEF PageOk
  <2>7. QED
    BY <1>3, <2>6 DEF answer, sent, payload, rest, source, target
<1>14. QED
  BY <1>11, <1>12, <1>13

-----------------------------------------------------------------------------
(* The invariant                                                           *)

LEMMA CurrentIsGood ==
    ASSUME IInv
    PROVE  /\ UpdatedUi = conversationUi
           /\ conversationUi # None => Good(conversationUi)
           /\ conversationUi # None => conversationUi.instance = (IF phase = "done" THEN 2 ELSE 1)
           /\ phase \in {"none", "done"} \/ ui[2] # None => conversationUi = ui[Latest]
<1>1. phase \in {"none", "pending", "done", "failed"} /\ ConversationUiIsShown /\ UisAreGood /\ InstancesInTurn
  BY DEF IInv, Bounds
<1>2. CASE phase = "none"
  BY <1>1, <1>2 DEF ConversationUiIsShown, UisAreGood, InstancesInTurn, UpdatedUi, UpdatedMessage, Latest, Messages
<1>3. CASE phase = "done"
  BY <1>1, <1>3 DEF ConversationUiIsShown, UisAreGood, InstancesInTurn, UpdatedUi, UpdatedMessage, Latest, Messages
<1>4. CASE phase \in {"pending", "failed"}
  BY <1>1, <1>4 DEF ConversationUiIsShown, UisAreGood, InstancesInTurn, UpdatedUi, UpdatedMessage, Latest, Messages
<1>5. QED
  BY <1>1, <1>2, <1>3, <1>4

UiInv == UisAreGood /\ ConversationUiIsShown /\ DOMAIN ui = Messages
         /\ (ui[1] # None => ui[1].instance = 1)
         /\ (ui[2] # None => ui[2].instance = (IF phase = "done" THEN 2 ELSE 1))

\* A UI with other data takes the place of the conversation's.
LEMMA UpdateKeeps ==
    ASSUME IInv, NEW new, UpdateConversationUi(new), phase' = phase,
           conversationUi # None => SameShape(new, conversationUi) /\ Good(new)
    PROVE  /\ UiInv'
           /\ \A r : RequestFits(r) => RequestFits(r)'
           /\ \A l : LoopFits(l) => LoopFits(l)'
<1>1. UpdatedUi = conversationUi /\ Bounds /\ UisAreGood /\ ConversationUiIsShown /\ InstancesInTurn
  BY CurrentIsGood DEF IInv
<1>2. CASE conversationUi = None
  <2>1. UNCHANGED <<ui, conversationUi, phase>>
    BY <1>1, <1>2 DEF UpdateConversationUi
  <2>2. UiInv'
    BY <1>1, <2>1 DEF UiInv, UisAreGood, ConversationUiIsShown, InstancesInTurn, Bounds
  <2>3. QED
    BY <2>1, <2>2 DEF RequestFits, LoopFits, Current
<1>3. CASE conversationUi # None
  <2>1. conversationUi' = new /\ ui' = [ui EXCEPT ![Latest] = new] /\ SameShape(new, conversationUi) /\ Good(new)
    BY <1>1, <1>3 DEF UpdateConversationUi, UpdatedMessage
  <2>2. DOMAIN ui = Messages /\ Latest \in Messages
    BY <1>1 DEF Bounds, Latest, Messages
  <2>3. ui'[Latest] = new /\ DOMAIN ui' = Messages /\ \A m \in Messages : m # Latest => ui'[m] = ui[m]
    BY <2>1, <2>2
  <2>4. UisAreGood'
    BY <1>1, <2>1, <2>3 DEF UisAreGood
  <2>5. new.instance = (IF phase = "done" THEN 2 ELSE 1)
    BY <1>3, <2>1, CurrentIsGood DEF SameShape
  <2>6. /\ (ui[1] # None => ui[1].instance = 1)'
        /\ (ui[2] # None => ui[2].instance = (IF phase = "done" THEN 2 ELSE 1))'
    BY <1>1, <2>3, <2>5 DEF InstancesInTurn, Latest, Messages
  <2>7. ConversationUiIsShown'
    BY <1>1, <2>1, <2>3 DEF ConversationUiIsShown, Latest, Messages, Bounds
  <2>8. UiInv'
    BY <2>3, <2>4, <2>6, <2>7 DEF UiInv
  <2>9. ASSUME NEW x PROVE Current(x)' => Current(x)
    BY <1>3, <2>1 DEF Current, SameShape
  <2>10. ASSUME NEW r, RequestFits(r) PROVE RequestFits(r)'
    <3> DEFINE u == conversationUi
    <3>1. SUFFICES ASSUME Current(r)', r.source # None
                   PROVE  /\ \E t \in DOMAIN new.registry : IsTarget(new, r, t)
                          /\ ~r.query => \A k \in DOMAIN new.registry :
                                 new.registry[k].id = r.action.source => new.registry[k].id = r.source.id
                          /\ r.own /\ ~new.registry[r.key].mixed /\ Solo(new, r.key) /\ Handler(r) = r.source.handler =>
                                PageOk(Datum(r)) /\ DOMAIN r.source.default \subseteq DOMAIN r.requestArgs
      BY <2>1 DEF RequestFits
    <3>2. Current(r)
      BY <3>1, <2>9
    <3>3. PICK t \in DOMAIN u.registry : IsTarget(u, r, t)
      BY <3>1, <3>2, <2>10 DEF RequestFits
    <3>4. IsTarget(new, r, t) /\ t \in DOMAIN new.registry
      BY <2>1, <3>3 DEF IsTarget, SameShape
    <3>5. ~r.query => \A k \in DOMAIN new.registry :
              new.registry[k].id = r.action.source => new.registry[k].id = r.source.id
      BY <2>1, <2>10, <3>1, <3>2 DEF RequestFits, SameShape
    <3>6. r.own => r.key = t
      BY <3>3 DEF IsTarget
    <3>7. /\ r.own /\ Solo(new, r.key) => Solo(u, r.key)
          /\ r.own /\ ~new.registry[r.key].mixed => ~u.registry[r.key].mixed
      BY <2>1, <3>6, ShapeKeepsSolo DEF SameShape
    <3>8. QED
      BY SMTT(60), <2>10, <3>1, <3>2, <3>4, <3>5, <3>7 DEF RequestFits
  <2>11. ASSUME NEW l, LoopFits(l) PROVE LoopFits(l)'
    <3>1. SUFFICES ASSUME Current(l)'
                   PROVE  /\ DOMAIN l.sources = DOMAIN new.registry
                          /\ \A k \in DOMAIN l.sources :
                              /\ l.sources[k].handler = new.registry[k].handler
                              /\ l.sources[k].default = new.registry[k].default
                              /\ ~new.registry[k].mixed /\ Solo(new, k) =>
                                  /\ PageOk(Again(l.sources[k]))
                                  /\ DOMAIN new.registry[k].default \subseteq DOMAIN l.sources[k].last
      BY <2>1, <2>11 DEF LoopFits
    <3>2. Current(l)
      BY <3>1, <2>9
    <3>3. DOMAIN l.sources = DOMAIN conversationUi.registry
      BY <3>2, <2>11 DEF LoopFits
    <3>4. \A k \in DOMAIN l.sources : Solo(new, k) => Solo(conversationUi, k)
      BY <2>1, <3>3, ShapeKeepsSolo
    <3>5. QED
      BY <2>1, <2>11, <3>2, <3>3, <3>4 DEF LoopFits, SameShape
  <2>12. QED
    BY <2>8, <2>10, <2>11
<1>4. QED
  BY <1>2, <1>3

LEMMA StartIsGood == Init => IInv
<1> SUFFICES ASSUME Init PROVE IInv
  OBVIOUS
<1>1. PICK response \in Responses :
        /\ BuildUi(response, 1) # None
        /\ ui = [m \in Messages |-> IF m = 1 THEN BuildUi(response, 1) ELSE None]
  BY DEF Init, Built, Messages
<1>2. ui[1] = BuildUi(response, 1) /\ ui[2] = None
  BY <1>1 DEF Messages
<1>3. Good(ui[1]) /\ ui[1].instance = 1
  BY <1>1, <1>2, BuiltIsGood DEF Messages, Good
<1>4. UisAreGood
  BY <1>2, <1>3 DEF UisAreGood, Messages
<1>5. ConversationUiIsShown /\ InstancesInTurn /\ RequestsFit /\ LoopsFit
  BY <1>2, <1>3 DEF Init, ConversationUiIsShown, InstancesInTurn, RequestsFit, LoopsFit
<1>6. Bounds
  <2>1. ui = [m \in Messages |-> ui[m]]
    BY <1>1
  <2>2. 0 \in 0..MaxClicks /\ 1 \in 0..MaxVisits
    BY ConstantsAssumption
  <2>3. QED
    BY <2>1, <2>2 DEF Init, Bounds
<1>7. QED
  BY <1>4, <1>5, <1>6 DEF IInv

-----------------------------------------------------------------------------
(* The actions                                                             *)

\* A component asks for the first entries, or for a page of what it shows.
Asks(u, c, said) ==
    \/ said = NoArgs
    \/ "q" \in DOMAIN said /\ "skip" \in DOMAIN said /\ Skip(said) = 0
    \/ /\ DOMAIN said = {"skip"} /\ c.key # None
       /\ ~u.registry[c.key].mixed /\ Solo(u, c.key) =>
             Skip(said) \in Nat /\ Skip(said) < Total(u.data[c.key])

LEMMA SendActionKeeps ==
    ASSUME IInv, NEW m \in Messages, ui[m] # None, NEW c \in ui[m].components, NEW said,
           Asks(ui[m], c, said), SendAction(m, c, said)
    PROVE  IInv'
<1> DEFINE u == conversationUi
           target == TargetSource(u, c)
           action == ResolvedAction(u, c)
           source == u.registry[target]
           r == Sending(m, c, said)
           sent == u # None /\ (target # None \/ action # None)
<1>1. /\ clicks < MaxClicks /\ clicks' = clicks + 1
      /\ ~sent => requests' = requests
      /\ sent => requests' = requests \cup {r}
      /\ UNCHANGED <<ui, conversationUi, phase, active, effectDue, loops, visits>>
  BY DEF SendAction
<1>2. /\ Bounds /\ UisAreGood /\ ConversationUiIsShown /\ InstancesInTurn /\ RequestsFit /\ LoopsFit
  BY DEF IInv
<1>r. /\ r.number = clicks /\ r.instance = u.instance /\ r.own = (ui[m] = u) /\ r.key = TargetKey(u, c)
      /\ target = None => r.source = None
      /\ target # None => r.source = [id |-> source.id, handler |-> source.handler, default |-> source.default]
      /\ r.query = (c.type = "data.query" /\ r.source # None)
      /\ r.action = IF r.query \/ action = None THEN SourceAction(r.source) ELSE action
      /\ r.requestArgs = RequestArgs(u, c, said)
  BY DEF Sending
<1> HIDE DEF r
<1>3. ASSUME sent PROVE RequestFits(r) /\ r.own \in BOOLEAN /\ r.instance \in {1, 2}
  <2>1. r.instance \in {1, 2} /\ Good(u) /\ r.own \in BOOLEAN
    BY <1>3, <1>r, CurrentIsGood
  <2>2. SUFFICES ASSUME r.source # None
                 PROVE  /\ \E t \in DOMAIN u.registry : IsTarget(u, r, t)
                        /\ ~r.query => \A k \in DOMAIN u.registry :
                               u.registry[k].id = r.action.source => u.registry[k].id = r.source.id
                        /\ r.own /\ ~u.registry[r.key].mixed /\ Solo(u, r.key) /\ Handler(r) = r.source.handler =>
                              PageOk(Datum(r)) /\ DOMAIN r.source.default \subseteq DOMAIN r.requestArgs
    BY <2>1 DEF RequestFits
  <2>3. target # None
    BY <1>r, <2>2
  <2>4. r.source.id = source.id /\ r.source.handler = source.handler /\ r.source.default = source.default
    BY <1>r, <2>3
  <2>5. /\ target \in DOMAIN u.registry
        /\ TargetKey(u, c) \in DOMAIN u.registry => TargetKey(u, c) = target
        /\ action # None => \A k \in DOMAIN u.registry :
               u.registry[k].id = action.source => u.registry[target].id = action.source
    BY <2>1, <2>3, TargetFits DEF Good
  <2>6. r.own => c \in u.components /\ r.key = target
    <3>1. SUFFICES ASSUME r.own PROVE c \in u.components /\ r.key = target
      OBVIOUS
    <3>2. c \in u.components
      BY <1>r, <3>1
    <3>3. TargetKey(u, c) = target
      BY <2>1, <2>3, <3>2, OwnTargetFits DEF Good
    <3>4. QED
      BY <1>r, <3>2, <3>3
  <2>7. IsTarget(u, r, target)
    BY <1>r, <2>4, <2>5, <2>6 DEF IsTarget
  <2>8. ASSUME ~r.query, NEW k \in DOMAIN u.registry, u.registry[k].id = r.action.source
        PROVE  u.registry[k].id = r.source.id
    BY <1>r, <2>4, <2>5, <2>8 DEF SourceAction
  <2>9. ASSUME r.own, ~u.registry[r.key].mixed, Solo(u, r.key), Handler(r) = r.source.handler
        PROVE  PageOk(Datum(r)) /\ DOMAIN r.source.default \subseteq DOMAIN r.requestArgs
    <3> DEFINE more == r.action.args
    <3>1. c \in u.components /\ Solo(u, target) /\ ~source.mixed
      BY <2>6, <2>9
    <3>2. \/ said = NoArgs
          \/ "q" \in DOMAIN said /\ "skip" \in DOMAIN said /\ Skip(said) = 0
          \/ /\ DOMAIN said = {"skip"} /\ c.key # None
             /\ Skip(said) \in Nat /\ Skip(said) < Total(u.data[c.key])
      <4>1. c.key # None => target = c.key
        BY <2>1, <2>3, <3>1, OwnTargetFits DEF Good
      <4>2. QED
        BY <1>r, <2>9, <3>1, <4>1 DEF Asks
    <3>3. Skip(more) = 0 /\ ("q" \in DOMAIN more => "q" \in DOMAIN source.default)
      <4>1. CASE r.query \/ action = None
        <5>1. more = source.default
          BY <1>r, <2>4, <4>1 DEF SourceAction
        <5>2. QED
          BY <2>1, <2>5, <5>1 DEF Good, WellBuilt
      <4>2. CASE ~r.query /\ action # None
        <5>1. c.action # None /\ c.action \in DOMAIN u.actions /\ action = u.actions[c.action] /\ r.action = action
          BY <1>r, <4>2 DEF ResolvedAction
        <5>2. ActionFits(u, action)
          BY <2>1, <5>1 DEF Good, WellBuilt
        <5>3. Skip(more) = 0
          BY <5>1, <5>2 DEF ActionFits
        <5>4. ASSUME "q" \in DOMAIN more PROVE "q" \in DOMAIN source.default
          <6>1. \E k \in DOMAIN u.registry : u.registry[k].id = action.source
            BY <5>1, <5>2, <5>4 DEF ActionFits
          <6>2. source.id = action.source
            BY <2>5, <4>2, <6>1
          <6>3. QED
            BY <2>5, <3>1, <5>1, <5>2, <5>4, <6>2 DEF ActionFits
        <5>5. QED
          BY <5>3, <5>4
      <4>3. QED
        BY <4>1, <4>2
    <3>4. r.requestArgs = Over(Payload(c, said), source.last)
      BY <1>r, <2>3 DEF RequestArgs
    <3>5. Datum(r) = [handler |-> source.handler, args |-> Over(r.requestArgs, Over(more, source.default))]
      BY <2>2, <2>4, <2>9 DEF Datum, AnsweredArgs
    <3> HIDE DEF more
    <3>6. PageOk([handler |-> source.handler,
                  args |-> Over(Over(Payload(c, said), source.last), Over(more, source.default))])
          /\ DOMAIN source.default \subseteq DOMAIN Over(Payload(c, said), source.last)
      BY <2>1, <2>3, <3>1, <3>2, <3>3, SentFits
    <3>7. QED
      BY <2>4, <3>4, <3>5, <3>6
  <2>10. QED
    BY <2>5, <2>7, <2>8, <2>9
<1> HIDE DEF r
<1>4. RequestsFit'
  <2>1. \A x \in requests' : RequestFits(x) /\ x.own \in BOOLEAN /\ x.instance \in {1, 2}
    BY <1>1, <1>2, <1>3 DEF RequestsFit
  <2>2. QED
    BY <1>1, <2>1 DEF RequestsFit, RequestFits, Current
<1>5. InstancesInTurn'
  <2>1. u # None /\ phase # "done" => r.instance = 1
    BY <1>r, CurrentIsGood
  <2>2. QED
    BY <1>1, <1>2, <2>1 DEF InstancesInTurn
<1>6. Bounds'
  <2>1. clicks \in 0..MaxClicks /\ clicks' \in 0..MaxClicks
    BY <1>1, <1>2, ConstantsAssumption DEF Bounds
  <2>2. r.number = clicks
    BY <1>r
  <2>3. \A x \in requests' : x.number \in 0..MaxClicks
    BY <1>1, <1>2, <2>1, <2>2 DEF Bounds
  <2>4. QED
    BY <1>1, <1>2, <2>1, <2>3 DEF Bounds
<1>7. UisAreGood' /\ ConversationUiIsShown' /\ LoopsFit'
  BY <1>1, <1>2 DEF UisAreGood, ConversationUiIsShown, LoopsFit, LoopFits, Current
<1>8. QED
  BY <1>4, <1>5, <1>6, <1>7 DEF IInv

LEMMA UseKeeps == ASSUME IInv, Use PROVE IInv'
<1>1. PICK m \in Messages : /\ ui[m] # None
                            /\ \E c \in ui[m].components : Go(m, c) \/ Submit(m, c) \/ Press(m, c)
  BY DEF Use
<1>2. PICK c \in ui[m].components : Go(m, c) \/ Submit(m, c) \/ Press(m, c)
  BY <1>1
<1>3. Good(ui[m]) /\ ComponentFits(ui[m], c)
  BY <1>1 DEF IInv, UisAreGood, Good, WellBuilt
<1>4. CASE Go(m, c)
  <2> DEFINE shown == Shown(m, c)
             next == [skip |-> Skip(shown.args) + PageSize]
             previous == [skip |-> IF Skip(shown.args) < PageSize THEN 0 ELSE Skip(shown.args) - PageSize]
  <2>1. c.key # None /\ c.key \in DOMAIN ui[m].registry
    BY <1>3, <1>4 DEF ComponentFits, Go
  <2>2. shown = ui[m].data[c.key]
    BY DEF Shown
  <2>3. ~ui[m].registry[c.key].mixed /\ Solo(ui[m], c.key) =>
            Skip(shown.args) \in Nat /\ Total(shown) \in Nat /\ Skip(shown.args) < Total(shown)
    BY <1>3, <2>1, <2>2 DEF Good, Paged, PageOk
  <2> HIDE DEF shown
  <2>4. PageSize \in Nat
    BY ConstantsAssumption
  <2>5. CASE CanNext(shown) /\ SendAction(m, c, next)
    <3>1. DOMAIN next = {"skip"} /\ Skip(next) = Skip(shown.args) + PageSize
      BY DEF Skip
    <3>2. Asks(ui[m], c, next)
      BY <2>1, <2>2, <2>3, <2>4, <2>5, <3>1 DEF Asks, CanNext
    <3>3. QED
      BY <1>1, <2>5, <3>2, SendActionKeeps
  <2>6. CASE SendAction(m, c, previous)
    <3>1. DOMAIN previous = {"skip"}
          /\ Skip(previous) = IF Skip(shown.args) < PageSize THEN 0 ELSE Skip(shown.args) - PageSize
      BY DEF Skip
    <3>2. Asks(ui[m], c, previous)
      BY <2>1, <2>2, <2>3, <2>4, <3>1 DEF Asks
    <3>3. QED
      BY <1>1, <2>6, <3>2, SendActionKeeps
  <2>7. QED
    BY <1>4, <2>5, <2>6 DEF Go, shown
<1>5. CASE Submit(m, c)
  <2>1. PICK q \in Queries : SendAction(m, c, [q |-> q, skip |-> 0])
    BY <1>5 DEF Submit
  <2>2. Asks(ui[m], c, [q |-> q, skip |-> 0])
    BY DEF Asks, Skip
  <2>3. QED
    BY <1>1, <2>1, <2>2, SendActionKeeps
<1>6. CASE Press(m, c)
  <2>1. SendAction(m, c, NoArgs) /\ Asks(ui[m], c, NoArgs)
    BY <1>6 DEF Press, Asks
  <2>2. QED
    BY <1>1, <2>1, SendActionKeeps
<1>7. QED
  BY <1>2, <1>4, <1>5, <1>6

\* Unless it strays, the answer is what the source with the key is asked again.
LEMMA AnswerFitsKey ==
    ASSUME NEW r, conversationUi # None, Good(conversationUi), RequestFits(r), r.own \in BOOLEAN,
           NEW k \in DOMAIN conversationUi.registry, k \in AnswerKeys(conversationUi, r), NEW why,
           why = StraysOf(conversationUi, r) \cup View(k, r.key)
    PROVE  FitsKey(conversationUi, k, Datum(r), r.requestArgs, why, r.own)
<1> DEFINE u == conversationUi
           datum == Datum(r)
<1>1. datum.args = AnsweredArgs(r) /\ datum.handler = Handler(r)
  BY DEF Datum
<1>2. Extends(datum.args, r.requestArgs)
  BY <1>1, OverExtends DEF AnsweredArgs
<1>3. /\ why \cap Foreign = {} => r.instance = u.instance /\ r.source # None /\ Handler(r) = r.source.handler
      /\ why = {} => k = r.key /\ AnsweredArgs(r) = Over(r.requestArgs, r.source.default)
  <2>1. /\ "ui" \in why <=> r.instance # u.instance
        /\ "handler" \in why <=> r.source = None \/ Handler(r) # r.source.handler
        /\ r.source # None /\ AnsweredArgs(r) # Over(r.requestArgs, r.source.default) => "args" \in why
        /\ k # r.key => "view" \in why
    BY DEF StraysOf, View
  <2>2. QED
    BY <2>1 DEF Foreign
<1>4. SUFFICES ASSUME why \cap Foreign = {}
               PROVE  /\ why = {} => datum.args = Over(r.requestArgs, u.registry[k].default)
                      /\ datum.handler = u.registry[k].handler
                      /\ r.own /\ ~u.registry[k].mixed /\ Solo(u, k) =>
                            PageOk(datum) /\ DOMAIN u.registry[k].default \subseteq DOMAIN r.requestArgs
  BY <1>2, <1>4 DEF FitsKey
<1>5. Current(r) /\ r.source # None
  BY <1>3, <1>4 DEF Current
<1>6. PICK t \in DOMAIN u.registry : IsTarget(u, r, t)
  BY <1>5 DEF RequestFits
<1>7. u.registry[k].id = r.source.id /\ (k = r.key => k = t)
  <2>1. ResultId(r) = r.source.id
    BY <1>5 DEF ResultId
  <2>2. CASE k = r.key
    BY <1>6, <2>2 DEF IsTarget
  <2>3. CASE k # r.key
    BY <1>5, <2>1, <2>3 DEF AnswerKeys, RequestFits
  <2>4. QED
    BY <1>6, <2>2, <2>3 DEF IsTarget
<1>8. datum.handler = u.registry[k].handler
  BY <1>1, <1>3, <1>4, <1>6, <1>7 DEF Good, WellBuilt, IsTarget
<1>9. why = {} => datum.args = Over(r.requestArgs, u.registry[k].default)
  BY <1>1, <1>3, <1>6, <1>7 DEF IsTarget
<1>10. ASSUME r.own, ~u.registry[k].mixed, Solo(u, k)
       PROVE  PageOk(datum) /\ DOMAIN u.registry[k].default \subseteq DOMAIN r.requestArgs
  <2>1. t = k /\ r.key = k /\ u.registry[k].default = r.source.default
    BY <1>6, <1>7, <1>10 DEF IsTarget, Solo
  <2>2. QED
    BY <1>3, <1>4, <1>5, <1>10, <2>1 DEF RequestFits
<1>11. QED
  BY <1>8, <1>9, <1>10

LEMMA AnswerKeeps == ASSUME IInv, NEW r \in requests, Answer(r) PROVE IInv'
<1> DEFINE u == conversationUi
           keys == AnswerKeys(u, r)
           strays == [k \in keys |-> StraysOf(u, r) \cup View(k, r.key)]
           answered == MarkStrays(PatchUiDataSourceResult(u, keys, Datum(r), r.requestArgs), strays, r.own)
           refreshed == RefreshedKeys(u, r)
           new == PatchRefreshes(answered, refreshed, StraysOf(u, r) \cap {"ui"})
<1>1. UpdatedUi = u /\ Bounds /\ RequestsFit /\ LoopsFit /\ InstancesInTurn
  BY CurrentIsGood DEF IInv
<1>2. /\ requests' = requests \ {r} /\ UpdateConversationUi(new)
      /\ UNCHANGED <<phase, active, effectDue, loops, refreshedRuns, clicks, visits, asked>>
  BY <1>1 DEF Answer
<1>3. ASSUME u # None PROVE SameShape(new, u) /\ Good(new)
  <2>1. Good(u) /\ RequestFits(r) /\ r.own \in BOOLEAN
    BY <1>1, <1>3, CurrentIsGood DEF RequestsFit
  <2>2. keys \subseteq DOMAIN u.registry /\ refreshed \subseteq DOMAIN u.registry /\ DOMAIN strays = keys
    BY DEF AnswerKeys, RefreshedKeys
  <2>3. ASSUME NEW k \in keys PROVE FitsKey(u, k, Datum(r), r.requestArgs, strays[k], r.own)
    <3>1. strays[k] = StraysOf(u, r) \cup View(k, r.key)
      OBVIOUS
    <3>2. k \in DOMAIN u.registry /\ k \in AnswerKeys(u, r)
      BY <2>2, <2>3
    <3> HIDE DEF keys, strays
    <3>3. QED
      BY <1>3, <2>1, <3>1, <3>2, AnswerFitsKey
  <2> HIDE DEF keys, strays
  <2>4. SameShape(answered, u) /\ Good(answered)
    BY <2>1, <2>2, <2>3, PatchIsGood
  <2> HIDE DEF answered, refreshed
  <2>5. refreshed \subseteq DOMAIN answered.registry
    BY <2>2, <2>4 DEF SameShape
  <2>6. SameShape(new, answered) /\ Good(new)
    BY <2>4, <2>5, RefreshIsGood
  <2>7. QED
    BY <2>4, <2>6, ShapesCompose
<1> HIDE DEF new
<1>4. /\ UiInv' /\ \A x : RequestFits(x) => RequestFits(x)'
      /\ \A l : LoopFits(l) => LoopFits(l)'
  BY <1>2, <1>3, UpdateKeeps
<1>5. RequestsFit' /\ LoopsFit'
  BY <1>1, <1>2, <1>4 DEF RequestsFit, LoopsFit
<1>6. InstancesInTurn'
  BY <1>1, <1>2, <1>4 DEF InstancesInTurn, UiInv
<1>7. Bounds'
  <2>1. \A x \in requests' : x.number \in 0..MaxClicks
    BY <1>1, <1>2 DEF Bounds
  <2>2. ui' = [m \in Messages |-> ui'[m]]
    <3>1. ui = [m \in Messages |-> ui[m]]
      BY <1>1 DEF Bounds
    <3>2. ui' = ui \/ ui' = [ui EXCEPT ![UpdatedMessage] = new]
      BY <1>2 DEF UpdateConversationUi
    <3>3. QED
      BY <3>1, <3>2
  <2>3. QED
    BY <1>1, <1>2, <2>1, <2>2 DEF Bounds
<1>8. QED
  BY <1>4, <1>5, <1>6, <1>7 DEF IInv, UiInv

\* What a loop goes on with are its own sources.
LEMMA LoopVariant ==
    ASSUME NEW l, LoopFits(l), NEW k, IsLoop(k), k.instance = l.instance, k.sources = l.sources,
           k.queue # {}, k.queue \subseteq l.queue
    PROVE  LoopFits(k)
BY DEF LoopFits, Current

LEMMA AdvanceIsGood ==
    ASSUME LoopsFit, NEW l \in loops, Advance(l) \/ End(l)
    PROVE  \A k \in loops' : \E j \in loops : LoopFits(k) /\ k.instance = j.instance
<1> DEFINE rest == l.queue \ {Min(l.queue)}
           next == [l EXCEPT !.queue = rest]
<1>1. LoopFits(l) /\ IsLoop(l)
  BY DEF LoopsFit, LoopFits
<1>2. CASE loops' = loops \ {l}
  BY <1>2 DEF LoopsFit
<1>3. CASE rest # {} /\ loops' = (loops \ {l}) \cup {next}
  <2>1. IsLoop(next) /\ next.instance = l.instance /\ next.sources = l.sources /\ next.queue = rest
    BY <1>1 DEF IsLoop
  <2>2. LoopFits(next)
    BY <1>1, <1>3, <2>1, LoopVariant
  <2>3. QED
    BY <1>3, <2>1, <2>2 DEF LoopsFit
<1>4. QED
  BY <1>2, <1>3 DEF Advance, End

LEMMA RefreshedKeeps == ASSUME IInv, NEW l \in loops, Refreshed(l) PROVE IInv'
<1> DEFINE u == conversationUi
           k == Min(l.queue)
           source == l.sources[k]
           keys == {k} \cap DOMAIN u.registry
           why == IF l.instance = u.instance THEN {} ELSE {"ui"}
           strays == [key \in keys |-> why]
           new == MarkStrays(PatchUiDataSourceResult(u, keys, Again(source), source.last), strays, TRUE)
<1>1. UpdatedUi = u /\ Bounds /\ RequestsFit /\ LoopsFit /\ InstancesInTurn /\ UisAreGood /\ ConversationUiIsShown
  BY CurrentIsGood DEF IInv
<1>2. /\ \/ End(l) /\ UNCHANGED <<ui, conversationUi>>
         \/ Advance(l) /\ UpdateConversationUi(new)
      /\ UNCHANGED <<phase, requests, active, effectDue, clicks, visits>>
  BY <1>1 DEF Refreshed, Again
<1>3. LoopFits(l)
  BY <1>1 DEF LoopsFit
<1>4. k \in DOMAIN l.sources
  BY <1>3, MinIsFirst DEF LoopFits
<1>5. ASSUME u # None PROVE SameShape(new, u) /\ Good(new)
  <2>1. Good(u)
    BY <1>5, CurrentIsGood
  <2>2. DOMAIN strays = keys /\ keys \subseteq DOMAIN u.registry
    OBVIOUS
  <2>3. ASSUME NEW j \in keys PROVE FitsKey(u, j, Again(source), source.last, strays[j], TRUE)
    <3>1. strays[j] = why /\ j = k /\ j \in DOMAIN u.registry
      OBVIOUS
    <3> HIDE DEF strays
    <3>2. Again(source).args = Over(source.last, source.default) /\ Again(source).handler = source.handler
      BY DEF Again
    <3>3. Extends(Again(source).args, source.last)
      BY <3>2, OverExtends
    <3>4. why \cap Foreign = {} => Current(l)
      BY <1>5 DEF Current, Foreign
    <3>5. Current(l) => /\ source.handler = u.registry[k].handler /\ source.default = u.registry[k].default
                        /\ ~u.registry[k].mixed /\ Solo(u, k) =>
                              PageOk(Again(source)) /\ DOMAIN u.registry[k].default \subseteq DOMAIN source.last
      BY <1>3, <1>4 DEF LoopFits
    <3>6. why = {} => why \cap Foreign = {}
      OBVIOUS
    <3> HIDE DEF why, source, k
    <3>7. QED
      BY <3>1, <3>2, <3>3, <3>4, <3>5, <3>6 DEF FitsKey
  <2> HIDE DEF strays, keys
  <2>4. QED
    BY <2>1, <2>2, <2>3, PatchIsGood
<1> HIDE DEF new
<1>6. /\ UiInv' /\ \A x : RequestFits(x) => RequestFits(x)'
      /\ \A j : LoopFits(j) => LoopFits(j)'
  <2>1. CASE UNCHANGED <<ui, conversationUi>>
    BY <1>1, <1>2, <2>1 DEF UiInv, UisAreGood, ConversationUiIsShown, InstancesInTurn, Bounds,
                            RequestFits, LoopFits, Current
  <2>2. CASE UpdateConversationUi(new)
    BY <1>2, <1>5, <2>2, UpdateKeeps
  <2>3. QED
    BY <1>2, <2>1, <2>2
<1>7. \A j \in loops' : \E i \in loops : LoopFits(j) /\ j.instance = i.instance
  BY <1>1, <1>2, AdvanceIsGood
<1>8. LoopsFit' /\ RequestsFit'
  BY <1>1, <1>2, <1>6, <1>7 DEF LoopsFit, RequestsFit
<1>9. InstancesInTurn'
  BY <1>1, <1>2, <1>6, <1>7 DEF InstancesInTurn, UiInv
<1>10. Bounds'
  <2>1. ui' = [m \in Messages |-> ui'[m]]
    <3>1. ui = [m \in Messages |-> ui[m]]
      BY <1>1 DEF Bounds
    <3>2. ui' = ui \/ ui' = [ui EXCEPT ![UpdatedMessage] = new]
      BY <1>2 DEF UpdateConversationUi
    <3>3. QED
      BY <3>1, <3>2
  <2>2. QED
    BY <1>1, <1>2, <2>1 DEF Bounds
<1>11. QED
  BY <1>6, <1>8, <1>9, <1>10 DEF IInv, UiInv

LEMMA RefreshFailsKeeps == ASSUME IInv, NEW l \in loops, RefreshFails(l) PROVE IInv'
<1>1. /\ Bounds /\ UisAreGood /\ ConversationUiIsShown /\ InstancesInTurn /\ RequestsFit /\ LoopsFit
  BY DEF IInv
<1>2. (Advance(l) \/ End(l)) /\ UNCHANGED <<ui, conversationUi, phase, requests, active, effectDue, clicks, visits>>
  BY DEF RefreshFails
<1>3. \A k \in loops' : \E j \in loops : LoopFits(k) /\ k.instance = j.instance
  BY <1>1, <1>2, AdvanceIsGood
<1>4. LoopsFit' /\ RequestsFit'
  BY <1>1, <1>2, <1>3 DEF LoopsFit, RequestsFit, RequestFits, LoopFits, Current
<1>5. QED
  BY <1>1, <1>2, <1>3, <1>4 DEF IInv, Bounds, UisAreGood, ConversationUiIsShown, InstancesInTurn

LEMMA EffectKeeps == ASSUME IInv, NEW stale, Effect(stale) PROVE IInv'
<1> DEFINE u == conversationUi
           keys == IF ~active \/ u = None THEN {}
                   ELSE {k \in DOMAIN u.registry : Refreshable(u, k, stale)}
           loop == Loop(u, keys)
<1>1. /\ Bounds /\ UisAreGood /\ ConversationUiIsShown /\ InstancesInTurn /\ RequestsFit /\ LoopsFit
  BY DEF IInv
<1>2. /\ loops' = Cancelled \/ (keys # {} /\ loops' = Cancelled \cup {loop})
      /\ effectDue' = FALSE
      /\ UNCHANGED <<ui, conversationUi, phase, requests, active, clicks, visits>>
  BY DEF Effect
<1>3. \A k \in Cancelled : LoopFits(k) /\ \E j \in loops : k.instance = j.instance
  <2>1. SUFFICES ASSUME NEW j \in loops
                 PROVE  LoopFits([j EXCEPT !.cancelled = TRUE]) /\ [j EXCEPT !.cancelled = TRUE].instance = j.instance
    BY DEF Cancelled
  <2> DEFINE k == [j EXCEPT !.cancelled = TRUE]
  <2>2. LoopFits(j) /\ IsLoop(j) /\ j.queue # {}
    BY <1>1 DEF LoopsFit, LoopFits
  <2>3. IsLoop(k) /\ k.instance = j.instance /\ k.sources = j.sources /\ k.queue = j.queue
    BY <2>2 DEF IsLoop
  <2>4. LoopFits(k)
    BY <2>2, <2>3, LoopVariant
  <2>5. QED
    BY <2>3, <2>4
<1>4. ASSUME keys # {}
      PROVE  LoopFits(loop) /\ loop.instance = (IF phase = "done" THEN 2 ELSE 1)
  <2>1. u # None /\ Good(u) /\ u.instance = (IF phase = "done" THEN 2 ELSE 1)
    BY <1>4, CurrentIsGood
  <2>2. IsLoop(loop) /\ loop.instance = u.instance /\ loop.sources = u.registry /\ loop.queue = keys
    BY DEF Loop, IsLoop
  <2>3. keys \subseteq DOMAIN u.registry /\ DOMAIN u.registry \subseteq Nat
    BY <2>1 DEF Good, WellBuilt
  <2> HIDE DEF loop
  <2>4. ASSUME NEW k \in DOMAIN u.registry, ~u.registry[k].mixed, Solo(u, k)
        PROVE  PageOk(Again(u.registry[k])) /\ DOMAIN u.registry[k].default \subseteq DOMAIN u.registry[k].last
    BY <2>1, <2>4, RememberedPage
  <2>5. LoopFits(loop)
    BY <1>4, <2>2, <2>3, <2>4 DEF LoopFits
  <2>6. QED
    BY <2>1, <2>2, <2>5
<1> HIDE DEF loop, keys
<1>5. \A k \in loops' : LoopFits(k) /\ k.instance \in {1, 2} /\ (phase # "done" => k.instance = 1)
  BY <1>1, <1>2, <1>3, <1>4 DEF LoopsFit, InstancesInTurn
<1>6. LoopsFit' /\ RequestsFit'
  BY <1>1, <1>2, <1>5 DEF LoopsFit, RequestsFit, RequestFits, LoopFits, Current
<1>7. QED
  BY <1>1, <1>2, <1>5, <1>6 DEF IInv, Bounds, UisAreGood, ConversationUiIsShown, InstancesInTurn

LEMMA DoneKeeps == ASSUME IInv, NEW response \in Responses, Done(response) PROVE IInv'
<1>1. /\ Bounds /\ UisAreGood /\ ConversationUiIsShown /\ InstancesInTurn /\ RequestsFit /\ LoopsFit
  BY DEF IInv
<1>2. /\ phase = "pending" /\ phase' = "done"
      /\ ui' = [ui EXCEPT ![2] = BuildUi(response, 2)] /\ conversationUi' = ui'[2]
      /\ effectDue' = (effectDue \/ active)
      /\ UNCHANGED <<requests, active, loops, clicks, visits>>
  BY DEF Done, Built, NextUi, Messages
<1>3. ui'[1] = ui[1] /\ ui'[2] = BuildUi(response, 2) /\ ui' = [m \in Messages |-> ui'[m]]
  <2>1. ui = [m \in Messages |-> ui[m]] /\ 1 \in Messages /\ 2 \in Messages
    BY <1>1 DEF Bounds, Messages
  <2>2. DOMAIN ui = Messages /\ DOMAIN ui' = Messages
    BY <1>2, <2>1
  <2>3. QED
    BY <1>2, <2>1, <2>2
<1>4. ui'[2] # None => Good(ui'[2]) /\ ui'[2].instance = 2
  BY <1>3, BuiltIsGood DEF Good, Messages
<1>5. UisAreGood' /\ ConversationUiIsShown' /\ InstancesInTurn'
  BY <1>1, <1>2, <1>3, <1>4 DEF UisAreGood, ConversationUiIsShown, InstancesInTurn, Messages
<1>6. \A x \in requests \cup loops : ~Current(x)'
  BY <1>1, <1>2, <1>4 DEF InstancesInTurn, Current
<1>7. RequestsFit' /\ LoopsFit'
  BY <1>1, <1>2, <1>6 DEF RequestsFit, LoopsFit, RequestFits, LoopFits
<1>8. Bounds'
  BY <1>1, <1>2, <1>3 DEF Bounds
<1>9. QED
  BY <1>5, <1>7, <1>8 DEF IInv

LEMMA StepIsGood == IInv /\ [Next]_vars => IInv'
<1> SUFFICES ASSUME IInv, [Next]_vars PROVE IInv'
  OBVIOUS
<1> USE DEF IInv, Bounds, UisAreGood, ConversationUiIsShown, InstancesInTurn, RequestsFit, LoopsFit,
            RequestFits, LoopFits, Current
<1>1. ASSUME NEW r \in requests, AnswerFails(r) PROVE IInv'
  BY <1>1 DEF AnswerFails
<1>2. CASE Send
  BY <1>2 DEF Send
<1>3. CASE Fail
  BY <1>3 DEF Fail
<1>4. CASE Leave
  BY <1>4 DEF Leave
<1>5. CASE Open
  BY <1>5, ConstantsAssumption DEF Open
<1>6. CASE UNCHANGED vars
  BY <1>6 DEF vars
<1>7. CASE Use
  BY <1>7, UseKeeps
<1>8. ASSUME NEW r \in requests, Answer(r) PROVE IInv'
  BY <1>8, AnswerKeeps
<1>9. ASSUME NEW response \in Responses, Done(response) PROVE IInv'
  BY <1>9, DoneKeeps
<1>10. CASE Refreshing
  BY <1>10, RefreshedKeeps, RefreshFailsKeeps DEF Refreshing
<1>11. CASE RunEffect
  BY <1>11, EffectKeeps DEF RunEffect
<1>12. QED
  BY <1>1, <1>2, <1>3, <1>4, <1>5, <1>6, <1>7, <1>8, <1>9, <1>10, <1>11 DEF Next

LEMMA UisStayGood == Spec => []IInv
  BY StartIsGood, StepIsGood, PTL DEF Spec

-----------------------------------------------------------------------------

\* What a UI shows of a source is what its handler answers to the arguments it will
\* be asked with again, unless the last answer was that of another UI, of another
\* view of it or of an action with a handler or arguments of its own; it is on a page
\* that exists, and the UI that actions and answers are looked up in is the one the
\* latest message shows; in whatever order components are used, answers and refreshes
\* arrive or fail, the conversation is left and opened and the next message's UI
\* comes (useChat.ts, agent-chat.ts, ActionRouter.cs).
THEOREM SourcesAlwaysAgree == Spec => []SourcesAgree
<1>1. IInv => SourcesAgree
  <2> SUFFICES ASSUME IInv PROVE SourcesAgree
    OBVIOUS
  <2>1. Bounds /\ UisAreGood /\ LoopsFit
    BY DEF IInv
  <2>2. TypeOK
    BY <2>1 DEF TypeOK, Bounds, UisAreGood, Good, WellBuilt, LoopsFit, LoopFits
  <2>3. ShownIsAnswered
    BY <2>1 DEF ShownIsAnswered, UisAreGood, Good, Answered, Extends, Foreign
  <2>4. PageExists
    BY <2>1 DEF PageExists, UisAreGood, Good, Paged, PageOk
  <2>5. ConversationUiIsLatest
    BY CurrentIsGood DEF ConversationUiIsLatest
  <2>6. QED
    BY <2>2, <2>3, <2>4, <2>5 DEF SourcesAgree
<1>2. QED
  BY <1>1, UisStayGood, PTL

\* Once a second message is sent, the UI of the first one stays as it was: its own
\* late answers and refreshes go to the UI of the latest message (useChat.ts,
\* updateConversationUi), and to none of an earlier one.
THEOREM HistoryAlwaysStays == Spec => HistoryStays
<1>1. ASSUME IInv, Next, phase # "none" PROVE ui'[1] = ui[1]
  <2>1. DOMAIN ui = Messages /\ 1 \in Messages /\ UpdatedMessage = 2
    BY <1>1 DEF IInv, Bounds, UpdatedMessage, Latest, Messages
  <2>2. ASSUME NEW new, UpdateConversationUi(new) PROVE ui'[1] = ui[1]
    BY <2>1, <2>2 DEF UpdateConversationUi
  <2>3. CASE Use
    <3>1. PICK m \in Messages : \E c \in ui[m].components : Go(m, c) \/ Submit(m, c) \/ Press(m, c)
      BY <2>3 DEF Use
    <3>2. PICK c \in ui[m].components : Go(m, c) \/ Submit(m, c) \/ Press(m, c)
      BY <3>1
    <3>3. PICK said : SendAction(m, c, said)
      BY <3>2 DEF Go, Submit, Press
    <3>4. QED
      BY <3>3 DEF SendAction
  <2>4. CASE Send \/ Fail \/ Leave \/ Open
    BY <2>4 DEF Send, Fail, Leave, Open
  <2>5. ASSUME NEW r \in requests, Answer(r) \/ AnswerFails(r) PROVE ui'[1] = ui[1]
    BY <2>2, <2>5 DEF Answer, AnswerFails
  <2>6. ASSUME NEW response \in Responses, Done(response) PROVE ui'[1] = ui[1]
    BY <2>1, <2>6 DEF Done
  <2>7. CASE Refreshing
    BY <2>2, <2>7 DEF Refreshing, Refreshed, RefreshFails
  <2>8. CASE RunEffect
    BY <2>8 DEF RunEffect, Effect
  <2>9. QED
    BY <1>1, <2>3, <2>4, <2>5, <2>6, <2>7, <2>8 DEF Next
<1>2. IInv /\ [Next]_vars => [phase # "none" => ui'[1] = ui[1]]_vars
  BY <1>1
<1>3. QED
  BY <1>2, UisStayGood, PTL DEF Spec, HistoryStays
=============================================================================
