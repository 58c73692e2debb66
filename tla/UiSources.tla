------------------------------ MODULE UiSources ------------------------------
(***************************************************************************)
(* Generated user interfaces and the data behind them: how the client      *)
(* builds a UI from an agent's response (utils/agent-chat.ts), what its    *)
(* interactive components ask for (sandbox/registry), how the hook sends   *)
(* an action and patches the answer in (hooks/useChat.ts), and what the    *)
(* action service answers (ActionRouter.cs).                               *)
(*                                                                         *)
(* One conversation with two assistant messages: the first has a UI, the   *)
(* second arrives while the first one is used. Arguments are functions     *)
(* from argument names to values; rows are left out, a datum is the        *)
(* handler that answered and the arguments it answered.                    *)
(***************************************************************************)
EXTENDS Integers, Sequences, FiniteSets, SequencesExt

CONSTANTS
    Responses,      \* final responses of the agent
    Queries,        \* what may be typed in a search bar
    Entries,        \* how many entries the service behind each handler has
    PageSize,       \* the limit of a page
    MaxClicks,      \* bound: uses of a component
    MaxVisits,      \* bound: times the conversation is opened
    None

\* Bounds are numbers, None is none, a response lists its components and defines
\* their sources (an undefined one has the definition that is inferred for its id),
\* and the services of its sources have entries.
ASSUME ConstantsAssumption ==
    /\ {PageSize, MaxClicks, MaxVisits} \subseteq Nat /\ MaxVisits > 0 /\ None \notin Nat
    /\ \A response \in Responses :
        /\ DOMAIN response.components \subseteq Nat
        /\ IsFiniteSet(DOMAIN response.components)
        /\ \A i \in DOMAIN response.components :
              response.components[i].source \in DOMAIN response.sources \cup {None}
        /\ \A id \in DOMAIN response.sources : Entries[response.sources[id].handler] \in Nat \ {0}

VARIABLES
    ui,             \* the UI of each message, or None
    conversationUi, \* the conversation's uiV1
    phase,          \* the second message: none, pending, done or failed
    requests,       \* actions that wait for their answer
    active,         \* the conversation is the active one
    effectDue,      \* it was opened or has a new UI: refresh its sources
    loops,          \* refreshes under way, one source after the other
    refreshedRuns,  \* refreshedSourceRunsRef
    clicks, visits,
    asked           \* history: the sources requested since the effect ran

vars == <<ui, conversationUi, phase, requests, active, effectDue, loops, refreshedRuns,
          clicks, visits, asked>>

Messages == {1, 2}
Latest == IF phase = "none" THEN 1 ELSE 2

\* What the service of a datum has: its entries, and one that matches a query.
Total(datum) == IF "q" \in DOMAIN datum.args THEN 1 ELSE Entries[datum.handler]

Skip(args) == IF "skip" \in DOMAIN args THEN args["skip"] ELSE 0

NoArgs == <<>>

\* The spread { ...g, ...f }: what f says comes before what g does.
Over(f, g) == [x \in DOMAIN f \cup DOMAIN g |-> IF x \in DOMAIN f THEN f[x] ELSE g[x]]

-----------------------------------------------------------------------------
(* Building a UI                                                           *)

Interactive == {"pagination", "searchBar"}

\* The arguments of a component's source: its own override the definition's.
SourceArgs(response, c) == Over(c.params, response.sources[c.source].args)

\* Components with the same source and the same arguments share a key.
Signature(response, c) == <<c.source, SourceArgs(response, c)>>

\* The components whose source no earlier one has with the same arguments.
Firsts(response) ==
    LET Sourced(i) == response.components[i].source # None
        Signed(i) == Signature(response, response.components[i])
    IN  {i \in DOMAIN response.components :
            Sourced(i) /\ \A j \in DOMAIN response.components :
                              j < i /\ Sourced(j) => Signed(j) # Signed(i)}

\* Sources are numbered as their first components come.
Number(response, i) == Cardinality({j \in Firsts(response) : j <= i})

Keys(response) ==
    [k \in {Number(response, i) : i \in Firsts(response)} |->
        LET i == CHOOSE i \in Firsts(response) : Number(response, i) = k
        IN  Signature(response, response.components[i])]

KeyOf(response, c) ==
    IF c.source = None THEN None
    ELSE CHOOSE k \in DOMAIN Keys(response) : Keys(response)[k] = Signature(response, c)

SourceName(key) == "source_" \o ToString(key)

\* A panel's buttons have templates of their own: they do not say the panel's source.
Bound(c) == c.source # None /\ c.name # "actionPanel"

\* The source id in a component's payload: its source's, or what its props say.
DataSourceId(c) == IF Bound(c) THEN c.source ELSE c.says

\* inferInteractiveActionId
InferredAction(c) ==
    IF c.source # None /\ c.name \in Interactive THEN c.source \o "." \o c.name ELSE None

ActionOf(c) == IF c.action # None THEN c.action ELSE InferredAction(c)

\* A bar without an action queries the source it says.
ActionType(c) ==
    IF c.name \in Interactive /\ ActionOf(c) = None /\ DataSourceId(c) # None
    THEN "data.query" ELSE c.type

\* A payload template that contains the source's own arguments.
EnsurePayloadTemplate(response, c) ==
    IF Bound(c) THEN Over(SourceArgs(response, c), c.payload) ELSE c.payload

\* The actions the response declares, and one for each source and interactive
\* component of it, with the source's handler and the arguments of the first one.
Actions(response) ==
    LET Inferring == {i \in DOMAIN response.components :
                        InferredAction(response.components[i]) # None}
        Infer(i) == [source |-> response.components[i].source,
                     handler |-> response.sources[response.components[i].source].handler,
                     args |-> SourceArgs(response, response.components[i]), refreshes |-> {}]
        Ids == {InferredAction(response.components[i]) : i \in Inferring}
        First(id) == Min({i \in Inferring : InferredAction(response.components[i]) = id})
    IN  Over(response.actions, [id \in Ids |-> Infer(First(id))])

\* strays and mixed are history: how the answer that is shown was not an answer
\* for this source, and whether one was ever that of a component of another UI or
\* of another handler.
ToUiDataSourceState(response, signature) ==
    [id |-> signature[1], handler |-> response.sources[signature[1]].handler,
     default |-> signature[2], last |-> signature[2],
     refresh |-> response.sources[signature[1]].refresh, fetched |-> FALSE,
     strays |-> {}, mixed |-> FALSE]

BuildUi(response, instance) ==
    IF response.components = <<>> THEN None
    ELSE [instance |-> instance,
          components |-> {[name |-> c.name, key |-> IF Bound(c) THEN KeyOf(response, c) ELSE None,
                           says |-> DataSourceId(c), action |-> ActionOf(c), type |-> ActionType(c),
                           template |-> EnsurePayloadTemplate(response, c)] :
                           c \in ToSet(response.components)},
          registry |-> [k \in DOMAIN Keys(response) |->
                            ToUiDataSourceState(response, Keys(response)[k])],
          data |-> [k \in DOMAIN Keys(response) |->
                        [handler |-> response.sources[Keys(response)[k][1]].handler,
                         args |-> Keys(response)[k][2]]],
          actions |-> Actions(response)]

\* What each response is built into, for either message.
Built == [response \in Responses |-> [m \in Messages |-> BuildUi(response, m)]]

\* Responses begin with the first page, and only search bars search. A pager has a
\* source, and the action of a component with a source is about the same one. Where
\* this is not so, what a page starts at is up to the agent.
ASSUME PagingAssumption ==
    \A response \in Responses :
        LET Declared(id) == response.actions[id]
            OwnSource(c) == ActionOf(c) \in DOMAIN Actions(response) =>
                                Actions(response)[ActionOf(c)].source \in {c.source, None}
        IN  /\ \A c \in ToSet(response.components) :
                /\ Skip(c.payload) = 0 /\ "q" \notin DOMAIN c.payload
                /\ c.source # None => Skip(SourceArgs(response, c)) = 0
                /\ Bound(c) => OwnSource(c)
                /\ c.name = "pagination" => Bound(c)
            /\ \A id \in DOMAIN response.actions :
                Skip(Declared(id).args) = 0 /\ "q" \notin DOMAIN Declared(id).args

\* The agent does not name its sources as the UI names their keys.
ASSUME NamesAssumption ==
    \A response \in Responses : \A i \in DOMAIN response.components :
        /\ SourceName(i) \notin DOMAIN response.sources
        /\ \A id \in DOMAIN response.actions : response.actions[id].source # SourceName(i)

-----------------------------------------------------------------------------
(* Patching answers in                                                     *)

\* Mutant of PatchUiDataSourceResult: the arguments remembered are the defaults.
PatchForgetsArgs(u, keys, datum, requestArgs) ==
    [u EXCEPT !.data = [k \in DOMAIN @ |-> IF k \in keys THEN datum ELSE @[k]],
              !.registry = [k \in DOMAIN @ |->
                  IF k \in keys THEN [@[k] EXCEPT !.last = u.registry[k].default, !.fetched = TRUE]
                                ELSE @[k]]]

\* A key the UI does not have is patched too, but nothing reads it.
PatchUiDataSourceResult(u, keys, datum, requestArgs) ==
    [u EXCEPT !.data = [k \in DOMAIN @ |-> IF k \in keys THEN datum ELSE @[k]],
              !.registry = [k \in DOMAIN @ |->
                  IF k \in keys THEN [@[k] EXCEPT !.last = requestArgs, !.fetched = TRUE]
                                ELSE @[k]]]

\* Mutant of UpdatedMessage: the latest message with a UI.
LatestWithUi == IF ui[Latest] = None THEN 1 ELSE Latest

\* The latest assistant message, whichever the component belongs to.
UpdatedMessage == Latest

\* The UI that is updated: a message without a UI gets the conversation's.
UpdatedUi ==
    IF ui[UpdatedMessage] = None THEN conversationUi ELSE ui[UpdatedMessage]

UpdateConversationUi(updated) ==
    IF UpdatedUi = None THEN UNCHANGED <<ui, conversationUi>>
    ELSE /\ conversationUi' = updated
         /\ ui' = [ui EXCEPT ![UpdatedMessage] = updated]

\* History: strays says of each key that was patched what the answer was not.
MarkStrays(u, strays, own) ==
    [u EXCEPT !.registry = [k \in DOMAIN @ |->
        IF k \in DOMAIN strays
        THEN [@[k] EXCEPT !.strays = strays[k],
                          !.mixed = u.registry[k].mixed \/ ~own \/ strays[k] \cap {"ui", "handler"} # {}]
        ELSE @[k]]]

-----------------------------------------------------------------------------
(* Using a component                                                       *)

FirstKey(u, id) ==
    LET keys == {k \in DOMAIN u.registry : u.registry[k].id = id}
    IN  IF keys = {} THEN None ELSE Min(keys)

\* resolveActionPayload: the template overrides what the component says.
Payload(c, said) == Over(c.template, said)

ResolvedAction(u, c) ==
    IF c.action # None /\ c.action \in DOMAIN u.actions THEN u.actions[c.action] ELSE None

\* The first source with the id of the component's action.
ActionTarget(u, c) ==
    IF ResolvedAction(u, c) = None THEN None ELSE FirstKey(u, ResolvedAction(u, c).source)

\* The key the answer is for: the action's source before the component's own, and
\* that before the first with the id it says.
TargetKey(u, c) ==
    IF ActionTarget(u, c) # None THEN ActionTarget(u, c)
    ELSE IF c.key # None THEN c.key ELSE FirstKey(u, c.says)

\* The key of the source that is asked: the same, unless the UI has no such key.
TargetSource(u, c) ==
    IF TargetKey(u, c) \in DOMAIN u.registry THEN TargetKey(u, c) ELSE FirstKey(u, c.says)

\* What an action without a target of its own asks of its source.
SourceAction(source) ==
    [source |-> source.id, handler |-> source.handler, args |-> source.default, refreshes |-> {}]

RequestArgs(u, c, said) ==
    LET target == TargetSource(u, c)
    IN  Over(Payload(c, said), IF target = None THEN NoArgs ELSE u.registry[target].last)

\* What is sent for a component: a query of the target source, or the resolved or
\* inline action with the source, if there is one.
Sending(m, c, said) ==
    LET u == conversationUi
        target == TargetSource(u, c)
        source == IF target = None THEN None
                  ELSE [id |-> u.registry[target].id, handler |-> u.registry[target].handler,
                        default |-> u.registry[target].default]
        query == c.type = "data.query" /\ source # None
    IN  [number |-> clicks, instance |-> u.instance, own |-> ui[m] = u,
         key |-> TargetKey(u, c), source |-> source, query |-> query, name |-> c.action,
         action |-> IF query \/ ResolvedAction(u, c) = None THEN SourceAction(source)
                    ELSE ResolvedAction(u, c),
         requestArgs |-> RequestArgs(u, c, said),
         dataSources |-> {SourceName(k) : k \in DOMAIN u.registry}]

\* sendAction, for component c of message m. Without a source and an action nothing
\* is sent; an action is sent without a source.
SendAction(m, c, said) ==
    /\ clicks < MaxClicks
    /\ clicks' = clicks + 1
    /\ IF conversationUi = None THEN UNCHANGED requests
       ELSE IF TargetSource(conversationUi, c) = None /\ ResolvedAction(conversationUi, c) = None
            THEN UNCHANGED requests
            ELSE requests' = requests \cup {Sending(m, c, said)}
    /\ UNCHANGED <<ui, conversationUi, phase, active, effectDue, loops, refreshedRuns,
                   visits, asked>>

Shown(m, c) == ui[m].data[c.key]

CanNext(datum) == Skip(datum.args) + PageSize < Total(datum)

CanPrev(datum) == Skip(datum.args) > 0

\* Pagination: the next or the previous page of what is shown.
Go(m, c) ==
    /\ c.name = "pagination"
    /\ LET skip == Skip(Shown(m, c).args)
       IN  \/ CanNext(Shown(m, c)) /\ SendAction(m, c, [skip |-> skip + PageSize])
           \/ CanPrev(Shown(m, c)) /\ SendAction(m, c,
                 [skip |-> IF skip < PageSize THEN 0 ELSE skip - PageSize])

\* SearchBar; SortDropdown and CategoryChips send their own argument the same way.
Submit(m, c) ==
    /\ c.name = "searchBar"
    /\ \E q \in Queries : SendAction(m, c, [q |-> q, skip |-> 0])

\* ActionPanel: a button says nothing but its action.
Press(m, c) ==
    /\ c.name = "actionPanel"
    /\ SendAction(m, c, NoArgs)

-----------------------------------------------------------------------------
(* The action service answers                                              *)

\* ResolveTargetDataSource: no source is found under the action's id, since the
\* request names sources as the UI does. So the one sent with it is asked, by the
\* action's handler or its own, or the action's handler alone, or nothing.
Handler(r) ==
    IF r.action.handler # None \/ r.source = None THEN r.action.handler ELSE r.source.handler

\* What the handler is asked: the payload over the defaults of action and source.
AnsweredArgs(r) ==
    Over(r.requestArgs, Over(r.action.args, IF r.source = None THEN NoArgs ELSE r.source.default))

Datum(r) == [handler |-> Handler(r), args |-> AnsweredArgs(r)]

\* The source id of the answer: a source made up for the action has the action's.
ResultId(r) ==
    IF r.source # None THEN r.source.id
    ELSE IF Handler(r) = None THEN None
    ELSE IF r.action.source # None THEN r.action.source ELSE r.name

\* Sources to refresh are looked up in the same way, and have no handler of their own.
ResolveRefreshes(r) == r.action.refreshes \cap r.dataSources

\* The keys the answer is for: the target, and for an action every source with
\* the action's or the answer's id. An answer without data is for none.
AnswerKeys(u, r) ==
    {k \in DOMAIN u.registry :
        /\ Handler(r) # None
        /\ \/ k = r.key
           \/ ~r.query /\ u.registry[k].id \in {r.action.source, ResultId(r)}}

RefreshedKeys(u, r) == {k \in DOMAIN u.registry : u.registry[k].id \in ResolveRefreshes(r)}

\* What an answer is not: of this UI's source, of its handler, of its arguments.
StraysOf(u, r) ==
    {why \in {"ui", "handler", "args"} :
        \/ why = "ui" /\ r.instance # u.instance
        \/ why = "handler" /\ (r.source = None \/ Handler(r) # r.source.handler)
        \/ why = "args" /\ r.source # None /\ AnsweredArgs(r) # Over(r.requestArgs, r.source.default)}

\* A key that is not the one the answer is for sees another view of its source.
View(k, key) == IF k = key THEN {} ELSE {"view"}

\* The sources that were refreshed have their default arguments again, those with
\* the same id the first one's.
PatchRefreshes(u, keys, strays) ==
    LET First(k) == FirstKey(u, u.registry[k].id)
        Default(k) == u.registry[First(k)].default
        patched == [u EXCEPT !.data = [k \in DOMAIN @ |->
                                 IF k \in keys THEN [handler |-> u.registry[k].handler, args |-> Default(k)]
                                                ELSE @[k]],
                             !.registry = [k \in DOMAIN @ |->
                                 IF k \in keys THEN [@[k] EXCEPT !.last = Default(k), !.fetched = TRUE]
                                                ELSE @[k]]]
    IN  MarkStrays(patched, [k \in keys |-> strays \cup View(k, First(k))], TRUE)

Answer(r) ==
    LET Primary(u) ==
            MarkStrays(PatchUiDataSourceResult(u, AnswerKeys(u, r), Datum(r), r.requestArgs),
                       [k \in AnswerKeys(u, r) |-> StraysOf(u, r) \cup View(k, r.key)], r.own)
        Patched(u) == PatchRefreshes(Primary(u), RefreshedKeys(u, r), StraysOf(u, r) \cap {"ui"})
    IN  /\ requests' = requests \ {r}
        /\ UpdateConversationUi(Patched(UpdatedUi))
        /\ UNCHANGED <<phase, active, effectDue, loops, refreshedRuns, clicks, visits, asked>>

\* The message says that the component cannot be refreshed.
AnswerFails(r) ==
    /\ requests' = requests \ {r}
    /\ UNCHANGED <<ui, conversationUi, phase, active, effectDue, loops, refreshedRuns,
                   clicks, visits, asked>>

-----------------------------------------------------------------------------
(* The second message                                                      *)

Send ==
    /\ phase = "none" /\ active
    /\ phase' = "pending"
    /\ UNCHANGED <<ui, conversationUi, requests, active, effectDue, loops, refreshedRuns,
                   clicks, visits, asked>>

NextUi(u) == u

\* The done event: the message and the conversation get the new UI, or none.
Done(response) ==
    /\ phase = "pending"
    /\ phase' = "done"
    /\ ui' = [ui EXCEPT ![2] = Built[response][2]]
    /\ conversationUi' = NextUi(ui'[2])
    /\ effectDue' = (effectDue \/ active)
    /\ UNCHANGED <<requests, active, loops, refreshedRuns, clicks, visits, asked>>

Fail ==
    /\ phase = "pending"
    /\ phase' = "failed"
    /\ UNCHANGED <<ui, conversationUi, requests, active, effectDue, loops, refreshedRuns,
                   clicks, visits, asked>>

-----------------------------------------------------------------------------
(* Refreshing the sources of a conversation that is opened                 *)

Leave ==
    /\ active /\ ~effectDue
    /\ active' = FALSE
    /\ effectDue' = TRUE
    /\ UNCHANGED <<ui, conversationUi, phase, requests, loops, refreshedRuns, clicks, visits, asked>>

Open ==
    /\ ~active /\ ~effectDue /\ visits < MaxVisits
    /\ active' = TRUE
    /\ effectDue' = TRUE
    /\ visits' = visits + 1
    /\ UNCHANGED <<ui, conversationUi, phase, requests, loops, refreshedRuns, clicks, asked>>

\* Which sources are refreshed; stale holds those whose time has passed.
Refreshable(u, k, stale) ==
    \/ u.registry[k].refresh = "open"
    \/ /\ u.registry[k].refresh = "load"
       /\ ~u.registry[k].fetched
       /\ <<u.instance, k>> \notin refreshedRuns
    \/ u.registry[k].refresh = "stale" /\ u.registry[k].fetched /\ k \in stale

\* A loop over sources in their order, as they are now; the first is requested.
Loop(u, keys) == [instance |-> u.instance, sources |-> u.registry, queue |-> keys, cancelled |-> FALSE]

Cancelled == {[l EXCEPT !.cancelled = TRUE] : l \in loops}

\* The request for the first source of a queue is sent.
Request(l, keys) ==
    /\ refreshedRuns' = refreshedRuns \cup {<<l.instance, Min(keys)>>}
    /\ asked' = IF l.cancelled THEN asked ELSE asked \cup {Min(keys)}

\* The effect: it cancels the last one, and starts to refresh.
Effect(stale) ==
    /\ effectDue
    /\ effectDue' = FALSE
    /\ LET u == conversationUi
           keys == IF ~active \/ u = None THEN {}
                   ELSE {k \in DOMAIN u.registry : Refreshable(u, k, stale)}
       IN  IF keys = {}
           THEN loops' = Cancelled /\ asked' = {} /\ UNCHANGED refreshedRuns
           ELSE /\ loops' = Cancelled \cup {Loop(u, keys)}
                /\ asked' = {Min(keys)}
                /\ refreshedRuns' = refreshedRuns \cup {<<u.instance, Min(keys)>>}
    /\ UNCHANGED <<ui, conversationUi, phase, requests, active, clicks, visits>>

\* The loop goes on after its first source.
Advance(l) ==
    LET rest == l.queue \ {Min(l.queue)}
    IN  IF rest = {} THEN loops' = loops \ {l} /\ UNCHANGED <<refreshedRuns, asked>>
        ELSE loops' = (loops \ {l}) \cup {[l EXCEPT !.queue = rest]} /\ Request(l, rest)

End(l) == loops' = loops \ {l} /\ UNCHANGED <<refreshedRuns, asked>>

Refreshed(l) ==
    LET k == Min(l.queue)
        source == l.sources[k]
        datum == [handler |-> source.handler, args |-> Over(source.last, source.default)]
        strays == IF l.instance = UpdatedUi.instance THEN {} ELSE {"ui"}
        Patched(u) == MarkStrays(PatchUiDataSourceResult(u, {k} \cap DOMAIN u.registry, datum, source.last),
                                 [key \in {k} \cap DOMAIN u.registry |-> strays], TRUE)
    IN  /\ \/ l.cancelled /\ End(l) /\ UNCHANGED <<ui, conversationUi>>
           \/ ~l.cancelled /\ Advance(l) /\ UpdateConversationUi(Patched(UpdatedUi))
        /\ UNCHANGED <<phase, requests, active, effectDue, clicks, visits>>

\* Mutant of RefreshFails: an error ends the loop.
RefreshFailsForAll(l) ==
    /\ End(l)
    /\ UNCHANGED <<ui, conversationUi, phase, requests, active, effectDue, clicks, visits>>

\* An error is ignored, and the next source is requested.
RefreshFails(l) ==
    /\ IF l.cancelled THEN End(l) ELSE Advance(l)
    /\ UNCHANGED <<ui, conversationUi, phase, requests, active, effectDue, clicks, visits>>

-----------------------------------------------------------------------------

Init ==
    /\ \E response \in Responses :
        /\ Built[response][1] # None
        /\ ui = [m \in Messages |-> IF m = 1 THEN Built[response][1] ELSE None]
    /\ conversationUi = ui[1]
    /\ phase = "none"
    /\ requests = {} /\ clicks = 0
    /\ active = TRUE /\ effectDue = TRUE /\ visits = 1
    /\ loops = {} /\ refreshedRuns = {} /\ asked = {}

Use == \E m \in Messages :
    /\ active /\ ui[m] # None
    /\ \E c \in ui[m].components : Go(m, c) \/ Submit(m, c) \/ Press(m, c)

Refreshing == \E l \in loops : Refreshed(l) \/ RefreshFails(l)

RunEffect ==
    \/ conversationUi = None /\ Effect({})
    \/ /\ conversationUi # None
       /\ \E stale \in SUBSET {k \in DOMAIN conversationUi.registry :
                                  conversationUi.registry[k].refresh = "stale"} : Effect(stale)

Next ==
    \/ Use \/ Send \/ Fail \/ Leave \/ Open
    \/ \E r \in requests : Answer(r) \/ AnswerFails(r)
    \/ \E response \in Responses : Done(response)
    \/ Refreshing \/ RunEffect

Spec == Init /\ [][Next]_vars

\* A due effect runs, or the loop under way hears of its request.
Going == RunEffect \/ \E l \in loops : ~l.cancelled /\ (Refreshed(l) \/ RefreshFails(l))

\* The browser settles every request, and React runs the effects of a render. It is
\* enough that one of these happens while any is to come.
Fairness == WF_vars(Going)

FairSpec == Spec /\ Fairness

-----------------------------------------------------------------------------
(* What must hold                                                          *)

\* Every UI's data and registry have the same keys, a request's target was one
\* of them, and a loop under way has a source to wait for.
TypeOK ==
    /\ \A m \in Messages : ui[m] # None => DOMAIN ui[m].data = DOMAIN ui[m].registry
    /\ phase \in {"none", "pending", "done", "failed"}
    /\ active \in BOOLEAN /\ effectDue \in BOOLEAN
    /\ clicks \in 0..MaxClicks /\ visits \in 0..MaxVisits
    /\ \A r \in requests : r.number \in 0..MaxClicks
    /\ \A l \in loops : l.queue # {}

\* What a source shows is what its handler answers to the arguments it will be asked
\* with again, no more and no less; late answers, refreshes and actions for another
\* component do not separate the two. Where they part, the last answer was not one
\* for this source: of another UI, of another view of it, or of an action with a
\* handler or arguments of its own, which are not remembered. Even then all that is
\* remembered was answered, and views and arguments do not change the handler.
ShownIsAnswered ==
    \A m \in Messages : ui[m] # None => \A k \in DOMAIN ui[m].registry :
        LET source == ui[m].registry[k]
            shown == ui[m].data[k]
        IN  /\ \A a \in DOMAIN source.last : a \in DOMAIN shown.args /\ shown.args[a] = source.last[a]
            /\ source.strays = {} => shown.args = Over(source.last, source.default)
            /\ source.strays \cap {"ui", "handler"} = {} => shown.handler = source.handler

Solo(u, k) == \A j \in DOMAIN u.registry : u.registry[j].id = u.registry[k].id => j = k

\* Paging never leaves the entries: what is shown starts at an entry that
\* exists, whatever was searched, paged and answered in between. It can when two
\* sources of a UI share an id, when the answer of another UI's component or of
\* another handler was patched in, and when an action's own arguments narrow the
\* entries, which no action here does.
PageExists ==
    \A m \in Messages : ui[m] # None => \A k \in DOMAIN ui[m].registry :
        Solo(ui[m], k) /\ ~ui[m].registry[k].mixed => Skip(ui[m].data[k].args) < Total(ui[m].data[k])

\* The UI that actions are looked up in is the one the latest message shows.
ConversationUiIsLatest ==
    phase \in {"none", "done"} \/ ui[2] # None => conversationUi = ui[Latest]

\* The UI of a message stays as it was once another message follows it.
HistoryStays == [][phase # "none" => ui'[1] = ui[1]]_vars

\* The sources that ask to be refreshed and were not requested since.
Owed == IF conversationUi = None THEN {}
        ELSE {k \in DOMAIN conversationUi.registry : conversationUi.registry[k].refresh = "open"} \ asked

\* A source that asks for it is requested each time the conversation is opened,
\* whatever fails before it.
RefreshedOnOpen == (active /\ ~effectDue /\ Owed # {}) ~> (~active \/ effectDue \/ Owed = {})

\* An action refreshes the sources it names, if the UI has them.
NamedSourcesAreRefreshed ==
    [][\A r \in requests : Answer(r) /\ conversationUi # None /\ r.instance = conversationUi.instance =>
        \A k \in DOMAIN conversationUi.registry :
            conversationUi.registry[k].id \in r.action.refreshes => conversationUi'.registry[k].fetched]_vars

\* What a UI shows of a source, what is remembered of the source and what its next
\* request will ask for agree, page by page and message by message.
SourcesAgree == TypeOK /\ ShownIsAnswered /\ PageExists /\ ConversationUiIsLatest

=============================================================================
