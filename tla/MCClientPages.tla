---------------------------- MODULE MCClientPages ----------------------------
(***************************************************************************)
(* Small instances of the parts of the web pages that share nothing: the   *)
(* status page's summary and its polling, a generated UI's live data,      *)
(* values, charts, table, forms and timer, who is shown which page, the    *)
(* settings page's connections and the documentation's image viewer. A     *)
(* behaviour is one part's: Init chooses it, and the variables of the      *)
(* others stay Off. Some variables serve two parts that give them the      *)
(* same name.                                                              *)
(***************************************************************************)
EXTENDS Integers, Sequences, FiniteSets, TLC

CONSTANTS
    Services, HourLength, WindowHours, MaxAudits,
    MaxRecords, Requests, MaxRefreshes,
    JsonValues, Documents, Segments, Paths, ListKeys,
    Sources, KeyOf, Colors, OtherColors, Palette, PlaneWidth,
    Columns, Tables, NumberOf, TextRankOf, Queries, Absent, PageSize,
    Sessions,
    Fields, Required, Texts, Blank,
    MaxMounts,
    Responses, Answers, Word, MaxQueries,
    Touches, Mouse, ImageWidth, MaxZoom,
    Accounts, MaxEvents,
    None, Off

ASSUME ConstantsAssumption ==
    /\ {HourLength, WindowHours, PageSize, PlaneWidth, Sessions, ImageWidth, MaxZoom}
          \subseteq Nat \ {0}
    /\ {MaxAudits, MaxRecords, MaxRefreshes, MaxMounts, MaxQueries, MaxEvents} \subseteq Nat
    /\ Required \subseteq Fields /\ Blank \notin Texts /\ None \notin Texts
    /\ ImageWidth % 2 = 0
    /\ "all" \notin Services

\* Documents hold JSON values, and undefined is none; a path has a segment.
ASSUME DocumentsAssumption ==
    /\ Documents \subseteq JsonValues
    /\ [kind |-> "undefined"] \notin JsonValues
    /\ \A v \in JsonValues : v.kind = "object" => \A k \in DOMAIN v.fields : v.fields[k] \in JsonValues
    /\ Paths \subseteq Seq(Segments) \ {<<>>}
    /\ ListKeys \in Seq(Seq(Segments))

\* A chart's labels and names have keys, its values are numbers or none, and its colours
\* are told apart from those that a user picks.
ASSUME ChartAssumption ==
    /\ Sources \subseteq
          Seq([name : DOMAIN KeyOf, color : OtherColors \cup {None},
               points : Seq([label : DOMAIN KeyOf, value : Int \cup {None}, color : OtherColors \cup {None}])])
    /\ Palette \in Seq(OtherColors) \ {<<>>}
    /\ Colors \cap OtherColors = {} /\ None \notin Colors \cup OtherColors

\* A table's cells are numbers or not, and their texts have an order.
ASSUME TableAssumption ==
    /\ Tables \subseteq Seq([Columns -> DOMAIN NumberOf])
    /\ NumberOf \in [DOMAIN NumberOf -> Int \cup {None}]
    /\ TextRankOf \in [DOMAIN NumberOf -> Int]

VARIABLES
    component,
    recordings, statuses, told,                                      \* StatusSummary
    records, requests, effect, refreshing, clicked,                  \* StatusPolling
    summary,                                                         \* both
    path, spelling,                                                  \* UiValues
    source, valueColors, seriesColors, lineColor, hovered, edited,   \* Charts
    query, page, sort,                                               \* DataTable
    rows,                                                            \* UiValues and DataTable
    props, initial, form, pending, sent, typed,                      \* Forms
    rendered,                                                        \* Forms and Access
    kind,                                                            \* Charts and Forms
    data,                                                            \* UiValues, Forms and LiveData
    response, collection, answer, queries,                           \* LiveData
    phase, session, left, running, intervals, ref, deferred, worked, overtaken,    \* Pomodoro
    service, server, calls, mount, away, asked, failed, astray,      \* Connections
    shown,                                                           \* Connections and Access
    loading,                                                         \* StatusPolling, Connections, Access
    token, changed, user, resolved, refresh, carried, resent, cookie, location, due, posts,
    queued, intro, wanted, redirects, logins, intros, events,        \* Access
    width, zoom, offset, drag, pointers, pinch, three,               \* Lightbox
    open                                                             \* Charts and Lightbox

summaryVars == <<recordings, statuses, told>>
pollingVars == <<records, requests, effect, refreshing, clicked>>
valuesVars == <<path, spelling>>
chartVars == <<source, valueColors, seriesColors, lineColor, hovered, edited>>
tableVars == <<query, page, sort>>
formVars == <<props, initial, form, pending, sent, typed>>
timerVars == <<phase, session, left, running, intervals, ref, deferred, worked, overtaken>>
connectionVars == <<service, server, calls, mount, away, asked, failed, astray>>
viewerVars == <<width, zoom, offset, drag, pointers, pinch, three>>
liveVars == <<response, collection, answer, queries>>
accessVars == <<token, changed, user, resolved, refresh, carried, resent, cookie, location, due, posts,
                queued, intro, wanted, redirects, logins, intros, events>>
sharedVars == <<summary, rows, kind, data, rendered, shown, loading, open>>
vars == <<component, summaryVars, pollingVars, valuesVars, chartVars, tableVars, formVars,
          timerVars, connectionVars, viewerVars, liveVars, accessVars, sharedVars>>

-----------------------------------------------------------------------------
(* Values                                                                  *)

Text(t) == [kind |-> "text", text |-> t]
Array(s) == [kind |-> "array", items |-> s]
Object(f) == [kind |-> "object", fields |-> f]

\* Objects in objects, with names that contain a dot.
Names == {<<"a">>, <<"b">>, <<"a", "b">>}
Inner == UNION {{Object(f) : f \in [S -> {Text("2"), Array(<<2>>)}]} : S \in SUBSET {<<"b">>, <<"a", "b">>}}
Outer == {Text("1"), [kind |-> "null"], Array(<<1>>)} \cup Inner
SmallDocuments == UNION {{Object(f) : f \in [S -> Outer]} : S \in SUBSET Names}
SmallJsonValues == SmallDocuments \cup Outer \cup {Text("2"), Array(<<2>>)}
SmallPaths == UNION {[1..n -> {"a", "b"}] : n \in 1..3}
SmallListKeys == << <<"b">> >>

\* Charts: nothing; flat lists, with a colour of their own, labels of one key, a point
\* without a value; one series, with and without a colour; two, one with a gap.
Point(label, value, color) == [label |-> label, value |-> value, color |-> color]
Line(name, color, points) == [name |-> name, color |-> color, points |-> points]
SmallSources ==
    { <<>>,
      <<Line(None, None, <<Point("food", 2, None), Point("rent", 1, "own")>>)>>,
      <<Line(None, None, <<Point("food", None, None), Point("Food", 0, None), Point("rent", 3, None)>>)>>,
      <<Line("Income", "own", <<Point("food", 2, None), Point("rent", 1, None), Point("fun", 1, None)>>)>>,
      <<Line("Spent", None, <<Point("food", 2, None)>>)>>,
      <<Line("Income", "own", <<Point("food", 2, None), Point("rent", 1, None)>>),
        Line("Spent", None, <<Point("food", None, None), Point("rent", 1, "own")>>)>> }
SmallKeyOf == "food" :> "food" @@ "Food" :> "food" @@ "rent" :> "rent" @@ "fun" :> "fun"
         @@ None :> "value" @@ "Income" :> "income" @@ "Spent" :> "spent"
TwoColors == <<"p1", "p2">>

\* Tables: cells that are numbers, texts, both or absent, alike in some rows.
Row(cell, i) == [cell |-> cell, id |-> i]
Table(cells) == [i \in DOMAIN cells |-> Row(cells[i], ToString(i))]
Cells == {"9", "10", "1a", "null"}
SmallTables == {Table(cells) : cells \in UNION {[1..n -> Cells] : n \in {0, 1, 3}}}
          \cup {Table(<<"10", "9", "null", "9", "10">>), Table(<<"9", "10", "1a", "9", "1a">>)}
SmallNumberOf == "9" :> 9 @@ "10" :> 10 @@ "1a" :> None @@ "null" :> None
            @@ "1" :> 1 @@ "2" :> 2 @@ "3" :> 3 @@ "4" :> 4 @@ "5" :> 5
SmallTextRankOf == "1" :> 1 @@ "10" :> 2 @@ "1a" :> 3 @@ "2" :> 4 @@ "3" :> 5 @@ "4" :> 6
              @@ "5" :> 7 @@ "9" :> 8 @@ "null" :> 9
SmallQueries == {{"10", "1a"}, DOMAIN SmallNumberOf}

\* Live data: one or two components that share a source, each with rows of its own
\* or with none, or a search bar; what the projections of a plan compute and where
\* they read and write; answers with one list, two, or none, and gaps in their rows.
Given(i) == <<[title |-> i]>>
Shows(i) ==
    {[name |-> n, given |-> g, rowsKey |-> IF n = "dataTable" THEN "rows" ELSE None] :
        n \in {"dataTable", "barChart", "summaryPanel", "productCarousel", "categoryChips"}, g \in {None, Given(i)}}
    \cup {[name |-> "searchBar", given |-> None, rowsKey |-> None]}
FieldRef(name) == [kind |-> "field", name |-> name]
Constant(n) == [kind |-> "const", value |-> n]
Apply(op, a, b) == [kind |-> "op", op |-> op, args |-> <<a, b>>]
Op(op, a, b) == <<a, b, Apply(op, 1, 2)>>
Calculations ==
    {Op(op, FieldRef("price"), FieldRef("stock")) : op \in {"add", "multiply", "max", "divide"}}
    \cup {Op("subtract", Constant(9), FieldRef("price")), Op("subtract", FieldRef("stock"), Constant(1)),
          <<FieldRef("stock"), FieldRef("price"), Constant(1), Apply("add", 2, 3), Apply("coalesce", 1, 4)>>}
Column(key, expression) == [key |-> key, expression |-> expression, value |-> None, source |-> None]
Projected(e) ==
    <<Column("price", None), [Column("name", None) EXCEPT !.source = "title"], Column("result", e),
      [Column("shop", None) EXCEPT !.value = Word], Column(None, None)>>
Transform(input, output, fields) ==
    [type |-> "project_rows", input |-> input, output |-> output, fields |-> fields, hint |-> None]
Remainder == Transform("items", "rows", Projected(Op("subtract", Constant(9), FieldRef("price"))))
Plans ==
    {<<Transform("items", "rows", Projected(e))>> : e \in Calculations}
    \cup {<<>>, <<[Remainder EXCEPT !.input = None, !.output = "items"]>>, <<[Remainder EXCEPT !.output = None]>>,
          <<[Remainder EXCEPT !.hint = "rows"]>>, <<[Remainder EXCEPT !.type = None]>>,
          <<[Remainder EXCEPT !.type = "group_rows"]>>, <<[Remainder EXCEPT !.input = "lost"]>>,
          <<[Remainder EXCEPT !.fields = <<>>]>>,
          <<Remainder, Transform(None, "totals", <<Column("result", None), Column("price", <<FieldRef("price")>>)>>)>>}
Item(price, stock) == [title |-> Word, price |-> price, stock |-> stock]
Items == <<Item(6, 2), Item(None, 3), Item(4, None), Item(8, 0)>>
List(key, from, to) == [key |-> key, rows |-> SubSeq(Items, from, to)]
SmallResponses ==
    [components : {<<c>> : c \in Shows(1)} \cup {<<c, d>> : c \in Shows(1), d \in Shows(2)},
     transforms : Plans, collection : {None, "items"}]
SmallAnswers ==
    { [lists |-> <<List("items", 1, 4), List("products", 1, 4)>>, collection |-> "items"],
      [lists |-> <<List("articles", 2, 2)>>, collection |-> None],
      [lists |-> <<List("items", 1, 1), List("data", 2, 3)>>, collection |-> "items"],
      [lists |-> <<>>, collection |-> None] }

Summary == INSTANCE StatusSummary
Polling == INSTANCE StatusPolling
UiData == INSTANCE UiValues WITH Spellings <- {"registered", "other"}
Chart == INSTANCE Charts WITH Width <- PlaneWidth
Grid == INSTANCE DataTable WITH Everything <- DOMAIN NumberOf
Input == INSTANCE Forms WITH Kinds <- {"form", "email"}
Timer == INSTANCE Pomodoro WITH
            Seconds <- ("work" :> 2 @@ "shortBreak" :> 1 @@ "longBreak" :> 1)
Account == INSTANCE Connections
Live == INSTANCE LiveData
Tabs == INSTANCE Access
Viewer == INSTANCE Lightbox WITH Width <- ImageWidth, Places <- 0..2

\* None is no answer, no text, no number, no guard, no phase to come, no record, no
\* account and no token.
ASSUME NoneAssumption ==
    /\ None \notin BOOLEAN /\ None # Blank /\ None \notin Int
    /\ None \notin {"auth", "guest"}
    /\ None \notin [phase : Timer!Phases, session : Nat]
    /\ None \notin Accounts \cup [account : Accounts, fresh : BOOLEAN]

\* Lists, components and transforms are sequences, no two lists of an answer have one
\* name, only components that show rows are given some, and in the expressions of the
\* fields that are kept an operand stands before its operation. None is no answer and no
\* data.
IsSequence(s) == s \in Seq({s[i] : i \in DOMAIN s})
IsExpression(e) ==
    /\ IsSequence(e) /\ e # <<>>
    /\ \A i \in DOMAIN e : \/ e[i].kind \in {"field", "const"}
                           \/ e[i].kind = "op" /\ e[i].args \in Seq(1..(i - 1))
ASSUME LiveAssumption ==
    /\ None \notin Answers
    /\ \A a \in Answers :
          IsSequence(a.lists) /\ \A i, j \in DOMAIN a.lists : a.lists[i].key = a.lists[j].key => i = j
    /\ \A r \in Responses :
          LET transforms == Live!ToUiDataTransforms(r.transforms) IN
          /\ IsSequence(r.components) /\ IsSequence(r.transforms)
          /\ \A a \in Answers : Live!ApplyTransforms(a.lists, transforms) # None
          /\ \A i \in DOMAIN r.components :
                r.components[i].given # None =>
                    r.components[i].name \in {"dataTable", "barChart", "pieChart", "summaryPanel",
                                             "productCarousel", "categoryChips"}
          /\ \A i \in DOMAIN transforms :
                /\ IsSequence(transforms[i].fields)
                /\ \A n \in DOMAIN transforms[i].fields :
                      transforms[i].fields[n].expression # None => IsExpression(transforms[i].fields[n].expression)

-----------------------------------------------------------------------------

NoSummary == recordings = Off /\ statuses = Off /\ told = Off
NoPolling == records = Off /\ requests = Off /\ effect = Off /\ refreshing = Off /\ clicked = Off
NoValues == path = Off /\ spelling = Off
NoChart ==
    /\ source = Off /\ valueColors = Off /\ seriesColors = Off /\ lineColor = Off
    /\ hovered = Off /\ edited = Off
NoTable == query = Off /\ page = Off /\ sort = Off
NoForm ==
    /\ props = Off /\ initial = Off /\ form = Off /\ pending = Off
    /\ sent = Off /\ typed = Off
NoTimer ==
    /\ phase = Off /\ session = Off /\ left = Off /\ running = Off /\ intervals = Off
    /\ ref = Off /\ deferred = Off /\ worked = Off /\ overtaken = Off
NoAccount ==
    /\ service = Off /\ server = Off /\ calls = Off
    /\ mount = Off /\ away = Off /\ asked = Off /\ failed = Off /\ astray = Off
NoViewer ==
    /\ width = Off /\ zoom = Off /\ offset = Off /\ drag = Off
    /\ pointers = Off /\ pinch = Off /\ three = Off
NoLive == response = Off /\ collection = Off /\ answer = Off /\ queries = Off
NoAccess ==
    /\ token = Off /\ changed = Off /\ user = Off /\ resolved = Off /\ refresh = Off
    /\ carried = Off /\ resent = Off /\ cookie = Off /\ location = Off /\ due = Off
    /\ posts = Off /\ queued = Off /\ intro = Off /\ wanted = Off
    /\ redirects = Off /\ logins = Off /\ intros = Off /\ events = Off

Init ==
    \/ /\ component = "summary" /\ Summary!Init
       /\ rows = Off /\ kind = Off /\ data = Off /\ rendered = Off /\ shown = Off /\ loading = Off /\ open = Off
       /\ NoPolling /\ NoValues /\ NoChart /\ NoTable /\ NoForm /\ NoTimer
       /\ NoAccount /\ NoViewer /\ NoLive /\ NoAccess
    \/ /\ component = "polling" /\ Polling!Init
       /\ rows = Off /\ kind = Off /\ data = Off /\ rendered = Off /\ shown = Off /\ open = Off
       /\ NoSummary /\ NoValues /\ NoChart /\ NoTable /\ NoForm /\ NoTimer
       /\ NoAccount /\ NoViewer /\ NoLive /\ NoAccess
    \/ /\ component = "values" /\ UiData!Init
       /\ summary = Off /\ kind = Off /\ rendered = Off /\ shown = Off /\ loading = Off /\ open = Off
       /\ NoSummary /\ NoPolling /\ NoChart /\ NoTable /\ NoForm /\ NoTimer
       /\ NoAccount /\ NoViewer /\ NoLive /\ NoAccess
    \/ /\ component = "chart" /\ Chart!Init
       /\ summary = Off /\ rows = Off /\ data = Off /\ rendered = Off /\ shown = Off /\ loading = Off
       /\ NoSummary /\ NoPolling /\ NoValues /\ NoTable /\ NoForm /\ NoTimer
       /\ NoAccount /\ NoViewer /\ NoLive /\ NoAccess
    \/ /\ component = "table" /\ Grid!Init
       /\ summary = Off /\ kind = Off /\ data = Off /\ rendered = Off /\ shown = Off /\ loading = Off /\ open = Off
       /\ NoSummary /\ NoPolling /\ NoValues /\ NoChart /\ NoForm /\ NoTimer
       /\ NoAccount /\ NoViewer /\ NoLive /\ NoAccess
    \/ /\ component = "form" /\ Input!Init
       /\ summary = Off /\ rows = Off /\ shown = Off /\ loading = Off /\ open = Off
       /\ NoSummary /\ NoPolling /\ NoValues /\ NoChart /\ NoTable /\ NoTimer
       /\ NoAccount /\ NoViewer /\ NoLive /\ NoAccess
    \/ /\ component = "timer" /\ Timer!Init
       /\ summary = Off /\ rows = Off /\ kind = Off /\ data = Off /\ rendered = Off /\ shown = Off /\ loading = Off /\ open = Off
       /\ NoSummary /\ NoPolling /\ NoValues /\ NoChart /\ NoTable /\ NoForm
       /\ NoAccount /\ NoViewer /\ NoLive /\ NoAccess
    \/ /\ component = "account" /\ Account!Init
       /\ summary = Off /\ rows = Off /\ kind = Off /\ data = Off /\ rendered = Off /\ open = Off
       /\ NoSummary /\ NoPolling /\ NoValues /\ NoChart /\ NoTable /\ NoForm
       /\ NoTimer /\ NoViewer /\ NoLive /\ NoAccess
    \/ /\ component = "viewer" /\ Viewer!Init
       /\ summary = Off /\ rows = Off /\ kind = Off /\ data = Off /\ rendered = Off /\ shown = Off /\ loading = Off
       /\ NoSummary /\ NoPolling /\ NoValues /\ NoChart /\ NoTable /\ NoForm
       /\ NoTimer /\ NoAccount /\ NoLive /\ NoAccess
    \/ /\ component = "live" /\ Live!Init
       /\ summary = Off /\ rows = Off /\ kind = Off /\ rendered = Off /\ shown = Off /\ loading = Off /\ open = Off
       /\ NoSummary /\ NoPolling /\ NoValues /\ NoChart /\ NoTable /\ NoForm
       /\ NoTimer /\ NoAccount /\ NoViewer /\ NoAccess
    \/ /\ component = "access" /\ Tabs!Init
       /\ summary = Off /\ rows = Off /\ kind = Off /\ data = Off /\ open = Off
       /\ NoSummary /\ NoPolling /\ NoValues /\ NoChart /\ NoTable /\ NoForm
       /\ NoTimer /\ NoAccount /\ NoViewer /\ NoLive

Next ==
    /\ UNCHANGED component
    /\ \/ /\ component = "summary" /\ Summary!Next
          /\ UNCHANGED <<pollingVars, valuesVars, chartVars, tableVars, formVars, timerVars,
                         connectionVars, viewerVars, liveVars, accessVars, rows, kind, data,
                         rendered, shown, loading, open>>
       \/ /\ component = "polling" /\ Polling!Next
          /\ UNCHANGED <<summaryVars, valuesVars, chartVars, tableVars, formVars, timerVars,
                         connectionVars, viewerVars, liveVars, accessVars, rows, kind, data,
                         rendered, shown, open>>
       \/ /\ component = "values" /\ UiData!Next
          /\ UNCHANGED <<summaryVars, pollingVars, chartVars, tableVars, formVars, timerVars,
                         connectionVars, viewerVars, liveVars, accessVars, summary, kind, rendered,
                         shown, loading, open>>
       \/ /\ component = "chart" /\ Chart!Next
          /\ UNCHANGED <<summaryVars, pollingVars, valuesVars, tableVars, formVars, timerVars,
                         connectionVars, viewerVars, liveVars, accessVars, summary, rows, data,
                         rendered, shown, loading>>
       \/ /\ component = "table" /\ Grid!Next
          /\ UNCHANGED <<summaryVars, pollingVars, valuesVars, chartVars, formVars, timerVars,
                         connectionVars, viewerVars, liveVars, accessVars, summary, kind, data,
                         rendered, shown, loading, open>>
       \/ /\ component = "form" /\ Input!Next
          /\ UNCHANGED <<summaryVars, pollingVars, valuesVars, chartVars, tableVars, timerVars,
                         connectionVars, viewerVars, liveVars, accessVars, summary, rows, shown,
                         loading, open>>
       \/ /\ component = "timer" /\ Timer!Next
          /\ UNCHANGED <<summaryVars, pollingVars, valuesVars, chartVars, tableVars, formVars,
                         connectionVars, viewerVars, liveVars, accessVars, sharedVars>>
       \/ /\ component = "account" /\ Account!Next
          /\ UNCHANGED <<summaryVars, pollingVars, valuesVars, chartVars, tableVars, formVars,
                         timerVars, viewerVars, liveVars, accessVars, summary, rows, kind, data,
                         rendered, open>>
       \/ /\ component = "viewer" /\ Viewer!Next
          /\ UNCHANGED <<summaryVars, pollingVars, valuesVars, chartVars, tableVars, formVars,
                         timerVars, connectionVars, liveVars, accessVars, summary, rows, kind,
                         data, rendered, shown, loading>>
       \/ /\ component = "live" /\ Live!Next
          /\ UNCHANGED <<summaryVars, pollingVars, valuesVars, chartVars, tableVars, formVars,
                         timerVars, connectionVars, viewerVars, accessVars, summary, rows, kind,
                         rendered, shown, loading, open>>
       \/ /\ component = "access" /\ Tabs!Next
          /\ UNCHANGED <<summaryVars, pollingVars, valuesVars, chartVars, tableVars, formVars,
                         timerVars, connectionVars, viewerVars, liveVars, summary, rows, kind,
                         data, open>>

Spec == Init /\ [][Next]_vars

-----------------------------------------------------------------------------
(* The properties of the part that runs                                    *)

\* Banner, components, timeline and bars of the status page tell what the log says.
SummaryTellsTheLog == component = "summary" => Summary!SummaryTellsTheLog

\* A refresh turns its spinner while it is under way and never brings an answer
\* from before the click.
RefreshIsHonest == component = "polling" => Polling!RefreshIsHonest

\* Charts have the colours that were picked in their editor and bars that fit.
ColorsAndBarsHold == component = "chart" => Chart!ColorsAndBarsHold

\* After a reset no colour is one that was picked, and a line chart shows the
\* point nearest to the mouse.
ChartsObey == [][component = "chart" => Chart!ResetForgets /\ Chart!NearestShown]_vars

\* Every row that matches is on one page of the table, in the order asked for.
TableShowsRows == component = "table" => Grid!TableShowsRows

\* A form shows what the user typed, and what it is given where nothing was.
FormKeepsInput == component = "form" => Input!FormKeepsInput

\* The timer counts its seconds and its sessions once each.
TimerCounts == component = "timer" => Timer!TimerCounts

\* The settings end up showing what the server has, and can be changed again.
SettingsAreTrue == component = "account" => Account!SettingsAreTrue

\* The image stays in its frame, and no gesture outlives its pointers.
ViewerHolds == component = "viewer" => Viewer!ViewerHolds

\* The lookups of the runtime find what a path names, and agree on it; components
\* show what they were given, and once queried what was derived.
DataAreFound ==
    /\ component = "values" => UiData!ValuesAreFound
    /\ component = "live" => Live!LiveDataIsShown

\* Who is logged in, which page is shown and which intro plays come to agree.
AccessSettles == component = "access" => Tabs!AccessSettles

\* A table whose rowsKey names the derived rows shows them.
TablesShowDerived == component = "live" => Live!TablesShowDerived

=============================================================================
