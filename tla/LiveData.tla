------------------------------- MODULE LiveData -------------------------------
(***************************************************************************)
(* The rows that the components of a generated UI show of one data source: *)
(* those the agent gave, which the client moves into the source's data     *)
(* (utils/agent-chat.ts), until the source is queried; then what the       *)
(* action service makes of a service's answer by the agent's transforms    *)
(* (ActionRouter.cs). Each component looks for its rows in the data in its *)
(* own way (sandbox/registry, uiRuntime/UiRenderer.tsx).                   *)
(*                                                                         *)
(* Data are the lists of a JSON object in the order of its text; a row is  *)
(* a function from its fields to whole numbers, texts or None, and an      *)
(* expression the sequence of its nodes, operands first. Left out: nested  *)
(* lists, scalars of the object, field kinds, labels, columns, and         *)
(* fractions, of which the whole number below is kept, so that rounding    *)
(* has nothing to do.                                                      *)
(***************************************************************************)
EXTENDS Integers, Sequences

CONSTANTS
    Responses,  \* responses of the agent whose components share one source
    Answers,    \* answers of the service
    MaxQueries, \* bound: times the source is queried
    None        \* JSON's null, and what is absent

VARIABLES
    response,   \* the agent's response
    data,       \* the source's data in the UI, or None before it is built
    collection, \* collectionPath of the source's field hints
    answer,     \* history: the last answer of the service, or None
    queries

vars == <<response, data, collection, answer, queries>>

\* What the elements of a sequence make of a value, one after the other.
Fold(Op(_, _), base, s) ==
    LET upto[n \in 0..Len(s)] == IF n = 0 THEN base ELSE Op(upto[n - 1], s[n])
    IN  upto[Len(s)]

First(places) == CHOOSE i \in places : \A j \in places : i <= j
Last(places) == CHOOSE i \in places : \A j \in places : i >= j

Entry(key, rows) == [key |-> key, rows |-> rows]

HasList(d, key) == \E i \in DOMAIN d : d[i].key = key
ListAt(d, key) == IF HasList(d, key) THEN d[CHOOSE i \in DOMAIN d : d[i].key = key].rows ELSE None

\* The list under the first of the keys that has one, or else the first list.
ListIn(d, keys) ==
    LET listed == {n \in DOMAIN keys : HasList(d, keys[n])}
    IN  IF listed # {} THEN ListAt(d, keys[First(listed)])
        ELSE IF d # <<>> THEN Head(d).rows ELSE None

\* Mutant of SetNode: what is replaced goes to the end.
SetNodeLast(d, key, rows) == Append(SelectSeq(d, LAMBDA e : e.key # key), Entry(key, rows))

\* An entry that is replaced keeps its place in the text, a new one is the last.
SetNode(d, key, rows) ==
    IF HasList(d, key) THEN [i \in DOMAIN d |-> IF d[i].key = key THEN Entry(key, rows) ELSE d[i]]
    ELSE Append(d, Entry(key, rows))

\* {...d, ...other}
Spread(d, other) == Fold(LAMBDA all, e : SetNode(all, e.key, e.rows), d, other)

-----------------------------------------------------------------------------
(* The client builds the UI                                                *)

Rows(c) == IF c.given = None THEN <<>> ELSE c.given

\* What a component contributes to its source, an empty list if it was given none.
DeriveSourceData(c) ==
    CASE c.name = "dataTable" -> <<Entry("rows", Rows(c)), Entry("items", Rows(c))>>
      [] c.name = "productCarousel" -> <<Entry("products", Rows(c)), Entry("items", Rows(c))>>
      [] c.name \in {"barChart", "pieChart"} -> <<Entry("data", Rows(c))>>
      [] c.name = "summaryPanel" -> <<Entry("items", Rows(c))>>
      [] c.name = "categoryChips" -> <<Entry("categories", Rows(c))>>
      [] OTHER -> <<>>

\* Fields without a key are dropped; transforms without a type are too, which are left
\* here as they do nothing.
ToUiDataTransforms(transforms) ==
    [i \in DOMAIN transforms |-> [transforms[i] EXCEPT !.fields = SelectSeq(@, LAMBDA f : f.key # None)]]

\* Each component's contribution over those of the components before it.
SourceData(components) == Fold(LAMBDA d, c : Spread(d, DeriveSourceData(c)), <<>>, components)

Build ==
    /\ data = None
    /\ data' = SourceData(response.components)
    /\ collection' = response.collection
    /\ UNCHANGED <<response, answer, queries>>

-----------------------------------------------------------------------------
(* The action service transforms an answer                                 *)

IsNumber(v) == v \in Int

Field(row, name) == IF name \in DOMAIN row THEN row[name] ELSE None

Sum(s) == Fold(LAMBDA x, y : IF IsNumber(y) THEN x + y ELSE x, 0, s)
Product(s) == Fold(LAMBDA x, y : IF IsNumber(y) THEN x * y ELSE x, 1, s)
Difference(s) == Fold(LAMBDA x, y : IF IsNumber(y) THEN x - y ELSE x, Head(s), Tail(s))

\* Of a quotient the whole number below it is kept.
DivideBy(x, y) == IF y > 0 THEN x \div y ELSE (0 - x) \div (0 - y)
Quotient(s) ==
    Fold(LAMBDA x, y : IF x = None \/ ~IsNumber(y) \/ y = 0 THEN None ELSE DivideBy(x, y), Head(s), Tail(s))

\* ApplyNumericAggregation, ApplySubtraction, ApplyExtrema: operands that are no
\* numbers are passed over. ApplyDivision: one of them leaves no result.
Apply(op, args) ==
    LET numbers == {i \in DOMAIN args : IsNumber(args[i])}
        present == {i \in DOMAIN args : args[i] # None}
    IN  CASE op \in {"add", "multiply", "max", "min"} /\ numbers = {} -> None
          [] op = "add" /\ numbers # {} -> Sum(args)
          [] op = "multiply" /\ numbers # {} -> Product(args)
          [] op = "subtract" -> IF 1 \in numbers THEN Difference(args) ELSE None
          [] op = "divide" -> IF 1 \in numbers THEN Quotient(args) ELSE None
          [] op = "max" /\ numbers # {} -> args[CHOOSE i \in numbers : \A j \in numbers : args[i] >= args[j]]
          [] op = "min" /\ numbers # {} -> args[CHOOSE i \in numbers : \A j \in numbers : args[i] <= args[j]]
          [] op = "coalesce" -> IF present = {} THEN None ELSE args[First(present)]

\* The value of a node, given those of the nodes before it.
NodeValue(node, row, values) ==
    CASE node.kind = "field" -> Field(row, node.name)
      [] node.kind = "const" -> node.value
      [] node.kind = "op" -> Apply(node.op, [k \in DOMAIN node.args |-> values[node.args[k]]])

\* The values of an expression's nodes.
NodeValues(e, row) ==
    LET value[i \in DOMAIN e] == NodeValue(e[i], row, value) IN value

EvaluateExpression(e, row) == NodeValues(e, row)[Len(e)]

\* An expression, a constant, another field, or the field of the same name.
ResolveTransformFieldValue(f, row) ==
    IF f.expression # None THEN EvaluateExpression(f.expression, row)
    ELSE IF f.value # None THEN f.value
    ELSE Field(row, IF f.source # None THEN f.source ELSE f.key)

ResolveArrayNode(d) == ListIn(d, <<"rows", "items", "products", "data", "results", "series">>)

HasInput(d, t) == IF t.input = None THEN d # <<>> ELSE HasList(d, t.input)
InputRows(d, t) == IF t.input = None THEN ResolveArrayNode(d) ELSE ListAt(d, t.input)

OutputPath(t) == IF t.output = None THEN "rows" ELSE t.output

\* A key that two fields have gets what the last one says.
ProjectRow(t, row) ==
    [k \in {t.fields[i].key : i \in DOMAIN t.fields} |->
        ResolveTransformFieldValue(t.fields[Last({i \in DOMAIN t.fields : t.fields[i].key = k})], row)]

Projects(t) == t.type = "project_rows" /\ t.fields # <<>>

\* ApplyTransform; without fields, without rows and of another type it does nothing.
ApplyTransform(d, t) ==
    IF Projects(t) /\ HasInput(d, t)
    THEN SetNode(d, OutputPath(t), [i \in DOMAIN InputRows(d, t) |-> ProjectRow(t, InputRows(d, t)[i])])
    ELSE d

ApplyTransforms(d, transforms) == Fold(ApplyTransform, d, transforms)

Projections(transforms) == {i \in DOMAIN transforms : transforms[i].type = "project_rows"}

\* MergeManualFieldHints, then MergeTransformFieldHints by the last projection.
CollectionPath(inferred, explicit, transforms) ==
    LET last == transforms[Last(Projections(transforms))] IN
    CASE Projections(transforms) # {} /\ last.hint # None -> last.hint
      [] Projections(transforms) # {} /\ last.hint = None /\ last.output # None -> last.output
      [] OTHER -> IF explicit # None THEN explicit ELSE inferred

\* QueryAsync's answer is patched in: it replaces what the source had. A query that
\* fails changes nothing.
Query(a) ==
    LET transforms == ToUiDataTransforms(response.transforms) IN
    /\ data # None
    /\ queries < MaxQueries
    /\ data' = ApplyTransforms(a.lists, transforms)
    /\ collection' = CollectionPath(a.collection, response.collection, transforms)
    /\ answer' = a
    /\ queries' = queries + 1
    /\ UNCHANGED response

-----------------------------------------------------------------------------
(* The components find their rows                                          *)

CommonListKeys == <<"items", "products", "rows", "data", "results", "list", "categories">>

ExtractArray(d, preferred) ==
    IF d = <<>> THEN <<>> ELSE ListIn(d, preferred \o CommonListKeys)

\* The table's adapter takes the first list; rowsKey and hints count only without one.
TableRows == IF data = <<>> THEN <<>> ELSE Head(data).rows

\* A chart goes by the hints.
ChartRows ==
    IF collection # None /\ HasList(data, collection) THEN ListAt(data, collection)
    ELSE ExtractArray(data, <<"series", "rows", "items", "data", "results">>)

\* Chips keep the list they were given.
ChipRows(c) == IF c.given # None THEN c.given ELSE ExtractArray(data, <<"categories", "items", "products">>)

Shown(c) ==
    CASE c.name = "dataTable" -> TableRows
      [] c.name \in {"barChart", "pieChart"} -> ChartRows
      [] c.name = "summaryPanel" -> ExtractArray(data, <<"items", "kpis", "data">>)
      [] c.name = "productCarousel" -> ExtractArray(data, <<"products", "items", "results">>)
      [] c.name = "categoryChips" -> ChipRows(c)
      [] OTHER -> <<>>

-----------------------------------------------------------------------------

Init ==
    /\ response \in Responses
    /\ data = None
    /\ collection = None
    /\ answer = None
    /\ queries = 0

Next == Build \/ \E a \in Answers : Query(a)

Spec == Init /\ [][Next]_vars

-----------------------------------------------------------------------------
(* What must hold                                                          *)

Components == {response.components[i] : i \in DOMAIN response.components}
Contributes(c) == DeriveSourceData(c) # <<>>

\* Until its source is queried a component shows what the agent gave it, if no
\* other component of the source has data of its own, and otherwise what the agent
\* gave some component of the source.
GivenIsShown ==
    data # None /\ answer = None => \A c \in Components : c.given # None =>
        \/ Shown(c) = c.given
        \/ \E i, j \in DOMAIN response.components :
              /\ i # j /\ response.components[i] = c /\ Contributes(response.components[j])
              /\ Shown(c) \in {Rows(d) : d \in Components}

Transforms == ToUiDataTransforms(response.transforms)
Declared == Projections(Transforms)
LastDeclared == Transforms[Last(Declared)]

\* The list under key was written by a projection of the last answer.
Derived(key) ==
    /\ answer # None
    /\ Declared # {} /\ Projects(LastDeclared) /\ OutputPath(LastDeclared) = key
    /\ ListAt(data, key) # ListAt(answer.lists, key)

\* Once it was queried, every chart of a source shows the rows that the agent's last
\* projection derived, whatever lists the answer has and whatever the agent hinted of
\* the answer, if the projection says where it puts them and does not hint elsewhere.
ChartsShowDerived ==
    \A c \in Components : c.name \in {"barChart", "pieChart"} =>
        \A key \in IF data = None THEN {} ELSE {data[i].key : i \in DOMAIN data} :
            /\ Derived(key)
            /\ LastDeclared.output # None
            /\ LastDeclared.hint \in {None, key}
            => Shown(c) = ListAt(data, key)

\* Rows derived in the place of the answer's first list are what every table shows.
DerivedInPlaceIsShown ==
    \A c \in Components : c.name = "dataTable" /\ answer # None /\ answer.lists # <<>> =>
        LET key == Head(answer.lists).key
        IN  Derived(key) => Shown(c) = ListAt(data, key)

\* Rows the agent asked to be derived are what a table shows that the agent points to
\* them by its rowsKey, as the planner is told to.
TablesShowDerived ==
    \A c \in Components : c.name = "dataTable" /\ c.rowsKey # None /\ Derived(c.rowsKey) =>
        Shown(c) = ListAt(data, c.rowsKey)

\* A derived value is computed from its operands: the result if both are numbers,
\* and none where one is missing, except that a missing summand, factor or subtrahend
\* is as if it had not been asked for.
Computed(op, a, b, v) ==
    IF IsNumber(a) /\ IsNumber(b)
    THEN /\ op = "add" => v - b = a
         /\ op = "subtract" => v + b = a
         /\ op = "multiply" => v = b * a
         /\ op = "divide" =>
               CASE b = 0 -> v = None
                 [] b > 0 -> v * b <= a /\ a < (v + 1) * b
                 [] b < 0 -> v * b >= a /\ a > (v + 1) * b
         /\ op = "max" => v \in {a, b} /\ v >= a /\ v >= b
    ELSE /\ op = "divide" => v = None
         /\ op = "subtract" /\ ~IsNumber(a) => v = None
         /\ op = "subtract" /\ IsNumber(a) => v = a
         /\ op \in {"add", "multiply", "max"} => v = IF IsNumber(a) THEN a ELSE IF IsNumber(b) THEN b ELSE None

\* Every derived row has the values its projection describes, row by row.
DerivedIsComputed ==
    answer # None /\ Len(response.transforms) = 1 /\ Declared # {} =>
        LET t == LastDeclared
            input == InputRows(answer.lists, t)
            output == ListAt(data, OutputPath(t))
        IN  Projects(t) /\ HasInput(answer.lists, t) =>
                /\ DOMAIN output = DOMAIN input
                /\ \A i \in DOMAIN input, n \in DOMAIN t.fields :
                      LET f == t.fields[n]
                          values == NodeValues(f.expression, input[i])
                          root == f.expression[Len(f.expression)]
                      IN  /\ f.expression # None /\ root.kind = "op" /\ Len(root.args) = 2
                          /\ \A m \in DOMAIN t.fields : t.fields[m].key = f.key => m <= n
                          => Computed(root.op, values[root.args[1]], values[root.args[2]], output[i][f.key])

\* Components show what the agent gave them, and then what it asked to derive, computed
\* as it said.
LiveDataIsShown ==
    /\ GivenIsShown
    /\ ChartsShowDerived
    /\ DerivedInPlaceIsShown
    /\ DerivedIsComputed

=============================================================================
