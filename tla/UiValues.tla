------------------------------- MODULE UiValues -------------------------------
(***************************************************************************)
(* How a generated UI finds its data: the paths of uiRuntime/UiRenderer    *)
(* and registry/dataResolver, bindings and references in props, and the    *)
(* rows of a table, which the renderer's adapter and the table itself      *)
(* resolve independently.                                                  *)
(*                                                                         *)
(* A JSON value is a record with its kind; an object is a function from    *)
(* its keys, and a key or path is the sequence of its dotted segments, as  *)
(* a key of the data may contain dots. Array indices and what JavaScript   *)
(* finds on prototypes are left out.                                       *)
(***************************************************************************)
EXTENDS Integers, Sequences

CONSTANTS
    Documents,      \* the data of a UI
    Paths,          \* paths asked for
    ListKeys,       \* COMMON_LIST_KEYS and the preferred paths, in order
    Spellings       \* how the UI may spell a component's name

VARIABLES data, path, spelling, rows    \* rows: of a table with that dataKey, once rendered

vars == <<data, path, spelling, rows>>

Undefined == [kind |-> "undefined"]
Null == [kind |-> "null"]
Text(t) == [kind |-> "text", text |-> t]
Array(s) == [kind |-> "array", items |-> s]
Object(f) == [kind |-> "object", fields |-> f]

IsRecord(v) == v.kind = "object"
IsArray(v) == v.kind = "array"
HasOwn(v, key) == IsRecord(v) /\ key \in DOMAIN v.fields
Nullish(v) == v \in {Undefined, Null}
Else(v, w) == IF Nullish(v) THEN w ELSE v           \* v ?? w
Field(v, key) == IF HasOwn(v, key) THEN v.fields[key] ELSE Undefined

-----------------------------------------------------------------------------
(* Paths                                                                   *)

\* Mutant of Taken: the shortest key, as if names had no dots.
TakenShortest(v, p) ==
    LET own == {n \in 1..Len(p) : HasOwn(v, SubSeq(p, 1, n))}
    IN  IF own = {} THEN 0 ELSE CHOOSE n \in own : \A m \in own : n <= m

\* How many segments the longest key of v takes from the path.
Taken(v, p) ==
    LET own == {n \in 1..Len(p) : HasOwn(v, SubSeq(p, 1, n))}
    IN  IF own = {} THEN 0 ELSE CHOOSE n \in own : \A m \in own : n >= m

\* One round of the loop: from where it is, a key or nothing is taken from the rest.
Walk(at) ==
    IF at.rest = <<>> THEN at
    ELSE LET taken == Taken(at.value, at.rest)
         IN  IF taken = 0 THEN [value |-> Undefined, rest |-> <<>>]
             ELSE [value |-> at.value.fields[SubSeq(at.rest, 1, taken)],
                   rest |-> SubSeq(at.rest, taken + 1, Len(at.rest))]

\* As many rounds as the path has segments are enough.
GetByPath(v, p) ==
    LET at[n \in 0..Len(p)] == IF n = 0 THEN [value |-> v, rest |-> p] ELSE Walk(at[n - 1])
    IN  IF p = <<>> THEN Undefined ELSE at[Len(p)].value

\* dataResolver: the key itself, the path, then its last segment alone.
ResolveFromDataKey(d, key) ==
    IF HasOwn(d, key) THEN d.fields[key]
    ELSE IF GetByPath(d, key) # Undefined THEN GetByPath(d, key)
    ELSE Field(d, <<key[Len(key)]>>)

\* The renderer's lookup, of bindings and references.
Lookup(d, p) == Else(GetByPath(d, p), Field(d, p))

\* "${path}": what is not there stays a reference, an inline one becomes empty.
FullReference(d, p) == IF Lookup(d, p) = Undefined THEN [kind |-> "reference", to |-> p] ELSE Lookup(d, p)
InlineReference(d, p) == IF Nullish(Lookup(d, p)) THEN Text("") ELSE Lookup(d, p)

\* A binding replaces the prop, also by nothing.
ApplyBinding(props, prop, d, p) == [k \in DOMAIN props \cup {prop} |-> IF k = prop THEN Lookup(d, p) ELSE props[k]]

-----------------------------------------------------------------------------
(* Rows                                                                    *)

Arrays(v) == {w \in {v.fields[k] : k \in DOMAIN v.fields} : IsArray(w)}

\* Object.values(v).find(Array.isArray): the first in the order of the JSON text,
\* which may be any.
SomeArray(v) == IF Arrays(v) = {} THEN {Undefined} ELSE Arrays(v)

\* extractArray: one under a preferred or common name, or the first one.
ExtractArray(v) ==
    LET listed == {i \in DOMAIN ListKeys : IsArray(Field(v, ListKeys[i]))} IN
    CASE IsArray(v) -> {v}
      [] IsRecord(v) /\ listed # {} -> {v.fields[ListKeys[CHOOSE i \in listed : \A j \in listed : i <= j]]}
      [] IsRecord(v) /\ listed = {} -> SomeArray(v)
      [] OTHER -> {Undefined}

\* normalizeDataTableProps: the data at the key, or under it one level down.
AdaptedValue(d, key) ==
    LET nested == {v \in {d.fields[k] : k \in DOMAIN d.fields} : HasOwn(v, key)} IN
    IF Lookup(d, key) = Undefined /\ Len(key) = 1 /\ nested # {}
    THEN {v.fields[key] : v \in nested}
    ELSE {Lookup(d, key)}

AdaptedRows(d, key) ==
    UNION {CASE IsArray(v) -> {v} [] IsRecord(v) -> SomeArray(v) [] OTHER -> {Undefined} :
           v \in AdaptedValue(d, key)}

\* The table's own resolvedRows; an empty list is passed over.
TableRows(d, key) ==
    {IF v = Undefined THEN Array(<<>>) ELSE v : v \in ExtractArray(ResolveFromDataKey(d, key))}

\* The component is found however its name is spelled, its adapter only under the
\* name itself. What the adapter finds is kept by the table.
Rows(d, key, name) ==
    IF name # "registered" THEN TableRows(d, key)
    ELSE UNION {IF v = Undefined THEN TableRows(d, key) ELSE {v} : v \in AdaptedRows(d, key)}

Render ==
    /\ rows = Undefined
    /\ rows' \in Rows(data, path, spelling)
    /\ UNCHANGED <<data, path, spelling>>

Init ==
    /\ data \in Documents /\ path \in Paths /\ spelling \in Spellings
    /\ rows = Undefined

Next == Render

Spec == Init /\ [][Next]_vars

-----------------------------------------------------------------------------
(* What must hold                                                          *)

\* The values that some reading of the path leads to, each with how many segments it
\* has read.
Reached(v, p) ==
    LET reached[n \in 0..Len(p)] ==
            IF n = 0 THEN {<<0, v>>}
            ELSE reached[n - 1] \cup {<<n, w>> : w \in {Field(x[2], SubSeq(p, x[1] + 1, n)) : x \in reached[n - 1]}
                                                     \ {Undefined}}
    IN  reached[Len(p)]

Reachable(v, p) == {x[2] : x \in {y \in Reached(v, p) : y[1] = Len(p)}}

\* The longest key wins without a second try, so that a value may be missed, but
\* only where an object on the way has a key that begins like another one.
BeginsLike(k, l) == Len(k) < Len(l) /\ SubSeq(l, 1, Len(k)) = k
Ambiguous(v, p) ==
    \E x \in Reached(v, p) : IsRecord(x[2]) /\ \E k, l \in DOMAIN x[2].fields : BeginsLike(k, l)

\* A path finds what it names, whatever dots the names contain: never another
\* value, and always one unless the longest name leads nowhere.
PathFindsItsValue ==
    LET found == GetByPath(data, path) IN
    /\ found # Undefined => found \in Reachable(data, path)
    /\ ~Ambiguous(data, path) => Reachable(data, path) \subseteq {found}
    /\ HasOwn(data, path) => found = data.fields[path]

\* A source is taken from elsewhere (by its last segment) only if nothing is at
\* its path, so that the two lookups agree on all that is there.
LookupsAgree ==
    GetByPath(data, path) \notin {Undefined, Null} =>
        /\ ResolveFromDataKey(data, path) = Lookup(data, path)
        /\ FullReference(data, path) = Lookup(data, path)
        /\ InlineReference(data, path) = Lookup(data, path)

\* A table shows the same rows whether its adapter ran or not, if there is one
\* list at its key.
SpellingDoesNotMatter ==
    LET v == Lookup(data, path) IN
    rows # Undefined /\ (IsArray(v) \/ (IsRecord(v) /\ \E w \in Arrays(v) : Arrays(v) = {w})) =>
        Rows(data, path, "registered") = {rows} /\ TableRows(data, path) = {rows}

\* However a value is referred to, the same one is found.
ValuesAreFound == PathFindsItsValue /\ LookupsAgree /\ SpellingDoesNotMatter

=============================================================================
