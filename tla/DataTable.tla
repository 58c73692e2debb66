------------------------------- MODULE DataTable -------------------------------
(***************************************************************************)
(* The table of a generated UI (registry/DataTableCard): rows that may be  *)
(* loaded anew at any time are filtered, sorted and cut into pages in the  *)
(* browser. Where the rows come from is UiValues.                          *)
(*                                                                         *)
(* A cell is one of Cells, of which compare() and the search see whether   *)
(* it is there, its number and the order of its text.                      *)
(***************************************************************************)
EXTENDS Integers, Sequences

CONSTANTS
    Columns,
    Tables,         \* what the rows may be: sequences of functions from Columns to cells
    NumberOf,       \* of each cell: Number(cell), or None
    TextRankOf,     \* of each cell: the place of its text in the order of texts
    Queries,        \* searches: the set of cells each one finds; Everything is the empty one
    Everything,
    PageSize,
    Absent,         \* the cell that is null
    None

VARIABLES rows, query, page, sort

vars == <<rows, query, page, sort>>

-----------------------------------------------------------------------------
(* Filtering and sorting; a row is known by its place in the data, and two *)
(* rows may be alike.                                                      *)

Filtered == {i \in DOMAIN rows : query = Everything \/ \E c \in Columns : rows[i][c] \in query \ {Absent}}

\* compare(a, b) < 0: what is absent comes first, numbers by value, the rest by
\* their text, a number and a text too.
Less(a, b) ==
    /\ b # Absent
    /\ \/ a = Absent
       \/ IF NumberOf[a] # None /\ NumberOf[b] # None THEN NumberOf[a] < NumberOf[b]
          ELSE TextRankOf[a] < TextRankOf[b]

Before(i, j) == IF sort.dir = "asc" THEN Less(rows[i][sort.key], rows[j][sort.key])
                                    ELSE Less(rows[j][sort.key], rows[i][sort.key])

\* The engine's stable sort of a short array: where a row is put into those before
\* it, by bisection.
Place(s, i) ==
    LET turn[n \in 0..Len(s)] ==
            IF n = 0 THEN [from |-> 0, to |-> Len(s)]
            ELSE LET t == turn[n - 1]
                     mid == (t.from + t.to) \div 2
                 IN  IF t.from = t.to THEN t
                     ELSE IF Before(i, s[mid + 1]) THEN [t EXCEPT !.to = mid] ELSE [t EXCEPT !.from = mid + 1]
    IN  turn[Len(s)].from

\* Without a sort the rows stay in the order of the data.
Put(s, i) ==
    LET place == IF sort = None THEN Len(s) ELSE Place(s, i)
    IN  [k \in 1..(Len(s) + 1) |-> IF k <= place THEN s[k] ELSE IF k = place + 1 THEN i ELSE s[k - 1]]

Sorted ==
    LET sorted[n \in 0..Len(rows)] ==
            IF n = 0 THEN <<>> ELSE IF n \in Filtered THEN Put(sorted[n - 1], n) ELSE sorted[n - 1]
    IN  sorted[Len(rows)]

-----------------------------------------------------------------------------
(* Pages                                                                   *)

Least(a, b) == IF a <= b THEN a ELSE b
Most(a, b) == IF a >= b THEN a ELSE b

TotalPages == Most(1, (Len(Sorted) + PageSize - 1) \div PageSize)

\* Mutant of SafePage: the page that was chosen.
SafePageChosen == page

SafePage == Least(page, TotalPages)

PageOf(n) == SubSeq(Sorted, (n - 1) * PageSize + 1, Least(n * PageSize, Len(Sorted)))

Paged == PageOf(SafePage)

-----------------------------------------------------------------------------
(* What happens                                                            *)

\* The rows are loaded anew; page, search and sort stay.
Refetch == rows' \in Tables \ {rows} /\ UNCHANGED <<query, page, sort>>

Search(q) == query' = q /\ page' = 1 /\ UNCHANGED <<rows, sort>>

\* A third click on a header takes the sort away.
ToggleSort(c) ==
    /\ page' = 1
    /\ sort' = CASE sort = None \/ sort.key # c -> [key |-> c, dir |-> "asc"]
                 [] sort # None /\ sort.key = c /\ sort.dir = "asc" -> [key |-> c, dir |-> "desc"]
                 [] OTHER -> None
    /\ UNCHANGED <<rows, query>>

Previous == SafePage > 1 /\ page' = Most(1, page - 1) /\ UNCHANGED <<rows, query, sort>>

Following == SafePage < TotalPages /\ page' = Least(TotalPages, page + 1) /\ UNCHANGED <<rows, query, sort>>

Init ==
    /\ rows \in Tables
    /\ query = Everything /\ page = 1
    /\ sort \in {None} \cup [key : Columns, dir : {"asc", "desc"}]

Next ==
    \/ Refetch \/ Previous \/ Following
    \/ \E q \in Queries : Search(q)
    \/ \E c \in Columns : ToggleSort(c)

Spec == Init /\ [][Next]_vars

-----------------------------------------------------------------------------
(* What must hold                                                          *)

Pages == [n \in 1..TotalPages |-> PageOf(n)]

\* Whenever rows match there are some on the page shown, however few they became,
\* and each of them is on one page, once.
RowsArePaged ==
    LET pages == Pages
        slots == UNION {{n} \X DOMAIN pages[n] : n \in DOMAIN pages}
    IN  /\ Filtered # {} => Paged # <<>>
        /\ {pages[x[1]][x[2]] : x \in slots} = Filtered
        /\ \A x, y \in slots : pages[x[1]][x[2]] = pages[y[1]][y[2]] => x = y

\* Cells that have an order among them: numbers or texts, but not both.
Comparable(c) ==
    LET cells == {rows[i][c] : i \in Filtered} \ {Absent}
    IN  (\A a \in cells : NumberOf[a] # None) \/ (\A a \in cells : NumberOf[a] = None)

Rank(a) == IF NumberOf[a] # None THEN NumberOf[a] ELSE TextRankOf[a]
Lower(a, b) == b # Absent /\ (a = Absent \/ Rank(a) < Rank(b))

\* Row i belongs before row j; rows that are equal in the column keep their order.
Ahead(i, j) == IF sort.dir = "asc" THEN Lower(rows[i][sort.key], rows[j][sort.key])
                                   ELSE Lower(rows[j][sort.key], rows[i][sort.key])
Precedes(i, j) == IF sort = None THEN i < j ELSE Ahead(i, j) \/ (i < j /\ ~Ahead(j, i))

\* A column of comparable cells is in order from page to page, and rows that compare
\* equal stay in the order of the data.
SortedStably ==
    LET pages == Pages
    IN  sort = None \/ Comparable(sort.key) =>
            \A m, n \in DOMAIN pages : \A k \in DOMAIN pages[m], l \in DOMAIN pages[n] :
                m < n \/ (m = n /\ k < l) => Precedes(pages[m][k], pages[n][l])

\* Every row that matches is on one page, in the order asked for.
TableShowsRows == RowsArePaged /\ SortedStably

=============================================================================
