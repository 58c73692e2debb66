-------------------------------- MODULE Charts --------------------------------
(***************************************************************************)
(* The bar, line and pie charts of a generated UI: the points they take    *)
(* from their source, the colours of bars, points and slices, the colour   *)
(* editor, and what is under the mouse.                                    *)
(*                                                                         *)
(* A source is a sequence of series; a flat list of points is one series   *)
(* without a name and a colour of its own. A point's value is what         *)
(* pickValue finds, or None.                                               *)
(* Shapes, axes, texts and colours that props give by name are left out,   *)
(* but for the lengths of bars.                                            *)
(***************************************************************************)
EXTENDS Integers, Sequences, FiniteSets, Functions

CONSTANTS
    Sources,        \* what the source may hold
    KeyOf,          \* normalizeColorKey, of labels and names; of None that of "Value"
    Colors,         \* colours a user picks, told apart from all others
    Palette,        \* its colours, in order
    Width,          \* of a line chart's plane
    None

VARIABLES
    kind,           \* "bar", "stacked", "line" or "pie"
    source,
    open,           \* the colour editor
    valueColors, seriesColors, lineColor,   \* what the user picked, by key
    hovered,        \* index under the mouse, or None
    edited          \* history: the item edited last, and whether something else happened since

picks == <<valueColors, seriesColors, lineColor>>
vars == <<kind, source, open, picks, hovered, edited>>

Kinds == {"bar", "stacked", "line", "pie"}
Keys == {KeyOf[l] : l \in DOMAIN KeyOf}
Else(a, b) == IF a = None THEN b ELSE a

-----------------------------------------------------------------------------
(* The data                                                                *)

\* The elements at some places of a sequence; those after a dropped one move up.
Kept(s, places) ==
    LET kept[n \in 0..Len(s)] ==
            IF n = 0 THEN <<>> ELSE IF n \in places THEN Append(kept[n - 1], s[n]) ELSE kept[n - 1]
    IN  kept[Len(s)]

\* normalizeFlatChartData: a point without a number is dropped.
Points(s) == Kept(s.points, {j \in DOMAIN s.points : s.points[j].value # None})

\* normalizeSeriesChartData: a series without points is dropped.
Series ==
    LET lists == [i \in DOMAIN source |-> [source[i] EXCEPT !.points = Points(source[i])]]
    IN  Kept(lists, {i \in DOMAIN lists : lists[i].points # <<>>})

\* resolvePaletteColor
PaletteColor(i) == Palette[((i - 1) % Len(Palette)) + 1]

\* The pie takes the points of a flat list, if positive; slices keep the palette's
\* colour of their place before that. A series has no number that a slice could show.
Slices ==
    IF source = <<>> \/ source[1].name # None THEN <<>>
    ELSE LET points == Points(source[1])
         IN  Kept([i \in DOMAIN points |-> [points[i] EXCEPT !.color =
                      Else(valueColors[KeyOf[points[i].label]], Else(@, PaletteColor(i)))]],
                  {i \in DOMAIN points : points[i].value > 0})

IsSingle(series) == Len(series) = 1

\* allLabels: those of the first series.
Labels(series) ==
    IF series = <<>> THEN <<>> ELSE [i \in DOMAIN series[1].points |-> series[1].points[i].label]

-----------------------------------------------------------------------------
(* Colours                                                                 *)

\* A single line's own colour comes before the one picked for it.
SeriesColor(series, i) ==
    LET own == Else(seriesColors[KeyOf[series[i].name]], series[i].color)
    IN  Else(own, IF kind = "line" /\ IsSingle(series) THEN Else(lineColor, PaletteColor(i)) ELSE PaletteColor(i))

UnpickedColor(series, i, j) ==
    IF IsSingle(series) /\ kind # "line" THEN PaletteColor(j) ELSE SeriesColor(series, i)

\* Mutant of PointColor: a point's own colour comes before the one picked.
PointColorOwnFirst(series, i, j) ==
    LET p == series[i].points[j]
    IN  Else(p.color, Else(valueColors[KeyOf[p.label]], UnpickedColor(series, i, j)))

\* resolveBarColor and resolvePointColor.
PointColor(series, i, j) ==
    LET p == series[i].points[j]
    IN  Else(valueColors[KeyOf[p.label]], Else(p.color, UnpickedColor(series, i, j)))

-----------------------------------------------------------------------------
(* The lengths of bars                                                     *)

Value(series, i, j) == IF j \in DOMAIN series[i].points THEN series[i].points[j].value ELSE 0

\* Of the first n series at a label.
Stack(series, j, n) ==
    LET sum[i \in 0..Len(series)] == IF i = 0 THEN 0 ELSE sum[i - 1] + Value(series, i, j)
    IN  sum[n]

Largest(values) == CHOOSE v \in values \cup {1} : \A w \in values \cup {1} : v >= w

\* What a bar of the full length stands for, but for a tenth of headroom.
MaxValue(series) ==
    IF kind = "stacked" THEN Largest({Stack(series, j, Len(series)) : j \in DOMAIN Labels(series)})
    ELSE Largest(UNION {{p.value : p \in Range(s.points)} : s \in Range(series)})

-----------------------------------------------------------------------------
(* The colour editor                                                       *)

Item(section, key, color) == [section |-> section, key |-> key, color |-> color]

Values(series) ==
    IF kind = "pie" THEN {Item("Values", KeyOf[p.label], p.color) : p \in Range(Slices)}
    ELSE {Item("Values", KeyOf[Labels(series)[j]], PointColor(series, 1, j)) : j \in DOMAIN Labels(series)}

ItemsOf(series) ==
    CASE kind = "pie" -> Values(series)
      [] kind # "pie" /\ IsSingle(series) ->
            Values(series) \cup (IF kind = "line" THEN {Item("Line", "__line__", SeriesColor(series, 1))} ELSE {})
      [] OTHER -> {Item("Series", KeyOf[series[i].name], SeriesColor(series, i)) : i \in DOMAIN series}

Items == ItemsOf(Series)

-----------------------------------------------------------------------------
(* What happens                                                            *)

\* The source is loaded again; everything else is kept.
Refetch ==
    /\ source' \in Sources \ {source}
    /\ edited' = [edited EXCEPT !.since = TRUE]
    /\ UNCHANGED <<kind, open, picks, hovered>>

\* The button; a click beside it or Escape closes it too.
Toggle ==
    /\ open \/ Items # {}
    /\ open' = ~open
    /\ UNCHANGED <<kind, source, picks, hovered, edited>>

Edit(item, color) ==
    /\ open
    /\ CASE item.section = "Values" -> valueColors' = [valueColors EXCEPT ![item.key] = color]
                                       /\ UNCHANGED <<seriesColors, lineColor>>
         [] item.section = "Series" -> seriesColors' = [seriesColors EXCEPT ![item.key] = color]
                                       /\ UNCHANGED <<valueColors, lineColor>>
         [] item.section = "Line" -> lineColor' = color /\ UNCHANGED <<valueColors, seriesColors>>
    /\ edited' = [section |-> item.section, key |-> item.key, color |-> color, since |-> FALSE]
    /\ UNCHANGED <<kind, source, open, hovered>>

\* Mutant of Cleared: the series keep what was picked for them.
ClearedValues == valueColors' = [k \in Keys |-> None] /\ lineColor' = None /\ UNCHANGED seriesColors

Cleared ==
    valueColors' = [k \in Keys |-> None] /\ seriesColors' = [k \in Keys |-> None] /\ lineColor' = None

Reset ==
    /\ open /\ Items # {}
    /\ Cleared
    /\ edited' = [edited EXCEPT !.since = TRUE]
    /\ UNCHANGED <<kind, source, open, hovered>>

\* A bar or a slice.
Enter(i) ==
    /\ kind # "line"
    /\ hovered' = i
    /\ UNCHANGED <<kind, source, open, picks, edited>>

Leave ==
    /\ hovered # None
    /\ hovered' = None
    /\ UNCHANGED <<kind, source, open, picks, edited>>

\* Math.round, of a quotient.
Round(a, b) == (2 * a + b) \div (2 * b)

\* The mouse over a line chart, at x of its plane.
Move(x) ==
    /\ kind = "line"
    /\ LET n == Len(Labels(Series))
       IN  n > 0 /\ hovered' = Round(x * (n - 1), Width) + 1
    /\ UNCHANGED <<kind, source, open, picks, edited>>

Init ==
    /\ kind \in Kinds /\ source \in Sources
    /\ open = FALSE
    /\ valueColors = [k \in Keys |-> None] /\ seriesColors = [k \in Keys |-> None] /\ lineColor = None
    /\ hovered = None
    /\ edited = [section |-> None, key |-> None, color |-> None, since |-> TRUE]

Next ==
    \/ Refetch \/ Toggle \/ Reset \/ Leave
    \/ \E item \in Items, color \in Colors : Edit(item, color)
    \/ \E i \in (IF kind = "pie" THEN DOMAIN Slices ELSE DOMAIN Labels(Series)) : Enter(i)
    \/ \E x \in 0..Width : Move(x)

Spec == Init /\ [][Next]_vars

-----------------------------------------------------------------------------
(* What must hold                                                          *)

\* A line that has a colour of its own, or was given one when it was one of several.
HasOwnColor == Series[1].color # None \/ seriesColors[KeyOf[Series[1].name]] # None

\* The editor shows the colour that was picked in it, except for a line that has
\* another one.
PickedColorShows ==
    ~edited.since /\ ~(edited.section = "Line" /\ HasOwnColor) =>
        \A item \in Items : item.section = edited.section /\ item.key = edited.key
                                => item.color = edited.color

\* The bars have the colours the editor shows for them, but for a bar of several
\* series that has its own, or whose label was given one when there was one series.
BarsFollowEditor ==
    LET series == Series
        items == ItemsOf(series)
    IN  kind \in {"bar", "stacked"} => \A i \in DOMAIN series : \A j \in DOMAIN series[i].points :
            LET p == series[i].points[j]
                color == PointColor(series, i, j)
            IN  \/ IsSingle(series) /\ Item("Values", KeyOf[p.label], color) \in items
                \/ ~IsSingle(series) /\ Item("Series", KeyOf[series[i].name], color) \in items
                \/ ~IsSingle(series) /\ (p.color # None \/ valueColors[KeyOf[p.label]] # None)

\* No bar and no stack is longer than the chart, whatever the series lack, if
\* nothing is negative.
BarsFit ==
    LET series == Series
        max == MaxValue(series)
    IN  kind \in {"bar", "stacked"} /\ (\A s \in Range(series) : \A p \in Range(s.points) : p.value >= 0) =>
            \A j \in DOMAIN Labels(series) : \A i \in DOMAIN series :
                10 * (IF kind = "stacked" THEN Stack(series, j, i) ELSE Value(series, i, j)) <= 11 * max

\* After a reset every colour is the data's or the palette's.
ResetForgets == Reset => \A item \in Items' : item.color \notin Colors

\* Of a line chart the point nearest to the mouse is shown, and one there is.
NearestShown ==
    \A x \in 0..Width : Move(x) =>
        LET n == Len(Labels(Series))
            Distance(i) == LET d == (i - 1) * Width - x * (n - 1) IN IF d < 0 THEN -d ELSE d
        IN  hovered' \in 1..n /\ \A i \in 1..n : Distance(hovered') <= Distance(i)

\* Charts have the colours that were picked in their editor and bars that fit.
ColorsAndBarsHold == PickedColorShows /\ BarsFollowEditor /\ BarsFit

=============================================================================
