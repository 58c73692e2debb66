------------------------------- MODULE Lightbox -------------------------------
(***************************************************************************)
(* The image viewer of the documentation (docs ImageLightbox): zooming by  *)
(* wheel, keys and pinch, dragging, and pointers that go down and up in    *)
(* any order. Positions and offsets are those of one axis, the other is    *)
(* alike; zooms are whole.                                                 *)
(***************************************************************************)
EXTENDS Integers, Sequences, FiniteSets

CONSTANTS
    Touches, Mouse,     \* pointers; a mouse may be released unseen outside the viewer
    Places,             \* where they may be
    Width,              \* clientWidth of a loaded image, even
    MaxZoom,
    None

VARIABLES
    open, width,        \* 0 until the image is loaded
    zoom, offset,
    drag,               \* dragState
    pointers,           \* activePointersRef, in the order of the map
    pinch,              \* pinchStateRef, and as history the pointers it was begun with
    three               \* history: three pointers were down since there was none

view == <<zoom, offset, drag>>
hands == <<pointers, pinch, three>>
vars == <<open, width, view, hands>>

Pointers == Touches \cup {Mouse}
Ids == {pointers[i].id : i \in DOMAIN pointers}
Clamp(v, lo, hi) == IF v < lo THEN lo ELSE IF v > hi THEN hi ELSE v
Distance(a, b) == IF a.x >= b.x THEN a.x - b.x ELSE b.x - a.x

\* How far an image may be moved.
Reach(z) == (width * (z - 1)) \div 2

ClampOffset(o, z) == Clamp(o, -Reach(z), Reach(z))

-----------------------------------------------------------------------------
(* Zooming                                                                 *)

\* Mutant of OffsetAt: only the smallest zoom moves the image.
OffsetAtKept(z) == IF z = 1 THEN 0 ELSE offset

OffsetAt(z) == IF z = 1 THEN 0 ELSE ClampOffset(offset, z)

UpdateZoom(candidate) ==
    LET next == Clamp(candidate, 1, MaxZoom)
    IN  zoom' = next /\ offset' = OffsetAt(next)

\* The wheel, the keys and a double click.
ZoomIn == open /\ UpdateZoom(zoom + 1) /\ UNCHANGED <<open, width, drag, hands>>
ZoomOut == open /\ UpdateZoom(zoom - 1) /\ UNCHANGED <<open, width, drag, hands>>
DoubleClick == open /\ UpdateZoom(IF zoom > 1 THEN 1 ELSE 2) /\ UNCHANGED <<open, width, drag, hands>>

-----------------------------------------------------------------------------
(* Opening and closing                                                     *)

ResetHands == pointers' = <<>> /\ pinch' = None /\ three' = FALSE
ResetView == zoom' = 1 /\ offset' = 0 /\ drag' = None /\ ResetHands

OpenImage == ~open /\ open' = TRUE /\ width' = 0 /\ ResetView
CloseImage == open /\ open' = FALSE /\ width' = 0 /\ ResetView

\* The key 0.
ResetKey == open /\ ResetView /\ UNCHANGED <<open, width>>

\* onLoad
Load ==
    /\ open /\ width = 0
    /\ width' = Width
    /\ offset' = Clamp(offset, -((Width * (zoom - 1)) \div 2), (Width * (zoom - 1)) \div 2)
    /\ UNCHANGED <<open, zoom, drag, hands>>

-----------------------------------------------------------------------------
(* Pointers                                                                *)

\* Map.set: a pointer that is known keeps its place.
Put(id, x) ==
    IF id \in Ids THEN [i \in DOMAIN pointers |-> IF pointers[i].id = id THEN [id |-> id, x |-> x] ELSE pointers[i]]
    ELSE Append(pointers, [id |-> id, x |-> x])

Begun(s) == [distance |-> Distance(s[1], s[2]), zoom |-> zoom, of |-> <<s[1].id, s[2].id>>]

PointerDown(id, x) ==
    /\ open /\ (id = Mouse \/ id \notin Ids)
    /\ pointers' = Put(id, x)
    /\ three' = (three \/ Len(pointers') >= 3)
    /\ IF Len(pointers') >= 2
       THEN pinch' = Begun(pointers') /\ drag' = None
       ELSE /\ UNCHANGED pinch
            /\ drag' = IF zoom > 1 THEN [id |-> id, start |-> x, origin |-> offset] ELSE drag
    /\ UNCHANGED <<open, width, zoom, offset>>

\* A pinch of pointers that began in one place zooms all the way.
Pinched(s) ==
    IF pinch.distance = 0 THEN MaxZoom ELSE (pinch.zoom * Distance(s[1], s[2])) \div pinch.distance

PointerMove(id, x) ==
    /\ open
    /\ pointers' = IF id \in Ids THEN Put(id, x) ELSE pointers
    /\ CASE pinch # None /\ Len(pointers') >= 2 ->
              IF Distance(pointers'[1], pointers'[2]) > 0 THEN UpdateZoom(Pinched(pointers'))
              ELSE UNCHANGED <<zoom, offset>>
         [] ~(pinch # None /\ Len(pointers') >= 2) /\ drag # None /\ drag.id = id ->
              offset' = ClampOffset(drag.origin + x - drag.start, zoom) /\ UNCHANGED zoom
         [] OTHER -> UNCHANGED <<zoom, offset>>
    /\ UNCHANGED <<open, width, drag, pinch, three>>

\* Map.delete: a pointer is in the map once.
Without(id) ==
    LET i == CHOOSE n \in DOMAIN pointers : pointers[n].id = id
    IN  IF id \in Ids THEN SubSeq(pointers, 1, i - 1) \o SubSeq(pointers, i + 1, Len(pointers)) ELSE pointers

PinchAfter(s) == IF Len(s) < 2 THEN None ELSE pinch

\* finishDrag, of a pointer that went up or was cancelled.
PointerUp(id) ==
    /\ open
    /\ pointers' = Without(id)
    /\ pinch' = PinchAfter(pointers')
    /\ three' = (three /\ pointers' # <<>>)
    /\ drag' = None
    /\ UNCHANGED <<open, width, zoom, offset>>

-----------------------------------------------------------------------------

Init ==
    /\ open = FALSE /\ width = 0 /\ zoom = 1 /\ offset = 0
    /\ drag = None /\ pointers = <<>> /\ pinch = None /\ three = FALSE

Next ==
    \/ ZoomIn \/ ZoomOut \/ DoubleClick
    \/ OpenImage \/ CloseImage \/ ResetKey \/ Load
    \/ \E id \in Pointers : PointerUp(id) \/ \E x \in Places : PointerDown(id, x) \/ PointerMove(id, x)

Spec == Init /\ [][Next]_vars

-----------------------------------------------------------------------------
(* What must hold                                                          *)

\* However it is zoomed and dragged, the image never leaves its frame, and at its
\* own size it is in the middle.
StaysInFrame == offset \in -Reach(zoom)..Reach(zoom)

\* A drag and a pinch end with their pointers and never go on together; a pinch
\* is of the two pointers it began with, unless there was a third.
GesturesHavePointers ==
    /\ drag # None => drag.id \in Ids /\ pinch = None
    /\ pinch # None => Len(pointers) >= 2
    /\ pinch # None /\ ~three => pinch.of = <<pointers[1].id, pointers[2].id>>

\* The image stays in its frame, and no gesture outlives its pointers.
ViewerHolds == StaysInFrame /\ GesturesHavePointers

=============================================================================
