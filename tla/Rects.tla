------------------------------- MODULE Rects -------------------------------
(***************************************************************************)
(* Rectangles of the screen and the batching of those of a frame into one  *)
(* (display/batch.ts).                                                     *)
(***************************************************************************)
EXTENDS Integers, Sequences, FiniteSetsExt

Rect(x, y, w, h) == [x |-> x, y |-> y, width |-> w, height |-> h]

Rectangles == [x : Nat, y : Nat, width : Nat, height : Nat]

Whole(size) == Rect(0, 0, size.width, size.height)

\* The pixels of a rectangle.
Pixels(r) == (r.x .. r.x + r.width - 1) \X (r.y .. r.y + r.height - 1)

\* One rectangle lies in another, by its edges.
Within(r, s) ==
    /\ s.x <= r.x /\ r.x + r.width <= s.x + s.width
    /\ s.y <= r.y /\ r.y + r.height <= s.y + s.height

\* Fault: the far edge of a rectangle is taken for its width.
BatchRectsNarrow(size, rects) ==
    LET R == {rects[i] : i \in DOMAIN rects}
        x == Min({size.width} \cup {r.x : r \in R})
        y == Min({size.height} \cup {r.y : r \in R})
    IN  Rect(x, y, Max({0} \cup {r.width : r \in R}), Max({0} \cup {r.height : r \in R}))

\* Fault: the far edge of the batch is not counted from its near edge.
BatchRectsWide(size, rects) ==
    LET R == {rects[i] : i \in DOMAIN rects}
        x == Min({size.width} \cup {r.x : r \in R})
        y == Min({size.height} \cup {r.y : r \in R})
    IN  Rect(x, y, Max({0} \cup {r.width + r.x : r \in R}),
                   Max({0} \cup {r.height + r.y : r \in R}))

\* BatchRects: the smallest rectangle around all; the whole screen for none,
\* and a single one that fills the screen as it is.
BatchRects(size, rects) ==
    LET R == {rects[i] : i \in DOMAIN rects}
        x == Min({size.width} \cup {r.x : r \in R})
        y == Min({size.height} \cup {r.y : r \in R})
        w == Max({0} \cup {r.width + r.x - x : r \in R})
        h == Max({0} \cup {r.height + r.y - y : r \in R})
    IN  CASE Len(rects) = 0 -> Whole(size)
          [] Len(rects) = 1 /\ rects[1].width = size.width
                            /\ rects[1].height = size.height -> rects[1]
          [] OTHER -> Rect(x, y, w, h)
=============================================================================
