------------------------------- MODULE Canvas -------------------------------
(***************************************************************************)
(* The geometry of a board: packages/schema/src/canvas.ts and the two      *)
(* gestures of apps/web/src/components/canvas.tsx.  Cards are placed on a   *)
(* canvas of fixed width, in pixels that a gesture snaps to a grid.        *)
(***************************************************************************)
EXTENDS Integers

GRID == 20
CANVAS_WIDTH == 1620
MIN_WIDGET_W == 160
MIN_WIDGET_H == 120
MAX_WIDGET_H == 3000
MAX_WIDGET_Y == 40000

Rect == [x : Int, y : Int, w : Int, h : Int]

Lesser(a, b) == IF a < b THEN a ELSE b
Greater(a, b) == IF a < b THEN b ELSE a

(* Math.round rounds a half upwards, and so does the floor of n + 10. *)
SnapToGrid(n) == ((n + 10) \div GRID) * GRID

Clamp(n, lo, hi) == Lesser(hi, Greater(lo, n))

\* mutant: sizes and places are only clamped from below
NormaliseBelow(r) ==
    LET w == Clamp(SnapToGrid(r.w), MIN_WIDGET_W, CANVAS_WIDTH)
    IN  [x |-> Clamp(SnapToGrid(r.x), 0, CANVAS_WIDTH - w), y |-> Greater(0, SnapToGrid(r.y)),
         w |-> w, h |-> Greater(MIN_WIDGET_H, SnapToGrid(r.h))]

NormaliseRect(r) ==
    LET w == Clamp(SnapToGrid(r.w), MIN_WIDGET_W, CANVAS_WIDTH)
    IN  [x |-> Clamp(SnapToGrid(r.x), 0, CANVAS_WIDTH - w),
         y |-> Clamp(SnapToGrid(r.y), 0, MAX_WIDGET_Y),
         w |-> w,
         h |-> Clamp(SnapToGrid(r.h), MIN_WIDGET_H, MAX_WIDGET_H)]

RectsOverlap(a, b) ==
    /\ a.x < b.x + b.w
    /\ b.x < a.x + a.w
    /\ a.y < b.y + b.h
    /\ b.y < a.y + a.h

(* What the stored contract accepts of a card's place. *)
Accepted(r) ==
    /\ r.x \in 0 .. CANVAS_WIDTH
    /\ r.y \in 0 .. MAX_WIDGET_Y
    /\ r.w \in MIN_WIDGET_W .. CANVAS_WIDTH
    /\ r.h \in MIN_WIDGET_H .. MAX_WIDGET_H

(* The first place, row by row, at which a card of this size covers none    *)
(* of those taken, or the bottom of the board.                             *)
FindFreeSlot(taken, w, h) ==
    LET ends    == {0} \cup {r.y + r.h : r \in taken}
        maxY    == (CHOOSE m \in ends : \A n \in ends : n <= m) + h + GRID
        At(i, j) == [x |-> i * GRID, y |-> j * GRID, w |-> w, h |-> h]
        Free(i, j) == \A r \in taken : ~RectsOverlap(At(i, j), r)
        rows    == 0 .. (maxY \div GRID)
        columns == 0 .. ((CANVAS_WIDTH - w) \div GRID)
        FirstIn(j) == CHOOSE i \in columns :
                          Free(i, j) /\ \A k \in columns : k < i => ~Free(k, j)
    IN  IF \E j \in rows : \E i \in columns : Free(i, j)
        THEN LET j == CHOOSE j \in rows :
                        /\ \E i \in columns : Free(i, j)
                        /\ \A k \in rows : k < j => \A i \in columns : ~Free(i, k)
             IN  At(FirstIn(j), j)
        ELSE [x |-> 0, y |-> SnapToGrid(maxY), w |-> w, h |-> h]

MoveBy(r, dx, dy) == [x |-> r.x + dx, y |-> r.y + dy, w |-> r.w, h |-> r.h]

(* A card dragged by the edges in edge, letters of the compass.  West and   *)
(* north move the origin and keep the far side where it is.                *)
ResizeBy(r, edge, dx, dy) ==
    LET right  == r.x + r.w
        bottom == r.y + r.h
        left   == Lesser(Greater(Greater(0, right - CANVAS_WIDTH),
                                 SnapToGrid(r.x + dx)),
                         right - MIN_WIDGET_W)
        top    == Lesser(Greater(Greater(0, bottom - MAX_WIDGET_H),
                                 SnapToGrid(r.y + dy)),
                         Lesser(bottom - MIN_WIDGET_H, MAX_WIDGET_Y))
    IN  [x |-> IF "w" \in edge THEN left ELSE r.x,
         y |-> IF "n" \in edge THEN top ELSE r.y,
         w |-> IF "w" \in edge THEN right - left
               ELSE IF "e" \in edge
                    THEN Lesser(SnapToGrid(r.w + dx), CANVAS_WIDTH - r.x)
                    ELSE r.w,
         h |-> IF "n" \in edge THEN bottom - top
               ELSE IF "s" \in edge THEN SnapToGrid(r.h + dy) ELSE r.h]
=============================================================================
