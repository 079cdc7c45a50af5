----------------------------- MODULE MapPixels -----------------------------
(***************************************************************************)
(* Where things are in the picture of the map: the pixels of the           *)
(* background (BackgroundImage.generate), positions (calc_point,           *)
(* calc_point_in_viewbox) and the trace (trace_point_to_point).  Pieces    *)
(* come column by column, from the bottom to the top, and so do the pixels *)
(* of a piece once it is rotated.  The middle of the map is (0, 0); the    *)
(* robot counts upwards, the picture downwards.                            *)
(***************************************************************************)
EXTENDS Integers, FiniteSets, FiniteSetsExt

CONSTANTS Side,         \* pieces of a side of the map: 8
          PieceSize,    \* pixels of a side of a piece: 100
          MaxDots       \* pixels that are not transparent

MapSize == Side * PieceSize
Offset  == MapSize \div 2
Dot     == (0..(Side * Side - 1)) \X (0..(PieceSize * PieceSize - 1))

VARIABLE dots           \* those pixels: the piece and the place in the piece

Init == dots = {}

(* update_map_piece, by what it changes in the pixels                      *)
Set(d) == Cardinality(dots) < MaxDots /\ dots' = dots \cup {d}
Empty  == dots' = {}

Next == Empty \/ \E d \in Dot : Set(d)
Spec == Init /\ [][Next]_dots

-----------------------------------------------------------------------------
PieceX(i) == (i \div Side) * PieceSize
PieceY(i) == MapSize - ((i % Side) + 1) * PieceSize

(* A fault: the pixels of a piece are not rotated.                         *)
PixelUnrotated(d) ==
  <<PieceX(d[1]) + (d[2] % PieceSize), PieceY(d[1]) + d[2] \div PieceSize>>
Pixel(d) ==
  <<PieceX(d[1]) + d[2] \div PieceSize,
    PieceY(d[1]) + PieceSize - 1 - (d[2] % PieceSize)>>

Xs == {Pixel(d)[1] : d \in dots}
Ys == {Pixel(d)[2] : d \in dots}

(* Pixels that are all in the first column, or in the top row, count as    *)
(* none: max_x or max_y is still 0.                                        *)
NoImage == dots = {} \/ Max(Xs) = 0 \/ Max(Ys) = 0

(* ViewBox::new; the maxima are the edges behind the last pixels.          *)
Box == [minX |-> Min(Xs) - Offset, maxX |-> Max(Xs) + 1 - Offset,
        minY |-> Min(Ys) - Offset, maxY |-> Max(Ys) + 1 - Offset]

-----------------------------------------------------------------------------
(* Lengths are in millimetres here: a pixel is 50, a unit of the trace is  *)
(* 10, which the picture scales by 0.2.                                    *)
PixelWidth == 50
Rotations  == {0, 90, 180, 270}

CalcPoint(x, y, rotation) ==
  CASE rotation = 0   -> <<x, -y>>
    [] rotation = 90  -> <<y, x>>
    [] rotation = 180 -> <<-x, y>>
    [] rotation = 270 -> <<-y, -x>>

Bounded(n, least, greatest) == Min({Max({n, least}), greatest})
CalcPointInBox(x, y, rotation) ==
  LET p == CalcPoint(x, y, rotation)
  IN <<Bounded(p[1], Box.minX * PixelWidth, Box.maxX * PixelWidth),
       Bounded(p[2], Box.minY * PixelWidth, Box.maxY * PixelWidth)>>

TraceRotated(x, y, rotation) ==
  CASE rotation = 0   -> <<x, y>>
    [] rotation = 90  -> <<y, -x>>
    [] rotation = 180 -> <<-x, -y>>
    [] rotation = 270 -> <<-y, x>>

(* With transform="scale(0.2-0.2)"                                         *)
TracePlace(x, y, rotation) ==
  LET p == TraceRotated(x, y, rotation) IN <<10 * p[1], -10 * p[2]>>

-----------------------------------------------------------------------------
(* The part of the world a pixel stands for, by the comments on the order  *)
(* of pieces and pixels: its lower left corner, in units of the trace      *)
Corner(d) ==
  <<5 * ((d[1] \div Side) * PieceSize + d[2] \div PieceSize - Offset),
    5 * (((d[1] % Side) * PieceSize) + (d[2] % PieceSize) - Offset)>>

InCell(place, pixel) ==
  \A k \in 1..2 : place[k] \in (pixel[k] - Offset) * PixelWidth ..
                               (pixel[k] + 1 - Offset) * PixelWidth

(* Unrotated, the background, a position and the trace show the same spot  *)
(* of the world at the same place of the picture, inside of the view box,  *)
(* however much of the map there is.  A rotation turns positions, walls    *)
(* and the trace alike; the background is never turned (mod.rs:276), so    *)
(* nothing is said of it then.                                             *)
PartsMeet ==
  ~NoImage => \A d \in dots : \A a, b \in 0..5 :
    LET x == Corner(d)[1] + a
        y == Corner(d)[2] + b
    IN /\ InCell(CalcPointInBox(10 * x, 10 * y, 0), Pixel(d))
       /\ CalcPointInBox(10 * x, 10 * y, 0) = TracePlace(x, y, 0)
       /\ \A rotation \in Rotations :
            CalcPoint(10 * x, 10 * y, rotation) = TracePlace(x, y, rotation)
=============================================================================
