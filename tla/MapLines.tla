------------------------------ MODULE MapLines ------------------------------
(***************************************************************************)
(* The lines of the map as the text of an SVG path (points_to_svg_path),   *)
(* which leaves out every letter and every space it can.  The text is a    *)
(* sequence of numbers, each with the mark written before it: the letter   *)
(* of a command, a space, or nothing.  A reader of SVG has to find the     *)
(* lines that were meant.                                                  *)
(***************************************************************************)
EXTENDS Integers, Sequences

CONSTANTS Coordinates,  \* integers; a point has two of them
          MaxPoints     \* points that are drawn

VARIABLE points         \* of a trace, an outline or an area

Point == [x : Coordinates, y : Coordinates, connected : BOOLEAN]

Init == points = <<>>

(* TracePoints.add and clear                                               *)
Add(p) == Len(points) < MaxPoints /\ points' = Append(points, p)
Clear  == points' = <<>>

Next == Clear \/ \E p \in Point : Add(p)
Spec == Init /\ [][Next]_points

-----------------------------------------------------------------------------
(* The space before a number that would run into the one before it         *)
Space(needed) == IF needed THEN " " ELSE ""

(* Two numbers, or one, after a letter that is left out if it is repeated  *)
Letter(path, command, n) ==
  IF path.last # command THEN command ELSE Space(n >= 0)

Write(path, command, numbers) ==
  [text |-> path.text \o numbers, last |-> command]

(* A fault: what comes after a move takes the line before it for its own.  *)
MoveByForgotten(path, x, y) ==
  [path EXCEPT !.text = @ \o <<<<"m", x>>, <<Space(y >= 0), y>>>>]
MoveBy(path, x, y) == Write(path, "m", <<<<"m", x>>, <<Space(y >= 0), y>>>>)

Extend(path, from, to, force) ==
  LET x    == to.x - from.x
      y    == to.y - from.y
      line == to.connected \/ force
  IN CASE x = 0 /\ y = 0                -> path
       [] (x # 0 \/ y # 0) /\ ~line     -> MoveBy(path, x, y)
       [] x = 0 /\ y # 0 /\ line        -> Write(path, "v", <<<<Letter(path, "v", y), y>>>>)
       [] x # 0 /\ y = 0 /\ line        -> Write(path, "h", <<<<Letter(path, "h", x), x>>>>)
       [] x # 0 /\ y # 0 /\ line        ->
            Write(path, "l", <<<<Letter(path, "l", x), x>>, <<Space(y > 0), y>>>>)

(* The path as it is after each point                                      *)
Path(pts, force) ==
  LET path[i \in 1..Len(pts)] ==
        IF i = 1
        THEN Write([text |-> <<>>], "M",
                   <<<<"M", pts[1].x>>, <<Space(pts[1].y >= 0), pts[1].y>>>>)
        ELSE Extend(path[i - 1], pts[i - 1], pts[i], force)
  IN path

(* A path of less than two points is not drawn.                            *)
PathText(pts, force) ==
  IF Len(pts) < 2 THEN <<>> ELSE Path(pts, force)[Len(pts)].text

(* process_map_info_outline_entries: back to the first point if that is    *)
(* connected; the text cannot be closed with z, which would only close the *)
(* last of several outlines.                                               *)
Outline(pts) ==
  IF pts # <<>> /\ pts[1].connected THEN Append(pts, pts[1]) ELSE pts

(* Walls and rooms: every point is connected, more than two are closed.    *)
Area(pts) == [i \in DOMAIN pts |-> [pts[i] EXCEPT !.connected = TRUE]]

-----------------------------------------------------------------------------
(* What a reader of SVG makes of a text: the commands M, m, l, h and v,    *)
(* further numbers of the same command, where M goes on as L and m as l,   *)
(* and numbers that are apart by a sign, a space or a letter               *)
Letters == {"M", "m", "l", "h", "v"}

Target(command, at, n) ==
  CASE command \in {"M", "L"} -> <<n[1], n[2]>>
    [] command \in {"m", "l"} -> <<at[1] + n[1], at[2] + n[2]>>
    [] command = "h"          -> <<at[1] + n[1], at[2]>>
    [] command = "v"          -> <<at[1], at[2] + n[1]>>

ReadNumber(r, mark, n) ==
  LET command == IF mark \in Letters THEN mark ELSE r.command
      numbers == Append(r.numbers, n)
      to      == Target(command, r.at, numbers)
      legible == /\ r.legible
                 /\ mark = "" => n < 0
                 /\ mark \in Letters => r.numbers = <<>>
      moves   == command \in {"M", "m"}
  IN IF Len(numbers) < (IF command \in {"h", "v"} THEN 1 ELSE 2)
     THEN [r EXCEPT !.command = command, !.numbers = numbers, !.legible = legible]
     ELSE [command |-> CASE command = "M" -> "L" [] command = "m" -> "l"
                         [] OTHER -> command,
           numbers |-> <<>>, at |-> to, legible |-> legible,
           start   |-> IF moves THEN to ELSE r.start,
           lines   |-> IF moves THEN r.lines ELSE r.lines \cup {<<r.at, to>>}]

(* What is known after each number of a text                               *)
Read(text) ==
  LET read[i \in 0..Len(text)] ==
        IF i = 0
        THEN [command |-> "M", numbers |-> <<>>, at |-> <<0, 0>>, legible |-> TRUE,
              start |-> <<0, 0>>, lines |-> {}]
        ELSE ReadNumber(read[i - 1], text[i][1], text[i][2])
  IN read
Reading(text) == Read(text)[Len(text)]

(* z, at the end of a text                                                 *)
Closing(r) == IF r.at = r.start THEN {} ELSE {<<r.at, r.start>>}

Line(p, q) == IF <<p.x, p.y>> = <<q.x, q.y>> THEN {} ELSE {<<<<p.x, p.y>>, <<q.x, q.y>>>>}

(* The lines that are meant: between neighbours                            *)
Lines(pts, force) ==
  UNION {Line(pts[i - 1], pts[i]) :
           i \in {i \in 2..Len(pts) : pts[i].connected \/ force}}

Draws(text, lines) ==
  LET r == Reading(text) IN r.legible /\ r.numbers = <<>> /\ r.lines = lines

(* Whatever letters and spaces are left out, a reader finds the lines of a *)
(* trace and of an outline, with its gaps and forced, and the border of a  *)
(* wall or a room, and no others.                                          *)
PathDrawsPoints ==
  LET area == PathText(Area(points), FALSE)
      n    == Len(points)
  IN n >= 2 =>
       /\ \A pts \in {points, Outline(points)}, force \in BOOLEAN :
            Draws(PathText(pts, force), Lines(pts, force))
       /\ Draws(area, Lines(points, TRUE))
       /\ n > 2 => Closing(Reading(area)) = Line(points[n], points[1])
=============================================================================
