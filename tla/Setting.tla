------------------------------ MODULE Setting -------------------------------
(***************************************************************************)
(* What the event of a setting promises whoever reads the bus: it shows    *)
(* nothing, or a value the robot really had.  A change that was asked for  *)
(* and refused, or that never reached the robot, is never shown.           *)
(***************************************************************************)
CONSTANTS Robots, Values, None

VARIABLES had,          \* the values the robot has had
          shown         \* the value of the last event, None before

vars == <<had, shown>>

Init == /\ had \in [Robots -> {{v} : v \in Values}]
        /\ shown = [r \in Robots |-> None]

Change(r, v) ==
  /\ had' = [had EXCEPT ![r] = @ \cup {v}]
  /\ UNCHANGED shown

Show(r, v) ==
  /\ v \in had[r]
  /\ shown' = [shown EXCEPT ![r] = v]
  /\ UNCHANGED had

Next == \E r \in Robots, v \in Values : Change(r, v) \/ Show(r, v)

Spec == Init /\ [][Next]_vars
=============================================================================
