------------------------------ MODULE MapTrace ------------------------------
(***************************************************************************)
(* The trace of the robot on the map (GetMapTrace, Map's on_map_trace and  *)
(* TracePoints).  It comes in pages, each asked for by the handler of the  *)
(* one before; the first page empties what is drawn.  The map listens only *)
(* while somebody is interested in its changes; then the bus repeats the   *)
(* last page.                                                              *)
(***************************************************************************)
EXTENDS Naturals, Sequences

CONSTANTS Runs,         \* cleaning runs of the robot
          None,
          MaxPages,     \* pages of a trace
          MaxDrawn      \* pages drawn when the map begins to listen: each time
                        \* it does, the last page may be drawn once more

VARIABLES run,          \* the robot's run, whose trace it has
          length,       \* pages of it
          lastTrace,    \* the last MapTraceEvent, None before
          listening,    \* the map is subscribed to it
          points,       \* trace_points, page by page
          asked,        \* the page asked for, None if the refresh is over
          answer,       \* the answer that is not handled yet, or None
          disturbed     \* since the refresh began the trace changed, an answer
                        \* was no success, or the map began or ceased to listen

vars == <<run, length, lastTrace, listening, points, asked, answer, disturbed>>

Trace == [p \in 1..length |-> <<run, p>>]

Init ==
  /\ run \in Runs
  /\ length \in 0..MaxPages
  /\ lastTrace = None /\ listening = FALSE /\ points = <<>>
  /\ asked = None /\ answer = None
  /\ disturbed = TRUE

-----------------------------------------------------------------------------
(* on_map_trace; data without points is not added.                         *)
(* A fault: what is drawn is not emptied.                                  *)
OnMapTraceAdding(event) == points' = points \o event.data
OnMapTrace(event) ==
  points' = (IF event.start = 0 THEN <<>> ELSE points) \o event.data

Listen ==
  /\ ~listening
  /\ Len(points) < MaxDrawn
  /\ listening' = TRUE
  /\ disturbed' = TRUE
  /\ IF lastTrace = None THEN UNCHANGED points ELSE OnMapTrace(lastTrace)
  /\ UNCHANGED <<run, length, lastTrace, asked, answer>>

Cease ==
  /\ listening
  /\ listening' = FALSE
  /\ disturbed' = TRUE
  /\ UNCHANGED <<run, length, lastTrace, points, asked, answer>>

(* The robot goes on, or begins another run.                               *)
Grow ==
  /\ length < MaxPages
  /\ length' = length + 1
  /\ disturbed' = TRUE
  /\ UNCHANGED <<run, lastTrace, listening, points, asked, answer>>

Begin(next) ==
  /\ next # run
  /\ run' = next
  /\ length' = 0
  /\ disturbed' = TRUE
  /\ UNCHANGED <<lastTrace, listening, points, asked, answer>>

-----------------------------------------------------------------------------
RequestRefresh ==
  /\ listening /\ asked = None /\ answer = None
  /\ asked' = 0
  /\ disturbed' = FALSE
  /\ UNCHANGED <<run, length, lastTrace, listening, points, answer>>

(* The page that starts there, empty behind the end                        *)
Answer ==
  /\ asked # None
  /\ asked' = None
  /\ answer' = [start |-> asked, total |-> length,
                data  |-> IF asked < length THEN <<Trace[asked + 1]>> ELSE <<>>]
  /\ UNCHANGED <<run, length, lastTrace, listening, points, disturbed>>

Fail ==
  /\ asked # None
  /\ asked' = None
  /\ disturbed' = TRUE
  /\ UNCHANGED <<run, length, lastTrace, listening, points, answer>>

(* The handler notifies the page and asks for the next one.                *)
HandleResponse ==
  /\ answer # None
  /\ answer' = None
  /\ lastTrace' = answer
  /\ IF listening /\ answer # lastTrace THEN OnMapTrace(answer) ELSE UNCHANGED points
  /\ asked' = IF answer.start + 1 < answer.total THEN answer.start + 1 ELSE None
  /\ UNCHANGED <<run, length, listening, disturbed>>

Next ==
  \/ Listen \/ Cease \/ Grow \/ RequestRefresh \/ Answer \/ Fail \/ HandleResponse
  \/ \E next \in Runs : Begin(next)

Spec == Init /\ [][Next]_vars

-----------------------------------------------------------------------------
(* Whatever page was lost, repeated or of another run before, a refresh    *)
(* that nothing disturbs leaves the trace of the robot, each page once and *)
(* in order.                                                               *)
TraceComplete ==
  listening /\ asked = None /\ answer = None /\ ~disturbed => points = Trace
=============================================================================
