----------------------------- MODULE RobotState -----------------------------
(***************************************************************************)
(* What the StateEvent on the bus says of the robot.  A refresh reads the  *)
(* state with two commands whose answers are handled in any order; the     *)
(* robot sends the same contents on its own when it moves, and not all of  *)
(* them arrive.  Every handler notifies what it reads, and the bus keeps   *)
(* DOCKED when it hears IDLE.  The clean command of JSON models decides    *)
(* from the last StateEvent whether it starts or resumes.                  *)
(***************************************************************************)
EXTENDS Naturals, Sequences, SequencesExt

CONSTANTS MaxMoves,     \* the robot moves, on its own or as told, this often
          MaxQueue      \* messages of the robot on their way

(* The tables read the state with one of these besides the charge state.   *)
Infos == {"getCleanInfo", "getWorkState", "GetCleanState"}
States == {"IDLE", "CLEANING", "RETURNING", "DOCKED", "ERROR", "PAUSED"}

(* What the robot does: at the station it is washed, dried or emptied, and *)
(* it rests where it was stopped.                                          *)
Doings == {"cleaning", "paused", "returning", "docked", "station", "resting", "stuck"}
Truth ==
  [cleaning |-> "CLEANING", paused |-> "PAUSED", returning |-> "RETURNING",
   docked |-> "DOCKED", station |-> "DOCKED", resting |-> "IDLE", stuck |-> "ERROR"]

VARIABLES info,         \* the second command of the table
          doing,        \* what the robot does
          shown,        \* the state of the last StateEvent, "none" before
          asked,        \* the commands of a refresh the robot has not answered
          answers,      \* its answers that are not handled yet
          pushes,       \* its messages on their way, in order
          disturbed,    \* something else happened since the refresh began
          before,       \* shown when the refresh began, while not disturbed
          clean,        \* the clean command on its way to the robot
          moves         \* counts up to MaxMoves

vars == <<info, doing, shown, asked, answers, pushes, disturbed, before, clean, moves>>

Json   == info # "GetCleanState"
Charge == IF Json THEN "getChargeState" ELSE "GetChargeState"
NoClean == [asked |-> "none"]

-----------------------------------------------------------------------------
(* What the robot says, as the tests of the repository have it             *)
ChargeContent ==
  CASE doing \in {"docked", "station"}  -> {<<"charging">>}
    [] doing = "stuck" -> {<<IF Json THEN "code3" ELSE "unknown">>, <<"notCharging">>}
    [] doing = "returning" /\ ~Json     -> {<<"going">>}
    [] OTHER                            -> {<<"notCharging">>}

InfoContent ==
  CASE info = "getCleanInfo" ->
         [cleaning  |-> {<<"clean", "working">>, <<"washing", "working">>},
          paused    |-> {<<"clean", "pause">>},
          returning |-> {<<"clean", "goCharging">>, <<"goCharging">>},
          docked    |-> {<<"idle">>}, station |-> {<<"idle">>}, resting |-> {<<"idle">>},
          stuck     |-> {<<"alert">>}][doing]
    [] info = "getWorkState" ->
         [cleaning  |-> {<<"cleaning", "idle">>},
          paused    |-> {<<"cleaning", "idle", "paused">>},
          returning |-> {<<r, s>> : r \in {"idle", "cleaning"}, s \in {"goCharging", "goEmptying"}},
          docked    |-> {<<"idle", "idle">>},
          station   |-> {<<r, s>> : r \in {"idle", "cleaning"},
                                    s \in {"emptying", "washing", "drying"}},
          resting   |-> {<<"idle", "idle">>},
          stuck     |-> {<<"unknown", "idle">>}][doing]
    [] OTHER ->
         [cleaning |-> {<<"s">>, <<"r">>}, paused |-> {<<"p">>}, returning |-> {<<"h">>},
          docked |-> {<<"h">>}, station |-> {<<"h">>}, resting |-> {<<"h">>},
          stuck |-> {<<"h">>}][doing]

-----------------------------------------------------------------------------
(* The state a handler notifies; "none": it notifies none.                 *)

(* GetChargeState and OnChargeState.  A robot that is stuck, or busy, is   *)
(* notified as docked: the status that was read is not the one notified.   *)
GetChargeState(content) ==
  IF content[1] \in {"charging", "code3"} THEN "DOCKED" ELSE "none"
(* ChargeState: "Idle" is passed over, what is not known is an error.      *)
XmlChargeState(content) ==
  CASE content[1] = "charging"    -> "DOCKED"
    [] content[1] = "going"       -> "RETURNING"
    [] content[1] = "notCharging" -> "none"
    [] OTHER                      -> "ERROR"

GetCleanInfo(content) ==
  CASE content[1] = "alert"                -> "ERROR"
    [] content[1] \in {"clean", "washing"} ->
         [working |-> "CLEANING", pause |-> "PAUSED", goCharging |-> "RETURNING"][content[2]]
    [] content[1] = "goCharging"           -> "RETURNING"
    [] OTHER                               -> "IDLE"

(* _WORK_STATE_2_EVENTS; paused wins.                                      *)
OnWorkState(content) ==
  LET robot   == content[1]
      station == content[2]
      paused  == Len(content) = 3
  IN  IF robot = "unknown" THEN "none"
      ELSE IF paused THEN "PAUSED"
      ELSE CASE station \in {"goCharging", "goEmptying"}         -> "RETURNING"
             [] station \in {"emptying", "washing", "drying"}    -> "DOCKED"
             [] station = "idle" /\ robot = "cleaning"           -> "CLEANING"
             [] OTHER                                            -> "none"

CleanReport(content) ==
  CASE content[1] \in {"s", "r"} -> "CLEANING"
    [] content[1] = "p"          -> "PAUSED"
    [] OTHER                     -> "IDLE"

(* A fault: the bus shows whatever it hears.                               *)
NotifyHeard(state) == shown' = IF state = "none" THEN shown ELSE state

(* EventBus.notify: a docked robot is not shown as idle.                   *)
Notify(state) ==
  shown' = CASE state = "none"                          -> shown
             [] state = "IDLE" /\ shown = "DOCKED"      -> "DOCKED"
             [] OTHER                                   -> state

-----------------------------------------------------------------------------
Disturb == disturbed' = TRUE /\ before' = "none"

Init ==
  /\ info \in Infos
  /\ doing \in Doings
  /\ shown \in States \cup {"none"}
  /\ asked = {} /\ answers = {} /\ pushes = <<>>
  /\ disturbed = TRUE /\ before = "none"
  /\ clean = NoClean
  /\ moves = 0

(* What the robot says now, as its handler reads it.  All handlers but     *)
(* notify look at nothing else, so it may be read at once.                 *)
ReadCharge(content) == IF Json THEN GetChargeState(content) ELSE XmlChargeState(content)
ReadInfo(content) ==
  CASE info = "getCleanInfo" -> GetCleanInfo(content)
    [] info = "getWorkState" -> OnWorkState(content)
    [] OTHER                 -> CleanReport(content)
Reports == {[of |-> Charge, state |-> ReadCharge(c)] : c \in ChargeContent}
             \cup {[of |-> info, state |-> ReadInfo(c)] : c \in InfoContent}

(* The robot moves and sends one of its messages, which may be lost.       *)
Moves(next) ==
  /\ moves < MaxMoves
  /\ next # doing
  /\ doing' = next
  /\ moves' = moves + 1
  /\ Disturb
  /\ UNCHANGED <<info, shown, asked, answers, pushes, clean>>

Sends(report) ==
  /\ Len(pushes) < MaxQueue
  /\ report \in Reports
  /\ pushes' = Append(pushes, report)
  /\ Disturb
  /\ UNCHANGED <<info, doing, shown, asked, answers, clean, moves>>

(* Device._handle_message                                                  *)
HandleMessage ==
  /\ pushes # <<>>
  /\ Notify(Head(pushes).state)
  /\ pushes' = Tail(pushes)
  /\ UNCHANGED <<info, doing, asked, answers, disturbed, before, clean, moves>>

(* EventBus.request_refresh(StateEvent); while one is in progress its lock *)
(* is held.                                                                *)
RequestRefresh ==
  /\ asked = {} /\ answers = {}
  /\ asked' = {Charge, info}
  /\ disturbed' = (pushes # <<>>)
  /\ before' = IF disturbed' THEN "none" ELSE shown
  /\ UNCHANGED <<info, doing, shown, answers, pushes, clean, moves>>

(* The robot answers; the answer is handled later.                         *)
Answers(report) ==
  /\ report.of \in asked
  /\ report \in Reports
  /\ asked' = asked \ {report.of}
  /\ answers' = answers \cup {report}
  /\ UNCHANGED <<info, doing, shown, pushes, disturbed, before, clean, moves>>

HandleResponse(report) ==
  /\ report \in answers
  /\ Notify(report.state)
  /\ answers' = answers \ {report}
  /\ UNCHANGED <<info, doing, asked, pushes, disturbed, before, clean, moves>>

(* A fault: only a resume that cannot be is turned round.                  *)
CleanActOneWay(action) ==
  IF action = "resume" /\ shown \notin {"none", "PAUSED"} THEN "start" ELSE action

(* Clean._execute of JSON models: the last state decides between start and *)
(* resume before the request is awaited.                                   *)
CleanAct(action) ==
  CASE action = "resume" /\ shown \notin {"none", "PAUSED"} -> "start"
    [] action = "start" /\ shown = "PAUSED"                 -> "resume"
    [] OTHER                                                -> action

Clean(action) ==
  /\ Json
  /\ moves < MaxMoves
  /\ clean = NoClean
  /\ clean' = [asked |-> action, act |-> CleanAct(action), believed |-> shown]
  /\ UNCHANGED <<info, doing, shown, asked, answers, pushes, disturbed, before, moves>>

(* The command reaches the robot, which does what it can: only what is     *)
(* paused is resumed, and what is paused is not started.                   *)
Obeys ==
  /\ clean # NoClean
  /\ doing' = CASE clean.act = "start" /\ doing \notin {"paused", "stuck"}      -> "cleaning"
                [] clean.act = "resume" /\ doing = "paused"                     -> "cleaning"
                [] clean.act = "pause" /\ doing = "cleaning"                    -> "paused"
                [] clean.act = "stop" /\ doing \in {"cleaning", "paused"}       -> "resting"
                [] OTHER                                                        -> doing
  /\ Disturb
  /\ clean' = NoClean
  /\ moves' = moves + 1
  /\ UNCHANGED <<info, shown, asked, answers, pushes>>

Next ==
  \/ \E next \in Doings : Moves(next)
  \/ \E report \in Reports : Sends(report)
  \/ HandleMessage
  \/ RequestRefresh
  \/ \E report \in Reports : Answers(report)
  \/ \E report \in answers : HandleResponse(report)
  \/ \E action \in {"start", "resume", "pause", "stop"} : Clean(action)
  \/ Obeys

Spec == Init /\ [][Next]_vars

-----------------------------------------------------------------------------
(* When a refresh is over, the robot did not move since it began and       *)
(* nothing of before was still on its way, the StateEvent is true, in      *)
(* whatever order the answers came and whatever was shown before.  Four    *)
(* cases cannot be told by these reports: a robot that rests off its dock  *)
(* after DOCKED was shown, or where the table reads the work state, which  *)
(* says nothing of a robot at rest; one that is stuck; and an old one on   *)
(* its way to the dock, whose two answers contradict each other.           *)
Told ==
  /\ doing = "resting" => before # "DOCKED" /\ info # "getWorkState"
  /\ doing # "stuck"
  /\ doing = "returning" => Json
RefreshTellsTheTruth ==
  asked = {} /\ answers = {} /\ ~disturbed /\ Told => shown = Truth[doing]

(* A start or a resume makes the robot clean if the state that was read    *)
(* before the request was awaited is still true when it arrives.           *)
Begins ==
  clean.asked \in {"start", "resume"} /\ clean' = NoClean /\ clean.believed = Truth[doing]
    => doing' \in {"cleaning", "stuck"}
CleaningBegins == [][Begins]_vars
=============================================================================
