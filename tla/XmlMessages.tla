---------------------------- MODULE XmlMessages -----------------------------
(***************************************************************************)
(* The messages XML models send on their own: deebot_client/messages/xml.  *)
(* Every definition is the set of outcomes of the class of that name.      *)
(***************************************************************************)
EXTENDS Capabilities, Handling

BatteryInfo == {Success({"BatteryEvent"}), Analyse}

(* An idle charger says nothing of the robot.                              *)
ChargeState == {Success({"StateEvent"}), Analyse}

(* The speed is reported before the state is looked at.                    *)
CleanReport ==
  {Success(E) : E \in (SUBSET {"FanSpeedEvent", "StateEvent"}) \ {{}}}
    \cup {Analyse, Raising({"FanSpeedEvent"})}

(* The end of a session reports its statistics, every change its status.   *)
CleanReportServer ==
  {Success(E) : E \in (SUBSET {"StatsEvent", "ReportStatsEvent"}) \ {{}}} \cup {Analyse}

CleanSt    == {Success({})}
Pos        == {Success({"PositionsEvent"}), Analyse}
CleanedPos == Pos
MapP       == {Success({"MinorMapEvent"}), Analyse}
Trace      == {Success({"MapTraceEvent"}), Analyse}

MESSAGES ==
  [BatteryInfo |-> BatteryInfo, ChargeState |-> ChargeState, CleanedPos |-> CleanedPos,
   CleanReport |-> CleanReport, CleanReportServer |-> CleanReportServer,
   CleanSt |-> CleanSt, MapP |-> MapP, trace |-> Trace, Pos |-> Pos]
=============================================================================
