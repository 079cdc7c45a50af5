---------------------------- MODULE XmlCommands -----------------------------
(***************************************************************************)
(* The commands of XML models: deebot_client/commands/xml.  A definition   *)
(* has the name of its class and is the set of outcomes of its handler;    *)
(* an answer that is not ok is to be analysed.                             *)
(***************************************************************************)
EXTENDS XmlMessages

CONSTANT Subsets        \* ids of the subsets a map set can have

ExecuteCommand == {Success({}), Failed}
Notifying(e)   == {Success({e}), Analyse}

(* Readings, the first two shared with the messages                        *)
GetChargeState    == ChargeState
GetCleanState     == CleanReport
GetBatteryInfo    == Notifying("BatteryEvent")
GetCleanLogs      == Notifying("CleanLogEvent")
GetCleanSpeed     == Notifying("FanSpeedEvent")
GetCleanSum       == Notifying("TotalStatsEvent")
GetLifeSpan(type) == Notifying(type)
GetPos            == Notifying("PositionsEvent")
GetChargerPos     == Notifying("PositionsEvent")
GetError          == {Success({"StateEvent", "ErrorEvent"}), Success({"ErrorEvent"})}

(* Commands that do something.  None of them is linked to a get command.   *)
Charge        == ExecuteCommand
Clean         == ExecuteCommand
PlaySound     == ExecuteCommand
SetCleanSpeed == ExecuteCommand
ResetLifeSpan == ExecuteCommand

(* The map.  One map, always in use; the ids of a set are pulled one by    *)
(* one, and a subset of a room comes without its name.  The answer to the  *)
(* trace command is only an acknowledgement.                               *)
GetMapSt(d) == {Requesting({"CachedMapInfoEvent"}, {MapSetExecute(d, t) : t \in MapSetType}), Analyse}
GetMapSet(type) ==
  {Requesting({IF type = "ar" /\ S = {} THEN "EmptyRoomSetEvent" ELSE "MapSetEvent"},
              {<<"PullM", s, type>> : s \in S}) : S \in SUBSET Subsets} \cup {Analyse}
PullM   == Notifying("MapSubsetEvent")
GetMapM == Notifying("MajorMapEvent")
PullMP  == Notifying("MinorMapEvent")
GetTrM  == {Success({}), Analyse}

(* COMMANDS, by NAME                                                       *)
COMMANDS(d) ==
  [GetBatteryInfo |-> GetBatteryInfo, GetChargeState |-> GetChargeState, Charge |-> Charge,
   Clean |-> Clean, GetCleanState |-> GetCleanState, XmlGetCleanLogs |-> GetCleanLogs,
   GetCleanSpeed |-> GetCleanSpeed, SetCleanSpeed |-> SetCleanSpeed, GetError |-> GetError,
   ResetLifeSpan |-> ResetLifeSpan, GetMapM |-> GetMapM, GetMapSt |-> GetMapSt(d),
   GetTrM |-> GetTrM, PullM |-> PullM, PullMP |-> PullMP, PlaySound |-> PlaySound,
   GetChargerPos |-> GetChargerPos, GetPos |-> GetPos, GetCleanSum |-> GetCleanSum]

(* The answers to a command of a model                                     *)
Execute(d, c) ==
  XmlCommandWithMessageHandling(
    CASE Head(c) = "GetLifeSpan" -> GetLifeSpan(c[2])
      [] Head(c) = "GetMapSet"   -> GetMapSet(c[2])
      [] OTHER                   -> COMMANDS(d)[Head(c)])

(* XmlSetCommand is no CommandMqttP2P: only the reset can be followed.     *)
COMMANDS_WITH_MQTT_P2P_HANDLING == {"ResetLifeSpan"}
=============================================================================
