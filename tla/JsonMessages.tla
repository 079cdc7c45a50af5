---------------------------- MODULE JsonMessages ----------------------------
(***************************************************************************)
(* The messages JSON models send on their own: deebot_client/messages/json.*)
(* Every definition is the set of outcomes of the class of that name.      *)
(* The event of a room's subset is called RoomSubsetEvent and that of a    *)
(* set of no rooms EmptyRoomSetEvent; on the bus they are a MapSubsetEvent *)
(* and a MapSetEvent.                                                      *)
(***************************************************************************)
EXTENDS Capabilities, Handling

OnAutoEmpty    == {Success({"AutoEmptyEvent"})}
OnBattery      == {Success({"BatteryEvent"})}
OnGpsPos       == {Success({"GpsPositionEvent"})}
OnStats        == {Success({"StatsEvent"})}
ReportStats    == {Success({"ReportStatsEvent"})}
OnStationState == {Success({"StationEvent"}), Analyse}

(* A robot that idles beside an idle station says nothing about itself.    *)
OnWorkState == {Success({"StateEvent", "StationEvent"}), Success({"StationEvent"}),
                Analyse}

(* The maps without the one with id 0, and the one in use if there is one. *)
OnCachedMapInfo ==
  {Success({"CachedMapInfoEvent"}),
   HandlingResult("ANALYSE", {"CachedMapInfoEvent"}, {}), Analyse}

OnMajorMap   == {Success({"MajorMapEvent"})}
OnMapInfoV2  == {Success({"MapInfoEvent"}), Success({}), Analyse}

(* The content is not used: the set is asked for with the table's command. *)
OnMapSetV2(d) ==
  {Requesting({}, IF "map" \in d.fields THEN {MapSetExecute(d, type)} ELSE {}) :
     type \in MapSetType} \cup {Analyse}

MESSAGES(d) ==
  [onAutoEmpty     |-> OnAutoEmpty,     onBattery     |-> OnBattery,
   onGpsPos        |-> OnGpsPos,        onMajorMap    |-> OnMajorMap,
   onCachedMapInfo |-> OnCachedMapInfo, onMapInfo_V2  |-> OnMapInfoV2,
   onMapSet_V2     |-> OnMapSetV2(d),   onStats       |-> OnStats,
   onStationState  |-> OnStationState,  reportStats   |-> ReportStats,
   onWorkState     |-> OnWorkState]

(* The commands whose handler also takes the message of the same name      *)
MapLegacyCommands ==
  {"getCachedMapInfo", "getMapSet", "getMapSubSet", "getMapTrace", "getMinorMap",
   "getMultiMapState"}
LegacyUseGetCommand ==
  MapLegacyCommands \cup
  {"getAdvancedMode", "getBreakPoint", "getCarpertPressure", "getChargeState",
   "getCleanCount", "getCleanInfo", "getCleanPreference", "getEfficiency",
   "getError", "getLifeSpan", "getNetInfo", "getPos", "getSpeed", "getSweepMode",
   "getTotalStats", "getTrueDetect", "getVoiceAssistantState", "getVolume",
   "getWaterInfo", "getWorkMode"}
=============================================================================
