---------------------------- MODULE JsonCommands ----------------------------
(***************************************************************************)
(* The commands of JSON models: deebot_client/commands/json.  A definition *)
(* has the name of its class: for a command that reads, the outcomes of    *)
(* its handler; for one that sets, the outcomes of the confirmation and    *)
(* what its confirmed arguments make the linked get command notify.        *)
(***************************************************************************)
EXTENDS JsonMessages, Naturals

CONSTANTS Subsets,        \* ids of the subsets a map set can have
          TraceLength     \* the longest trace

(* ExecuteCommand: code 0 or a refusal                                     *)
ExecuteCommand == {Success({}), Failed}

(* GetEnableCommand and SetCommand                                         *)
GetEnableCommand(event) == {Success({event})}
SetCommand(get)         == [answers |-> ExecuteCommand, confirmed |-> get]

-----------------------------------------------------------------------------
(* Settings                                                                *)
GetAdvancedMode          == GetEnableCommand("AdvancedModeEvent")
GetBorderSpin            == GetEnableCommand("BorderSpinEvent")
GetBorderSwitch          == GetEnableCommand("BorderSwitchEvent")
GetCarpetAutoFanBoost    == GetEnableCommand("CarpetAutoFanBoostEvent")
GetChildLock             == GetEnableCommand("ChildLockEvent")
GetCleanPreference       == GetEnableCommand("CleanPreferenceEvent")
GetContinuousCleaning    == GetEnableCommand("ContinuousCleaningEvent")
GetCrossMapBorderWarning == GetEnableCommand("CrossMapBorderWarningEvent")
GetMoveUpWarning         == GetEnableCommand("MoveUpWarningEvent")
GetMultimapState         == GetEnableCommand("MultimapStateEvent")
GetSafeProtect           == GetEnableCommand("SafeProtectEvent")
GetSweepMode             == GetEnableCommand("SweepModeEvent")
GetTrueDetect            == GetEnableCommand("TrueDetectEvent")
GetVoiceAssistantState   == GetEnableCommand("VoiceAssistantStateEvent")
GetCleanCount            == {Success({"CleanCountEvent"})}
GetCutDirection          == {Success({"CutDirectionEvent"})}
GetEfficiencyMode        == {Success({"EfficiencyModeEvent"})}
GetFanSpeed              == {Success({"FanSpeedEvent"})}
GetMopAutoWashFrequency  == {Success({"MopAutoWashFrequencyEvent"})}
GetOta                   == {Success({"OtaEvent"})}
GetVolume                == {Success({"VolumeEvent"})}
GetWorkMode              == {Success({"WorkModeEvent"})}
GetAutoEmpty             == OnAutoEmpty

(* The fields of the answer one by one, each only if it is there; a value  *)
(* that is not known raises after the fields before it have been notified. *)
GetWaterInfo(amount) ==
  LET fields == {amount, "MopAttachedEvent"}
  IN  {Success(fields \cup more) : more \in SUBSET {"WaterSweepTypeEvent"}}
        \cup {Lacking(F \cup more) : F \in (SUBSET fields) \ {fields},
                                     more \in SUBSET {"WaterSweepTypeEvent"}}
        \cup {Raising(F) : F \in SUBSET fields}

SetAdvancedMode          == SetCommand(GetAdvancedMode)
SetBorderSpin            == SetCommand(GetBorderSpin)
SetBorderSwitch          == SetCommand(GetBorderSwitch)
SetCarpetAutoFanBoost    == SetCommand(GetCarpetAutoFanBoost)
SetChildLock             == SetCommand(GetChildLock)
SetCleanPreference       == SetCommand(GetCleanPreference)
SetContinuousCleaning    == SetCommand(GetContinuousCleaning)
SetCrossMapBorderWarning == SetCommand(GetCrossMapBorderWarning)
SetMoveUpWarning         == SetCommand(GetMoveUpWarning)
SetMultimapState         == SetCommand(GetMultimapState)
SetSafeProtect           == SetCommand(GetSafeProtect)
SetSweepMode             == SetCommand(GetSweepMode)
SetTrueDetect            == SetCommand(GetTrueDetect)
SetVoiceAssistantState   == SetCommand(GetVoiceAssistantState)
SetCleanCount            == SetCommand(GetCleanCount)
SetCutDirection          == SetCommand(GetCutDirection)
SetEfficiencyMode        == SetCommand(GetEfficiencyMode)
SetFanSpeed              == SetCommand(GetFanSpeed)
SetMopAutoWashFrequency  == SetCommand(GetMopAutoWashFrequency)
SetVolume                == SetCommand(GetVolume)
SetWorkMode              == SetCommand(GetWorkMode)
(* handle_set_args of its own: the confirmed switch, on its own            *)
SetOta                   == SetCommand({Success({"OtaEvent"})})
(* The arguments hold the amount, perhaps the way of sweeping, and nothing *)
(* of the mop.                                                             *)
SetWaterInfo(amount) ==
  SetCommand({Success({amount}), Success({amount, "WaterSweepTypeEvent"})})
(* Not linked to a get command                                             *)
SetAutoEmpty             == [answers |-> ExecuteCommand, confirmed |-> {}]

-----------------------------------------------------------------------------
(* Readings                                                                *)
GetBattery       == OnBattery
GetNetInfo       == {Success({"NetworkInfoEvent"})}
GetNetInfoLegacy == {Success({"NetworkInfoEvent"})}
GetStats         == {Success({"StatsEvent"})}
GetTotalStats    == {Success({"TotalStatsEvent"})}
GetPos           == {Success({"PositionsEvent"}), Analyse}
GetStationState  == OnStationState
GetWorkState     == OnWorkState
GetCleanInfo     == {Success({"StateEvent"}), Analyse}
GetCleanInfoV2   == GetCleanInfo
GetError         == {Success({"StateEvent", "ErrorEvent"}), Success({"ErrorEvent"}), Analyse}

(* A robot that is not charging says nothing; a refusal is read only with  *)
(* one of the known codes.                                                 *)
GetChargeState == {Success({"StateEvent"}), Success({}), Analyse}

(* One component after the other, those that the answer has: one without a *)
(* positive total ends it.                                                 *)
GetLifeSpan(types) ==
  {Success(types)} \cup {Lacking(T) : T \in (SUBSET types) \ {types}}
                  \cup {Raising(T) : T \in SUBSET types}

(* Straight from the logs of the account, whatever the robot does          *)
GetCleanLogs == {Success({"CleanLogEvent"}), Analyse}

-----------------------------------------------------------------------------
(* The map.  With a map in use every kind of set is asked for with the     *)
(* table's command, and the outline where the table offers it.             *)
GetCachedMapInfo(d) ==
  {IF o.state = "SUCCESS"
     THEN [o EXCEPT !.requests = {MapSetExecute(d, t) : t \in MapSetType} \cup MapInfoExecute(d)]
     ELSE o : o \in OnCachedMapInfo}

GetMapInfoV2 == OnMapInfoV2
(* Notified first as a push, then as requested                             *)
GetMajorMap  == OnMajorMap
(* handle_set_args: the confirmed map has no pieces yet.                   *)
SetMajorMap  == SetCommand(OnMajorMap)
GetMinorMap  == {Success({"MinorMapEvent"}), Analyse}

(* The set and, requested one by one, its subsets                          *)
MapSetEvent(type, S) == IF type = "ar" /\ S = {} THEN "EmptyRoomSetEvent" ELSE "MapSetEvent"
SubsetCommands(type, S) ==
  Requesting({MapSetEvent(type, S)}, {<<"getMapSubSet", type, s>> : s \in S})

(* A set without subsets is to be analysed; rooms need the id of the set.  *)
GetMapSet(type) ==
  {SubsetCommands(type, S) : S \in (SUBSET Subsets) \ {{}}} \cup {Analyse}
    \cup {Raising({"MapSetEvent"}) : t \in {type} \cap {"ar"}}

(* Rooms come with their names or are requested, the rest comes complete.  *)
GetMapSetV2(type) ==
  {Analyse} \cup
  IF type = "ar"
  THEN {SubsetCommands(type, S) : S \in SUBSET Subsets} \cup {Success({"RoomsEvent"})}
  ELSE {Success({"MapSetEvent"}), Success({"MapSetEvent", "MapSubsetEvent"}),
        Raising({"MapSubsetEvent"})}

(* A room without a name is to be analysed.                                *)
GetMapSubSet(type) ==
  {Success({IF type = "ar" THEN "RoomSubsetEvent" ELSE "MapSubsetEvent"}), Analyse}

(* Page after page up to the total of the answer                           *)
TracePointCount == 200
GetMapTrace(start) ==
  {Analyse} \cup
  {Requesting({"MapTraceEvent"},
              IF start + TracePointCount < total
                THEN {<<"getMapTrace", start + TracePointCount>>} ELSE {}) :
     total \in {TracePointCount, TraceLength}}

-----------------------------------------------------------------------------
(* Commands that do something                                              *)
Charge             == {Success({"StateEvent"}), Failed}
Clean              == ExecuteCommand
CleanV2            == Clean
ClearMap           == ExecuteCommand
PlaySound          == ExecuteCommand
SetRelocationState == ExecuteCommand
StationAction      == ExecuteCommand
ResetLifeSpan      == ExecuteCommand
CustomCommand      == {Success({"CustomCommandEvent"}), Failed}

-----------------------------------------------------------------------------
(* By NAME: what reads without an argument that matters                    *)
GetCommands ==
  [getAdvancedMode  |-> GetAdvancedMode,   getBorderSpin    |-> GetBorderSpin,
   getBorderSwitch  |-> GetBorderSwitch,   getCarpertPressure |-> GetCarpetAutoFanBoost,
   getChildLock     |-> GetChildLock,      getCleanPreference |-> GetCleanPreference,
   getBreakPoint    |-> GetContinuousCleaning,
   getCrossMapBorderWarning |-> GetCrossMapBorderWarning,
   getMoveupWarning |-> GetMoveUpWarning,  getMultiMapState |-> GetMultimapState,
   getSafeProtect   |-> GetSafeProtect,    getSweepMode     |-> GetSweepMode,
   getTrueDetect    |-> GetTrueDetect,     getCleanCount    |-> GetCleanCount,
   getVoiceAssistantState |-> GetVoiceAssistantState,
   getCutDirection  |-> GetCutDirection,   getEfficiency    |-> GetEfficiencyMode,
   getSpeed         |-> GetFanSpeed,       getWashInfo      |-> GetMopAutoWashFrequency,
   getOta           |-> GetOta,            getVolume        |-> GetVolume,
   getWorkMode      |-> GetWorkMode,       getAutoEmpty     |-> GetAutoEmpty,
   getBattery       |-> GetBattery,        getNetInfo       |-> GetNetInfo,
   getStats         |-> GetStats,          getTotalStats    |-> GetTotalStats,
   getPos           |-> GetPos,            getStationState  |-> GetStationState,
   getWorkState     |-> GetWorkState,      getCleanInfo     |-> GetCleanInfo,
   getCleanInfo_V2  |-> GetCleanInfoV2,    getError         |-> GetError,
   getChargeState   |-> GetChargeState,    getMapInfo_V2    |-> GetMapInfoV2,
   getMajorMap      |-> GetMajorMap,       getMinorMap      |-> GetMinorMap]

(* What sets, with the get command it is linked to                         *)
Amount(d) == IF d.water = "amount" THEN "WaterAmountEvent" ELSE "WaterCustomAmountEvent"
SetCommands(d) ==
  [setAdvancedMode  |-> SetAdvancedMode,   setBorderSpin    |-> SetBorderSpin,
   setBorderSwitch  |-> SetBorderSwitch,   setCarpertPressure |-> SetCarpetAutoFanBoost,
   setChildLock     |-> SetChildLock,      setCleanPreference |-> SetCleanPreference,
   setBreakPoint    |-> SetContinuousCleaning,
   setCrossMapBorderWarning |-> SetCrossMapBorderWarning,
   setMoveupWarning |-> SetMoveUpWarning,  setMultiMapState |-> SetMultimapState,
   setSafeProtect   |-> SetSafeProtect,    setSweepMode     |-> SetSweepMode,
   setTrueDetect    |-> SetTrueDetect,     setCleanCount    |-> SetCleanCount,
   setVoiceAssistantState |-> SetVoiceAssistantState,
   setCutDirection  |-> SetCutDirection,   setEfficiency    |-> SetEfficiencyMode,
   setSpeed         |-> SetFanSpeed,       setWashInfo      |-> SetMopAutoWashFrequency,
   setOta           |-> SetOta,            setVolume        |-> SetVolume,
   setWorkMode      |-> SetWorkMode,       setAutoEmpty     |-> SetAutoEmpty,
   setWaterInfo     |-> SetWaterInfo(Amount(d)),
   setMajorMap      |-> SetMajorMap]

(* What only does something                                                *)
ExecuteCommands ==
  [charge |-> Charge, clean |-> Clean, clean_V2 |-> CleanV2, clearMap |-> ClearMap,
   playSound |-> PlaySound, setRelocationState |-> SetRelocationState,
   stationAction |-> StationAction, resetLifeSpan |-> ResetLifeSpan]

(* The answers to a command of a model.  The logs and custom commands are  *)
(* no messages: nothing of an answer that is not ok is looked at.          *)
Execute(d, c) ==
  LET name == Head(c)
      answers(handler) == JsonCommandWithMessageHandling(handler)
  IN  CASE name \in DOMAIN GetCommands     -> answers(GetCommands[name])
        [] name \in DOMAIN SetCommands(d)  -> answers(SetCommands(d)[name].answers)
        [] name \in DOMAIN ExecuteCommands -> answers(ExecuteCommands[name])
        [] name = "getWaterInfo"           -> answers(GetWaterInfo(Amount(d)))
        [] name = "getCachedMapInfo"       -> answers(GetCachedMapInfo(d))
        [] name = "getMapSet"              -> answers(GetMapSet(c[2]))
        [] name = "getMapSet_V2"           -> answers(GetMapSetV2(c[2]))
        [] name = "getMapSubSet"           -> answers(GetMapSubSet(c[2]))
        [] name = "getMapTrace"            -> answers(GetMapTrace(c[2]))
        [] name = "getLifeSpan"            -> answers(GetLifeSpan(c[2]))
        [] name = "GetCleanLogs"           -> ExecuteApiRequest(GetCleanLogs)
        [] name = "CustomCommand"          -> ExecuteApiRequest(CustomCommand)

(* _COMMANDS, by which commands of others are recognised: neither of the   *)
(* two for the cut direction is listed.  Those that can be followed over   *)
(* MQTT are the set commands linked to a get command and the reset.        *)
COMMANDS_WITH_MQTT_P2P_HANDLING(d) ==
  (DOMAIN SetCommands(d) \ {"setAutoEmpty", "setCutDirection"}) \cup {"resetLifeSpan"}

(* get_legacy_message: the get command of the same base, if it is in the   *)
(* list and, for the map, the model has one.  Only handle is called: what  *)
(* the command would request after it is not.                              *)
GetLegacyMessage(d, base) ==
  LET get     == "get" \o base
      handler == CASE get = "getMapSet"        -> UNION {GetMapSet(t) : t \in MapSetType}
                   [] get = "getMapSubSet"     -> UNION {GetMapSubSet(t) : t \in MapSetType}
                   [] get = "getMapTrace"      -> GetMapTrace(0)
                   [] get = "getCachedMapInfo" -> GetCachedMapInfo(d)
                   [] get = "getWaterInfo"     -> GetWaterInfo(Amount(d))
                   [] get = "getLifeSpan"      -> GetLifeSpan(d.life)
                   [] OTHER                    -> GetCommands[get]
  IN  IF \/ get \notin LegacyUseGetCommand
         \/ get \in MapLegacyCommands /\ "map" \notin d.fields
        THEN {}
        ELSE {[o EXCEPT !.requests = {}] : o \in handler}
=============================================================================
