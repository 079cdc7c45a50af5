---------------------------- MODULE Capabilities ----------------------------
(***************************************************************************)
(* deebot_client/capabilities.py: from the fields a model's table gives to *)
(* the commands that read an event (get_refresh_commands), the settings    *)
(* with the command that changes them, and the commands that only do       *)
(* something.                                                              *)
(*                                                                         *)
(* A command is a tuple of its NAME and the arguments that matter, an      *)
(* event type is a string.  A LifeSpanEvent is named by its consumable:    *)
(* the bus has one type for all of them, a reader wants each.              *)
(***************************************************************************)
EXTENDS Hardware, FiniteSets, Sequences

(* CapabilityEvent, and CapabilitySet with its set command                 *)
CapabilityEvent(e, get)    == [event |-> e, get |-> get]
CapabilitySet(e, get, set) == [event |-> e, get |-> {<<get>>}, set |-> set]

(* MapSetType: rooms, virtual walls, no-mop zones                          *)
MapSetType == {"ar", "vw", "mw"}

(* CapabilityClean: the preferences of cleaning                            *)
CleanSettings ==
  [continuous |-> CapabilitySet("ContinuousCleaningEvent", "getBreakPoint", "setBreakPoint"),
   count      |-> CapabilitySet("CleanCountEvent", "getCleanCount", "setCleanCount"),
   preference |-> CapabilitySet("CleanPreferenceEvent", "getCleanPreference", "setCleanPreference"),
   work_mode  |-> CapabilitySet("WorkModeEvent", "getWorkMode", "setWorkMode")]

(* CapabilitySettings                                                      *)
Settings ==
  [advanced_mode   |-> CapabilitySet("AdvancedModeEvent", "getAdvancedMode", "setAdvancedMode"),
   border_spin     |-> CapabilitySet("BorderSpinEvent", "getBorderSpin", "setBorderSpin"),
   border_switch   |-> CapabilitySet("BorderSwitchEvent", "getBorderSwitch", "setBorderSwitch"),
   carpet_auto_fan_boost
                   |-> CapabilitySet("CarpetAutoFanBoostEvent", "getCarpertPressure", "setCarpertPressure"),
   child_lock      |-> CapabilitySet("ChildLockEvent", "getChildLock", "setChildLock"),
   cross_map_border_warning
                   |-> CapabilitySet("CrossMapBorderWarningEvent", "getCrossMapBorderWarning",
                                     "setCrossMapBorderWarning"),
   cut_direction   |-> CapabilitySet("CutDirectionEvent", "getCutDirection", "setCutDirection"),
   efficiency_mode |-> CapabilitySet("EfficiencyModeEvent", "getEfficiency", "setEfficiency"),
   mop_auto_wash_frequency
                   |-> CapabilitySet("MopAutoWashFrequencyEvent", "getWashInfo", "setWashInfo"),
   moveup_warning  |-> CapabilitySet("MoveUpWarningEvent", "getMoveupWarning", "setMoveupWarning"),
   ota             |-> CapabilitySet("OtaEvent", "getOta", "setOta"),
   safe_protect    |-> CapabilitySet("SafeProtectEvent", "getSafeProtect", "setSafeProtect"),
   sweep_mode      |-> CapabilitySet("SweepModeEvent", "getSweepMode", "setSweepMode"),
   true_detect     |-> CapabilitySet("TrueDetectEvent", "getTrueDetect", "setTrueDetect"),
   voice_assistant |-> CapabilitySet("VoiceAssistantStateEvent", "getVoiceAssistantState",
                                     "setVoiceAssistantState"),
   volume          |-> CapabilitySet("VolumeEvent", "getVolume", "setVolume")]

(* What can be set on a model: the fields above and those of the rest of   *)
(* the table that take a value.                                            *)
SettingsOf(d) ==
  LET given(table) == {table[f] : f \in d.fields \cap DOMAIN table}
      json == d.protocol = "json"
  IN  given(CleanSettings) \cup given(Settings)
      \cup (IF "multi_state" \in d.fields
              THEN {CapabilitySet("MultimapStateEvent", "getMultiMapState", "setMultiMapState")} ELSE {})
      \cup (IF json /\ "outline" \in d.fields
              THEN {CapabilitySet("MajorMapEvent", "getMajorMap", "setMajorMap")} ELSE {})
      \cup (IF "fan_speed" \in d.fields
              THEN {CapabilitySet("FanSpeedEvent", IF json THEN "getSpeed" ELSE "GetCleanSpeed",
                                  IF json THEN "setSpeed" ELSE "SetCleanSpeed")} ELSE {})
      \cup (IF "station" \in d.fields
              THEN {CapabilitySet("AutoEmptyEvent", "getAutoEmpty", "setAutoEmpty")} ELSE {})
      \cup (IF "water" \in d.fields
              THEN {CapabilitySet(IF d.water = "amount" THEN "WaterAmountEvent"
                                  ELSE "WaterCustomAmountEvent",
                                  "getWaterInfo", "setWaterInfo")} ELSE {})

(* CapabilityMap.set and CapabilityMap.info, the commands that handlers    *)
(* execute through the table                                               *)
MapSetExecute(d, type) == <<d.mapSet, type>>
MapInfoExecute(d)      == IF "info" \in d.fields THEN {<<"getMapInfo_V2">>} ELSE {}

-----------------------------------------------------------------------------
(* The fields every model gives.  Availability is read with the battery    *)
(* command on JSON models and has no command on the others.                *)
RequiredEvents(d) ==
  IF d.protocol = "json"
  THEN {CapabilityEvent("AvailabilityEvent", {<<"getBattery">>}),
        CapabilityEvent("BatteryEvent", {<<"getBattery">>}),
        CapabilityEvent("ErrorEvent", {<<"getError">>}),
        CapabilityEvent("NetworkInfoEvent", {<<"getNetInfo">>}),
        CapabilityEvent("StatsEvent", {<<"getStats">>}),
        CapabilityEvent("TotalStatsEvent", {<<"getTotalStats">>}),
        CapabilityEvent("StateEvent", {<<"getChargeState">>, <<d.info>>}),
        CapabilityEvent("LifeSpanEvent",
                        {<<"getLifeSpan", (d.life \ d.unasked) \cup d.extra>>})}
  ELSE {CapabilityEvent("BatteryEvent", {<<"GetBatteryInfo">>}),
        CapabilityEvent("ErrorEvent", {<<"GetError">>}),
        CapabilityEvent("NetworkInfoEvent", {<<"GetNetInfo">>}),
        CapabilityEvent("TotalStatsEvent", {<<"GetCleanSum">>}),
        CapabilityEvent("StateEvent", {<<"GetChargeState">>, <<d.info>>}),
        CapabilityEvent("LifeSpanEvent", {<<"GetLifeSpan", t>> : t \in d.life})}

(* CapabilityMap                                                           *)
MapEvents(d) ==
  IF d.protocol = "json"
  THEN {CapabilityEvent("CachedMapInfoEvent", {<<"getCachedMapInfo">>}),
        CapabilityEvent("RoomsEvent", {<<"getCachedMapInfo">>}),
        CapabilityEvent("PositionsEvent", {<<"getPos">>}),
        CapabilityEvent("MapTraceEvent", {<<"getMapTrace", 0>>})}
  ELSE {CapabilityEvent("CachedMapInfoEvent", {<<"GetMapSt">>}),
        CapabilityEvent("RoomsEvent", {<<"GetMapSt">>}),
        CapabilityEvent("PositionsEvent", {<<"GetPos">>, <<"GetChargerPos">>}),
        CapabilityEvent("MapTraceEvent", {<<"GetTrM">>}),
        CapabilityEvent("MajorMapEvent", {<<"GetMapM">>})}

(* CapabilityStation and CapabilityWater: what is only read                *)
StationEvents(d) == {CapabilityEvent("StationEvent", {<<d.station>>})}
WaterEvents(d)   == {CapabilityEvent("MopAttachedEvent", {<<"getWaterInfo">>})}

(* _get_events, walking the dataclass: an event type and what reads it     *)
GetEvents(d) ==
  RequiredEvents(d)
    \cup {CapabilityEvent(s.event, s.get) : s \in SettingsOf(d)}
    \cup (IF "ota_read" \in d.fields THEN {CapabilityEvent("OtaEvent", {<<"getOta">>})} ELSE {})
    \cup (IF "map" \in d.fields THEN MapEvents(d) ELSE {})
    \cup (IF "station" \in d.fields THEN StationEvents(d) ELSE {})
    \cup (IF "water" \in d.fields THEN WaterEvents(d) ELSE {})
    \cup (IF "log" \in d.fields
            THEN {CapabilityEvent("CleanLogEvent",
                    {<<IF d.protocol = "json" THEN "GetCleanLogs" ELSE "XmlGetCleanLogs">>})}
            ELSE {})

(* get_refresh_commands                                                    *)
GetRefreshCommands(d, e) ==
  UNION {row.get : row \in {r \in GetEvents(d) : r.event = e}}
=============================================================================
