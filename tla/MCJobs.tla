------------------------------- MODULE MCJobs -------------------------------
(***************************************************************************)
(* The jobs of module Refresh that TLC looks at: every refresh any model's *)
(* table can ask for, commands of the user, messages of the robot and its  *)
(* responses to the set commands of somebody else.                         *)
(***************************************************************************)
EXTENDS Protocols

(* What the commands of a queue look at: models that agree on it, and ask  *)
(* for the same, have the same job.                                        *)
Seen(d, queue) ==
  LET has(names) == \E c \in queue : Head(c) \in names
      ofMap      == has({"getCachedMapInfo", "GetMapSt"})
  IN  [protocol |-> d.protocol,
       fields   |-> IF ofMap THEN d.fields \cap {"info", "map"} ELSE {},
       mapSet   |-> IF ofMap THEN d.mapSet ELSE "",
       water    |-> IF has({"getWaterInfo", "setWaterInfo"}) THEN d.water ELSE "",
       life     |-> {},
       unasked  |-> IF has({"getLifeSpan"}) THEN d.unasked ELSE {}]

(* A job: the device, the events somebody waits for, the commands that     *)
(* are queued, the name of a message and the set command that is followed. *)
RefreshJob(d, e) ==
  [device |-> d, about |-> e, queue |-> GetRefreshCommands(d, e), message |-> <<>>, set |-> "",
   expects |-> IF e = "LifeSpanEvent" THEN d.life ELSE {e}]
ExecuteJob(d, c) ==
  [device |-> d, about |-> "", queue |-> {c}, message |-> <<>>, set |-> "",
   expects |-> {}]
MessageJob(d, name, expects) ==
  [device |-> d, about |-> "", queue |-> {}, message |-> name, set |-> "",
   expects |-> expects]
FollowJob(d, s) ==
  [device |-> Seen(d, {<<s.set>>}), about |-> "", queue |-> {}, message |-> <<>>, set |-> s.set,
   expects |-> {e \in {s.event} : FollowsP2P(d, s.set)}]

RefreshJobs ==
  {[RefreshJob(d, e) EXCEPT !.device = Seen(d, GetRefreshCommands(d, e))] :
     d \in Devices, e \in UNION {{r.event : r \in GetEvents(d)} : d \in Devices}}

UserCommands ==
  {<<s.set>> : s \in UNION {SettingsOf(d) : d \in {x \in Devices : x.protocol = "json"}}}
  \cup {<<n>> : n \in {"charge", "clean", "clean_V2", "clearMap", "playSound",
                       "setRelocationState", "stationAction", "resetLifeSpan",
                       "getMinorMap", "CustomCommand"}}
ExecuteJobs ==
  (UNION {{ExecuteJob(Seen(d, {c}), c) : c \in UserCommands} :
            d \in {Model_2i0fns, Model_yna5xi, Model_twunby}})
  \cup {ExecuteJob(Seen(Model_2pv572, {}), <<n>>) :
          n \in {"Charge", "Clean", "PlaySound", "SetCleanSpeed", "ResetLifeSpan", "PullMP"}}

(* Messages of a model with a map, of one without and of an old one        *)
JsonPushes ==
  {<<"Battery", "", {"BatteryEvent"}>>,       <<"AutoEmpty", "", {"AutoEmptyEvent"}>>,
   <<"GpsPos", "", {"GpsPositionEvent"}>>,    <<"Stats", "", {"StatsEvent"}>>,
   <<"WorkState", "", {"StationEvent"}>>,     <<"StationState", "", {"StationEvent"}>>,
   <<"CachedMapInfo", "", {}>>,               <<"MajorMap", "", {"MajorMapEvent"}>>,
   <<"MapInfo", "_V2", {}>>,                  <<"MapSet", "_V2", {}>>,
   <<"MapSet", "", {}>>,                      <<"MapTrace", "", {}>>,
   <<"CleanInfo", "_V2", {"StateEvent"}>>,    <<"ChargeState", "", {}>>,
   <<"Speed", "", {"FanSpeedEvent"}>>,        <<"Error", "", {"ErrorEvent"}>>,
   <<"BreakPoint", "", {"ContinuousCleaningEvent"}>>,
   <<"WaterInfo", "", {"MopAttachedEvent"}>>, <<"LifeSpan", "", {}>>}
XmlPushes ==
  {<<"BatteryInfo", {"BatteryEvent"}>>, <<"ChargeState", {"StateEvent"}>>, <<"CleanedPos", {}>>,
   <<"CleanReport", {}>>, <<"CleanReportServer", {}>>, <<"CleanSt", {}>>, <<"Pos", {}>>,
   <<"MapP", {"MinorMapEvent"}>>, <<"trace", {"MapTraceEvent"}>>}
MessageJobs ==
  (UNION {{MessageJob(d, <<"on", p[1], p[2]>>, IF "map" \in d.fields THEN p[3] ELSE {}) :
             p \in JsonPushes} : d \in {Model_2i0fns, Model_qhe2o2}})
  \cup {MessageJob(Model_2pv572, <<"", p[1], "">>, p[2]) : p \in XmlPushes}

FollowJobs ==
  UNION {{FollowJob(d, s) : s \in SettingsOf(d)} : d \in Devices}

Jobs == {j \in RefreshJobs : j.queue # {}} \cup ExecuteJobs \cup MessageJobs
          \cup FollowJobs
=============================================================================
