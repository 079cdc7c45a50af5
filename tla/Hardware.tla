------------------------------ MODULE Hardware ------------------------------
(***************************************************************************)
(* The capability tables of the supported models (deebot_client/hardware): *)
(* get_device_info of every file, as far as it decides which events can be *)
(* read and with which commands, and which consumables are offered.  Names *)
(* of commands are their NAMEs.  The values a setting can take, the        *)
(* cleaning actions and the device type are left out.                      *)
(*                                                                         *)
(*   protocol  the data type of the commands                               *)
(*   fields    the optional fields of Capabilities that are given; "map",  *)
(*             "station" and "water" stand for the fields that always come *)
(*             together, "outline" for map.major and map.minor, "ota_read" *)
(*             for settings.ota without a set command                      *)
(*   info      the second command that reads the state                     *)
(*   station   the command that reads the state of the station             *)
(*   mapSet    map.set                                                     *)
(*   water     what water.amount is about                                  *)
(*   life      the types of life_span                                      *)
(*   unasked   those of them get does not ask for                          *)
(*   extra     what get asks for besides                                   *)
(***************************************************************************)

MapFields == {"carpet_auto_fan_boost", "continuous", "count", "map",
              "multi_state", "outline", "relocation", "true_detect"}
Comfort   == {"advanced_mode", "child_lock", "efficiency_mode", "ota", "preference",
              "station", "sweep_mode", "voice_assistant", "work_mode"}
Washing   == {"child_lock", "info", "mop_auto_wash_frequency", "ota", "station",
              "work_mode"}
Plain     == {"advanced_mode", "preference"}
Saving    == Plain \cup {"efficiency_mode", "ota", "voice_assistant"}

Wear    == {"BRUSH", "FILTER", "SIDE_BRUSH"}
Care    == Wear \cup {"UNIT_CARE"}
Mopping == Care \cup {"ROUND_MOP"}

(* The tables the others are variations of.                                *)
Deebot ==
  [protocol |-> "json",
   fields   |-> MapFields \cup {"fan_speed", "log", "volume", "water"},
   info     |-> "getCleanInfo",
   station  |-> "getStationState",
   mapSet   |-> "getMapSet",
   water    |-> "amount",
   life     |-> Wear,
   unasked  |-> {},
   extra    |-> {}]
DeebotV2 == [Deebot EXCEPT !.info = "getCleanInfo_V2", !.mapSet = "getMapSet_V2",
                           !.life = Mopping]
Goat ==
  [Deebot EXCEPT !.info = "getCleanInfo_V2", !.life = {"BLADE", "LENS_BRUSH"},
                 !.fields = {"advanced_mode", "border_switch", "child_lock",
                             "cross_map_border_warning", "cut_direction",
                             "moveup_warning", "safe_protect", "true_detect",
                             "volume"}]
OldDeebot ==
  [Deebot EXCEPT !.protocol = "xml", !.info = "GetCleanState",
                 !.mapSet = "GetMapSet", !.fields = {"fan_speed", "log"},
                 !.life = {"BRUSH", "DUST_CASE_HEAP", "SIDE_BRUSH"}]

-----------------------------------------------------------------------------
Model_2i0fns ==
  [Goat EXCEPT !.life = {"BLADE", "LENS_BRUSH", "TRIMMER_BRUSH", "WEED_ROPE"}]

Model_2o4lnm ==
  [Deebot EXCEPT !.fields = @ \cup Plain \cup {"sweep_mode",
                     "voice_assistant"},
                 !.life = Mopping]

Model_2pv572 ==
  [OldDeebot EXCEPT !.fields = @ \cup {"map", "outline"}]

Model_300lc5 == Goat

Model_4bdkrs ==
  [Deebot EXCEPT !.fields = @ \cup Comfort,
                 !.life = Care \cup {"HAND_FILTER"}]

Model_51rcxt == Goat

Model_55uoqe ==
  [DeebotV2 EXCEPT !.fields = (@ \cup Washing \cup {"border_spin",
                       "efficiency_mode", "sweep_mode"}) \ {"relocation"},
                   !.info = "getCleanInfo",
                   !.life = Mopping \cup {"DUST_BAG"}]

Model_5xu9h3 == Goat

Model_7bryc5 ==
  [Deebot EXCEPT !.fields = @ \cup Plain,
                 !.life = Care]

Model_7j1tu6 ==
  [Deebot EXCEPT !.fields = @ \ MapFields,
                 !.life = {"BRUSH", "SIDE_BRUSH"},
                 !.extra = {"FILTER"}]

Model_8kwdb4 == Model_7bryc5

Model_9eamof ==
  [DeebotV2 EXCEPT !.fields = @ \cup Comfort \cup {"info"},
                   !.water = "customAmount",
                   !.life = Care \cup {"CLEANING_SOLUTION", "HAND_FILTER",
                       "SEWAGE_BOX"},
                   !.unasked = {"UNIT_CARE"}]

Model_9jc32i ==
  [DeebotV2 EXCEPT !.fields = @ \cup {"child_lock", "info", "ota",
                       "preference", "station", "sweep_mode", "voice_assistant",
                       "work_mode"},
                   !.water = "customAmount",
                   !.life = Mopping \cup {"CLEANING_SOLUTION", "DUST_BAG",
                       "SEWAGE_BOX", "WATER_SINK"}]

Model_9s1s80 ==
  [DeebotV2 EXCEPT !.fields = (@ \cup Saving) \ {"log"},
                   !.info = "getCleanInfo"]

Model_a2ywac ==
  [DeebotV2 EXCEPT !.fields = @ \cup Washing \cup {"voice_assistant"},
                   !.water = "customAmount",
                   !.life = Mopping \cup {"CLEANING_SOLUTION", "DUST_BAG"}]

Model_b2jqs4 == Model_7bryc5

Model_buom7k ==
  [DeebotV2 EXCEPT !.fields = (@ \cup {"child_lock", "station"}) \
                       {"true_detect"}]

Model_c8rj4y ==
  [DeebotV2 EXCEPT !.fields = @ \cup Comfort \cup {"info"},
                   !.info = "getWorkState",
                   !.station = "getWorkState",
                   !.water = "customAmount",
                   !.life = Mopping \cup {"CLEANING_SOLUTION", "HAND_FILTER"},
                   !.unasked = {"UNIT_CARE"}]

Model_co3fyu ==
  [DeebotV2 EXCEPT !.fields = (@ \cup Comfort) \ {"water"},
                   !.life = Care \cup {"HAND_FILTER"}]

Model_e6ofmn ==
  [Deebot EXCEPT !.fields = @ \cup Plain \cup {"sweep_mode", "voice_assistant",
                     "work_mode"},
                 !.info = "getCleanInfo_V2",
                 !.life = Mopping]

Model_ee23uv == Model_4bdkrs

Model_fd60kt == Model_a2ywac

Model_ilt3k8 ==
  [DeebotV2 EXCEPT !.fields = (@ \cup Washing \cup {"advanced_mode",
                       "efficiency_mode", "sweep_mode", "voice_assistant"}) \
                       {"multi_state", "relocation", "true_detect"},
                   !.info = "getWorkState",
                   !.station = "getWorkState",
                   !.water = "customAmount",
                   !.life = Mopping \cup {"CLEANING_SOLUTION", "DUST_BAG",
                       "HAND_FILTER", "SEWAGE_BOX", "STRAINER", "WATER_SINK"}]

Model_kd0una ==
  [Deebot EXCEPT !.fields = (@ \cup {"child_lock", "mop_auto_wash_frequency",
                     "preference", "station"}) \ {"log"}]

Model_kr0277 ==
  [DeebotV2 EXCEPT !.fields = (@ \cup {"child_lock", "info"}) \
                       {"true_detect"}]

Model_m1wkuw ==
  [Deebot EXCEPT !.fields = (@ \cup Saving) \ {"log", "true_detect"},
                 !.life = Care]

Model_mxse7w ==
  [DeebotV2 EXCEPT !.fields = @ \cup Comfort \cup {"info"},
                   !.info = "getWorkState",
                   !.station = "getWorkState",
                   !.life = Care \cup {"CLEANING_SOLUTION", "HAND_FILTER",
                       "SEWAGE_BOX"},
                   !.unasked = {"UNIT_CARE"}]

Model_n0vyif ==
  [DeebotV2 EXCEPT !.fields = @ \cup Comfort \cup {"info"},
                   !.info = "getWorkState",
                   !.station = "getWorkState",
                   !.water = "customAmount",
                   !.life = Care \cup {"CLEANING_SOLUTION", "HAND_FILTER",
                       "SEWAGE_BOX"},
                   !.unasked = {"UNIT_CARE"}]

Model_n9f2g8 ==
  [DeebotV2 EXCEPT !.fields = @ \cup {"child_lock", "info", "station",
                       "work_mode"}]

Model_p1jij8 ==
  [Deebot EXCEPT !.fields = @ \cup Plain \cup {"mop_auto_wash_frequency",
                     "work_mode"}]

Model_p7l7iu == Model_e6ofmn

Model_p95mgv ==
  [DeebotV2 EXCEPT !.fields = (@ \cup Saving \cup {"station"}) \ {"log"},
                   !.info = "getCleanInfo",
                   !.life = Care]

Model_qhe2o2 ==
  [DeebotV2 EXCEPT !.fields = (@ \cup {"child_lock", "info", "station"}) \
                       {"true_detect"}]

Model_r8ead0 == OldDeebot

Model_rzwv5p == Model_p1jij8

Model_ts2ofl ==
  [Deebot EXCEPT !.fields = @ \ MapFields]

Model_twunby ==
  [DeebotV2 EXCEPT !.fields = (@ \cup Washing \cup {"sweep_mode",
                       "voice_assistant"}) \ {"carpet_auto_fan_boost",
                       "multi_state", "outline"},
                   !.info = "getWorkState",
                   !.station = "getWorkState",
                   !.water = "customAmount",
                   !.life = Mopping \cup {"CLEANING_SOLUTION", "DUST_BAG",
                       "DUST_BUCKET", "DUST_CONTAINER_FILTER",
                       "HEAVY_DUTY_CLEANING_SOLUTION", "MOP_WASHING_TRAY",
                       "STRAINER"}]

Model_ue8kcc == Model_4bdkrs

Model_umwv6z ==
  [Deebot EXCEPT !.fields = (@ \cup Saving) \ {"log"},
                 !.life = Care]

Model_viq3mw ==
  [DeebotV2 EXCEPT !.fields = @ \cup Washing \cup {"advanced_mode",
                       "efficiency_mode", "sweep_mode"},
                   !.water = "customAmount",
                   !.life = Mopping \cup {"CLEANING_SOLUTION", "DUST_BAG"}]

Model_x5d34r == Model_7bryc5

Model_xco2fc ==
  [Deebot EXCEPT !.fields = @ \cup Plain \cup {"work_mode"},
                 !.water = "customAmount"]

Model_xmp9ds == Goat

Model_yna5xi ==
  [Deebot EXCEPT !.fields = (@ \cup {"advanced_mode", "clear", "ota_read"}) \
                     {"count", "true_detect"}]

Model_zg6qbz ==
  [Deebot EXCEPT !.fields = @ \cup Plain,
                 !.info = "getWorkState",
                 !.life = Care]

-----------------------------------------------------------------------------
(* Every model.  Models whose tables say the same are one member.          *)
Devices ==
  {Model_2i0fns, Model_2o4lnm, Model_2pv572, Model_300lc5,
   Model_4bdkrs, Model_51rcxt, Model_55uoqe, Model_5xu9h3,
   Model_7bryc5, Model_7j1tu6, Model_8kwdb4, Model_9eamof,
   Model_9jc32i, Model_9s1s80, Model_a2ywac, Model_b2jqs4,
   Model_buom7k, Model_c8rj4y, Model_co3fyu, Model_e6ofmn,
   Model_ee23uv, Model_fd60kt, Model_ilt3k8, Model_kd0una,
   Model_kr0277, Model_m1wkuw, Model_mxse7w, Model_n0vyif,
   Model_n9f2g8, Model_p1jij8, Model_p7l7iu, Model_p95mgv,
   Model_qhe2o2, Model_r8ead0, Model_rzwv5p, Model_ts2ofl,
   Model_twunby, Model_ue8kcc, Model_umwv6z, Model_viq3mw,
   Model_x5d34r, Model_xco2fc, Model_xmp9ds, Model_yna5xi,
   Model_zg6qbz}
=============================================================================
