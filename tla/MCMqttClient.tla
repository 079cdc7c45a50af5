---------------------------- MODULE MCMqttClient ----------------------------
(***************************************************************************)
(* Instances of MqttClient for TLC.                                        *)
(***************************************************************************)
EXTENDS MqttClient, TLC

Alike == Permutations(Devices) \cup Permutations(Callers) \cup Permutations(TaskIds)
=============================================================================
