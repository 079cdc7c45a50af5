------------------------------- MODULE MCDevice -------------------------------
(***************************************************************************)
(* Instances of Device for TLC.                                            *)
(***************************************************************************)
EXTENDS Device, TLC

Alike == Permutations(Jobs)
=============================================================================
