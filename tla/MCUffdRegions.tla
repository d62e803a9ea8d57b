---------------------------- MODULE MCUffdRegions ----------------------------
(***************************************************************************)
(* Instances of programs that also give regions back, for TLC.             *)
(***************************************************************************)
EXTENDS UffdRegions, MCUffdMan
=============================================================================
