------------------------------ MODULE MCPreload ------------------------------
(***************************************************************************)
(* Instances of the interposed malloc for TLC.                             *)
(***************************************************************************)
EXTENDS Preload
=============================================================================
