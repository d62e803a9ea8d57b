----------------------------- MODULE MCRmpServer -----------------------------
(***************************************************************************)
(* Instances of the server for TLC.                                        *)
(***************************************************************************)
EXTENDS RmpServer
=============================================================================
