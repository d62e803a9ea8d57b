----------------------------- MODULE MCRmpClient -----------------------------
(***************************************************************************)
(* Instances of the client library and its connection for TLC.             *)
(***************************************************************************)
EXTENDS RmpClient
=============================================================================
