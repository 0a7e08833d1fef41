-------------------------- MODULE MCTrafficAccounting --------------------------
(***************************************************************************)
(* Small instances of TrafficAccounting for TLC.                           *)
(***************************************************************************)
EXTENDS TrafficAccounting
================================================================================
