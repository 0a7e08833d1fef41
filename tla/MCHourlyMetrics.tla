---------------------------- MODULE MCHourlyMetrics ----------------------------
(***************************************************************************)
(* Small instances of HourlyMetrics for TLC.                               *)
(***************************************************************************)
EXTENDS HourlyMetrics
================================================================================
