-------------------------- MODULE MCInstanceLifecycle --------------------------
(***************************************************************************)
(* Small instances of InstanceLifecycle for TLC.                           *)
(***************************************************************************)
EXTENDS InstanceLifecycle
================================================================================
