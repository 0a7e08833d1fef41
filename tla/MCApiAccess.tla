----------------------------- MODULE MCApiAccess -----------------------------
(***************************************************************************)
(* A small instance of ApiAccess for TLC.                                  *)
(***************************************************************************)
EXTENDS ApiAccess
==============================================================================
