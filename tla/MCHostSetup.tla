----------------------------- MODULE MCHostSetup -----------------------------
(***************************************************************************)
(* A small instance of HostSetup for TLC: two of the three pool names.     *)
(***************************************************************************)
EXTENDS HostSetup

PoolNames == <<"goincus", "goincus-lvm">>
==============================================================================
