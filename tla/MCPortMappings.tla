---------------------------- MODULE MCPortMappings ----------------------------
(***************************************************************************)
(* Small instances of PortMappings for TLC.                                *)
(***************************************************************************)
EXTENDS PortMappings, TLC

\* Requests are interchangeable, and so are addresses.
Symmetry == Permutations(Request) \cup Permutations(Addr)
================================================================================
