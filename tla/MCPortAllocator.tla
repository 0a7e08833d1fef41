--------------------------- MODULE MCPortAllocator ---------------------------
(***************************************************************************)
(* Small instances of PortAllocator for TLC.                               *)
(***************************************************************************)
EXTENDS PortAllocator, TLC

\* Requests are interchangeable.
Symmetry == Permutations(Op)
==============================================================================
