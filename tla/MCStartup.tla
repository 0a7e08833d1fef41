------------------------------- MODULE MCStartup -------------------------------
(***************************************************************************)
(* Small instances of Startup for TLC.                                     *)
(***************************************************************************)
EXTENDS Startup, TLC

\* The names EnsureStoragePool tries: quotaStoragePool, and one with a suffix.
PoolNames == <<"goincus", "goincus-lvm">>
================================================================================
