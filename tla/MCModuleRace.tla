---------------------------- MODULE MCModuleRace ----------------------------
(***************************************************************************)
(* Threads that record a few executions.                                   *)
(***************************************************************************)
EXTENDS ModuleRace, TLC

Interchangeable == Permutations(Threads) \cup Permutations(Modules)
=============================================================================
