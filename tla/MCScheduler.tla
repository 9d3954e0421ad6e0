---------------------------- MODULE MCScheduler ----------------------------
(***************************************************************************)
(* The scheduler with a few threads on a short block.  The threads are     *)
(* interchangeable.                                                        *)
(***************************************************************************)
EXTENDS SchedulerInv, TLC

Interchangeable == Permutations(Threads)
=============================================================================
