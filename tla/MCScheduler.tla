---------------------------- MODULE MCScheduler ----------------------------
(* Small instances of Scheduler. *)
EXTENDS Scheduler, TLC

Symmetry == Permutations(Nodes) \cup Permutations(Tasks \ Corrupt)
=============================================================================
