---------------------------- MODULE MCJobWorker ----------------------------
(* Small instances of JobWorker. *)
EXTENDS JobWorker, TLC

\* Nodes are interchangeable, and so are the jobs when none is unhandled.
NodeSymmetry == Permutations(Nodes)
Symmetry == Permutations(Nodes) \cup Permutations(Jobs)
=============================================================================
