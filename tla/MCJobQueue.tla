------------------------------ MODULE MCJobQueue ------------------------------
(***************************************************************************)
(* JobQueue for TLC: jobs and passes are interchangeable, where only       *)
(* safety is checked.                                                      *)
(***************************************************************************)
EXTENDS JobQueue, TLC

Symmetry == Permutations(Worker) \cup Permutations(Job)
=============================================================================
