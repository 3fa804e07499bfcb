---- MODULE MCChangeLedger ----
(***************************************************************************)
(* ChangeLedger for TLC: calls and tables are interchangeable.  Not used   *)
(* where liveness is checked.                                              *)
(***************************************************************************)
EXTENDS ChangeLedgerInvariant, TLC

Symmetry == Permutations(Worker) \cup Permutations(Table)
====
