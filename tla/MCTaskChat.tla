----------------------------- MODULE MCTaskChat -----------------------------
(* Instances of TaskChat for TLC. *)
EXTENDS TaskChat, TLC
CONSTANTS t1, t2
Symmetry == Permutations(Task)
=============================================================================
