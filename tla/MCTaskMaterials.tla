--------------------------- MODULE MCTaskMaterials ---------------------------
(* Instances of TaskMaterials for TLC. *)
EXTENDS TaskMaterials, TLC
Symmetry == Permutations(File)
=============================================================================
