---------------------------- MODULE MCBoardLive -----------------------------
(* Instances of BoardLive for TLC. *)
EXTENDS BoardLive, TLC
CONSTANTS r1, r2
Symmetry == Permutations(Request)
=============================================================================
