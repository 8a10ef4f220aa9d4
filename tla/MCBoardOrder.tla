---------------------------- MODULE MCBoardOrder ----------------------------
(* Instances of BoardOrder for TLC. *)
EXTENDS BoardOrder, TLC
=============================================================================
