---------------------------- MODULE MCSupervisor ----------------------------
(* Instances of Supervisor for TLC. *)
EXTENDS Supervisor, TLC

CONSTANTS t1, w1

OneScope == [p \in Process |-> "here"]
=============================================================================
