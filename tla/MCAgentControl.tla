--------------------------- MODULE MCAgentControl ---------------------------
(* AgentControl has no parameters: one run, checked exhaustively. *)
EXTENDS AgentControl
=============================================================================
