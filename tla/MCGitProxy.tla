----------------------------- MODULE MCGitProxy -----------------------------
(* Instances of GitProxy for TLC. *)
EXTENDS GitProxy, TLC

CONSTANTS r1, r2, r3

\* Three requests for one repository: one holds the lock, two wait.
OneRepo == [r \in Request |-> "repo"]
=============================================================================
