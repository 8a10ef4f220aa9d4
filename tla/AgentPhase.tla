----------------------------- MODULE AgentPhase -----------------------------
(***************************************************************************)
(* What the phase Agent of a run promises to the task queue: an agent works *)
(* only behind its recorded process group, and never again once its stop    *)
(* was confirmed.  TaskRuns builds the protection of the queue on this;     *)
(* AgentControl, the threads of run_remote, implements it.                  *)
(***************************************************************************)
VARIABLES
    recorded,  \* agent_runs.agent_pid is saved
    working,   \* the remote agent is past its gate and alive
    stop       \* what cleanup saved: "none", "confirmed" or "unconfirmed"

vars == <<recorded, working, stop>>

Init == ~recorded /\ ~working /\ stop = "none"

Record == ~recorded /\ recorded' /\ UNCHANGED <<working, stop>>

Start ==
    /\ recorded /\ ~working /\ stop # "confirmed"
    /\ working'
    /\ UNCHANGED <<recorded, stop>>

Exit == working /\ ~working' /\ UNCHANGED <<recorded, stop>>

Confirm ==
    /\ stop = "none" /\ stop' = "confirmed"
    /\ ~working'
    /\ UNCHANGED recorded

\* The stop may have worked without anybody knowing.
GiveUp ==
    /\ stop = "none" /\ stop' = "unconfirmed"
    /\ working' => working
    /\ UNCHANGED recorded

Next == Record \/ Start \/ Exit \/ Confirm \/ GiveUp

Spec == Init /\ [][Next]_vars
=============================================================================
