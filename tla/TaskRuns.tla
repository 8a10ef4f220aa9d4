------------------------------ MODULE TaskRuns ------------------------------
(***************************************************************************)
(* The life of a task run: the board's task rows and the run rows of the   *)
(* SQLite database (agent_store.py, task_cycle.py, the status operations   *)
(* of board_store.py, database_store.py), the executor processes that      *)
(* claim and perform runs (agent_worker.py, agent_remote.run_remote,       *)
(* task_init.run_init), the recovery every new executor performs before it *)
(* claims, and the remote Init and agent processes they start over SSH.    *)
(*                                                                         *)
(* Every database transaction is one step (BEGIN IMMEDIATE serialises      *)
(* them); an executor may be killed, or unwound by SIGTERM, between any    *)
(* two of its steps.  A run is identified with the executor that created   *)
(* it: a process claims at most one run, and its token is unique.          *)
(*                                                                         *)
(* Definitions named X_Defect are mutations of X that the properties must   *)
(* reject; no specification uses them.                                     *)
(*                                                                         *)
(* Left to other modules or left out: clocks (whether a deadline has       *)
(* passed is a free choice wherever the code asks), the order of tasks in  *)
(* a column, chat messages, is_error, attachments, the context directory.  *)
(***************************************************************************)
EXTENDS Naturals, FiniteSets

CONSTANTS
    Task,         \* the task identifiers
    Worker,       \* executor processes (agent_worker.py)
    Consumer,     \* recovery by any later process (agent_consumer.py)
    None,         \* NULL
    Scope,        \* executor_scope() of every process: host and namespace
    InitEnabled,  \* is an Init script configured?
    Signals,      \* signals from outside: "KILL" (crash), "TERM" (shutdown)
    Forced,       \* does the operator use the command line's forced moves?
    Columns       \* bound: the columns that people move tasks to

Statuses == {"BACKLOG", "OPEN", "WAIT", "IN PROGRESS", "REVIEW", "DONE",
             "ARCHIVE"}

Process == Worker \cup {Consumer}

ASSUME NoneAssumption == None \notin Worker \cup Task
ASSUME ConsumerAssumption == Consumer \notin Worker
ASSUME InitEnabledAssumption == InitEnabled \in BOOLEAN
ASSUME ForcedAssumption == Forced \in BOOLEAN
ASSUME SignalsAssumption == Signals \subseteq {"KILL", "TERM"}
ASSUME ColumnsAssumption == Columns \subseteq Statuses

VARIABLES
    board,    \* board_tasks: one row per task, status "ABSENT" without a row
    runs,     \* agent_runs: the row created by each executor
    pc,       \* where each process stands
    row,      \* the copy of the active run's row that recover() works from
    fresh,    \* claim's copy: must this run perform Init?
    verdict,  \* how the run went, as handed to finish()
    init,     \* the remote Init script of each run
    agent,    \* the remote agent process of each run
    gaps      \* history: runs closed through one of the three known gaps

vars == <<board, runs, pc, row, fresh, verdict, init, agent, gaps>>

-----------------------------------------------------------------------------
(* Rows. *)

Active == {"PREPARING", "RUNNING"}
Ended == {"SUCCEEDED", "FAILED"}
Phases == {"In progress", "Init", "Agent"}
RemoteStates == {"none", "running", "exited"}

NoTask == [status |-> "ABSENT", active |-> None, initSucceeded |-> FALSE,
           initUncertain |-> FALSE, agentUncertain |-> FALSE]

NoRun == [state |-> "none", task |-> None, phase |-> "In progress",
          initResult |-> "none", agentPid |-> FALSE, session |-> FALSE,
          stopConfirmed |-> FALSE, agentUncertain |-> FALSE]

NoRow == [run |-> None, phase |-> "In progress", confirmed |-> FALSE]

\* Before an executor owns a run, while it performs it, and the local cleanup.
Starting == {"off", "inspect", "wait", "claim"}
Working == {"prepare", "init", "initGo", "initRun", "initStop", "initDone",
            "beginAgent", "agent", "handshake", "go", "session", "prompt",
            "agentStop", "finish"}
PCs == Starting \cup Working \cup {"gone"}

\* "exit": SystemExit is on its way, what the cleanup learns is not handed on.
Verdicts == {"ok", "error", "exit", "initError", "initUncertain",
             "recoveredInit", "agentUncertain"}

TaskRows == [status : Statuses \cup {"ABSENT"}, active : Worker \cup {None},
             initSucceeded : BOOLEAN, initUncertain : BOOLEAN,
             agentUncertain : BOOLEAN]

RunRows == [state : Active \cup Ended \cup {"none"}, task : Task \cup {None},
            phase : Phases, initResult : {"none", "SUCCEEDED", "FAILED"},
            agentPid : BOOLEAN, session : BOOLEAN,
            stopConfirmed : BOOLEAN, agentUncertain : BOOLEAN]

Rows == [run : Worker \cup {None}, phase : Phases, confirmed : BOOLEAN]

TypeOK ==
    /\ board \in [Task -> TaskRows]
    /\ runs \in [Worker -> RunRows]
    /\ pc \in [Process -> PCs]
    /\ row \in [Process -> Rows]
    /\ fresh \in [Worker -> BOOLEAN]
    /\ verdict \in [Worker -> Verdicts]
    /\ init \in [Worker -> RemoteStates]
    /\ agent \in [Worker -> RemoteStates]
    /\ gaps \in SUBSET Worker

Init ==
    /\ board = [t \in Task |-> NoTask]
    /\ runs = [w \in Worker |-> NoRun]
    /\ pc = [p \in Process |-> "off"]
    /\ row = [p \in Process |-> NoRow]
    /\ fresh = [w \in Worker |-> FALSE]
    /\ verdict = [w \in Worker |-> "error"]
    /\ init = [w \in Worker |-> "none"]
    /\ agent = [w \in Worker |-> "none"]
    /\ gaps = {}

ActiveRuns == {w \in Worker : runs[w].state \in Active}

\* TaskCycle.active: the run is active and still owns a task in IN PROGRESS.
Owner(w) ==
    /\ runs[w].state \in Active
    /\ runs[w].task \in Task
    /\ board[runs[w].task].active = w
    /\ board[runs[w].task].status = "IN PROGRESS"

Step(p, from, to) ==
    /\ pc[p] = from
    /\ pc' = [pc EXCEPT ![p] = to]

-----------------------------------------------------------------------------
(* The people in front of the board. *)

BoardOnly == UNCHANGED <<pc, row, fresh, verdict, init, agent>>

AllowedTransitions ==
    [s \in Statuses |->
        CASE s = "BACKLOG" -> {"OPEN", "ARCHIVE"}
          [] s = "OPEN" -> {"BACKLOG"}
          [] s = "WAIT" -> {"ARCHIVE"}
          [] s = "IN PROGRESS" -> {"BACKLOG"}
          [] s = "REVIEW" -> {"OPEN", "BACKLOG", "DONE"}
          [] s = "DONE" -> {"ARCHIVE"}
          [] s = "ARCHIVE" -> {}]

CreateTask(t) ==
    /\ board[t].status = "ABSENT"
    /\ board' = [board EXCEPT ![t] = [NoTask EXCEPT !.status = "BACKLOG"]]
    /\ UNCHANGED runs /\ UNCHANGED gaps /\ BoardOnly

\* Leaving IN PROGRESS disowns the run; the executor notices by polling.
Disowned(b) == IF b.status = "IN PROGRESS" THEN None ELSE b.active

MoveTask(t, s) ==
    /\ board[t].status \in Statuses \ {s}
    /\ Forced \/ s \in AllowedTransitions[board[t].status]
    /\ board' = [board EXCEPT ![t] =
                   [@ EXCEPT !.status = s, !.active = Disowned(board[t])]]
    /\ UNCHANGED runs /\ UNCHANGED gaps /\ BoardOnly

\* A comment under a task in REVIEW or WAIT queues the task again.
AddUserComment(t) ==
    /\ board[t].status \in {"REVIEW", "WAIT"}
    /\ board' = [board EXCEPT ![t].status = "OPEN"]
    /\ UNCHANGED runs /\ UNCHANGED gaps /\ BoardOnly

\* ON DELETE SET NULL keeps the runs of a deleted task.
DeleteTask(t) ==
    /\ board[t].status \in {"BACKLOG", "ARCHIVE"}
    /\ board' = [board EXCEPT ![t] = NoTask]
    /\ runs' = [w \in Worker |->
                  IF runs[w].task = t THEN [runs[w] EXCEPT !.task = None]
                  ELSE runs[w]]
    /\ UNCHANGED gaps /\ BoardOnly

\* Third gap: with the rows goes the memory of unconfirmed stops.
ClearDatabase ==
    /\ ActiveRuns = {}
    /\ board' = [t \in Task |-> NoTask]
    /\ runs' = [w \in Worker |-> NoRun]
    /\ gaps' = gaps \cup {w \in Worker : runs[w].agentUncertain}
    /\ BoardOnly

\* Is some run of t, by the rows rs, unconfirmed?
UncertainRun(rs, t) == \E w \in Worker : rs[w].task = t /\ rs[w].agentUncertain

\* The operator checked the remote host first: the agent is not running.
ConfirmRemoteStop(w) ==
    /\ runs[w].state \in Ended
    /\ runs[w].agentUncertain
    /\ agent[w] # "running"
    /\ runs' = [runs EXCEPT ![w] = [@ EXCEPT !.agentUncertain = FALSE,
                                             !.stopConfirmed = TRUE]]
    /\ board' = [t \in Task |->
                   IF t = runs[w].task /\ ~UncertainRun(runs', t)
                   THEN [board[t] EXCEPT !.agentUncertain = FALSE]
                   ELSE board[t]]
    /\ UNCHANGED gaps /\ BoardOnly

-----------------------------------------------------------------------------
(* Closing a run: agent_store.finish, one transaction. *)

LeavesMark_IgnoresCaller(r, v) == r.agentUncertain /\ ~r.stopConfirmed
\* A confirmation saved meanwhile wins over what the caller believes.
LeavesMark(r, v) ==
    /\ v = "agentUncertain" \/ r.agentUncertain
    /\ ~r.stopConfirmed

InitUncertain(v) == v \in {"initUncertain", "recoveredInit"}

InitFailed(r, v) ==
    \/ v \in {"initError", "initUncertain"}
    \/ r.phase = "Init" /\ r.initResult # "SUCCEEDED"

Failed(r, v) == v # "ok" \/ LeavesMark(r, v) \/ InitFailed(r, v)

Outcome_Stays(b, w, failed) ==
    IF b.status = "IN PROGRESS" /\ b.active = w /\ ~failed THEN "REVIEW"
    ELSE b.status
Outcome(b, w, failed) ==
    IF b.status = "IN PROGRESS" /\ b.active = w
    THEN IF failed THEN "WAIT" ELSE "REVIEW"
    ELSE b.status

CloseTask(b, w, v) ==
    [b EXCEPT !.initUncertain = @ \/ InitUncertain(v),
              !.agentUncertain = @ \/ LeavesMark(runs[w], v),
              !.status = Outcome(b, w, Failed(runs[w], v))]

ClosedRun(r, v) ==
    [r EXCEPT !.state = IF Failed(r, v) THEN "FAILED" ELSE "SUCCEEDED",
              !.agentUncertain = @ \/ LeavesMark(r, v),
              !.initResult = IF InitFailed(r, v) THEN "FAILED" ELSE @]

CloseRun(w, v) ==
    /\ runs' = [runs EXCEPT ![w] = ClosedRun(@, v)]
    /\ board' = [t \in Task |-> IF t = runs[w].task
                                THEN CloseTask(board[t], w, v) ELSE board[t]]

EndRun_Unfenced(w, v) == CloseRun(w, v)
EndRun(w, v) ==
    IF runs[w].state \in Active THEN CloseRun(w, v)
    ELSE UNCHANGED <<board, runs>>

-----------------------------------------------------------------------------
(* Recovery: agent_store.recover, performed by every process that starts. *)

\* process_identity: the process table of p's host has no such process.
Dead(p, w) == pc[w] = "gone" \/ Scope[p] # Scope[w]

SameScope_Unchecked(p, w) == TRUE
SameScope(p, w) == Scope[p] = Scope[w]

\* An executor goes on to claim, the consumer to its next round.
AfterRecovery(p) == IF p \in Worker THEN "claim" ELSE "off"

\* The row is copied; a run of another scope is left alone.
Snapshot(p) ==
    /\ \/ \E w \in ActiveRuns :
            /\ SameScope(p, w)
            /\ Step(p, "off", "inspect")
            /\ row' = [row EXCEPT ![p] =
                         [run |-> w, phase |-> runs[w].phase,
                          confirmed |-> runs[w].stopConfirmed]]
       \/ /\ \A w \in ActiveRuns : ~SameScope(p, w)
          /\ p \in Worker
          /\ Step(p, "off", "claim")
          /\ UNCHANGED row
    /\ UNCHANGED <<board, runs, fresh, verdict, init, agent, gaps>>

\* _finish_recovered judges by the copy, not by the row as it is now.
RecoveredVerdict_NoMark(c) ==
    IF c.phase = "Init" THEN "recoveredInit" ELSE "error"
RecoveredVerdict(c) ==
    CASE c.phase = "Init" -> "recoveredInit"
      [] c.phase = "Agent" /\ ~c.confirmed -> "agentUncertain"
      [] OTHER -> "error"

\* First gap: the executor entered another phase after the copy was taken.
CloseDead(p, w) ==
    /\ pc[p] \in {"inspect", "wait"} /\ row[p].run = w
    /\ Dead(p, w)
    /\ EndRun(w, RecoveredVerdict(row[p]))
    /\ gaps' = IF runs[w].state \in Active /\ runs[w].phase # row[p].phase
               THEN gaps \cup {w} ELSE gaps
    /\ pc' = [pc EXCEPT ![p] = AfterRecovery(p)]
    /\ row' = [row EXCEPT ![p] = NoRow]
    /\ UNCHANGED <<fresh, verdict, init, agent>>

\* The executor lives: in time, or still there after SIGTERM and SIGKILL.
LeaveAlive_Always(p, w) ==
    /\ pc[p] \in {"inspect", "wait"} /\ row[p].run = w
    /\ pc' = [pc EXCEPT ![p] = AfterRecovery(p)]
    /\ row' = [row EXCEPT ![p] = NoRow]
    /\ UNCHANGED <<board, runs, fresh, verdict, init, agent, gaps>>
LeaveAlive(p, w) ==
    /\ pc[p] \in {"inspect", "wait"} /\ row[p].run = w
    /\ ~Dead(p, w)
    /\ pc' = [pc EXCEPT ![p] = AfterRecovery(p)]
    /\ row' = [row EXCEPT ![p] = NoRow]
    /\ UNCHANGED <<board, runs, fresh, verdict, init, agent, gaps>>

(* SIGTERM raises SystemExit in the executor's main thread: the cleanup of  *)
(* the interrupted phase still runs, and the run is closed as failed; but   *)
(* an interrupted cleanup is not resumed and leaves no trace: second gap.   *)
Unwinding(w) ==
    LET to(s, v, g) == [pc |-> s, verdict |-> v, gap |-> g]
        unsaved == \/ verdict[w] = "initUncertain"
                   \/ verdict[w] = "agentUncertain" /\ ~runs[w].agentUncertain
    IN CASE pc[w] \in {"prepare", "init", "initDone", "beginAgent"} ->
              {to("finish", "exit", FALSE)}
         [] pc[w] \in {"initGo", "initRun"} -> {to("initStop", "exit", FALSE)}
         [] pc[w] \in {"agent", "handshake", "go", "session", "prompt"} ->
              {to("agentStop", "exit", FALSE)}
         [] pc[w] \in {"initStop", "agentStop"} -> {to("finish", "exit", TRUE)}
         [] pc[w] = "finish" -> {to("finish", "exit", unsaved),
                                 to("gone", "error", FALSE)}
         [] OTHER -> {}

Unwind(w, u) ==
    /\ verdict' = [verdict EXCEPT ![w] = u.verdict]
    /\ gaps' = IF u.gap THEN gaps \cup {w} ELSE gaps
    /\ fresh' = [fresh EXCEPT ![w] = FALSE]
    /\ UNCHANGED <<board, runs, init, agent>>

\* An expired executor of the same, still active run is asked to stop.
TerminateExpired(p, w) ==
    /\ pc[p] = "inspect" /\ row[p].run = w
    /\ ~Dead(p, w)
    /\ runs[w].state \in Active
    /\ \E u \in Unwinding(w) :
         /\ Unwind(w, u)
         /\ pc' = [pc EXCEPT ![p] = "wait", ![w] = u.pc]
    /\ UNCHANGED row

Killed(w) ==
    /\ pc' = [pc EXCEPT ![w] = IF @ \in Working THEN "gone" ELSE "off"]
    /\ row' = [row EXCEPT ![w] = NoRow]
    /\ fresh' = [fresh EXCEPT ![w] = FALSE]
    /\ verdict' = [verdict EXCEPT ![w] = "error"]
    /\ UNCHANGED <<board, runs, init, agent, gaps>>

\* It did not stop in time: SIGKILL.
KillExpired(p, w) ==
    /\ pc[p] = "wait" /\ row[p].run = w
    /\ ~Dead(p, w)
    /\ Killed(w)

Recover(p) ==
    \/ Snapshot(p)
    \/ \E w \in Worker :
         \/ CloseDead(p, w) \/ LeaveAlive(p, w)
         \/ TerminateExpired(p, w) \/ KillExpired(p, w)

\* It dies before it is through: what it copied is lost, nothing else.
RecoveryDies(p) ==
    /\ Step(p, "inspect", "off") \/ Step(p, "wait", "off")
    /\ row' = [row EXCEPT ![p] = NoRow]
    /\ UNCHANGED <<board, runs, fresh, verdict, init, agent, gaps>>

-----------------------------------------------------------------------------
(* Signals from outside: a crash, or the shutdown of the installation. *)

Crash(w) ==
    /\ "KILL" \in Signals
    /\ pc[w] \notin {"off", "gone"}
    /\ Killed(w)

Shutdown(w) ==
    /\ "TERM" \in Signals
    /\ \E u \in Unwinding(w) :
         /\ Unwind(w, u)
         /\ pc' = [pc EXCEPT ![w] = u.pc]
    /\ UNCHANGED row

-----------------------------------------------------------------------------
(* The executor: agent_worker.execute. *)

Claimable(t) ==
    /\ board[t].status = "OPEN"
    /\ ~board[t].initUncertain
    /\ ~board[t].agentUncertain

Unblocked_IgnoresMarks == ActiveRuns = {}
Unblocked_IgnoresActive == \A w \in Worker : ~runs[w].agentUncertain
Unblocked == ActiveRuns = {} /\ \A w \in Worker : ~runs[w].agentUncertain

\* No earlier success of Init, and no session from an older installation.
NeedsInit_Always(t) == InitEnabled /\ ~\E v \in Worker : runs[v].task = t /\ runs[v].session
NeedsInit(t) ==
    /\ InitEnabled
    /\ ~board[t].initSucceeded
    /\ ~\E v \in Worker : runs[v].task = t /\ runs[v].session

\* Which OPEN task comes first is the subject of module BoardOrder.
Claim(w) ==
    /\ Step(w, "claim", "prepare")
    /\ Unblocked
    /\ \E t \in Task :
         /\ Claimable(t)
         /\ runs' = [runs EXCEPT ![w] = [NoRun EXCEPT !.state = "PREPARING",
                                                      !.task = t]]
         /\ board' = [board EXCEPT ![t] = [@ EXCEPT !.status = "IN PROGRESS",
                                                    !.active = w]]
         /\ fresh' = [fresh EXCEPT ![w] = NeedsInit(t)]
    /\ UNCHANGED <<row, verdict, init, agent, gaps>>

\* Nothing to do: the process ends, and a later one takes its place.
ClaimNothing(w) ==
    /\ Step(w, "claim", "off")
    /\ ~Unblocked \/ \A t \in Task : ~Claimable(t)
    /\ UNCHANGED <<board, runs, row, fresh, verdict, init, agent, gaps>>

\* The executor alone moves; its row and the board keep their values.
Internal(w) == UNCHANGED <<board, runs, row, fresh, gaps>>

Fail(w, from, to, v) ==
    /\ pc[w] \in from
    /\ pc' = [pc EXCEPT ![w] = to]
    /\ verdict' = [verdict EXCEPT ![w] = v]

\* Connecting, synchronising the context or opening a channel failed.
PrepareFails(w) ==
    /\ Fail(w, {"prepare"}, "finish", "error")
    /\ fresh' = [fresh EXCEPT ![w] = FALSE]
    /\ UNCHANGED <<board, runs, row, init, agent, gaps>>

\* TaskCycle.phase: entered by the owner only, else the run was cancelled.
EnterPhase(w, from, to, phase) ==
    /\ \/ /\ Owner(w)
          /\ Step(w, from, to)
          /\ runs' = [runs EXCEPT ![w].phase = phase]
          /\ UNCHANGED verdict
       \/ /\ ~Owner(w)
          /\ Fail(w, {from}, "finish", "initError")
          /\ UNCHANGED runs
    /\ fresh' = [fresh EXCEPT ![w] = FALSE]
    /\ UNCHANGED <<board, row, init, agent, gaps>>

BeginInit(w) == fresh[w] /\ EnterPhase(w, "prepare", "init", "Init")

BeginAgent(w) ==
    \/ ~fresh[w] /\ EnterPhase(w, "prepare", "agent", "Agent")
    \/ EnterPhase(w, "beginAgent", "agent", "Agent")

-----------------------------------------------------------------------------
(* The phase Init: task_init.run_init. *)

\* No process group is known yet: there is nothing to stop.
InitNotStarted(w) ==
    /\ Fail(w, {"init"}, "finish", "initError")
    /\ Internal(w) /\ UNCHANGED <<init, agent>>

\* The group's pid is persisted before the gate of the script opens.
InitPid(w) ==
    /\ Step(w, "init", IF Owner(w) THEN "initGo" ELSE "initStop")
    /\ Internal(w) /\ UNCHANGED <<verdict, init, agent>>

InitGo(w) ==
    /\ Step(w, "initGo", "initRun")
    /\ init' = [init EXCEPT ![w] = "running"]
    /\ Internal(w) /\ UNCHANGED <<verdict, agent>>

\* Cancelled, timed out, connection lost, transfer failed, non-zero code.
InitFails(w) ==
    /\ Fail(w, {"initGo", "initRun"}, "initStop", verdict[w])
    /\ Internal(w) /\ UNCHANGED <<init, agent>>

InitSucceeds(w) ==
    /\ init[w] = "exited"
    /\ Step(w, "initRun", "initDone")
    /\ Internal(w) /\ UNCHANGED <<verdict, init, agent>>

Stopped(s) == IF s = "running" THEN "exited" ELSE s

\* stop_group either confirms that the group is gone or says nothing.
InitStop(w) ==
    /\ \/ /\ Fail(w, {"initStop"}, "finish", "initError")
          /\ init' = [init EXCEPT ![w] = Stopped(@)]
       \/ /\ Fail(w, {"initStop"}, "finish", "initUncertain")
          /\ UNCHANGED init
    /\ Internal(w) /\ UNCHANGED agent

\* TaskCycle.initialized
InitSaved(w) ==
    /\ Fail(w, {"initDone"}, IF Owner(w) THEN "beginAgent" ELSE "finish",
            IF Owner(w) THEN verdict[w] ELSE "initError")
    /\ runs' = [runs EXCEPT ![w].initResult =
                   IF runs[w].state \in Active THEN "SUCCEEDED" ELSE @]
    /\ board' = [t \in Task |->
                   IF board[t].active = w
                   THEN [board[t] EXCEPT !.initSucceeded = TRUE]
                   ELSE board[t]]
    /\ UNCHANGED <<row, fresh, init, agent, gaps>>

-----------------------------------------------------------------------------
(* The phase Agent: agent_remote.run_remote.  Module AgentControl details   *)
(* the threads behind these steps.                                          *)

AgentStart(w) ==
    /\ Step(w, "agent", "handshake")
    /\ Owner(w)
    /\ runs' = [runs EXCEPT ![w].state = "RUNNING"]
    /\ UNCHANGED <<board, row, fresh, verdict, init, agent, gaps>>

\* AgentControl.handshake: persisted before GO, then checked again.
SavePid(w) ==
    /\ Fail(w, {"handshake"}, IF Owner(w) THEN "go" ELSE "agentStop", "error")
    /\ runs' = [runs EXCEPT ![w].agentPid = TRUE]
    /\ UNCHANGED <<board, row, fresh, init, agent, gaps>>

SendGo(w) ==
    /\ Step(w, "go", "session")
    /\ agent' = [agent EXCEPT ![w] = "running"]
    /\ Internal(w) /\ UNCHANGED <<verdict, init>>

SaveSession(w) ==
    /\ Step(w, "session", "prompt")
    /\ runs' = [runs EXCEPT ![w].session = @ \/ runs[w].state \in Active]
    /\ UNCHANGED <<board, row, fresh, verdict, init, agent, gaps>>

\* The last look at the owner precedes the cleanup.
EndTurn(w) ==
    /\ Owner(w)
    /\ Fail(w, {"prompt"}, "agentStop", "ok")
    /\ Internal(w) /\ UNCHANGED <<init, agent>>

\* Cancelled, timed out, failed, or ended with another stop reason.
AgentFails(w) ==
    /\ Fail(w, {"agent", "handshake", "go", "session", "prompt"},
            "agentStop", "error")
    /\ Internal(w) /\ UNCHANGED <<init, agent>>

\* TaskCycle.agent_stopped
AgentStopped_RunOnly(w, confirmed) ==
    /\ runs' = [runs EXCEPT ![w].stopConfirmed = confirmed,
                            ![w].agentUncertain = ~confirmed]
    /\ UNCHANGED board
AgentStopped(w, confirmed) ==
    LET t == runs[w].task
    IN /\ runs' = [runs EXCEPT ![w] =
            [@ EXCEPT !.stopConfirmed = confirmed,
                      !.agentUncertain = ~confirmed]]
       /\ board' = [u \in Task |->
            IF u # t THEN board[u]
            ELSE [board[u] EXCEPT !.agentUncertain =
                    ~confirmed \/ (@ /\ UncertainRun(runs', u))]]

\* RemoteAgentError(uncertain=True), unless SystemExit is on its way.
UnconfirmedVerdict_Swallowed(v) == v
UnconfirmedVerdict(v) == IF v = "exit" THEN v ELSE "agentUncertain"

\* AgentControl.stop, called by run_remote's finally clause.
AgentStop(w) ==
    /\ Step(w, "agentStop", "finish")
    /\ \/ /\ AgentStopped(w, TRUE)
          /\ agent' = [agent EXCEPT ![w] = Stopped(@)]
          /\ UNCHANGED <<verdict, gaps>>
       \/ /\ AgentStopped(w, FALSE)
          /\ \/ UNCHANGED agent
             \/ /\ runs[w].agentPid /\ agent[w] = "none"  \* GO on its way
                /\ agent' = [agent EXCEPT ![w] = "running"]
          /\ verdict' = [verdict EXCEPT ![w] = UnconfirmedVerdict(@)]
          /\ UNCHANGED gaps
       \/ /\ UNCHANGED <<board, runs, agent>>             \* not saved
          /\ verdict' = [verdict EXCEPT ![w] = UnconfirmedVerdict(@)]
          /\ gaps' = IF verdict[w] = "exit" THEN gaps \cup {w} ELSE gaps
    /\ UNCHANGED <<row, fresh, init>>

-----------------------------------------------------------------------------
Finish(w) ==
    /\ Fail(w, {"finish"}, "gone", "error")
    /\ EndRun(w, verdict[w])
    /\ UNCHANGED <<row, fresh, init, agent, gaps>>

\* The remote processes end by themselves.
RemoteExit(w) ==
    /\ \/ /\ init[w] = "running"
          /\ init' = [init EXCEPT ![w] = "exited"]
          /\ UNCHANGED agent
       \/ /\ agent[w] = "running"
          /\ agent' = [agent EXCEPT ![w] = "exited"]
          /\ UNCHANGED init
    /\ UNCHANGED <<board, runs, pc, row, fresh, verdict, gaps>>

Perform(w) ==
    \/ PrepareFails(w) \/ BeginInit(w) \/ BeginAgent(w)
    \/ InitNotStarted(w) \/ InitPid(w) \/ InitGo(w) \/ InitFails(w)
    \/ InitSucceeds(w) \/ InitStop(w) \/ InitSaved(w)
    \/ AgentStart(w) \/ SavePid(w) \/ SendGo(w) \/ SaveSession(w)
    \/ EndTurn(w) \/ AgentFails(w) \/ AgentStop(w)
    \/ Finish(w)

People ==
    \/ \E t \in Task :
         \/ CreateTask(t) \/ AddUserComment(t) \/ DeleteTask(t)
         \/ \E s \in Columns : MoveTask(t, s)
    \/ ClearDatabase
    \/ \E w \in Worker : ConfirmRemoteStop(w)

Next ==
    \/ People
    \/ \E p \in Process : Recover(p) \/ RecoveryDies(p)
    \/ \E w \in Worker :
         \/ Claim(w) \/ ClaimNothing(w)
         \/ Perform(w)
         \/ Crash(w) \/ Shutdown(w)
         \/ RemoteExit(w)

Spec == Init /\ [][Next]_vars

-----------------------------------------------------------------------------
(* Properties. *)

(* A remote agent never works for a closed run that the queue does not know *)
(* to be unconfirmed: whatever died or was interrupted, claim stays blocked *)
(* while an agent may be at work (agent_store.claim, finish, recover).      *)
NoUntrackedAgent ==
    \A w \in Worker \ gaps :
        agent[w] = "running" => \/ runs[w].state \in Active
                                \/ runs[w].agentUncertain

(* At most one remote agent works at any time, although executors are       *)
(* killed, replaced and started by several launchers (agent_store.claim).   *)
ExclusiveAgent ==
    \A v, w \in Worker \ gaps :
        agent[v] = "running" /\ agent[w] = "running" => v = w

(* The queue serves one run at a time, and an unconfirmed stop holds it: no *)
(* second run is active or marked (claim's two checks in one transaction,   *)
(* against launchers, consumers and operators acting meanwhile).            *)
OneHolder ==
    \A v, w \in Worker :
        /\ runs[v].state \in Active \/ runs[v].agentUncertain
        /\ runs[w].state \in Active \/ runs[w].agentUncertain
        => v = w

(* A run that ended in the phase Agent has either a confirmed stop or the   *)
(* mark that blocks the queue (TaskCycle.agent_stopped, finish).            *)
StoppedOrMarked ==
    \A w \in Worker \ gaps :
        /\ runs[w].state \in Ended
        /\ runs[w].agentPid
        => runs[w].stopConfirmed \/ runs[w].agentUncertain

(* A task carries the mark exactly while one of its runs does: cleanup,     *)
(* recovery and the operator's confirmation keep the two tables in step.    *)
MarksAgree ==
    \A t \in Task : board[t].agentUncertain <=> UncertainRun(runs, t)

(* The column IN PROGRESS shows exactly the tasks of active runs that were  *)
(* not disowned: no task is left there without an executor to answer for it.*)
InProgressIsOwned ==
    \A t \in Task : board[t].status = "IN PROGRESS" =>
        \E w \in Worker : /\ board[t].active = w
                          /\ runs[w].task = t
                          /\ runs[w].state \in Active

(* Where an Init script may still run in a task's directory, nothing else   *)
(* of that task is started: the run is active, or the task is kept from     *)
(* being claimed (run_init, finish with uncertain).                         *)
InitIsGuarded ==
    \A w \in Worker \ gaps :
        init[w] = "running" /\ runs[w].task # None =>
            runs[w].state \in Active \/ board[runs[w].task].initUncertain

(* Hence no second Init and no agent run beside it in the same directory.   *)
InitAlone ==
    \A v \in Worker : \A w \in Worker \ (gaps \cup {v}) :
        /\ init[w] = "running"
        /\ runs[w].task # None
        /\ runs[v].task = runs[w].task
        /\ v \notin gaps
        => init[v] # "running" /\ agent[v] # "running"

(* Init is not repeated for a task that it already prepared.                *)
InitNotRepeated ==
    \A w \in Worker : pc[w] \in {"initGo", "initRun"} /\ Owner(w) =>
        ~board[runs[w].task].initSucceeded

(* REVIEW is earned: a task enters it only by its owner's success, with the *)
(* agent confirmed to be gone (finish called by execute).                   *)
ReviewIsEarned ==
    [][\A t \in Task : board[t].status # "REVIEW" /\ board'[t].status = "REVIEW" =>
         \E w \in Worker : /\ board[t].active = w
                           /\ runs[w].task = t
                           /\ runs'[w].state = "SUCCEEDED"
                           /\ runs'[w].stopConfirmed
                           /\ agent'[w] # "running"]_vars

(* A closed run stays closed and keeps its result: late results, a second   *)
(* recovery or a surviving executor change neither (ACTIVE in every WHERE). *)
ClosedIsFinal ==
    [][\A w \in Worker : runs[w].state \in Ended =>
         runs'[w].state \in {runs[w].state, "none"}]_vars

(* A run is closed by its own executor or after its death, and then only by *)
(* a process that can see that executor: its own scope (recover).           *)
ClosedByRightProcess ==
    [][\A w \in Worker : runs[w].state \in Active /\ runs'[w].state \in Ended =>
         \/ pc[w] = "finish" /\ pc'[w] = "gone"
         \/ /\ pc[w] = "gone"
            /\ \E p \in Process \ {w} : /\ pc[p] # pc'[p]
                                        /\ Scope[p] = Scope[w]]_vars

(* Every active run is closed in the end, whatever happens to its executor: *)
(* the queue is not stuck behind a dead process.                            *)
RunsEnd == \A w \in Worker :
    runs[w].state \in Active ~> runs[w].state \notin Active

-----------------------------------------------------------------------------
(* The inductive invariant behind the theorems of TaskRunsProofs. *)

\* What the stage of an executor says about its row and remote processes.
Stage(w) ==
    /\ runs[w].state = "none" => runs[w] = NoRun
    /\ pc[w] \in Starting => /\ runs[w].state = "none"
                             /\ init[w] = "none" /\ agent[w] = "none"
    /\ pc[w] \in Working => runs[w].state \in Active
    /\ pc[w] \in Working \ {"finish"} =>
          ~runs[w].stopConfirmed /\ ~runs[w].agentUncertain
    /\ pc[w] = "prepare" => runs[w].phase = "In progress"
    /\ pc[w] \in {"init", "initGo", "initRun", "initStop", "initDone",
                  "beginAgent"} => runs[w].phase = "Init"
    /\ pc[w] \in {"agent", "handshake", "go", "session", "prompt",
                  "agentStop"} => runs[w].phase = "Agent"
    /\ pc[w] \in {"go", "session", "prompt"} => runs[w].agentPid
    /\ init[w] = "running" =>
          pc[w] \in {"initRun", "initStop", "finish", "gone"}

\* What an executor about to close its run knows of its remote processes.
Report(w) ==
    pc[w] = "finish" /\ w \notin gaps =>
        /\ runs[w].agentPid => \/ runs[w].stopConfirmed
                               \/ runs[w].agentUncertain
                               \/ verdict[w] = "agentUncertain"
        /\ init[w] = "running" => verdict[w] = "initUncertain"

\* A copied row is of a run of this scope that has begun, and only ages.
Copy(p) ==
    /\ pc[p] \notin {"inspect", "wait"} => row[p] = NoRow
    /\ pc[p] \in {"inspect", "wait"} =>
          /\ row[p].run \in Worker
          /\ SameScope(p, row[p].run)
          /\ pc[row[p].run] \in Working \cup {"gone"}
          /\ row[p].confirmed /\ runs[row[p].run].state \in Active =>
                runs[row[p].run].stopConfirmed

\* The agent starts behind its recorded pid and not after a confirmed stop;
\* an Init of an active run belongs to its present phase.
Remote(w) ==
    /\ runs[w].agentPid => runs[w].phase = "Agent"
    /\ agent[w] = "running" => runs[w].agentPid \/ w \in gaps
    /\ runs[w].stopConfirmed => ~runs[w].agentUncertain /\ agent[w] # "running"
    /\ init[w] = "running" /\ runs[w].state \in Active =>
          runs[w].phase = "Init"

Control ==
    /\ \A w \in Worker : Stage(w) /\ Report(w) /\ Remote(w)
    /\ \A p \in Process : Copy(p)

\* Tasks of runs exist; an absent task is blank.
References ==
    /\ \A t \in Task : board[t].status = "ABSENT" => board[t] = NoTask
    /\ \A w \in Worker : runs[w].task # None =>
          board[runs[w].task].status # "ABSENT"

\* No run is active for a task in whose directory an older Init still runs.
InitSettled ==
    \A v \in Worker : \A w \in Worker \ (gaps \cup {v}) :
        /\ runs[v].state \in Active
        /\ runs[v].task # None
        /\ runs[w].task = runs[v].task
        => init[w] # "running"

Data ==
    /\ References /\ OneHolder /\ MarksAgree /\ StoppedOrMarked
    /\ InitIsGuarded /\ InitSettled /\ InitAlone

IInv == TypeOK /\ Control /\ Data

-----------------------------------------------------------------------------
(* What the documentation claims without the exception of the gaps. *)

(* specs/agent.md:282, first sentence: an unconfirmed stop of the group is  *)
(* saved in the run, so that a remote agent that works after its run ended  *)
(* is always marked.                                                        *)
UnconfirmedStopIsSaved ==
    \A w \in Worker : agent[w] = "running" /\ runs[w].state \in Ended =>
        runs[w].agentUncertain

(* specs/agent.md:282, last sentence: also the death of the executor in the *)
(* phase Agent blocks the queue unless the stop was confirmed.              *)
DeathInAgentBlocks ==
    \A w \in Worker :
        /\ runs[w].state \in Ended
        /\ runs[w].phase = "Agent"
        => runs[w].stopConfirmed \/ runs[w].agentUncertain

=============================================================================
