--------------------------- MODULE TaskRunsProofs ---------------------------
(* Theorems about TaskRuns, for all tasks, executors, scopes and signals,   *)
(* and about Supervisor, which implements it, in five parts:                *)
(*   - Types: which values the two tables and the executors ever hold.      *)
(*   - Safety: IInv of TaskRuns is inductive.  Every step is proved to keep *)
(*     its two parts beyond the types: Control, what the stage of each      *)
(*     executor guarantees, and Data, what holds of the two tables and the  *)
(*     remote processes.  Most steps touch little of either; the frames say *)
(*     how little is little enough.                                         *)
(*   - Columns: IN PROGRESS is owned and REVIEW is earned, while nobody     *)
(*     forces a task into these columns from the command line.              *)
(*   - Init: it is not repeated, whatever columns its task goes through.    *)
(*   - Supervision: what application, consumer and launcher do to the       *)
(*     executors is a behaviour of TaskRuns, so that all of its theorems    *)
(*     hold of them; and stopping the application leaves no executor        *)
(*     behind.                                                              *)
(* The first four parts use no variable of Supervisor.                      *)
EXTENDS Supervisor, TLAPS

-----------------------------------------------------------------------------
(* TYPES. *)

LEMMA NoRowTypes == NoTask \in TaskRows /\ NoRun \in RunRows /\ NoRow \in Rows
BY DEF TaskRows, RunRows, Rows, NoTask, NoRun, NoRow, Phases

\* finish() keeps both tables well-formed.
LEMMA EndRunType ==
    ASSUME TypeOK, NEW w \in Worker, NEW v \in Verdicts, EndRun(w, v)
    PROVE  runs' \in [Worker -> RunRows] /\ board' \in [Task -> TaskRows]
<1>1. /\ LeavesMark(runs[w], v) \in BOOLEAN
      /\ Failed(runs[w], v) \in BOOLEAN
      /\ InitFailed(runs[w], v) \in BOOLEAN
  BY DEF LeavesMark, Failed, InitFailed
<1>2. runs[w] \in RunRows
  BY DEF TypeOK
<1>3. ClosedRun(runs[w], v) \in RunRows
  BY <1>1, <1>2 DEF RunRows, ClosedRun, Active, Ended
<1>4. runs' \in [Worker -> RunRows]
  BY <1>3 DEF TypeOK, EndRun, CloseRun
<1>5. \A t \in Task : CloseTask(board[t], w, v) \in TaskRows
  BY <1>1, ZenonT(30) DEF TypeOK, CloseTask, TaskRows, Outcome, Statuses, InitUncertain
<1>6. board' \in [Task -> TaskRows]
  BY <1>5 DEF TypeOK, EndRun, CloseRun
<1>7. QED
  BY <1>4, <1>6

\* So does agent_stopped().
LEMMA AgentStoppedType ==
    ASSUME TypeOK, NEW w \in Worker, NEW c \in BOOLEAN, AgentStopped(w, c)
    PROVE  runs' \in [Worker -> RunRows] /\ board' \in [Task -> TaskRows]
<1>1. runs[w] \in RunRows
  BY DEF TypeOK
<1>2. [runs[w] EXCEPT !.stopConfirmed = c, !.agentUncertain = ~c] \in RunRows
  BY <1>1 DEF RunRows
<1>3. runs' \in [Worker -> RunRows]
  BY <1>2 DEF TypeOK, AgentStopped
<1>4. \A u \in Task, x \in BOOLEAN :
        [board[u] EXCEPT !.agentUncertain = x] \in TaskRows
  BY DEF TypeOK, TaskRows
<1>5. \A u \in Task :
        (~c \/ (board[u].agentUncertain /\ UncertainRun(runs', u))) \in BOOLEAN
  OBVIOUS
<1>6. board' \in [Task -> TaskRows]
  BY <1>4, <1>5 DEF TypeOK, AgentStopped
<1>7. QED
  BY <1>3, <1>6

LEMMA UnwindType ==
    ASSUME TypeOK, NEW w \in Worker, NEW u \in Unwinding(w), Unwind(w, u),
           UNCHANGED row, pc' \in [Process -> PCs]
    PROVE  TypeOK'
<1>1. u.verdict \in Verdicts
  BY DEF Unwinding, Verdicts, TypeOK
<1>2. QED
  BY <1>1 DEF TypeOK, Unwind

LEMMA UnwoundStage ==
    ASSUME TypeOK, NEW w \in Worker, NEW u \in Unwinding(w)
    PROVE  u.pc \in PCs
BY DEF Unwinding, PCs, Working

LEMMA KilledType == ASSUME TypeOK, NEW w \in Worker, Killed(w) PROVE TypeOK'
BY NoRowTypes DEF TypeOK, Killed, PCs, Starting, Process, Verdicts

LEMMA PeopleType == ASSUME TypeOK, People PROVE TypeOK'
<1>1. ASSUME NEW t \in Task, CreateTask(t) PROVE TypeOK'
  BY <1>1 DEF TypeOK, CreateTask, BoardOnly, TaskRows, Statuses, NoTask
<1>2. ASSUME NEW t \in Task, AddUserComment(t) PROVE TypeOK'
  <2>1. [board[t] EXCEPT !.status = "OPEN"] \in TaskRows
    BY DEF TypeOK, TaskRows, Statuses
  <2>2. QED
    BY <1>2, <2>1 DEF TypeOK, AddUserComment, BoardOnly
<1>3. ASSUME NEW t \in Task, DeleteTask(t) PROVE TypeOK'
  <2>1. \A w \in Worker : [runs[w] EXCEPT !.task = None] \in RunRows
    BY DEF TypeOK, RunRows
  <2>2. QED
    BY <1>3, <2>1, NoRowTypes DEF TypeOK, DeleteTask, BoardOnly
<1>4. ASSUME NEW t \in Task, NEW s \in Columns, MoveTask(t, s) PROVE TypeOK'
  <2>1. board[t] \in TaskRows /\ Disowned(board[t]) \in Worker \cup {None}
    BY DEF TypeOK, TaskRows, Disowned
  <2>2. [board[t] EXCEPT !.status = s, !.active = Disowned(board[t])]
          \in TaskRows
    BY <2>1, ColumnsAssumption DEF TaskRows
  <2>3. QED
    BY <1>4, <2>2 DEF TypeOK, MoveTask, BoardOnly
<1>5. ASSUME ClearDatabase PROVE TypeOK'
  BY <1>5, NoRowTypes DEF TypeOK, ClearDatabase, BoardOnly
<1>6. ASSUME NEW w \in Worker, ConfirmRemoteStop(w) PROVE TypeOK'
  <2>1. runs[w] \in RunRows
    BY DEF TypeOK
  <2>2. [runs[w] EXCEPT !.agentUncertain = FALSE, !.stopConfirmed = TRUE]
          \in RunRows
    BY <2>1 DEF RunRows
  <2>3. \A t \in Task : [board[t] EXCEPT !.agentUncertain = FALSE] \in TaskRows
    BY DEF TypeOK, TaskRows
  <2>4. QED
    BY <1>6, <2>2, <2>3 DEF TypeOK, ConfirmRemoteStop, BoardOnly
<1>7. QED
  BY <1>1, <1>2, <1>3, <1>4, <1>5, <1>6 DEF People

LEMMA RecoverType == ASSUME TypeOK, NEW p \in Process, Recover(p) PROVE TypeOK'
<1>1. AfterRecovery(p) \in PCs
  BY DEF AfterRecovery, PCs, Starting
<1>2. CASE Snapshot(p)
  <2>1. \A w \in Worker : [run |-> w, phase |-> runs[w].phase,
                           confirmed |-> runs[w].stopConfirmed] \in Rows
    BY DEF TypeOK, RunRows, Rows
  <2>2. pc' \in [Process -> PCs]
    BY <1>2 DEF TypeOK, Snapshot, Step, PCs, Starting
  <2>3. row' \in [Process -> Rows]
    BY <1>2, <2>1 DEF TypeOK, Snapshot, ActiveRuns
  <2>4. QED
    BY <1>2, <2>2, <2>3 DEF TypeOK, Snapshot
<1>3. ASSUME NEW w \in Worker, CloseDead(p, w) PROVE TypeOK'
  <2>1. RecoveredVerdict(row[p]) \in Verdicts
    BY DEF RecoveredVerdict, Verdicts
  <2>2. runs' \in [Worker -> RunRows] /\ board' \in [Task -> TaskRows]
    BY <1>3, <2>1, EndRunType DEF CloseDead
  <2>3. QED
    BY <1>1, <1>3, <2>2, NoRowTypes DEF TypeOK, CloseDead
<1>4. ASSUME NEW w \in Worker, LeaveAlive(p, w) PROVE TypeOK'
  BY <1>1, <1>4, NoRowTypes DEF TypeOK, LeaveAlive
<1>5. ASSUME NEW w \in Worker, TerminateExpired(p, w) PROVE TypeOK'
  <2>1. PICK u \in Unwinding(w) :
          /\ Unwind(w, u)
          /\ pc' = [pc EXCEPT ![p] = "wait", ![w] = u.pc]
    BY <1>5 DEF TerminateExpired
  <2>2. "wait" \in PCs /\ u.pc \in PCs
    BY UnwoundStage DEF PCs, Starting
  <2>3. pc' \in [Process -> PCs]
    BY <2>1, <2>2 DEF TypeOK
  <2>4. QED
    BY <1>5, <2>1, <2>3, UnwindType DEF TerminateExpired
<1>6. ASSUME NEW w \in Worker, KillExpired(p, w) PROVE TypeOK'
  BY <1>6, KilledType DEF KillExpired
<1>7. QED
  BY <1>2, <1>3, <1>4, <1>5, <1>6 DEF Recover

LEMMA ClaimType == ASSUME TypeOK, NEW w \in Worker, Claim(w) PROVE TypeOK'
<1>1. PICK t \in Task : Claim(w)!3!(t)
  BY DEF Claim
<1>2. [NoRun EXCEPT !.state = "PREPARING", !.task = t] \in RunRows
  BY DEF NoRun, RunRows, Phases, Active
<1>3. runs' \in [Worker -> RunRows]
  BY <1>1, <1>2 DEF TypeOK
<1>4. [board[t] EXCEPT !.status = "IN PROGRESS", !.active = w] \in TaskRows
  BY DEF TypeOK, TaskRows, Statuses
<1>5. board' \in [Task -> TaskRows]
  BY <1>1, <1>4 DEF TypeOK
<1>6. NeedsInit(t) \in BOOLEAN
  BY InitEnabledAssumption DEF NeedsInit
<1>7. fresh' \in [Worker -> BOOLEAN]
  BY <1>1, <1>6 DEF TypeOK
<1>8. pc' \in [Process -> PCs]
  BY DEF TypeOK, Claim, Step, PCs, Working, Process
<1>9. QED
  BY <1>3, <1>5, <1>7, <1>8 DEF TypeOK, Claim

\* Steps that move the executor and its verdict, and nothing else it types.
LEMMA EnterPhaseType ==
    ASSUME TypeOK, NEW w \in Worker, NEW from, NEW to \in Working,
           NEW f \in Phases, EnterPhase(w, from, to, f)
    PROVE  TypeOK'
<1>1. pc' \in [Process -> PCs]
  BY DEF TypeOK, EnterPhase, Step, Fail, PCs, Working, Process
<1>2. verdict' \in [Worker -> Verdicts]
  BY DEF TypeOK, EnterPhase, Fail, Verdicts
<1>3. [runs[w] EXCEPT !.phase = f] \in RunRows
  BY SMTT(20) DEF TypeOK, RunRows
<1>4. runs' \in [Worker -> RunRows]
  BY <1>3 DEF TypeOK, EnterPhase
<1>5. QED
  BY <1>1, <1>2, <1>4 DEF TypeOK, EnterPhase

LEMMA PerformType == ASSUME TypeOK, NEW w \in Worker, Perform(w) PROVE TypeOK'
<1>p. [runs[w] EXCEPT !.agentPid = TRUE] \in RunRows
  BY ZenonT(30) DEF TypeOK, RunRows
<1>r. \A x \in {"none", "SUCCEEDED", "FAILED"} :
        [runs[w] EXCEPT !.initResult = x] \in RunRows
  BY SMTT(20) DEF TypeOK, RunRows
<1>s. \A t \in Task : [board[t] EXCEPT !.initSucceeded = TRUE] \in TaskRows
  BY DEF TypeOK, TaskRows
<1> USE DEF Process, PCs, Starting, Working, Verdicts, RemoteStates
<1>1. CASE PrepareFails(w)
  BY <1>1 DEF TypeOK, PrepareFails, Fail
<1>2. CASE BeginInit(w)
  BY <1>2, EnterPhaseType DEF BeginInit, Phases
<1>3. CASE BeginAgent(w)
  BY <1>3, EnterPhaseType DEF BeginAgent, Phases
<1>4. CASE InitNotStarted(w)
  BY <1>4 DEF TypeOK, InitNotStarted, Fail, Internal
<1>5. CASE InitPid(w)
  BY <1>5 DEF TypeOK, InitPid, Step, Internal
<1>6. CASE InitGo(w)
  BY <1>6 DEF TypeOK, InitGo, Step, Internal
<1>7. CASE InitFails(w)
  BY <1>7 DEF TypeOK, InitFails, Fail, Internal
<1>8. CASE InitSucceeds(w)
  BY <1>8 DEF TypeOK, InitSucceeds, Step, Internal
<1>9. CASE InitStop(w)
  BY <1>9 DEF TypeOK, InitStop, Fail, Internal, Stopped
<1>10. CASE InitSaved(w)
  <2>1. runs[w].initResult \in {"none", "SUCCEEDED", "FAILED"}
    BY DEF TypeOK, RunRows
  <2>2. runs' \in [Worker -> RunRows]
    BY <1>10, <1>r, <2>1 DEF TypeOK, InitSaved
  <2>3. board' \in [Task -> TaskRows]
    BY <1>10, <1>s DEF TypeOK, InitSaved
  <2>4. QED
    BY <1>10, <2>2, <2>3 DEF TypeOK, InitSaved, Fail
<1>11. CASE AgentStart(w)
  <2>1. [runs[w] EXCEPT !.state = "RUNNING"] \in RunRows
    BY DEF TypeOK, RunRows, Active
  <2>2. QED
    BY <1>11, <2>1 DEF TypeOK, AgentStart, Step
<1>12. CASE SavePid(w)
  BY <1>12, <1>p DEF TypeOK, SavePid, Fail
<1>13. CASE SendGo(w)
  BY <1>13 DEF TypeOK, SendGo, Step, Internal
<1>14. CASE SaveSession(w)
  <2> DEFINE x == runs[w].session \/ runs[w].state \in Active
  <2>1. runs[w] \in RunRows /\ x \in BOOLEAN
    BY DEF TypeOK
  <2>2. [runs[w] EXCEPT !.session = x] \in RunRows
    BY <2>1 DEF RunRows
  <2>3. runs' = [runs EXCEPT ![w] = [runs[w] EXCEPT !.session = x]]
    BY <1>14 DEF SaveSession
  <2> HIDE DEF x
  <2>4. QED
    BY <1>14, <2>2, <2>3 DEF TypeOK, SaveSession, Step
<1>15. CASE EndTurn(w)
  BY <1>15 DEF TypeOK, EndTurn, Fail, Internal
<1>16. CASE AgentFails(w)
  BY <1>16 DEF TypeOK, AgentFails, Fail, Internal
<1>17. CASE AgentStop(w)
  <2>1. UnconfirmedVerdict(verdict[w]) \in Verdicts
    BY DEF UnconfirmedVerdict, TypeOK
  <2>2. runs' \in [Worker -> RunRows] /\ board' \in [Task -> TaskRows]
    BY <1>17, AgentStoppedType DEF AgentStop, TypeOK
  <2>3. QED
    BY <1>17, <2>1, <2>2 DEF AgentStop, Step, TypeOK, Stopped
<1>18. CASE Finish(w)
  <2>1. runs' \in [Worker -> RunRows] /\ board' \in [Task -> TaskRows]
    <3>1. verdict[w] \in Verdicts
      BY DEF TypeOK
    <3>2. QED
      BY <1>18, <3>1, EndRunType DEF Finish
  <2>2. QED
    BY <1>18, <2>1 DEF TypeOK, Finish, Fail
<1>19. QED
  BY <1>1, <1>2, <1>3, <1>4, <1>5, <1>6, <1>7, <1>8, <1>9, <1>10, <1>11,
     <1>12, <1>13, <1>14, <1>15, <1>16, <1>17, <1>18 DEF Perform

LEMMA TypeStep == TypeOK /\ [Next]_vars => TypeOK'
<1> SUFFICES ASSUME TypeOK, [Next]_vars PROVE TypeOK'
  OBVIOUS
<1>1. CASE People
  BY <1>1, PeopleType
<1>2. ASSUME NEW p \in Process, Recover(p) PROVE TypeOK'
  BY <1>2, RecoverType
<1>3. ASSUME NEW w \in Worker, Claim(w) PROVE TypeOK'
  BY <1>3, ClaimType
<1>4. ASSUME NEW w \in Worker, ClaimNothing(w) PROVE TypeOK'
  BY <1>4 DEF TypeOK, ClaimNothing, Step, Process, PCs, Starting
<1>5. ASSUME NEW w \in Worker, Perform(w) PROVE TypeOK'
  BY <1>5, PerformType
<1>6. ASSUME NEW w \in Worker, Crash(w) PROVE TypeOK'
  BY <1>6, KilledType DEF Crash
<1>7. ASSUME NEW w \in Worker, Shutdown(w) PROVE TypeOK'
  <2>1. PICK u \in Unwinding(w) : Unwind(w, u) /\ pc' = [pc EXCEPT ![w] = u.pc]
    BY <1>7 DEF Shutdown
  <2>2. pc' \in [Process -> PCs]
    BY <2>1, UnwoundStage DEF TypeOK
  <2>3. QED
    BY <1>7, <2>1, <2>2, UnwindType DEF Shutdown
<1>8. ASSUME NEW w \in Worker, RemoteExit(w) PROVE TypeOK'
  BY <1>8 DEF TypeOK, RemoteExit, RemoteStates
<1>9. CASE UNCHANGED vars
  BY <1>9 DEF TypeOK, vars
<1>10. ASSUME NEW p \in Process, RecoveryDies(p) PROVE TypeOK'
  BY <1>10, NoRowTypes DEF TypeOK, RecoveryDies, Step, PCs, Starting
<1>11. QED
  BY <1>1, <1>2, <1>3, <1>4, <1>5, <1>6, <1>7, <1>8, <1>9, <1>10 DEF Next

(* Every reachable state is well-typed: in particular both tables only ever *)
(* hold values their schema allows, whoever writes them.                    *)
THEOREM TypeCorrect == Spec => []TypeOK
<1>1. Init => TypeOK
  BY NoRowTypes DEF Init, TypeOK, PCs, Starting, Verdicts, RemoteStates
<1>2. QED
  BY <1>1, TypeStep, PTL DEF Spec

-----------------------------------------------------------------------------
(* SAFETY.  Frames: what a step must leave alone to keep a part of the invariant. *)

LEMMA StageSets ==
    /\ Starting \cap Working = {}
    /\ "gone" \notin Starting \cup Working
    /\ {"inspect", "wait", "claim", "off"} = Starting
    /\ Active \cap Ended = {}
    /\ NoRun.state \notin Active \cup Ended
    /\ ~NoRun.agentUncertain /\ ~NoRun.stopConfirmed /\ ~NoRun.agentPid
    /\ NoRun.task = None /\ NoRow.run = None /\ NoTask.status = "ABSENT"
    /\ ~NoTask.agentUncertain /\ ~NoTask.initUncertain
BY DEF Starting, Working, Active, Ended, NoRun, NoRow, NoTask

\* Steps that neither close, reassign or mark a run, nor free a task, and
\* start no agent but that of an active run.
LEMMA DataFrame ==
    ASSUME TypeOK, Data, gaps \subseteq gaps',
           \A t \in Task :
              /\ board'[t].agentUncertain = board[t].agentUncertain
              /\ board[t].initUncertain => board'[t].initUncertain
              /\ board'[t].status = "ABSENT" => board'[t] = board[t],
           \A w \in Worker :
              /\ runs'[w].task = runs[w].task
              /\ runs'[w].agentUncertain = runs[w].agentUncertain
              /\ runs'[w].state \in Active <=> runs[w].state \in Active
              /\ runs'[w].state \in Ended => runs'[w] = runs[w]
              /\ init'[w] = "running" => init[w] = "running"
              /\ agent'[w] = "running" =>
                    agent[w] = "running" \/ runs[w].state \in Active
    PROVE  Data'
<1>t. \A w \in Worker : runs[w].task \in Task \cup {None}
  BY DEF TypeOK, RunRows
<1>1. References'
  BY <1>t DEF Data, References
<1>2. OneHolder'
  BY DEF Data, OneHolder
<1>3. MarksAgree'
  BY DEF Data, MarksAgree, UncertainRun
<1>4. StoppedOrMarked'
  BY DEF Data, StoppedOrMarked
<1>5. InitIsGuarded'
  BY <1>t DEF Data, InitIsGuarded
<1>6. InitSettled'
  BY DEF Data, InitSettled
<1>7. InitAlone'
  BY DEF Data, InitAlone, InitSettled
<1>8. QED
  BY <1>1, <1>2, <1>3, <1>4, <1>5, <1>6, <1>7 DEF Data

\* Steps of one executor, which owns its row, verdict and remote processes;
\* a process that judges it may begin to wait for it.
LEMMA ControlFrame ==
    ASSUME Control, NEW w \in Worker, gaps \subseteq gaps', row' = row,
           \A p \in Process \ {w} :
              pc'[p] = pc[p] \/ (pc[p] = "inspect" /\ pc'[p] = "wait"),
           \A v \in Worker \ {w} : /\ verdict'[v] = verdict[v]
                                   /\ runs'[v] = runs[v]
                                   /\ init'[v] = init[v]
                                   /\ agent'[v] = agent[v],
           pc[w] \notin {"inspect", "wait"}, pc'[w] \notin {"inspect", "wait"},
           pc[w] \in Working \cup {"gone"} =>
              /\ pc'[w] \in Working \cup {"gone"}
              /\ runs'[w].state \in Active => runs[w].state \in Active
              /\ runs[w].state \in Active /\ runs[w].stopConfirmed =>
                    runs'[w].stopConfirmed,
           Stage(w)', Report(w)', Remote(w)'
    PROVE  Control'
<1>1. ASSUME NEW v \in Worker, v # w PROVE Stage(v)'
  <2>1. Stage(v)
    BY DEF Control
  <2>2. /\ runs'[v] = runs[v] /\ init'[v] = init[v] /\ agent'[v] = agent[v]
        /\ pc'[v] = pc[v] \/ (pc[v] = "inspect" /\ pc'[v] = "wait")
    BY <1>1 DEF Process
  <2>3. CASE pc'[v] = pc[v]
    BY <2>1, <2>2, <2>3, ZenonT(30) DEF Stage
  <2>4. CASE pc[v] = "inspect" /\ pc'[v] = "wait"
    BY <2>1, <2>2, <2>4 DEF Stage, Starting, Working
  <2>5. QED
    BY <2>2, <2>3, <2>4
<1>2. ASSUME NEW v \in Worker, v # w PROVE Report(v)'
  BY <1>2 DEF Control, Report, Process
<1>3. ASSUME NEW v \in Worker, v # w PROVE Remote(v)'
  BY <1>3 DEF Control, Remote, Process
<1>4. ASSUME NEW p \in Process PROVE Copy(p)'
  <2>1. Copy(p)
    BY DEF Control
  <2>2. pc'[p] \in {"inspect", "wait"} <=> pc[p] \in {"inspect", "wait"}
    OBVIOUS
  <2>3. CASE pc[p] \notin {"inspect", "wait"}
    BY <2>1, <2>2, <2>3 DEF Copy
  <2>4. CASE pc[p] \in {"inspect", "wait"} /\ row[p].run = w
    BY <2>1, <2>2, <2>4 DEF Copy, SameScope
  <2>5. CASE pc[p] \in {"inspect", "wait"} /\ row[p].run # w
    <3>1. /\ row[p].run \in Worker \ {w} /\ row[p].run \in Process
          /\ pc[row[p].run] \in Working \cup {"gone"}
      BY <2>1, <2>5 DEF Copy, Process
    <3>2. pc'[row[p].run] = pc[row[p].run]
      BY <3>1, StageSets
    <3>3. QED
      BY <2>1, <2>2, <2>5, <3>1, <3>2 DEF Copy, SameScope
  <2>6. QED
    BY <2>3, <2>4, <2>5
<1>5. QED
  BY <1>1, <1>2, <1>3, <1>4 DEF Control

-----------------------------------------------------------------------------
(* Executors: steps that only move the process. *)

\* The transitions of a quiet executor respect what the stages promise.
Quiet(from, to, s) ==
    \/ from \in {"prepare", "init", "initDone", "beginAgent"} /\ to = "finish"
    \/ from = "init" /\ to \in {"initGo", "initStop"}
    \/ from \in {"initGo", "initRun"} /\ to = "initStop"
    \/ from = "initRun" /\ s # "running" /\ to = "initDone"
    \/ from \in {"agent", "handshake", "go", "session", "prompt"} /\ to = "agentStop"
    \/ from = "claim" /\ to = "off"
    \/ from \in Working /\ to = "gone"

LEMMA QuietStage ==
    ASSUME NEW w \in Worker, Stage(w), Remote(w), NEW to \in PCs,
           UNCHANGED <<runs, init, agent>>,
           pc'[w] = to, Quiet(pc[w], to, init[w])
    PROVE  Stage(w)' /\ Report(w)'
<1>1. CASE pc[w] \in {"prepare", "init", "initDone", "beginAgent"} /\ to = "finish"
  BY <1>1 DEF Stage, Remote, Report, Starting, Working
<1>2. CASE pc[w] = "init" /\ to \in {"initGo", "initStop"}
  BY <1>2 DEF Stage, Report, Starting, Working
<1>3. CASE pc[w] \in {"initGo", "initRun"} /\ to = "initStop"
  BY <1>3 DEF Stage, Report, Starting, Working
<1>4. CASE pc[w] = "initRun" /\ init[w] # "running" /\ to = "initDone"
  BY <1>4 DEF Stage, Report, Starting, Working
<1>5. CASE /\ pc[w] \in {"agent", "handshake", "go", "session", "prompt"}
           /\ to = "agentStop"
  BY <1>5 DEF Stage, Report, Starting, Working
<1>6. CASE pc[w] = "claim" /\ to = "off"
  BY <1>6 DEF Stage, Report, Starting, Working
<1>7. CASE pc[w] \in Working /\ to = "gone"
  BY <1>7 DEF Stage, Report, Starting, Working
<1>8. QED
  BY <1>1, <1>2, <1>3, <1>4, <1>5, <1>6, <1>7 DEF Quiet

\* Only processes, verdicts and gaps change; p may begin to wait for w.
LEMMA SilentStep ==
    ASSUME IInv, NEW w \in Worker, UNCHANGED <<board, runs, row, init, agent>>,
           gaps \subseteq gaps',
           \A p \in Process \ {w} :
              pc'[p] = pc[p] \/ (pc[p] = "inspect" /\ pc'[p] = "wait"),
           \A v \in Worker \ {w} : verdict'[v] = verdict[v],
           pc[w] \notin {"inspect", "wait"}, pc'[w] \notin {"inspect", "wait"},
           pc[w] \in Working \cup {"gone"} => pc'[w] \in Working \cup {"gone"},
           Stage(w)', Report(w)'
    PROVE  Control' /\ Data'
<1>1. TypeOK /\ Control /\ Data /\ Remote(w)
  BY DEF IInv, Control
<1>2. Remote(w)'
  BY <1>1 DEF Remote
<1>3. Data'
  BY <1>1, DataFrame
<1>4. Control'
  BY <1>1, <1>2, ControlFrame
<1>5. QED
  BY <1>3, <1>4

LEMMA QuietMove ==
    ASSUME IInv, NEW w \in Worker, NEW to \in PCs, NEW v,
           UNCHANGED <<board, runs, row, init, agent, gaps>>,
           pc' = [pc EXCEPT ![w] = to], verdict' = [verdict EXCEPT ![w] = v],
           Quiet(pc[w], to, init[w])
    PROVE  Control' /\ Data'
<1>1. TypeOK /\ Stage(w) /\ Remote(w)
  BY DEF IInv, Control
<1>2. /\ pc'[w] = to /\ \A p \in Process \ {w} : pc'[p] = pc[p]
      /\ \A u \in Worker \ {w} : verdict'[u] = verdict[u]
  BY <1>1 DEF TypeOK, Process
<1>3. Stage(w)' /\ Report(w)'
  BY <1>1, <1>2, QuietStage
<1>4. /\ pc[w] \notin {"inspect", "wait"} /\ to \notin {"inspect", "wait"}
      /\ pc[w] \in Working \cup {"gone"} => to \in Working \cup {"gone"}
  BY DEF Quiet, Working
<1>5. QED
  BY <1>2, <1>3, <1>4, SilentStep

LEMMA QuietActions ==
    ASSUME IInv, NEW w \in Worker,
           \/ PrepareFails(w) \/ InitNotStarted(w) \/ InitPid(w)
           \/ InitFails(w) \/ InitSucceeds(w) \/ EndTurn(w) \/ AgentFails(w)
           \/ ClaimNothing(w)
    PROVE  Control' /\ Data'
<1>1. verdict = [verdict EXCEPT ![w] = verdict[w]]
  BY DEF IInv, TypeOK
<1>2. {"finish", "initGo", "initStop", "initDone", "agentStop", "off"} \subseteq PCs
  BY DEF PCs, Starting, Working
<1>3. CASE PrepareFails(w)
  BY <1>2, <1>3, QuietMove DEF PrepareFails, Fail, Quiet
<1>4. CASE InitNotStarted(w)
  BY <1>2, <1>4, QuietMove DEF InitNotStarted, Fail, Internal, Quiet
<1>5. CASE InitPid(w)
  BY <1>1, <1>2, <1>5, QuietMove DEF InitPid, Step, Internal, Quiet
<1>6. CASE InitFails(w)
  BY <1>2, <1>6, QuietMove DEF InitFails, Fail, Internal, Quiet
<1>7. CASE InitSucceeds(w)
  BY <1>1, <1>2, <1>7, QuietMove DEF InitSucceeds, Step, Internal, Quiet
<1>8. CASE EndTurn(w)
  BY <1>2, <1>8, QuietMove DEF EndTurn, Fail, Internal, Quiet
<1>9. CASE AgentFails(w)
  BY <1>2, <1>9, QuietMove DEF AgentFails, Fail, Internal, Quiet
<1>10. CASE ClaimNothing(w)
  BY <1>1, <1>2, <1>10, QuietMove DEF ClaimNothing, Step, Quiet
<1>11. QED
  BY <1>3, <1>4, <1>5, <1>6, <1>7, <1>8, <1>9, <1>10

\* SIGTERM: an interrupted cleanup is one of the gaps.
LEMMA UnwindStage ==
    ASSUME IInv, NEW w \in Worker, NEW u \in Unwinding(w), Unwind(w, u),
           pc'[w] = u.pc
    PROVE  /\ Stage(w)' /\ Report(w)' /\ gaps \subseteq gaps'
           /\ pc[w] \in Working /\ pc'[w] \in Working \cup {"gone"}
<1>1. TypeOK /\ Stage(w) /\ Report(w) /\ Remote(w)
  BY DEF IInv, Control
<1>2. UNCHANGED <<runs, init, agent>> /\ gaps \subseteq gaps'
  BY DEF Unwind
<1>3. verdict'[w] = u.verdict
  BY <1>1 DEF Unwind, TypeOK
<1>4. CASE Quiet(pc[w], u.pc, init[w])
  <2>1. u.pc \in PCs /\ pc[w] \in Working /\ u.pc \in Working \cup {"gone"}
    BY <1>1, UnwoundStage DEF Unwinding, Working
  <2>2. QED
    BY <1>1, <1>2, <1>4, <2>1, QuietStage
<1>5. CASE pc[w] \in {"initStop", "agentStop"} /\ u.pc = "finish" /\ u.gap
  <2>1. w \in gaps'
    BY <1>5 DEF Unwind
  <2>2. QED
    BY <1>1, <1>2, <1>5, <2>1 DEF Stage, Report, Starting, Working
<1>6. CASE pc[w] = "finish" /\ u.pc = "finish"
  <2>1. Stage(w)'
    BY <1>1, <1>2, <1>6 DEF Stage
  <2> DEFINE unsaved == \/ verdict[w] = "initUncertain"
                        \/ verdict[w] = "agentUncertain" /\ ~runs[w].agentUncertain
  <2>2. u.gap = unsaved
    <3>1. u \in {[pc |-> "finish", verdict |-> "exit", gap |-> unsaved],
                 [pc |-> "gone", verdict |-> "error", gap |-> FALSE]}
      BY <1>6 DEF Unwinding
    <3> HIDE DEF unsaved
    <3>2. QED
      BY <1>6, <3>1
  <2>3. w \notin gaps' => w \notin gaps /\ ~u.gap
    BY DEF Unwind
  <2>4. Report(w)'
    BY <1>1, <1>2, <1>6, <2>2, <2>3 DEF Report
  <2>5. QED
    BY <1>2, <1>6, <2>1, <2>4 DEF Working
<1>7. QED
  BY <1>4, <1>5, <1>6 DEF Unwinding, Quiet, Working

LEMMA ShutdownKeeps ==
    ASSUME IInv, NEW w \in Worker, Shutdown(w) PROVE Control' /\ Data'
<1>1. PICK u \in Unwinding(w) : Unwind(w, u) /\ pc' = [pc EXCEPT ![w] = u.pc]
  BY DEF Shutdown
<1>2. /\ pc'[w] = u.pc /\ \A p \in Process \ {w} : pc'[p] = pc[p]
      /\ \A v \in Worker \ {w} : verdict'[v] = verdict[v]
  BY <1>1 DEF IInv, TypeOK, Process, Unwind
<1>3. UNCHANGED <<board, runs, row, init, agent>>
  BY <1>1 DEF Unwind, Shutdown
<1>4. /\ Stage(w)' /\ Report(w)' /\ gaps \subseteq gaps'
      /\ pc[w] \in Working /\ pc'[w] \in Working \cup {"gone"}
  BY <1>1, <1>2, UnwindStage
<1>5. QED
  BY <1>2, <1>3, <1>4, StageSets, SilentStep

LEMMA TerminateKeeps ==
    ASSUME IInv, NEW p \in Process, NEW w \in Worker, TerminateExpired(p, w)
    PROVE  Control' /\ Data'
<1>1. PICK u \in Unwinding(w) :
        Unwind(w, u) /\ pc' = [pc EXCEPT ![p] = "wait", ![w] = u.pc]
  BY DEF TerminateExpired
<1>2. /\ pc'[w] = u.pc
      /\ \A q \in Process \ {w} :
            pc'[q] = pc[q] \/ (pc[q] = "inspect" /\ pc'[q] = "wait")
      /\ \A v \in Worker \ {w} : verdict'[v] = verdict[v]
  BY <1>1 DEF IInv, TypeOK, Process, Unwind, TerminateExpired
<1>3. UNCHANGED <<board, runs, row, init, agent>>
  BY <1>1 DEF Unwind, TerminateExpired
<1>4. /\ Stage(w)' /\ Report(w)' /\ gaps \subseteq gaps'
      /\ pc[w] \in Working /\ pc'[w] \in Working \cup {"gone"}
  BY <1>1, <1>2, UnwindStage
<1>5. QED
  BY <1>2, <1>3, <1>4, StageSets, SilentStep

-----------------------------------------------------------------------------
(* Executors: steps that write their own row or start a remote process. *)

\* What such a step must show of itself to keep Control.
LEMMA WorkerStep ==
    ASSUME IInv, NEW w \in Worker,
           pc[w] \in Working, pc'[w] \in Working \cup {"gone"},
           row' = row, gaps \subseteq gaps',
           \A p \in Process \ {w} : pc'[p] = pc[p],
           \A v \in Worker \ {w} : /\ verdict'[v] = verdict[v]
                                   /\ runs'[v] = runs[v]
                                   /\ init'[v] = init[v]
                                   /\ agent'[v] = agent[v],
           runs[w].stopConfirmed => runs'[w].stopConfirmed,
           Stage(w)', Report(w)', Remote(w)'
    PROVE  Control'
<1>1. Control /\ Stage(w)
  BY DEF IInv, Control
<1>2. runs[w].state \in Active
  BY <1>1 DEF Stage
<1>3. pc[w] \notin {"inspect", "wait"} /\ pc'[w] \notin {"inspect", "wait"}
  BY StageSets
<1>4. QED
  BY <1>1, <1>2, <1>3, ControlFrame

LEMMA EnterPhaseKeeps ==
    ASSUME IInv, NEW w \in Worker, NEW from, NEW to, NEW f,
           EnterPhase(w, from, to, f),
           \/ from = "prepare" /\ to = "init" /\ f = "Init"
           \/ from \in {"prepare", "beginAgent"} /\ to = "agent" /\ f = "Agent"
    PROVE  Control' /\ Data'
<1>1. TypeOK /\ Data /\ Stage(w) /\ Remote(w)
  BY DEF IInv, Control
<1>2. CASE ~Owner(w)
  <2>1. Quiet(pc[w], "finish", init[w])
    BY <1>2 DEF EnterPhase, Fail, Quiet
  <2>2. QED
    BY <1>2, <2>1, QuietMove DEF EnterPhase, Fail, PCs, Working
<1>3. CASE Owner(w)
  <2> DEFINE r == [runs[w] EXCEPT !.phase = f]
  <2>1. /\ pc[w] = from /\ pc' = [pc EXCEPT ![w] = to]
        /\ runs' = [runs EXCEPT ![w] = r]
        /\ UNCHANGED <<board, row, verdict, init, agent, gaps>>
    BY <1>3 DEF EnterPhase, Step
  <2>2. /\ pc'[w] = to /\ runs'[w] = r /\ runs[w] \in RunRows
    BY <1>1, <2>1 DEF TypeOK, Process
  <2>3. /\ r.phase = f /\ r.state = runs[w].state /\ r.task = runs[w].task
        /\ r.agentPid = runs[w].agentPid
        /\ r.stopConfirmed = runs[w].stopConfirmed
        /\ r.agentUncertain = runs[w].agentUncertain
    BY <2>2 DEF RunRows
  <2> HIDE DEF r
  <2>4. runs[w].state \in Active /\ runs[w].state \notin {"none"}
    BY <1>1, <2>1 DEF Stage, Working, Active
  <2>5. Stage(w)'
    BY <1>1, <2>1, <2>2, <2>3, <2>4 DEF Stage, Starting, Working
  <2>6. Report(w)'
    BY <2>2 DEF Report
  <2>7. Remote(w)'
    BY <1>1, <2>1, <2>2, <2>3 DEF Stage, Remote, Working
  <2>8. /\ \A p \in Process \ {w} : pc'[p] = pc[p]
        /\ \A v \in Worker \ {w} : runs'[v] = runs[v]
    BY <1>1, <2>1 DEF TypeOK, Process
  <2>9. Control'
    <3>1. pc[w] \in Working /\ to \in Working
      BY <2>1 DEF Working
    <3>2. QED
      BY <2>1, <2>2, <2>3, <2>5, <2>6, <2>7, <2>8, <3>1, WorkerStep
  <2>10. Data'
    BY <1>1, <2>1, <2>2, <2>3, <2>4, StageSets, DataFrame DEF TypeOK
  <2>11. QED
    BY <2>9, <2>10
<1>4. QED
  BY <1>2, <1>3

LEMMA BeginKeeps ==
    ASSUME IInv, NEW w \in Worker, BeginInit(w) \/ BeginAgent(w)
    PROVE  Control' /\ Data'
BY EnterPhaseKeeps DEF BeginInit, BeginAgent

\* The agent's bookkeeping: started, agent_pid and session.
LEMMA AgentRowKeeps ==
    ASSUME IInv, NEW w \in Worker,
           AgentStart(w) \/ SavePid(w) \/ SaveSession(w)
    PROVE  Control' /\ Data'
<1>1. /\ TypeOK /\ Data /\ Stage(w) /\ Remote(w) /\ runs[w] \in RunRows
      /\ UNCHANGED <<board, row, init, agent, gaps>>
  BY DEF IInv, Control, TypeOK, AgentStart, SavePid, SaveSession
<1>2. runs[w].state \in Active \/ pc[w] \notin {"agent", "handshake", "session"}
  BY <1>1 DEF Stage, Working
<1>3. /\ \A p \in Process \ {w} : pc'[p] = pc[p]
      /\ \A v \in Worker \ {w} : runs'[v] = runs[v] /\ verdict'[v] = verdict[v]
  BY <1>1 DEF TypeOK, Process, AgentStart, SavePid, SaveSession, Step, Fail
<1>4. /\ pc[w] \in {"agent", "handshake", "session"}
      /\ pc'[w] \in {"handshake", "go", "agentStop", "prompt"}
      /\ pc'[w] = "prompt" => pc[w] = "session"
      /\ pc'[w] = "go" => pc[w] = "handshake"
  BY <1>1 DEF TypeOK, Process, AgentStart, SavePid, SaveSession, Step, Fail
<1>5. /\ runs'[w].phase = runs[w].phase /\ runs'[w].task = runs[w].task
      /\ runs'[w].stopConfirmed = runs[w].stopConfirmed
      /\ runs'[w].agentUncertain = runs[w].agentUncertain
      /\ runs'[w].state \in Active
      /\ pc[w] # "handshake" => runs'[w].agentPid = runs[w].agentPid
      /\ pc[w] = "handshake" => runs'[w].agentPid
  <2>1. CASE AgentStart(w)
    <3>1. runs'[w] = [runs[w] EXCEPT !.state = "RUNNING"] /\ pc[w] = "agent"
      BY <1>1, <2>1 DEF AgentStart, Step, TypeOK
    <3>2. QED
      BY <1>1, <3>1 DEF RunRows, Active
  <2>2. CASE SavePid(w)
    <3>1. runs'[w] = [runs[w] EXCEPT !.agentPid = TRUE] /\ pc[w] = "handshake"
      BY <1>1, <2>2 DEF SavePid, Fail, TypeOK
    <3>2. QED
      BY <1>1, <1>2, <3>1 DEF RunRows
  <2>3. CASE SaveSession(w)
    <3> DEFINE x == runs[w].session \/ runs[w].state \in Active
    <3>1. runs' = [runs EXCEPT ![w] = [runs[w] EXCEPT !.session = x]]
      BY <2>3 DEF SaveSession
    <3> HIDE DEF x
    <3>2. runs'[w] = [runs[w] EXCEPT !.session = x] /\ pc[w] = "session"
      BY <1>1, <2>3, <3>1 DEF SaveSession, Step, TypeOK
    <3>3. QED
      BY <1>1, <1>2, <3>2 DEF RunRows
  <2>4. QED
    BY <2>1, <2>2, <2>3
<1>6. runs[w].state \in Active /\ runs[w].state # "none" /\ runs'[w].state # "none"
  BY <1>2, <1>4, <1>5 DEF Active
<1>7. Stage(w)'
  BY <1>1, <1>4, <1>5, <1>6 DEF Stage, Starting, Working
<1>8. Report(w)'
  BY <1>4 DEF Report
<1>9. Remote(w)'
  BY <1>1, <1>4, <1>5 DEF Stage, Remote, Working
<1>10. Control'
  <2>1. pc[w] \in Working /\ pc'[w] \in Working
    BY <1>4 DEF Working
  <2>2. QED
    BY <1>1, <1>3, <1>5, <1>7, <1>8, <1>9, <2>1, WorkerStep
<1>11. Data'
  BY <1>1, <1>3, <1>5, <1>6, StageSets, DataFrame
<1>12. QED
  BY <1>10, <1>11


\* The mark or the active row answers for every agent that is at work.
LEMMA Tracked == IInv => NoUntrackedAgent
<1> SUFFICES ASSUME IInv, NEW w \in Worker \ gaps, agent[w] = "running",
                    runs[w].state \notin Active, ~runs[w].agentUncertain
             PROVE  FALSE
  BY DEF NoUntrackedAgent
<1>1. /\ Stage(w) /\ Remote(w) /\ StoppedOrMarked /\ runs[w] \in RunRows
  BY DEF IInv, Control, Data, TypeOK
<1>2. runs[w].agentPid /\ ~runs[w].stopConfirmed
  BY <1>1 DEF Remote
<1>3. runs[w].state # "none"
  BY <1>1, <1>2, StageSets DEF Stage
<1>4. runs[w].state \in Ended
  BY <1>1, <1>3 DEF RunRows
<1>5. QED
  BY <1>1, <1>2, <1>4 DEF StoppedOrMarked

\* While an executor works, no other run is active or marked.
LEMMA Alone ==
    ASSUME IInv, NEW w \in Worker, runs[w].state \in Active,
           NEW v \in Worker, v # w
    PROVE  /\ runs[v].state \notin Active /\ ~runs[v].agentUncertain
           /\ v \notin gaps => agent[v] # "running"
<1>1. OneHolder
  BY DEF IInv, Data
<1>2. runs[v].state \notin Active /\ ~runs[v].agentUncertain
  BY <1>1 DEF OneHolder
<1>3. v \notin gaps => agent[v] # "running"
  BY <1>2, Tracked DEF NoUntrackedAgent
<1>4. QED
  BY <1>2, <1>3

LEMMA InitGoKeeps ==
    ASSUME IInv, NEW w \in Worker, InitGo(w) PROVE Control' /\ Data'
<1>1. /\ TypeOK /\ Data /\ Stage(w) /\ Remote(w)
      /\ UNCHANGED <<board, runs, row, fresh, verdict, agent, gaps>>
  BY DEF IInv, Control, InitGo, Internal
<1>2. /\ pc[w] = "initGo" /\ pc'[w] = "initRun" /\ init'[w] = "running"
      /\ \A p \in Process \ {w} : pc'[p] = pc[p]
      /\ \A v \in Worker \ {w} : init'[v] = init[v]
  BY <1>1 DEF TypeOK, Process, InitGo, Step
<1>3. runs[w].state \in Active
  BY <1>1, <1>2 DEF Stage, Working
<1>4. Control'
  <2>1. Stage(w)'
    BY <1>1, <1>2 DEF Stage, Starting, Working
  <2>2. Report(w)' /\ Remote(w)'
    BY <1>1, <1>2 DEF Stage, Report, Remote
  <2>3. pc[w] \in Working /\ pc'[w] \in Working
    BY <1>2 DEF Working
  <2>4. QED
    BY <1>1, <1>2, <2>1, <2>2, <2>3, WorkerStep
<1>5. References' /\ OneHolder' /\ MarksAgree' /\ StoppedOrMarked'
  BY <1>1 DEF Data, References, OneHolder, MarksAgree, UncertainRun, StoppedOrMarked
<1>6. InitIsGuarded'
  BY <1>1, <1>2, <1>3 DEF Data, InitIsGuarded
<1>7. InitSettled'
  BY <1>1, <1>2, <1>3, Alone DEF Data, InitSettled
<1>8. InitAlone'
  <2> SUFFICES ASSUME NEW v \in Worker, NEW u \in Worker \ (gaps \cup {v}),
                      init'[u] = "running", runs[u].task # None,
                      runs[v].task = runs[u].task, v \notin gaps
               PROVE  init'[v] # "running" /\ agent[v] # "running"
    BY <1>1 DEF InitAlone
  <2>1. CASE u = w
    BY <1>1, <1>2, <1>3, <2>1, Alone DEF Data, InitSettled
  <2>2. CASE v = w
    BY <1>1, <1>2, <1>3, <2>2 DEF Data, InitSettled
  <2>3. CASE u # w /\ v # w
    BY <1>1, <1>2, <2>3 DEF Data, InitAlone
  <2>4. QED
    BY <2>1, <2>2, <2>3
<1>9. QED
  BY <1>1, <1>4, <1>5, <1>6, <1>7, <1>8 DEF Data

LEMMA SendGoKeeps ==
    ASSUME IInv, NEW w \in Worker, SendGo(w) PROVE Control' /\ Data'
<1>1. /\ TypeOK /\ Data /\ Stage(w) /\ Remote(w)
      /\ UNCHANGED <<board, runs, row, fresh, verdict, init, gaps>>
  BY DEF IInv, Control, SendGo, Internal
<1>2. /\ pc[w] = "go" /\ pc'[w] = "session" /\ agent'[w] = "running"
      /\ \A p \in Process \ {w} : pc'[p] = pc[p]
      /\ \A v \in Worker \ {w} : agent'[v] = agent[v]
  BY <1>1 DEF TypeOK, Process, SendGo, Step
<1>3. /\ runs[w].state \in Active /\ runs[w].agentPid
      /\ ~runs[w].stopConfirmed /\ runs[w].phase = "Agent"
      /\ init[w] # "running"
  BY <1>1, <1>2 DEF Stage, Working
<1>4. Stage(w)' /\ Report(w)' /\ Remote(w)'
  BY <1>1, <1>2, <1>3 DEF Stage, Report, Remote, Starting, Working
<1>5. pc[w] \in Working /\ pc'[w] \in Working
  BY <1>2 DEF Working
<1>6. Control'
  BY <1>1, <1>2, <1>4, <1>5, WorkerStep
<1>7. Data'
  BY <1>1, <1>2, <1>3, DataFrame
<1>8. QED
  BY <1>6, <1>7

LEMMA InitStopKeeps ==
    ASSUME IInv, NEW w \in Worker, InitStop(w) PROVE Control' /\ Data'
<1>1. /\ TypeOK /\ Data /\ Stage(w) /\ Remote(w)
      /\ UNCHANGED <<board, runs, row, fresh, agent, gaps>>
  BY DEF IInv, Control, InitStop, Internal
<1>2. /\ pc[w] = "initStop" /\ pc'[w] = "finish"
      /\ \A p \in Process \ {w} : pc'[p] = pc[p]
      /\ \A v \in Worker \ {w} : init'[v] = init[v] /\ verdict'[v] = verdict[v]
      /\ init'[w] = "running" => verdict'[w] = "initUncertain" /\ init'[w] = init[w]
  BY <1>1 DEF TypeOK, Process, InitStop, Fail, Stopped
<1>3. runs[w].state \in Active /\ runs[w].phase = "Init" /\ ~runs[w].agentPid
  BY <1>1, <1>2 DEF Stage, Remote, Working
<1>4. Stage(w)' /\ Report(w)' /\ Remote(w)'
  BY <1>1, <1>2, <1>3 DEF Stage, Report, Remote, Starting, Working
<1>5. pc[w] \in Working /\ pc'[w] \in Working
  BY <1>2 DEF Working
<1>6. Control'
  BY <1>1, <1>2, <1>4, <1>5, WorkerStep
<1>7. Data'
  BY <1>1, <1>2, DataFrame
<1>8. QED
  BY <1>6, <1>7

LEMMA InitSavedKeeps ==
    ASSUME IInv, NEW w \in Worker, InitSaved(w) PROVE Control' /\ Data'
<1>1. /\ TypeOK /\ Data /\ Stage(w) /\ Remote(w) /\ runs[w] \in RunRows
      /\ UNCHANGED <<row, fresh, init, agent, gaps>>
  BY DEF IInv, Control, TypeOK, InitSaved
<1>2. /\ pc[w] = "initDone" /\ pc'[w] \in {"beginAgent", "finish"}
      /\ \A p \in Process \ {w} : pc'[p] = pc[p]
      /\ \A v \in Worker \ {w} : runs'[v] = runs[v] /\ verdict'[v] = verdict[v]
  BY <1>1 DEF TypeOK, Process, InitSaved, Fail
<1>3. /\ runs[w].state \in Active /\ runs[w].phase = "Init" /\ ~runs[w].agentPid
      /\ init[w] # "running" /\ runs[w].state # "none"
      /\ ~runs[w].stopConfirmed /\ ~runs[w].agentUncertain
  BY <1>1, <1>2 DEF Stage, Remote, Working, Active
<1>4. runs'[w] = [runs[w] EXCEPT !.initResult = "SUCCEEDED"]
  BY <1>1, <1>3 DEF InitSaved, TypeOK
<1>5. /\ runs'[w].state = runs[w].state /\ runs'[w].phase = runs[w].phase
      /\ runs'[w].task = runs[w].task /\ runs'[w].agentPid = runs[w].agentPid
      /\ runs'[w].stopConfirmed = runs[w].stopConfirmed
      /\ runs'[w].agentUncertain = runs[w].agentUncertain
  BY <1>1, <1>4 DEF RunRows
<1>6. Stage(w)' /\ Report(w)' /\ Remote(w)'
  BY <1>1, <1>2, <1>3, <1>5 DEF Stage, Report, Remote, Starting, Working
<1>7. pc[w] \in Working /\ pc'[w] \in Working
  BY <1>2 DEF Working
<1>8. Control'
  BY <1>1, <1>2, <1>5, <1>6, <1>7, WorkerStep
<1>9. ASSUME NEW t \in Task
      PROVE  /\ board'[t].agentUncertain = board[t].agentUncertain
             /\ board'[t].initUncertain = board[t].initUncertain
             /\ board'[t].status = "ABSENT" => board'[t] = board[t]
  <2>1. board[t] \in TaskRows
    BY <1>1 DEF TypeOK
  <2>2. CASE board[t].active = w
    <3>1. board[t].status # "ABSENT"
      BY <1>1, <2>2, NoneAssumption DEF Data, References, NoTask
    <3>2. board'[t] = [board[t] EXCEPT !.initSucceeded = TRUE]
      BY <2>2 DEF InitSaved
    <3>3. QED
      BY <2>1, <3>1, <3>2 DEF TaskRows
  <2>3. CASE board[t].active # w
    BY <2>3 DEF InitSaved
  <2>4. QED
    BY <2>2, <2>3
<1>10. Data'
  BY <1>1, <1>2, <1>3, <1>5, <1>9, StageSets, DataFrame
<1>11. QED
  BY <1>8, <1>10

\* agent_stopped() writes the run's two fields ...
LEMMA AgentStoppedRow ==
    ASSUME TypeOK, NEW w \in Worker, NEW c \in BOOLEAN, AgentStopped(w, c)
    PROVE  /\ runs'[w].stopConfirmed = c /\ runs'[w].agentUncertain = ~c
           /\ runs'[w].state = runs[w].state /\ runs'[w].task = runs[w].task
           /\ runs'[w].phase = runs[w].phase
           /\ runs'[w].agentPid = runs[w].agentPid
           /\ \A v \in Worker \ {w} : runs'[v] = runs[v]
<1>1. runs[w] \in RunRows
  BY DEF TypeOK
<1> DEFINE nc == ~c
<1>2. /\ runs' = [runs EXCEPT ![w] = [runs[w] EXCEPT !.stopConfirmed = c,
                                                     !.agentUncertain = nc]]
      /\ nc \in BOOLEAN
  BY DEF AgentStopped
<1> HIDE DEF nc
<1>3. /\ runs'[w] = [runs[w] EXCEPT !.stopConfirmed = c, !.agentUncertain = nc]
      /\ \A v \in Worker \ {w} : runs'[v] = runs[v]
  BY <1>2 DEF TypeOK
<1>4. /\ runs'[w].stopConfirmed = c /\ runs'[w].agentUncertain = nc
      /\ runs'[w].state = runs[w].state /\ runs'[w].task = runs[w].task
      /\ runs'[w].phase = runs[w].phase
      /\ runs'[w].agentPid = runs[w].agentPid
  BY <1>1, <1>3 DEF RunRows
<1>5. QED
  BY <1>3, <1>4 DEF nc

\* ... and the mark of its task, where no other run is marked.
LEMMA AgentStoppedData ==
    ASSUME IInv, NEW w \in Worker, NEW c \in BOOLEAN, AgentStopped(w, c),
           runs[w].state \in Active, UNCHANGED <<init, gaps>>,
           \A v \in Worker \ {w} : agent'[v] = agent[v]
    PROVE  Data'
<1> DEFINE t == runs[w].task
<1>1. TypeOK /\ Data
  BY DEF IInv
<1>2. /\ runs'[w].agentUncertain = ~c /\ runs'[w].state = runs[w].state
      /\ runs'[w].task = t
      /\ \A v \in Worker \ {w} : runs'[v] = runs[v]
  BY <1>1, AgentStoppedRow
<1>3. \A v \in Worker : runs'[v].task = runs[v].task /\ runs'[v].state = runs[v].state
  BY <1>2
<1>4. \A u \in Task \ {t} : board'[u] = board[u]
  BY DEF AgentStopped
<1>5. ASSUME t \in Task
      PROVE  /\ board'[t].status = board[t].status
             /\ board'[t].initUncertain = board[t].initUncertain
             /\ board'[t].agentUncertain =
                   (~c \/ (board[t].agentUncertain /\ UncertainRun(runs', t)))
  <2> DEFINE m == ~c \/ (board[t].agentUncertain /\ UncertainRun(runs', t))
  <2>1. board' = [u \in Task |-> IF u # t THEN board[u]
                                 ELSE [board[u] EXCEPT !.agentUncertain =
                    ~c \/ (board[u].agentUncertain /\ UncertainRun(runs', u))]]
    BY DEF AgentStopped
  <2>2. board'[t] = [board[t] EXCEPT !.agentUncertain = m]
    BY <1>5, <2>1
  <2>3. board[t] \in TaskRows
    BY <1>1, <1>5 DEF TypeOK
  <2> HIDE DEF m
  <2>4. /\ board'[t].status = board[t].status
        /\ board'[t].initUncertain = board[t].initUncertain
        /\ board'[t].agentUncertain = m
    BY <2>2, <2>3 DEF TaskRows
  <2>5. QED
    BY <2>4 DEF m
<1>6. t \in Task \cup {None}
  BY <1>1 DEF TypeOK, RunRows
<1> HIDE DEF t
<1>7. References'
  <2>1. \A u \in Task : board'[u].status = board[u].status
    BY <1>4, <1>5
  <2>2. \A v \in Worker : runs[v].task \in Task \cup {None}
    BY <1>1 DEF TypeOK, RunRows
  <2>3. t \in Task => board[t].status # "ABSENT"
    BY <1>1, NoneAssumption DEF Data, References, t
  <2>4. QED
    BY <1>1, <1>3, <1>4, <2>1, <2>2, <2>3 DEF Data, References
<1>8. OneHolder'
  BY <1>1, <1>2 DEF Data, OneHolder
<1>9. MarksAgree'
  <2> SUFFICES ASSUME NEW u \in Task
               PROVE  board'[u].agentUncertain <=> UncertainRun(runs', u)
    BY DEF MarksAgree, UncertainRun
  <2>1. CASE u # t
    BY <1>1, <1>2, <1>4, <2>1 DEF Data, MarksAgree, UncertainRun, t
  <2>2. CASE u = t
    <3>1. ~c => UncertainRun(runs', t)
      BY <1>2 DEF UncertainRun
    <3>2. c => ~UncertainRun(runs', t)
      BY <1>2, Alone DEF UncertainRun
    <3>3. QED
      BY <1>5, <2>2, <3>1, <3>2
  <2>3. QED
    BY <2>1, <2>2
<1>10. StoppedOrMarked'
  BY <1>1, <1>2, StageSets DEF Data, StoppedOrMarked
<1>11. InitIsGuarded'
  <2>1. \A u \in Task : board'[u].initUncertain = board[u].initUncertain
    BY <1>4, <1>5
  <2>2. \A v \in Worker : runs[v].task \in Task \cup {None}
    BY <1>1 DEF TypeOK, RunRows
  <2>3. QED
    BY <1>1, <1>3, <2>1, <2>2 DEF Data, InitIsGuarded
<1>12. InitSettled'
  BY <1>1, <1>3 DEF Data, InitSettled
<1>13. InitAlone'
  BY <1>1, <1>3 DEF Data, InitAlone, InitSettled
<1>14. QED
  BY <1>7, <1>8, <1>9, <1>10, <1>11, <1>12, <1>13 DEF Data

LEMMA AgentStopKeeps ==
    ASSUME IInv, NEW w \in Worker, AgentStop(w) PROVE Control' /\ Data'
<1>1. /\ TypeOK /\ Data /\ Stage(w) /\ Remote(w)
      /\ UNCHANGED <<row, fresh, init>> /\ gaps \subseteq gaps'
  BY DEF IInv, Control, AgentStop
<1>2. /\ pc[w] = "agentStop" /\ pc'[w] = "finish"
      /\ \A p \in Process \ {w} : pc'[p] = pc[p]
  BY <1>1 DEF TypeOK, Process, AgentStop, Step
<1>3. /\ runs[w].state \in Active /\ runs[w].state # "none"
      /\ runs[w].phase = "Agent" /\ init[w] # "running"
      /\ ~runs[w].stopConfirmed /\ ~runs[w].agentUncertain
  BY <1>1, <1>2 DEF Stage, Working, Active
<1>4. pc[w] \in Working /\ pc'[w] \in Working /\ pc'[w] \notin Starting
  BY <1>2 DEF Starting, Working
<1>5. CASE /\ AgentStopped(w, TRUE)
           /\ agent' = [agent EXCEPT ![w] = Stopped(@)]
           /\ UNCHANGED <<verdict, gaps>>
  <2>1. /\ agent'[w] # "running" /\ \A v \in Worker \ {w} : agent'[v] = agent[v]
    BY <1>1, <1>5 DEF TypeOK, Stopped
  <2>2. /\ runs'[w].stopConfirmed /\ ~runs'[w].agentUncertain
        /\ runs'[w].state = runs[w].state /\ runs'[w].phase = runs[w].phase
        /\ runs'[w].agentPid = runs[w].agentPid
        /\ \A v \in Worker \ {w} : runs'[v] = runs[v]
    BY <1>1, <1>5, AgentStoppedRow
  <2>3. Stage(w)' /\ Report(w)' /\ Remote(w)'
    BY <1>1, <1>2, <1>3, <1>4, <2>1, <2>2 DEF Stage, Report, Remote
  <2>4. Control'
    BY <1>1, <1>2, <1>4, <1>5, <2>1, <2>2, <2>3, WorkerStep
  <2>5. Data'
    BY <1>1, <1>3, <1>5, <2>1, AgentStoppedData
  <2>6. QED
    BY <2>4, <2>5
<1>6. CASE /\ AgentStopped(w, FALSE)
           /\ \/ UNCHANGED agent
              \/ /\ runs[w].agentPid /\ agent[w] = "none"
                 /\ agent' = [agent EXCEPT ![w] = "running"]
           /\ verdict' = [verdict EXCEPT ![w] = UnconfirmedVerdict(@)]
           /\ UNCHANGED gaps
  <2>1. /\ agent'[w] = "running" => runs[w].agentPid \/ w \in gaps
        /\ \A v \in Worker \ {w} : agent'[v] = agent[v] /\ verdict'[v] = verdict[v]
    BY <1>1, <1>6 DEF TypeOK, Remote
  <2>2. /\ ~runs'[w].stopConfirmed /\ runs'[w].agentUncertain
        /\ runs'[w].state = runs[w].state /\ runs'[w].phase = runs[w].phase
        /\ runs'[w].agentPid = runs[w].agentPid
        /\ \A v \in Worker \ {w} : runs'[v] = runs[v]
    BY <1>1, <1>6, AgentStoppedRow
  <2>3. Stage(w)' /\ Report(w)' /\ Remote(w)'
    BY <1>1, <1>2, <1>3, <1>4, <1>6, <2>1, <2>2 DEF Stage, Report, Remote
  <2>4. Control'
    BY <1>1, <1>2, <1>3, <1>4, <1>6, <2>1, <2>2, <2>3, WorkerStep
  <2>5. Data'
    BY <1>1, <1>3, <1>6, <2>1, AgentStoppedData
  <2>6. QED
    BY <2>4, <2>5
<1>7. CASE /\ UNCHANGED <<board, runs, agent>>
           /\ verdict' = [verdict EXCEPT ![w] = UnconfirmedVerdict(@)]
           /\ gaps' = IF verdict[w] = "exit" THEN gaps \cup {w} ELSE gaps
  <2>1. /\ w \notin gaps' => verdict'[w] = "agentUncertain"
        /\ \A v \in Worker \ {w} : verdict'[v] = verdict[v]
    BY <1>1, <1>7 DEF TypeOK, UnconfirmedVerdict
  <2>2. Stage(w)' /\ Report(w)' /\ Remote(w)'
    BY <1>1, <1>2, <1>3, <1>4, <1>7, <2>1 DEF Stage, Report, Remote
  <2>3. Control'
    BY <1>1, <1>2, <1>4, <1>7, <2>1, <2>2, WorkerStep
  <2>4. Data'
    BY <1>1, <1>7, DataFrame
  <2>5. QED
    BY <2>3, <2>4
<1>8. QED
  BY <1>5, <1>6, <1>7 DEF AgentStop

-----------------------------------------------------------------------------
(* Closing a run, by its executor or by recovery. *)

LEMMA EndRunRow ==
    ASSUME TypeOK, NEW w \in Worker, NEW v \in Verdicts, EndRun(w, v),
           runs[w].state \in Active
    PROVE  /\ runs'[w].state \in Ended
           /\ runs'[w].agentUncertain <=>
                 runs[w].agentUncertain \/ LeavesMark(runs[w], v)
           /\ runs'[w].task = runs[w].task /\ runs'[w].phase = runs[w].phase
           /\ runs'[w].agentPid = runs[w].agentPid
           /\ runs'[w].stopConfirmed = runs[w].stopConfirmed
           /\ \A u \in Worker \ {w} : runs'[u] = runs[u]
<1> DEFINE r == runs[w]
           s == IF Failed(r, v) THEN "FAILED" ELSE "SUCCEEDED"
           m == r.agentUncertain \/ LeavesMark(r, v)
           i == IF InitFailed(r, v) THEN "FAILED" ELSE r.initResult
<1>1. r \in RunRows
  BY DEF TypeOK
<1>2. s \in Ended /\ m \in BOOLEAN
  BY DEF Ended
<1>3. runs' = [runs EXCEPT ![w] = [r EXCEPT !.state = s, !.agentUncertain = m,
                                            !.initResult = i]]
  BY DEF EndRun, CloseRun, ClosedRun
<1> HIDE DEF r, s, m, i
<1>4. /\ runs'[w] = [r EXCEPT !.state = s, !.agentUncertain = m, !.initResult = i]
      /\ \A u \in Worker \ {w} : runs'[u] = runs[u]
  BY <1>3 DEF TypeOK
<1>5. /\ runs'[w].state = s /\ runs'[w].agentUncertain = m
      /\ runs'[w].task = r.task /\ runs'[w].phase = r.phase
      /\ runs'[w].agentPid = r.agentPid /\ runs'[w].stopConfirmed = r.stopConfirmed
  BY <1>1, <1>4 DEF RunRows
<1>6. QED
  BY <1>2, <1>4, <1>5 DEF r, m

LEMMA EndRunTask ==
    ASSUME TypeOK, NEW w \in Worker, NEW v \in Verdicts, EndRun(w, v),
           runs[w].state \in Active, NEW t \in Task
    PROVE  /\ t # runs[w].task => board'[t] = board[t]
           /\ t = runs[w].task =>
                 /\ board'[t].agentUncertain <=>
                       board[t].agentUncertain \/ LeavesMark(runs[w], v)
                 /\ board'[t].initUncertain <=>
                       board[t].initUncertain \/ InitUncertain(v)
                 /\ board'[t].status = "ABSENT" => board[t].status = "ABSENT"
<1> DEFINE b == board[t]
           n == b.initUncertain \/ InitUncertain(v)
           m == b.agentUncertain \/ LeavesMark(runs[w], v)
           o == Outcome(b, w, Failed(runs[w], v))
<1>1. b \in TaskRows /\ n \in BOOLEAN /\ m \in BOOLEAN
  BY DEF TypeOK
<1>2. o = b.status \/ o # "ABSENT"
  BY DEF Outcome
<1>3. board'[t] = IF t = runs[w].task THEN CloseTask(b, w, v) ELSE b
  BY DEF EndRun, CloseRun
<1>4. CloseTask(b, w, v) = [b EXCEPT !.initUncertain = n, !.agentUncertain = m,
                                     !.status = o]
  BY DEF CloseTask
<1> HIDE DEF b, n, m, o
<1>5. CASE t = runs[w].task
  <2>1. board'[t] = [b EXCEPT !.initUncertain = n, !.agentUncertain = m, !.status = o]
    BY <1>3, <1>4, <1>5
  <2>2. /\ board'[t].initUncertain = n /\ board'[t].agentUncertain = m
        /\ board'[t].status = o
    BY <1>1, <2>1 DEF TaskRows
  <2>3. QED
    BY <1>2, <1>5, <2>2 DEF b, n, m
<1>6. CASE t # runs[w].task
  BY <1>3, <1>6 DEF b
<1>7. QED
  BY <1>5, <1>6

\* finish() keeps Data if the verdict tells what may be left running.
LEMMA EndRunData ==
    ASSUME IInv, NEW w \in Worker, NEW v \in Verdicts, EndRun(w, v),
           UNCHANGED <<init, agent>>, gaps \subseteq gaps',
           runs[w].state \in Active /\ w \notin gaps' =>
              /\ runs[w].agentPid => \/ runs[w].stopConfirmed
                                     \/ runs[w].agentUncertain
                                     \/ v = "agentUncertain"
              /\ init[w] = "running" => InitUncertain(v)
    PROVE  Data'
<1>1. TypeOK /\ Data
  BY DEF IInv
<1>2. CASE runs[w].state \notin Active
  BY <1>1, <1>2, DataFrame DEF EndRun
<1>3. CASE runs[w].state \in Active
  <2> DEFINE t == runs[w].task
             m == LeavesMark(runs[w], v)
  <2>1. /\ runs'[w].state \in Ended
        /\ runs'[w].agentUncertain <=> runs[w].agentUncertain \/ m
        /\ runs'[w].task = t
        /\ runs'[w].agentPid = runs[w].agentPid
        /\ runs'[w].stopConfirmed = runs[w].stopConfirmed
        /\ \A u \in Worker \ {w} : runs'[u] = runs[u]
    BY <1>1, <1>3, EndRunRow
  <2>2. \A u \in Task :
          /\ u # t => board'[u] = board[u]
          /\ u = t =>
                /\ board'[u].agentUncertain <=> board[u].agentUncertain \/ m
                /\ board'[u].initUncertain <=>
                      board[u].initUncertain \/ InitUncertain(v)
                /\ board'[u].status = "ABSENT" => board[u].status = "ABSENT"
    BY <1>1, <1>3, EndRunTask
  <2>3. \A u \in Worker : runs[u].task \in Task \cup {None}
    BY <1>1 DEF TypeOK, RunRows
  <2>4. \A u \in Worker \ {w} : runs[u].state \notin Active /\ ~runs[u].agentUncertain
    BY <1>3, Alone
  <2>5. v = "agentUncertain" /\ ~runs[w].stopConfirmed => m
    BY DEF LeavesMark
  <2>6. runs'[w].state \notin Active
    BY <2>1, StageSets
  <2>7. t \in Task => board[t].status # "ABSENT"
    BY <1>1, NoneAssumption DEF Data, References
  <2> HIDE DEF t, m
  <2>8. References'
    <3>1. \A u \in Task : board'[u].status = "ABSENT" => board'[u] = board[u]
      BY <2>2, <2>7
    <3>2. \A u \in Worker : runs'[u].task = runs[u].task
      BY <2>1 DEF t
    <3>3. QED
      BY <1>1, <2>3, <3>1, <3>2 DEF Data, References
  <2>9. OneHolder'
    BY <2>1, <2>4 DEF OneHolder
  <2>10. MarksAgree'
    <3> SUFFICES ASSUME NEW u \in Task
                 PROVE  board'[u].agentUncertain <=> UncertainRun(runs', u)
      BY DEF MarksAgree, UncertainRun
    <3>1. board[u].agentUncertain <=> UncertainRun(runs, u)
      BY <1>1 DEF Data, MarksAgree
    <3>2. CASE u # t
      BY <2>1, <2>2, <3>1, <3>2 DEF UncertainRun, t
    <3>3. CASE u = t
      <4>1. UncertainRun(runs', u) <=> UncertainRun(runs, u) \/ m
        BY <2>1, <2>4, <3>3 DEF UncertainRun, t
      <4>2. QED
        BY <2>2, <3>1, <3>3, <4>1
    <3>4. QED
      BY <3>2, <3>3
  <2>11. StoppedOrMarked'
    BY <1>1, <1>3, <2>1, <2>5 DEF Data, StoppedOrMarked
  <2>12. InitIsGuarded'
    <3> SUFFICES ASSUME NEW u \in Worker \ gaps', init[u] = "running",
                        runs'[u].task # None
                 PROVE  board'[runs'[u].task].initUncertain
      BY DEF InitIsGuarded
    <3>1. runs'[u].task = runs[u].task /\ runs[u].task \in Task
      BY <2>1, <2>3 DEF t
    <3>2. CASE u = w
      BY <1>3, <2>2, <3>1, <3>2 DEF t
    <3>3. CASE u # w
      <4>1. board[runs[u].task].initUncertain
        BY <1>1, <2>4, <3>1, <3>3, NoneAssumption DEF Data, InitIsGuarded
      <4>2. QED
        BY <2>2, <3>1, <4>1
    <3>4. QED
      BY <3>2, <3>3
  <2>13. InitSettled' /\ InitAlone'
    BY <1>1, <2>1, <2>6 DEF Data, InitSettled, InitAlone, t
  <2>14. QED
    BY <2>8, <2>9, <2>10, <2>11, <2>12, <2>13 DEF Data
<1>4. QED
  BY <1>2, <1>3

\* The closed row of an executor that is gone.
LEMMA EndRunGone ==
    ASSUME IInv, NEW w \in Worker, NEW v \in Verdicts, EndRun(w, v),
           UNCHANGED <<init, agent>>, gaps \subseteq gaps',
           pc[w] \in {"finish", "gone"}, pc'[w] = "gone"
    PROVE  /\ Stage(w)' /\ Report(w)' /\ Remote(w)'
           /\ \A u \in Worker \ {w} : runs'[u] = runs[u]
           /\ runs[w].stopConfirmed => runs'[w].stopConfirmed
           /\ runs'[w] = runs[w] \/ runs'[w].state \notin Active
<1>1. TypeOK /\ Stage(w) /\ Remote(w) /\ v \in Verdicts
  BY DEF IInv, Control
<1>2. Report(w)'
  BY DEF Report
<1>3. CASE runs[w].state \notin Active
  <2>1. runs' = runs
    BY <1>3 DEF EndRun
  <2>2. pc[w] = "gone"
    BY <1>1, <1>3 DEF Stage, Working
  <2>3. QED
    BY <1>1, <1>2, <2>1, <2>2 DEF Stage, Remote, Starting, Working
<1>4. CASE runs[w].state \in Active
  <2>1. /\ runs'[w].state \in Ended
        /\ runs'[w].agentUncertain <=>
              runs[w].agentUncertain \/ LeavesMark(runs[w], v)
        /\ runs'[w].phase = runs[w].phase
        /\ runs'[w].agentPid = runs[w].agentPid
        /\ runs'[w].stopConfirmed = runs[w].stopConfirmed
        /\ \A u \in Worker \ {w} : runs'[u] = runs[u]
    BY <1>1, <1>4, EndRunRow
  <2>2. runs'[w].state \notin Active /\ runs'[w].state # "none"
    BY <2>1 DEF Active, Ended
  <2>3. runs[w].stopConfirmed => ~LeavesMark(runs[w], v)
    BY DEF LeavesMark
  <2>4. Stage(w)'
    BY <2>2 DEF Stage, Starting, Working
  <2>5. Remote(w)'
    BY <1>1, <2>1, <2>2, <2>3 DEF Remote
  <2>6. QED
    BY <1>2, <2>1, <2>2, <2>4, <2>5
<1>5. QED
  BY <1>3, <1>4

LEMMA FinishKeeps ==
    ASSUME IInv, NEW w \in Worker, Finish(w) PROVE Control' /\ Data'
<1>1. /\ TypeOK /\ Stage(w) /\ Report(w) /\ verdict[w] \in Verdicts
      /\ EndRun(w, verdict[w]) /\ UNCHANGED <<row, fresh, init, agent, gaps>>
  BY DEF IInv, Control, TypeOK, Finish
<1>2. /\ pc[w] = "finish" /\ pc'[w] = "gone"
      /\ \A p \in Process \ {w} : pc'[p] = pc[p]
      /\ \A u \in Worker \ {w} : verdict'[u] = verdict[u]
  BY <1>1 DEF TypeOK, Process, Finish, Fail
<1>3. Data'
  BY <1>1, <1>2, EndRunData DEF Report, InitUncertain
<1>4. /\ Stage(w)' /\ Report(w)' /\ Remote(w)'
      /\ \A u \in Worker \ {w} : runs'[u] = runs[u]
      /\ runs[w].stopConfirmed => runs'[w].stopConfirmed
  BY <1>1, <1>2, EndRunGone
<1>5. pc[w] \in Working
  BY <1>2 DEF Working
<1>6. Control'
  BY <1>1, <1>2, <1>4, <1>5, WorkerStep
<1>7. QED
  BY <1>3, <1>6

-----------------------------------------------------------------------------
(* Recovery and signals. *)

\* A recovering process moves by itself; it may close the run of a dead one.
LEMMA RecoveryFrame ==
    ASSUME Control, NEW p \in Process, UNCHANGED <<verdict, init, agent>>,
           gaps \subseteq gaps', pc[p] \in Starting, pc'[p] \in Starting,
           \A q \in Process \ {p} : pc'[q] = pc[q] /\ row'[q] = row[q],
           \A v \in Worker :
              \/ runs'[v] = runs[v]
              \/ /\ pc[v] = "gone" /\ runs'[v].state \notin Active
                 /\ Stage(v)' /\ Remote(v)',
           Copy(p)'
    PROVE  Control'
<1>1. ASSUME NEW v \in Worker PROVE Stage(v)' /\ Report(v)' /\ Remote(v)'
  <2>1. Stage(v) /\ Report(v) /\ Remote(v)
    BY DEF Control
  <2>2. CASE v = p
    <3>1. runs'[v] = runs[v]
      BY <2>2, StageSets
    <3>2. pc'[v] # "finish" /\ pc'[v] \notin Working
      BY <2>2, StageSets DEF Working
    <3>3. Stage(v)'
      BY <2>1, <2>2, <3>1, <3>2 DEF Stage, Working, Starting
    <3>4. QED
      BY <2>1, <3>1, <3>2, <3>3 DEF Report, Remote
  <2>3. CASE v # p /\ runs'[v] = runs[v]
    <3>1. pc'[v] = pc[v]
      BY <2>3 DEF Process
    <3>2. QED
      BY <2>1, <2>3, <3>1, ZenonT(30) DEF Stage, Report, Remote
  <2>4. CASE v # p /\ runs'[v] # runs[v]
    <3>1. pc'[v] = pc[v]
      BY <2>4 DEF Process
    <3>2. QED
      BY <2>4, <3>1 DEF Report
  <2>5. QED
    BY <2>2, <2>3, <2>4
<1>2. ASSUME NEW q \in Process \ {p} PROVE Copy(q)'
  <2>1. Copy(q) /\ pc'[q] = pc[q] /\ row'[q] = row[q]
    BY DEF Control
  <2>2. CASE pc[q] \notin {"inspect", "wait"}
    BY <2>1, <2>2 DEF Copy
  <2>3. CASE pc[q] \in {"inspect", "wait"}
    <3>1. /\ row[q].run \in Worker /\ SameScope(q, row[q].run)
          /\ pc[row[q].run] \in Working \cup {"gone"}
      BY <2>1, <2>3 DEF Copy
    <3>2. pc'[row[q].run] = pc[row[q].run]
      BY <3>1, StageSets DEF Process
    <3>3. QED
      BY <2>1, <2>3, <3>1, <3>2 DEF Copy, SameScope
  <2>4. QED
    BY <2>2, <2>3
<1>3. QED
  BY <1>1, <1>2 DEF Control

LEMMA SnapshotKeeps ==
    ASSUME IInv, NEW p \in Process, Snapshot(p) PROVE Control' /\ Data'
<1>1. /\ TypeOK /\ Control /\ Data /\ Copy(p)
      /\ UNCHANGED <<board, runs, fresh, verdict, init, agent, gaps>>
  BY DEF IInv, Control, Snapshot
<1>2. Data'
  BY <1>1, DataFrame
<1>3. /\ pc[p] = "off" /\ pc'[p] \in {"inspect", "claim"}
      /\ \A q \in Process \ {p} : pc'[q] = pc[q] /\ row'[q] = row[q]
  BY <1>1 DEF TypeOK, Snapshot, Step
<1>4. Copy(p)'
  <2>1. ASSUME NEW w \in ActiveRuns, SameScope(p, w), Step(p, "off", "inspect"),
               row' = [row EXCEPT ![p] = [run |-> w, phase |-> runs[w].phase,
                                          confirmed |-> runs[w].stopConfirmed]]
        PROVE  Copy(p)'
    <3>1. w \in Worker /\ w \in Process /\ runs[w].state \in Active /\ Stage(w)
      BY <1>1 DEF ActiveRuns, Process, Control
    <3>2. pc[w] \in Working \cup {"gone"}
      BY <1>1, <3>1, StageSets DEF Stage, TypeOK, PCs, Active
    <3>3. pc'[w] = pc[w]
      BY <1>3, <3>1, <3>2 DEF Working
    <3>4. row'[p].run = w /\ row'[p].confirmed = runs[w].stopConfirmed
      BY <1>1, <2>1 DEF TypeOK
    <3>5. pc'[p] = "inspect"
      BY <1>1, <2>1 DEF TypeOK, Step
    <3>6. QED
      BY <1>1, <2>1, <3>1, <3>2, <3>3, <3>4, <3>5 DEF Copy, SameScope
  <2>2. CASE Step(p, "off", "claim") /\ UNCHANGED row
    <3>1. pc'[p] = "claim" /\ row'[p] = row[p] /\ pc[p] = "off"
      BY <1>1, <2>2 DEF TypeOK, Step
    <3>2. QED
      BY <1>1, <3>1 DEF Copy
  <2>3. QED
    BY <2>1, <2>2 DEF Snapshot
<1>5. pc[p] \in Starting /\ pc'[p] \in Starting
  BY <1>3 DEF Starting
<1>6. Control'
  BY <1>1, <1>3, <1>4, <1>5, RecoveryFrame
<1>7. QED
  BY <1>2, <1>6

LEMMA LeaveAliveKeeps ==
    ASSUME IInv, NEW p \in Process, NEW w \in Worker, LeaveAlive(p, w)
    PROVE  Control' /\ Data'
<1>1. /\ TypeOK /\ Control /\ Data
      /\ UNCHANGED <<board, runs, fresh, verdict, init, agent, gaps>>
  BY DEF IInv, LeaveAlive
<1>2. /\ pc[p] \in {"inspect", "wait"} /\ pc'[p] \in {"claim", "off"}
      /\ row'[p] = NoRow
      /\ \A q \in Process \ {p} : pc'[q] = pc[q] /\ row'[q] = row[q]
  BY <1>1 DEF TypeOK, LeaveAlive, AfterRecovery
<1>3. pc[p] \in Starting /\ pc'[p] \in Starting /\ Copy(p)'
  BY <1>2 DEF Starting, Copy
<1>4. Control' /\ Data'
  BY <1>1, <1>2, <1>3, RecoveryFrame, DataFrame
<1>5. QED
  BY <1>4

LEMMA RecoveryDiesKeeps ==
    ASSUME IInv, NEW p \in Process, RecoveryDies(p)
    PROVE  Control' /\ Data'
<1>1. /\ TypeOK /\ Control /\ Data
      /\ UNCHANGED <<board, runs, fresh, verdict, init, agent, gaps>>
  BY DEF IInv, RecoveryDies
<1>2. /\ pc[p] \in {"inspect", "wait"} /\ pc'[p] = "off"
      /\ row'[p] = NoRow
      /\ \A q \in Process \ {p} : pc'[q] = pc[q] /\ row'[q] = row[q]
  BY <1>1 DEF TypeOK, RecoveryDies, Step
<1>3. pc[p] \in Starting /\ pc'[p] \in Starting /\ Copy(p)'
  BY <1>2 DEF Starting, Copy
<1>4. QED
  BY <1>1, <1>2, <1>3, RecoveryFrame, DataFrame

LEMMA CloseDeadKeeps ==
    ASSUME IInv, NEW p \in Process, NEW w \in Worker, CloseDead(p, w)
    PROVE  Control' /\ Data'
<1> DEFINE v == RecoveredVerdict(row[p])
<1>1. /\ TypeOK /\ Control /\ Copy(p) /\ Remote(w) /\ runs[w] \in RunRows
      /\ pc[p] \in {"inspect", "wait"} /\ row[p].run = w
      /\ EndRun(w, v) /\ UNCHANGED <<verdict, init, agent>>
      /\ gaps' = IF runs[w].state \in Active /\ runs[w].phase # row[p].phase
                 THEN gaps \cup {w} ELSE gaps
  BY DEF IInv, Control, TypeOK, CloseDead
<1>2. v \in Verdicts
  BY DEF RecoveredVerdict, Verdicts
<1>3. /\ pc'[p] \in {"claim", "off"} /\ row'[p] = NoRow
      /\ \A q \in Process \ {p} : pc'[q] = pc[q] /\ row'[q] = row[q]
  BY <1>1 DEF TypeOK, CloseDead, AfterRecovery
<1>4. /\ pc[w] = "gone" /\ pc'[w] = "gone"
      /\ row[p].confirmed /\ runs[w].state \in Active => runs[w].stopConfirmed
  <2>1. SameScope(p, w)
    BY <1>1 DEF Copy
  <2>2. pc[w] = "gone"
    BY <2>1 DEF CloseDead, Dead, SameScope
  <2>3. w \in Process /\ w # p
    BY <1>1, <2>2 DEF Process
  <2>4. QED
    BY <1>1, <1>3, <2>2, <2>3 DEF Copy
<1>5. gaps \subseteq gaps'
  BY <1>1
<1>6. ASSUME runs[w].state \in Active, w \notin gaps'
      PROVE  /\ runs[w].agentPid => \/ runs[w].stopConfirmed
                                    \/ runs[w].agentUncertain
                                    \/ v = "agentUncertain"
             /\ init[w] = "running" => InitUncertain(v)
  <2>1. row[p].phase = runs[w].phase
    BY <1>1, <1>6
  <2>2. runs[w].agentPid /\ ~row[p].confirmed => v = "agentUncertain"
    BY <1>1, <2>1 DEF Remote, RecoveredVerdict
  <2>3. init[w] = "running" => v = "recoveredInit"
    BY <1>1, <1>6, <2>1 DEF Remote, RecoveredVerdict
  <2>4. QED
    BY <1>4, <1>6, <2>2, <2>3 DEF InitUncertain
<1> HIDE DEF v
<1>7. Data'
  BY <1>1, <1>2, <1>5, <1>6, EndRunData
<1>8. /\ Stage(w)' /\ Remote(w)'
      /\ \A u \in Worker \ {w} : runs'[u] = runs[u]
      /\ runs'[w] = runs[w] \/ runs'[w].state \notin Active
  BY <1>1, <1>2, <1>4, <1>5, EndRunGone
<1>9. pc[p] \in Starting /\ pc'[p] \in Starting /\ Copy(p)'
  BY <1>1, <1>3 DEF Starting, Copy
<1>10. Control'
  BY <1>1, <1>3, <1>4, <1>5, <1>8, <1>9, RecoveryFrame
<1>11. QED
  BY <1>7, <1>10

LEMMA KilledKeeps ==
    ASSUME IInv, NEW w \in Worker, Killed(w), pc[w] # "gone"
    PROVE  Control' /\ Data'
<1>1. /\ TypeOK /\ Control /\ Data /\ w \in Process
      /\ UNCHANGED <<board, runs, init, agent, gaps>>
  BY DEF IInv, Killed, Process
<1>2. Data'
  BY <1>1, DataFrame
<1>3. /\ pc[w] \in Working => pc'[w] = "gone"
      /\ pc[w] \notin Working => pc[w] \in Starting /\ pc'[w] = "off"
      /\ row'[w] = NoRow
      /\ \A q \in Process \ {w} : pc'[q] = pc[q] /\ row'[q] = row[q]
      /\ \A v \in Worker \ {w} : verdict'[v] = verdict[v]
  BY <1>1 DEF TypeOK, Killed, PCs
<1>4. ASSUME NEW v \in Worker PROVE Stage(v)' /\ Report(v)' /\ Remote(v)'
  <2>1. Stage(v) /\ Report(v) /\ Remote(v)
    BY <1>1 DEF Control
  <2>2. CASE v = w
    <3>1. pc'[w] \in {"off", "gone"}
      BY <1>3
    <3>2. Stage(w)'
      BY <1>1, <1>3, <2>1, <2>2, <3>1 DEF Stage, Starting, Working
    <3>3. QED
      BY <1>1, <2>1, <2>2, <3>1, <3>2 DEF Report, Remote
  <2>3. CASE v # w
    <3>1. pc'[v] = pc[v] /\ verdict'[v] = verdict[v]
      BY <1>3, <2>3 DEF Process
    <3>2. QED
      BY <1>1, <2>1, <3>1 DEF Stage, Report, Remote
  <2>4. QED
    BY <2>2, <2>3
<1>5. ASSUME NEW q \in Process PROVE Copy(q)'
  <2>1. Copy(q)
    BY <1>1 DEF Control
  <2>2. CASE q = w
    <3>1. pc'[q] \notin {"inspect", "wait"} /\ row'[q] = NoRow
      BY <1>3, <2>2
    <3>2. QED
      BY <3>1 DEF Copy
  <2>3. CASE q # w /\ pc[q] \in {"inspect", "wait"}
    <3>1. pc'[row[q].run] \in Working \cup {"gone"}
      BY <1>3, <2>1, <2>3, StageSets DEF Copy, Process
    <3>2. QED
      BY <1>1, <1>3, <2>1, <2>3, <3>1 DEF Copy, SameScope
  <2>4. CASE q # w /\ pc[q] \notin {"inspect", "wait"}
    BY <1>3, <2>1, <2>4 DEF Copy
  <2>5. QED
    BY <2>2, <2>3, <2>4
<1>6. QED
  BY <1>2, <1>4, <1>5 DEF Control

LEMMA RecoverKeeps ==
    ASSUME IInv, NEW p \in Process, Recover(p) PROVE Control' /\ Data'
<1>1. ASSUME NEW w \in Worker, KillExpired(p, w) PROVE Control' /\ Data'
  BY <1>1, KilledKeeps DEF KillExpired, Dead
<1>2. QED
  BY <1>1, SnapshotKeeps, CloseDeadKeeps, LeaveAliveKeeps, TerminateKeeps DEF Recover

LEMMA RemoteExitKeeps ==
    ASSUME IInv, NEW w \in Worker, RemoteExit(w) PROVE Control' /\ Data'
<1>1. /\ TypeOK /\ Control /\ Data
      /\ UNCHANGED <<board, runs, pc, row, fresh, verdict, gaps>>
  BY DEF IInv, RemoteExit
<1>2. \A v \in Worker :
        /\ init'[v] = init[v] \/ (init[v] = "running" /\ init'[v] = "exited")
        /\ agent'[v] = agent[v] \/ (agent[v] = "running" /\ agent'[v] = "exited")
  BY <1>1 DEF TypeOK, RemoteExit
<1>3. Data'
  BY <1>1, <1>2, DataFrame
<1>4. ASSUME NEW v \in Worker PROVE Stage(v)' /\ Report(v)' /\ Remote(v)'
  <2>1. Stage(v) /\ Report(v) /\ Remote(v)
    BY <1>1 DEF Control
  <2>2. Stage(v)'
    BY <1>1, <1>2, <2>1 DEF Stage
  <2>3. QED
    BY <1>1, <1>2, <2>1, <2>2 DEF Report, Remote
<1>5. \A q \in Process : Copy(q)'
  BY <1>1 DEF Control, Copy, SameScope
<1>6. QED
  BY <1>3, <1>4, <1>5 DEF Control

-----------------------------------------------------------------------------
(* Claiming a task. *)

LEMMA ClaimKeeps ==
    ASSUME IInv, NEW w \in Worker, Claim(w) PROVE Control' /\ Data'
<1>1. /\ TypeOK /\ Control /\ Data /\ Stage(w) /\ Unblocked
      /\ UNCHANGED <<row, verdict, init, agent, gaps>>
  BY DEF IInv, Control, Claim
<1>2. PICK t \in Task : Claim(w)!3!(t)
  BY DEF Claim
<1>3. /\ pc[w] = "claim" /\ pc'[w] = "prepare"
      /\ \A p \in Process \ {w} : pc'[p] = pc[p]
  BY <1>1 DEF TypeOK, Process, Claim, Step
<1>4. /\ runs'[w].state \in Active /\ runs'[w].state # "none"
      /\ runs'[w].task = t /\ runs'[w].phase = "In progress"
      /\ ~runs'[w].agentPid /\ ~runs'[w].stopConfirmed
      /\ ~runs'[w].agentUncertain
      /\ \A v \in Worker \ {w} : runs'[v] = runs[v]
  <2>1. /\ runs'[w] = [NoRun EXCEPT !.state = "PREPARING", !.task = t]
        /\ \A v \in Worker \ {w} : runs'[v] = runs[v]
    BY <1>1, <1>2 DEF TypeOK
  <2>2. QED
    BY <2>1 DEF NoRun, Active
<1>5. /\ board'[t].status # "ABSENT"
      /\ board'[t].initUncertain = board[t].initUncertain
      /\ board'[t].agentUncertain = board[t].agentUncertain
      /\ \A u \in Task \ {t} : board'[u] = board[u]
  <2>1. board[t] \in TaskRows
    BY <1>1 DEF TypeOK
  <2>2. /\ board'[t] = [board[t] EXCEPT !.status = "IN PROGRESS", !.active = w]
        /\ \A u \in Task \ {t} : board'[u] = board[u]
    BY <1>1, <1>2 DEF TypeOK
  <2>3. QED
    BY <2>1, <2>2 DEF TaskRows
<1>6. init[w] = "none" /\ agent[w] = "none"
  BY <1>1, <1>3 DEF Stage, Starting
<1>7. \A v \in Worker : runs[v].state \notin Active /\ ~runs[v].agentUncertain
  BY <1>1 DEF Unblocked, ActiveRuns
<1>8. Control'
  <2>1. Stage(w)' /\ Report(w)' /\ Remote(w)'
    BY <1>1, <1>3, <1>4, <1>6 DEF Stage, Report, Remote, Starting, Working
  <2>2. /\ pc[w] \notin {"inspect", "wait"} /\ pc'[w] \notin {"inspect", "wait"}
        /\ pc[w] \notin Working \cup {"gone"}
    BY <1>3 DEF Working
  <2>3. QED
    BY <1>1, <1>3, <1>4, <2>1, <2>2, ControlFrame
<1>9. \A v \in Worker : runs[v].task \in Task \cup {None}
  BY <1>1 DEF TypeOK, RunRows
<1>10. References'
  <2>1. \A u \in Task : board'[u].status = "ABSENT" => board'[u] = board[u]
    BY <1>5
  <2>2. \A u \in Task : board[u].status # "ABSENT" => board'[u].status # "ABSENT"
    BY <1>5
  <2>3. \A v \in Worker \ {w} : runs'[v].task = runs[v].task
    BY <1>4
  <2>4. QED
    BY <1>1, <1>4, <1>5, <1>9, <2>1, <2>2, <2>3 DEF Data, References
<1>11. OneHolder'
  BY <1>4, <1>7 DEF OneHolder
<1>12. MarksAgree'
  <2>1. \A u \in Task : ~board'[u].agentUncertain
    BY <1>1, <1>5, <1>7 DEF Data, MarksAgree, UncertainRun
  <2>2. \A v \in Worker : ~runs'[v].agentUncertain
    BY <1>4, <1>7
  <2>3. QED
    BY <2>1, <2>2 DEF MarksAgree, UncertainRun
<1>13. StoppedOrMarked'
  BY <1>1, <1>4, StageSets DEF Data, StoppedOrMarked
<1>14. InitIsGuarded'
  <2> SUFFICES ASSUME NEW u \in Worker \ gaps, init[u] = "running",
                      runs'[u].task # None
               PROVE  board'[runs'[u].task].initUncertain
    BY <1>1 DEF InitIsGuarded
  <2>1. u # w /\ runs'[u].task = runs[u].task /\ runs[u].task \in Task
    BY <1>4, <1>6, <1>9
  <2>2. board[runs[u].task].initUncertain
    BY <1>1, <1>7, <2>1, NoneAssumption DEF Data, InitIsGuarded
  <2>3. QED
    BY <1>5, <2>1, <2>2
<1>15. InitSettled'
  <2> SUFFICES ASSUME NEW u \in Worker \ (gaps \cup {w}), runs'[u].task = t,
                      init[u] = "running"
               PROVE  FALSE
    BY <1>1, <1>4, <1>7 DEF InitSettled
  <2>1. runs[u].task = t /\ t # None
    BY <1>4, NoneAssumption
  <2>2. board[t].initUncertain
    BY <1>1, <1>7, <2>1 DEF Data, InitIsGuarded
  <2>3. QED
    BY <1>2, <2>2 DEF Claimable
<1>16. InitAlone'
  BY <1>1, <1>4, <1>6 DEF Data, InitAlone
<1>17. QED
  BY <1>8, <1>10, <1>11, <1>12, <1>13, <1>14, <1>15, <1>16 DEF Data

-----------------------------------------------------------------------------
(* The people in front of the board. *)

\* Steps that change only the rows of tasks.
LEMMA BoardStep ==
    ASSUME IInv, UNCHANGED <<runs, pc, row, verdict, init, agent, gaps>>,
           \A t \in Task :
              /\ board'[t].agentUncertain = board[t].agentUncertain
              /\ board'[t].initUncertain = board[t].initUncertain
              /\ board'[t].status = "ABSENT" => board'[t] = board[t]
    PROVE  Control' /\ Data'
<1>1. TypeOK /\ Control /\ Data
  BY DEF IInv
<1>2. Data'
  BY <1>1, DataFrame
<1>3. Control'
  BY <1>1, ZenonT(30) DEF Control, Stage, Report, Remote, Copy, SameScope
<1>4. QED
  BY <1>2, <1>3

LEMMA BoardKeeps ==
    ASSUME IInv, NEW t \in Task,
           \/ CreateTask(t) \/ AddUserComment(t)
           \/ \E s \in Columns : MoveTask(t, s)
    PROVE  Control' /\ Data'
<1>1. TypeOK /\ References
  BY DEF IInv, Data
<1>2. UNCHANGED <<runs, pc, row, verdict, init, agent, gaps>>
  BY DEF CreateTask, AddUserComment, MoveTask, BoardOnly
<1>3. board[t] \in TaskRows /\ \A u \in Task \ {t} : board'[u] = board[u]
  BY <1>1 DEF TypeOK, CreateTask, AddUserComment, MoveTask
<1>4. /\ board'[t].agentUncertain = board[t].agentUncertain
      /\ board'[t].initUncertain = board[t].initUncertain
      /\ board'[t].status # "ABSENT"
  <2>1. CASE CreateTask(t)
    <3>1. board[t] = NoTask
      BY <1>1, <2>1 DEF CreateTask, References
    <3>2. board'[t] = [NoTask EXCEPT !.status = "BACKLOG"]
      BY <1>1, <2>1 DEF CreateTask, TypeOK
    <3>3. QED
      BY <3>1, <3>2 DEF NoTask
  <2>2. CASE AddUserComment(t)
    <3>1. board'[t] = [board[t] EXCEPT !.status = "OPEN"]
      BY <1>1, <2>2 DEF AddUserComment, TypeOK
    <3>2. QED
      BY <1>3, <3>1 DEF TaskRows
  <2>3. ASSUME NEW s \in Columns, MoveTask(t, s)
        PROVE  /\ board'[t].agentUncertain = board[t].agentUncertain
               /\ board'[t].initUncertain = board[t].initUncertain
               /\ board'[t].status # "ABSENT"
    <3> DEFINE a == Disowned(board[t])
    <3>1. board'[t] = [board[t] EXCEPT !.status = s, !.active = a]
      BY <1>1, <2>3 DEF MoveTask, TypeOK
    <3>2. s # "ABSENT"
      BY ColumnsAssumption DEF Statuses
    <3> HIDE DEF a
    <3>3. QED
      BY <1>3, <3>1, <3>2 DEF TaskRows
  <2>4. QED
    BY <2>1, <2>2, <2>3
<1>5. QED
  BY <1>2, <1>3, <1>4, BoardStep

LEMMA DeleteKeeps ==
    ASSUME IInv, NEW t \in Task, DeleteTask(t) PROVE Control' /\ Data'
<1>1. /\ TypeOK /\ Control /\ Data
      /\ UNCHANGED <<pc, row, fresh, verdict, init, agent, gaps>>
  BY DEF IInv, DeleteTask, BoardOnly
<1>2. board'[t] = NoTask /\ \A u \in Task \ {t} : board'[u] = board[u]
  BY <1>1 DEF DeleteTask, TypeOK
<1>3. ASSUME NEW w \in Worker
      PROVE  /\ runs'[w].task = IF runs[w].task = t THEN None ELSE runs[w].task
             /\ runs'[w].state = runs[w].state
             /\ runs'[w].phase = runs[w].phase
             /\ runs'[w].agentPid = runs[w].agentPid
             /\ runs'[w].stopConfirmed = runs[w].stopConfirmed
             /\ runs'[w].agentUncertain = runs[w].agentUncertain
             /\ runs[w] = NoRun => runs'[w] = NoRun
  <2>1. runs[w] \in RunRows
    BY <1>1 DEF TypeOK
  <2>2. CASE runs[w].task = t
    <3>1. runs'[w] = [runs[w] EXCEPT !.task = None]
      BY <2>2 DEF DeleteTask
    <3>2. runs[w] # NoRun
      BY <2>2, StageSets, NoneAssumption
    <3>3. QED
      BY <2>1, <2>2, <3>1, <3>2 DEF RunRows
  <2>3. CASE runs[w].task # t
    BY <2>3 DEF DeleteTask
  <2>4. QED
    BY <2>2, <2>3
<1>4. \A w \in Worker : Stage(w)' /\ Report(w)' /\ Remote(w)'
  <2> SUFFICES ASSUME NEW w \in Worker PROVE Stage(w)' /\ Report(w)' /\ Remote(w)'
    OBVIOUS
  <2>1. Stage(w) /\ Report(w) /\ Remote(w)
    BY <1>1 DEF Control
  <2>2. Stage(w)'
    BY <1>1, <1>3, <2>1 DEF Stage
  <2>3. QED
    BY <1>1, <1>3, <2>1, <2>2 DEF Report, Remote
<1>5. \A p \in Process : Copy(p)'
  BY <1>1, <1>3 DEF Control, Copy, SameScope
<1>6. References'
  <2>1. \A w \in Worker : runs[w].task \in Task \cup {None}
    BY <1>1 DEF TypeOK, RunRows
  <2>2. QED
    BY <1>1, <1>2, <1>3, <2>1 DEF Data, References
<1>7. OneHolder' /\ StoppedOrMarked'
  BY <1>1, <1>3 DEF Data, OneHolder, StoppedOrMarked
<1>8. MarksAgree'
  <2> SUFFICES ASSUME NEW u \in Task
               PROVE  board'[u].agentUncertain <=> UncertainRun(runs', u)
    BY DEF MarksAgree, UncertainRun
  <2>1. CASE u = t
    BY <1>2, <1>3, <2>1, StageSets, NoneAssumption DEF UncertainRun
  <2>2. CASE u # t
    BY <1>1, <1>2, <1>3, <2>2, NoneAssumption DEF Data, MarksAgree, UncertainRun
  <2>3. QED
    BY <2>1, <2>2
<1>9. InitIsGuarded'
  <2>1. \A w \in Worker : runs[w].task \in Task \cup {None}
    BY <1>1 DEF TypeOK, RunRows
  <2>2. QED
    BY <1>1, <1>2, <1>3, <2>1 DEF Data, InitIsGuarded
<1>10. InitSettled' /\ InitAlone'
  BY <1>1, <1>3 DEF Data, InitSettled, InitAlone
<1>11. QED
  BY <1>4, <1>5, <1>6, <1>7, <1>8, <1>9, <1>10 DEF Control, Data

LEMMA ClearKeeps == ASSUME IInv, ClearDatabase PROVE Control' /\ Data'
<1>1. /\ TypeOK /\ Control /\ Data
      /\ UNCHANGED <<pc, row, fresh, verdict, init, agent>>
  BY DEF IInv, ClearDatabase, BoardOnly
<1>2. /\ \A t \in Task : board'[t] = NoTask
      /\ \A w \in Worker : runs'[w] = NoRun
      /\ \A w \in Worker : runs[w].state \notin Active
      /\ \A w \in Worker : w \in gaps' <=> w \in gaps \/ runs[w].agentUncertain
  BY DEF ClearDatabase, ActiveRuns
<1>3. NoRun.state \notin Active \cup Ended /\ NoRun.state = "none"
  BY DEF NoRun, Active, Ended
<1>4. ASSUME NEW w \in Worker PROVE Stage(w)' /\ Report(w)' /\ Remote(w)'
  <2>1. Stage(w) /\ pc[w] \notin Working
    BY <1>1, <1>2 DEF Control, Stage
  <2>2. Stage(w)'
    BY <1>1, <1>2, <1>3, <2>1 DEF Stage, Working
  <2>3. Report(w)'
    BY <1>1, <2>1 DEF Report, Working
  <2>4. agent[w] = "running" => w \in gaps'
    BY <1>2, Tracked DEF NoUntrackedAgent
  <2>5. Remote(w)'
    BY <1>1, <1>2, <1>3, <2>4, StageSets DEF Remote
  <2>6. QED
    BY <2>2, <2>3, <2>5
<1>5. \A p \in Process : Copy(p)'
  BY <1>1, <1>2, <1>3 DEF Control, Copy, SameScope
<1>6. Data'
  <2>1. References'
    BY <1>2, StageSets DEF References
  <2>2. OneHolder' /\ MarksAgree' /\ StoppedOrMarked'
    BY <1>2, <1>3, StageSets DEF OneHolder, MarksAgree, UncertainRun, StoppedOrMarked
  <2>3. InitIsGuarded' /\ InitSettled' /\ InitAlone'
    BY <1>2, <1>3, StageSets DEF InitIsGuarded, InitSettled, InitAlone
  <2>4. QED
    BY <2>1, <2>2, <2>3 DEF Data
<1>7. QED
  BY <1>4, <1>5, <1>6 DEF Control

LEMMA ConfirmKeeps ==
    ASSUME IInv, NEW w \in Worker, ConfirmRemoteStop(w) PROVE Control' /\ Data'
<1> DEFINE t == runs[w].task
<1>1. /\ TypeOK /\ Control /\ Data /\ Stage(w) /\ Remote(w)
      /\ runs[w] \in RunRows /\ runs[w].state \in Ended /\ runs[w].agentUncertain
      /\ agent[w] # "running"
      /\ UNCHANGED <<pc, row, fresh, verdict, init, agent, gaps>>
  BY DEF IInv, Control, TypeOK, ConfirmRemoteStop, BoardOnly
<1>2. /\ ~runs'[w].agentUncertain /\ runs'[w].stopConfirmed
      /\ runs'[w].state = runs[w].state /\ runs'[w].task = runs[w].task
      /\ runs'[w].phase = runs[w].phase /\ runs'[w].agentPid = runs[w].agentPid
      /\ \A v \in Worker \ {w} : runs'[v] = runs[v]
  <2>1. /\ runs'[w] = [runs[w] EXCEPT !.agentUncertain = FALSE, !.stopConfirmed = TRUE]
        /\ \A v \in Worker \ {w} : runs'[v] = runs[v]
    BY <1>1 DEF ConfirmRemoteStop, TypeOK
  <2>2. QED
    BY <1>1, <2>1 DEF RunRows
<1>3. /\ runs[w].state \notin Active /\ runs[w].state # "none"
      /\ pc[w] \notin Working /\ pc[w] = "gone"
  BY <1>1 DEF TypeOK, Stage, Active, Ended, PCs, Process
<1>4. \A v \in Worker \ {w} : ~runs[v].agentUncertain
  BY <1>1 DEF Data, OneHolder
<1>5. ~\E v \in Worker : runs'[v].agentUncertain
  BY <1>2, <1>4
<1>6. ASSUME NEW u \in Task
      PROVE  /\ ~board'[u].agentUncertain
             /\ board'[u].initUncertain = board[u].initUncertain
             /\ board'[u].status = board[u].status
             /\ u # t => board'[u] = board[u]
  <2>1. board[u] \in TaskRows
    BY <1>1 DEF TypeOK
  <2>2. board'[u] = IF u = t /\ ~UncertainRun(runs', u)
                    THEN [board[u] EXCEPT !.agentUncertain = FALSE] ELSE board[u]
    BY DEF ConfirmRemoteStop
  <2>3. CASE u = t
    <3>1. board'[u] = [board[u] EXCEPT !.agentUncertain = FALSE]
      BY <1>5, <2>2, <2>3 DEF UncertainRun
    <3>2. QED
      BY <2>1, <2>3, <3>1 DEF TaskRows
  <2>4. CASE u # t
    <3>1. ~board[u].agentUncertain
      BY <1>1, <1>4, <2>4 DEF Data, MarksAgree, UncertainRun
    <3>2. QED
      BY <2>2, <2>4, <3>1
  <2>5. QED
    BY <2>3, <2>4
<1>7. Control'
  <2>1. Stage(w)' /\ Report(w)' /\ Remote(w)'
    BY <1>1, <1>2, <1>3 DEF Stage, Report, Remote, Starting, Working
  <2>2. QED
    BY <1>1, <1>2, <1>3, <2>1, ControlFrame
<1>8. \A v \in Worker : /\ runs'[v].task = runs[v].task
                        /\ runs'[v].state = runs[v].state
                        /\ runs[v].task \in Task \cup {None}
  BY <1>1, <1>2 DEF TypeOK, RunRows
<1>9. References'
  <2>1. t \in Task => board[t].status # "ABSENT"
    BY <1>1, NoneAssumption DEF Data, References
  <2>2. QED
    BY <1>1, <1>6, <1>8, <2>1 DEF Data, References
<1>10. OneHolder'
  BY <1>1, <1>2, <1>5, <1>8 DEF Data, OneHolder
<1>11. MarksAgree'
  BY <1>5, <1>6 DEF MarksAgree, UncertainRun
<1>12. StoppedOrMarked'
  BY <1>1, <1>2 DEF Data, StoppedOrMarked
<1>13. InitIsGuarded'
  BY <1>1, <1>6, <1>8 DEF Data, InitIsGuarded
<1>14. InitSettled' /\ InitAlone'
  BY <1>1, <1>8 DEF Data, InitSettled, InitAlone
<1>15. QED
  BY <1>7, <1>9, <1>10, <1>11, <1>12, <1>13, <1>14 DEF Data

LEMMA PeopleKeep == ASSUME IInv, People PROVE Control' /\ Data'
BY BoardKeeps, DeleteKeeps, ClearKeeps, ConfirmKeeps DEF People

-----------------------------------------------------------------------------
(* Together. *)

LEMMA PerformKeeps ==
    ASSUME IInv, NEW w \in Worker, Perform(w) PROVE Control' /\ Data'
BY QuietActions, BeginKeeps, AgentRowKeeps, InitGoKeeps, SendGoKeeps,
   InitStopKeeps, InitSavedKeeps, AgentStopKeeps, FinishKeeps DEF Perform

LEMMA IInvInit == Init => IInv
<1> SUFFICES ASSUME Init PROVE IInv
  OBVIOUS
<1>1. TypeOK
  BY NoRowTypes DEF Init, TypeOK, PCs, Starting, Verdicts, RemoteStates
<1>2. Control
  BY StageSets DEF Init, Control, Stage, Report, Remote, Copy, Process, Starting,
                   Working, NoRun
<1>3. Data
  BY StageSets DEF Init, Data, References, OneHolder, MarksAgree, UncertainRun,
                   StoppedOrMarked, InitIsGuarded, InitSettled, InitAlone
<1>4. QED
  BY <1>1, <1>2, <1>3 DEF IInv

LEMMA IInvStep == IInv /\ [Next]_vars => IInv'
<1> SUFFICES ASSUME IInv, [Next]_vars PROVE IInv'
  OBVIOUS
<1>1. TypeOK'
  BY TypeStep DEF IInv
<1>2. ASSUME NEW w \in Worker, Crash(w) PROVE Control' /\ Data'
  BY <1>2, KilledKeeps DEF Crash
<1>3. ASSUME NEW w \in Worker, ClaimNothing(w) PROVE Control' /\ Data'
  BY <1>3, QuietActions
<1>4. ASSUME UNCHANGED vars PROVE Control' /\ Data'
  <2>1. UNCHANGED <<runs, pc, row, verdict, init, agent, gaps>> /\ board' = board
    BY <1>4 DEF vars
  <2>2. QED
    BY <2>1, BoardStep
<1>5. ASSUME Next PROVE Control' /\ Data'
  <2>1. ASSUME NEW p \in Process, Recover(p) \/ RecoveryDies(p)
        PROVE  Control' /\ Data'
    BY <2>1, RecoverKeeps, RecoveryDiesKeeps
  <2>2. ASSUME NEW w \in Worker, Claim(w) \/ Shutdown(w) \/ RemoteExit(w)
        PROVE  Control' /\ Data'
    BY <2>2, ClaimKeeps, ShutdownKeeps, RemoteExitKeeps
  <2>3. ASSUME NEW w \in Worker, Perform(w) PROVE Control' /\ Data'
    BY <2>3, PerformKeeps
  <2>4. ASSUME People PROVE Control' /\ Data'
    BY <2>4, PeopleKeep
  <2>5. QED
    BY <1>2, <1>3, <1>5, <2>1, <2>2, <2>3, <2>4 DEF Next
<1>6. QED
  BY <1>1, <1>4, <1>5 DEF IInv

(* IInv holds in every reachable state: one run holds the queue, the marks  *)
(* of the two tables agree, every closed run has its agent stopped or       *)
(* marked, and no Init shares a task's directory with another process.      *)
THEOREM Safety == Spec => []IInv
BY IInvInit, IInvStep, PTL DEF Spec

(* A remote agent that still works after its run was closed is always       *)
(* marked, so claim() refuses every task, whoever was killed and when.      *)
THEOREM AgentIsTracked == Spec => []NoUntrackedAgent
BY Safety, Tracked, PTL

(* At most one remote agent works at any time: an active and a marked run   *)
(* are the same run, and only such a run has an agent.                      *)
THEOREM AgentIsExclusive == Spec => []ExclusiveAgent
<1>1. IInv => ExclusiveAgent
  BY Tracked DEF IInv, Data, OneHolder, NoUntrackedAgent, ExclusiveAgent
<1>2. QED
  BY <1>1, Safety, PTL

(* At most one run is active or marked: claim's two checks suffice.         *)
THEOREM OneRunHolds == Spec => []OneHolder
<1>1. IInv => OneHolder
  BY DEF IInv, Data
<1>2. QED
  BY <1>1, Safety, PTL

(* The mark on a task and the marks on its runs never drift apart, through  *)
(* cleanup, finish, deletion, clearing and the operator's confirmation.     *)
THEOREM MarksStayInStep == Spec => []MarksAgree
<1>1. IInv => MarksAgree
  BY DEF IInv, Data
<1>2. QED
  BY <1>1, Safety, PTL

(* A run that ended after its agent was recorded has a confirmed stop or    *)
(* the mark, in spite of kills, unsaved results and late recovery.          *)
THEOREM EndIsAccounted == Spec => []StoppedOrMarked
<1>1. IInv => StoppedOrMarked
  BY DEF IInv, Data
<1>2. QED
  BY <1>1, Safety, PTL

(* An Init that may still run keeps its task from being claimed, and shares *)
(* the task's directory with no other Init and no agent.                    *)
THEOREM InitIsSafe == Spec => [](InitIsGuarded /\ InitAlone)
<1>1. IInv => InitIsGuarded /\ InitAlone
  BY DEF IInv, Data
<1>2. QED
  BY <1>1, Safety, PTL

-----------------------------------------------------------------------------
(* How the state of a run changes. *)

LEMMA EndRunStates ==
    ASSUME TypeOK, NEW w \in Worker, NEW v \in Verdicts, EndRun(w, v),
           NEW u \in Worker, runs'[u].state # runs[u].state
    PROVE  u = w /\ runs[u].state \in Active /\ runs'[u].state \in Ended
<1>1. runs[w].state \in Active
  BY DEF EndRun
<1>2. QED
  BY <1>1, EndRunRow

LEMMA PerformStates ==
    ASSUME IInv, NEW w \in Worker, Perform(w), NEW u \in Worker,
           runs'[u].state # runs[u].state
    PROVE  \/ runs[u].state \in Active /\ runs'[u].state \in Active
           \/ /\ runs[u].state \in Active /\ runs'[u].state \in Ended
              /\ pc[u] = "finish" /\ pc'[u] = "gone"
<1>1. TypeOK /\ runs[w] \in RunRows /\ Stage(w) /\ runs' # runs
  BY DEF IInv, TypeOK, Control
<1>2. \A f \in Phases : [runs[w] EXCEPT !.phase = f].state = runs[w].state
  BY <1>1 DEF RunRows
<1>3. CASE BeginInit(w) \/ BeginAgent(w)
  <2>1. PICK f \in Phases : runs' = [runs EXCEPT ![w].phase = f]
    BY <1>1, <1>3 DEF BeginInit, BeginAgent, EnterPhase, Phases
  <2>2. QED
    BY <1>1, <2>1 DEF TypeOK, RunRows
<1>4. CASE InitSaved(w)
  BY <1>1, <1>4 DEF InitSaved, TypeOK, RunRows
<1>5. CASE AgentStart(w)
  <2>1. runs[w].state \in Active
    BY <1>1, <1>5 DEF AgentStart, Step, Stage, Working
  <2>2. QED
    BY <1>1, <1>5, <2>1 DEF AgentStart, TypeOK, RunRows, Active
<1>6. CASE SavePid(w)
  BY <1>1, <1>6 DEF SavePid, TypeOK, RunRows
<1>7. CASE SaveSession(w)
  <2> DEFINE x == runs[w].session \/ runs[w].state \in Active
  <2>1. runs' = [runs EXCEPT ![w] = [runs[w] EXCEPT !.session = x]]
    BY <1>7 DEF SaveSession
  <2> HIDE DEF x
  <2>2. QED
    BY <1>1, <2>1 DEF TypeOK, RunRows
<1>8. CASE AgentStop(w)
  <2>1. CASE AgentStopped(w, TRUE) \/ AgentStopped(w, FALSE)
    BY <1>1, <2>1, AgentStoppedRow
  <2>2. QED
    BY <1>1, <1>8, <2>1 DEF AgentStop
<1>9. CASE Finish(w)
  <2>1. verdict[w] \in Verdicts /\ EndRun(w, verdict[w])
    BY <1>1, <1>9 DEF TypeOK, Finish
  <2>2. u = w /\ runs[u].state \in Active /\ runs'[u].state \in Ended
    BY <1>1, <2>1, EndRunStates
  <2>3. pc[w] = "finish" /\ pc'[w] = "gone"
    BY <1>1, <1>9 DEF TypeOK, Process, Finish, Fail
  <2>4. QED
    BY <2>2, <2>3
<1>10. CASE \/ PrepareFails(w) \/ InitNotStarted(w) \/ InitPid(w) \/ InitGo(w)
            \/ InitFails(w) \/ InitSucceeds(w) \/ InitStop(w) \/ SendGo(w)
            \/ EndTurn(w) \/ AgentFails(w)
  BY <1>1, <1>10 DEF PrepareFails, InitNotStarted, InitPid, InitGo, InitFails,
     InitSucceeds, InitStop, SendGo, EndTurn, AgentFails, Internal
<1>11. QED
  BY <1>3, <1>4, <1>5, <1>6, <1>7, <1>8, <1>9, <1>10 DEF Perform

LEMMA PeopleStates ==
    ASSUME IInv, People, NEW u \in Worker, runs'[u].state # runs[u].state
    PROVE  runs[u].state \notin Active /\ runs'[u].state = "none"
<1>1. TypeOK /\ runs[u] \in RunRows
  BY DEF IInv, TypeOK
<1>2. ASSUME NEW t \in Task, DeleteTask(t) PROVE FALSE
  <2>1. \/ runs'[u] = runs[u]
        \/ runs'[u] = [runs[u] EXCEPT !.task = None]
    BY <1>2 DEF DeleteTask
  <2>2. QED
    BY <1>1, <2>1 DEF RunRows
<1>3. ASSUME NEW w \in Worker, ConfirmRemoteStop(w) PROVE FALSE
  <2>1. \/ runs'[u] = runs[u]
        \/ runs'[u] = [runs[u] EXCEPT !.agentUncertain = FALSE, !.stopConfirmed = TRUE]
    BY <1>1, <1>3 DEF ConfirmRemoteStop, TypeOK
  <2>2. QED
    BY <1>1, <2>1 DEF RunRows
<1>4. CASE ClearDatabase
  BY <1>4 DEF ClearDatabase, ActiveRuns, NoRun
<1>5. ASSUME NEW t \in Task,
             \/ CreateTask(t) \/ AddUserComment(t)
             \/ \E s \in Columns : MoveTask(t, s)
      PROVE  FALSE
  BY <1>5 DEF CreateTask, AddUserComment, MoveTask
<1>6. QED
  BY <1>2, <1>3, <1>4, <1>5 DEF People

\* A run begins by a claim, goes on while active, ends once and is forgotten.
LEMMA RunStates ==
    ASSUME IInv, [Next]_vars, NEW u \in Worker, runs'[u].state # runs[u].state
    PROVE  \/ runs[u].state \notin Ended /\ runs'[u].state \in Active
           \/ runs[u].state \notin Active /\ runs'[u].state = "none"
           \/ /\ runs[u].state \in Active /\ runs'[u].state \in Ended
              /\ \/ pc[u] = "finish" /\ pc'[u] = "gone"
                 \/ \E p \in Process : CloseDead(p, u)
<1>1. TypeOK /\ Stage(u) /\ runs' # runs
  BY DEF IInv, Control
<1>2. CASE People
  BY <1>2, PeopleStates
<1>3. ASSUME NEW p \in Process, Recover(p)
      PROVE  /\ runs[u].state \in Active /\ runs'[u].state \in Ended
             /\ CloseDead(p, u)
  <2>1. PICK w \in Worker : CloseDead(p, w)
    BY <1>1, <1>3 DEF Recover, Snapshot, LeaveAlive, TerminateExpired,
                      KillExpired, Unwind, Killed
  <2>2. RecoveredVerdict(row[p]) \in Verdicts
    BY DEF RecoveredVerdict, Verdicts
  <2>3. EndRun(w, RecoveredVerdict(row[p]))
    BY <2>1 DEF CloseDead
  <2>4. u = w /\ runs[u].state \in Active /\ runs'[u].state \in Ended
    BY <1>1, <2>2, <2>3, EndRunStates
  <2>5. QED
    BY <2>1, <2>4
<1>4. ASSUME NEW w \in Worker, Claim(w)
      PROVE  runs[u].state \notin Ended /\ runs'[u].state \in Active
  <2>1. PICK t \in Task : Claim(w)!3!(t)
    BY <1>4 DEF Claim
  <2>2. /\ runs'[w] = [NoRun EXCEPT !.state = "PREPARING", !.task = t]
        /\ u # w => runs'[u] = runs[u]
    BY <1>1, <2>1 DEF TypeOK
  <2>3. u = w /\ pc[u] \in Starting
    BY <1>4, <2>2 DEF Claim, Step, Starting
  <2>4. QED
    BY <1>1, <2>2, <2>3 DEF Stage, NoRun, Active, Ended
<1>5. ASSUME NEW w \in Worker,
             \/ ClaimNothing(w) \/ Crash(w) \/ Shutdown(w) \/ RemoteExit(w)
      PROVE  FALSE
  BY <1>1, <1>5 DEF ClaimNothing, Crash, Killed, Shutdown, Unwind, RemoteExit
<1>6. ASSUME NEW w \in Worker, Perform(w)
      PROVE  \/ runs[u].state \in Active /\ runs'[u].state \in Active
             \/ /\ runs[u].state \in Active /\ runs'[u].state \in Ended
                /\ pc[u] = "finish" /\ pc'[u] = "gone"
  BY <1>6, PerformStates
<1>7. CASE UNCHANGED vars
  BY <1>1, <1>7 DEF vars
<1>8. ASSUME NEW p \in Process, RecoveryDies(p) PROVE FALSE
  BY <1>1, <1>8 DEF RecoveryDies
<1>9. QED
  BY <1>2, <1>3, <1>4, <1>5, <1>6, <1>7, <1>8, StageSets DEF Next

(* A closed run is closed for good: no late result, second recovery or      *)
(* surviving executor changes its state, until the database is cleared.     *)
THEOREM ClosedStaysClosed == Spec => ClosedIsFinal
<1>1. ASSUME IInv, [Next]_vars
      PROVE  \A w \in Worker : runs[w].state \in Ended =>
                runs'[w].state \in {runs[w].state, "none"}
  BY <1>1, RunStates, StageSets
<1>2. QED
  BY <1>1, Safety, PTL DEF Spec, ClosedIsFinal

(* A run is closed by its own executor, or after that executor's death by a *)
(* process of its scope, which is the only one that can see it dead.        *)
THEOREM ClosedByOwnScope == Spec => ClosedByRightProcess
<1>1. ASSUME IInv, [Next]_vars, NEW w \in Worker,
             runs[w].state \in Active, runs'[w].state \in Ended
      PROVE  \/ pc[w] = "finish" /\ pc'[w] = "gone"
             \/ /\ pc[w] = "gone"
                /\ \E p \in Process \ {w} : pc[p] # pc'[p] /\ Scope[p] = Scope[w]
  <2>1. ASSUME NEW p \in Process, CloseDead(p, w)
        PROVE  /\ pc[w] = "gone" /\ p # w /\ pc[p] # pc'[p] /\ Scope[p] = Scope[w]
    <3>1. /\ pc[p] \in {"inspect", "wait"} /\ row[p].run = w /\ Dead(p, w)
          /\ pc'[p] \in {"claim", "off"}
      BY <1>1, <2>1 DEF IInv, TypeOK, CloseDead, AfterRecovery
    <3>2. Scope[p] = Scope[w]
      BY <1>1, <3>1 DEF IInv, Control, Copy, SameScope
    <3>3. QED
      BY <3>1, <3>2 DEF Dead
  <2>2. runs'[w].state # runs[w].state /\ runs[w].state \notin Ended
    BY <1>1, StageSets
  <2>3. \/ pc[w] = "finish" /\ pc'[w] = "gone"
        \/ \E p \in Process : CloseDead(p, w)
    BY <1>1, <2>2, RunStates, StageSets DEF Active, Ended
  <2>4. QED
    BY <2>1, <2>3
<1>2. ASSUME IInv, [Next]_vars
      PROVE  \A w \in Worker : runs[w].state \in Active /\ runs'[w].state \in Ended =>
               \/ pc[w] = "finish" /\ pc'[w] = "gone"
               \/ /\ pc[w] = "gone"
                  /\ \E p \in Process \ {w} : /\ pc[p] # pc'[p]
                                              /\ Scope[p] = Scope[w]
  BY <1>1, <1>2
<1>3. QED
  BY <1>2, Safety, PTL DEF Spec, ClosedByRightProcess

-----------------------------------------------------------------------------
(* COLUMNS.  The steps of an executor before it closes its run. *)

\* The fields of a run that place its task.
SameClaim(u) ==
    /\ runs'[u].task = runs[u].task
    /\ runs[u].state \in Active => runs'[u].state \in Active

SamePlace(t) ==
    /\ board'[t].status = board[t].status
    /\ board'[t].active = board[t].active

LEMMA PerformPlaces ==
    ASSUME IInv, NEW w \in Worker, Perform(w), ~Finish(w)
    PROVE  /\ \A u \in Worker : SameClaim(u)
           /\ \A t \in Task : SamePlace(t)
<1>1. TypeOK /\ runs[w] \in RunRows /\ \A t \in Task : board[t] \in TaskRows
  BY DEF IInv, TypeOK
<1>2. CASE BeginInit(w) \/ BeginAgent(w)
  <2>1. PICK f \in Phases : UNCHANGED runs \/ runs' = [runs EXCEPT ![w].phase = f]
    BY <1>1, <1>2 DEF BeginInit, BeginAgent, EnterPhase, Phases
  <2>2. UNCHANGED board
    BY <1>2 DEF BeginInit, BeginAgent, EnterPhase
  <2>3. QED
    BY <1>1, <2>1, <2>2, SMTT(20) DEF TypeOK, RunRows, SameClaim, SamePlace
<1>3. CASE InitSaved(w)
  <2>1. \A u \in Worker : SameClaim(u)
    BY <1>1, <1>3 DEF InitSaved, TypeOK, RunRows, SameClaim
  <2>2. ASSUME NEW t \in Task PROVE SamePlace(t)
    <3>1. \/ board'[t] = board[t]
          \/ board'[t] = [board[t] EXCEPT !.initSucceeded = TRUE]
      BY <1>3 DEF InitSaved
    <3>2. QED
      BY <1>1, <3>1 DEF TaskRows, SamePlace
  <2>3. QED
    BY <2>1, <2>2
<1>4. CASE AgentStart(w)
  BY <1>1, <1>4 DEF AgentStart, TypeOK, RunRows, Active, SameClaim, SamePlace
<1>5. CASE SavePid(w)
  BY <1>1, <1>5 DEF SavePid, TypeOK, RunRows, SameClaim, SamePlace
<1>6. CASE SaveSession(w)
  <2> DEFINE x == runs[w].session \/ runs[w].state \in Active
  <2>1. /\ runs' = [runs EXCEPT ![w] = [runs[w] EXCEPT !.session = x]]
        /\ UNCHANGED board
    BY <1>6 DEF SaveSession
  <2> HIDE DEF x
  <2>2. QED
    BY <1>1, <2>1 DEF TypeOK, RunRows, SameClaim, SamePlace
<1>7. CASE AgentStop(w)
  <2>1. ASSUME NEW c \in BOOLEAN, AgentStopped(w, c), NEW t \in Task
        PROVE  SamePlace(t)
    <3> DEFINE m == ~c \/ (board[t].agentUncertain /\ UncertainRun(runs', t))
    <3>1. \/ board'[t] = board[t]
          \/ board'[t] = [board[t] EXCEPT !.agentUncertain = m]
      BY <2>1 DEF AgentStopped
    <3> HIDE DEF m
    <3>2. QED
      BY <1>1, <3>1 DEF TaskRows, SamePlace
  <2>2. ASSUME NEW c \in BOOLEAN, AgentStopped(w, c), NEW u \in Worker
        PROVE  SameClaim(u)
    BY <1>1, <2>2, AgentStoppedRow DEF SameClaim
  <2>3. CASE UNCHANGED <<board, runs>>
    BY <2>3 DEF SameClaim, SamePlace
  <2>4. AgentStopped(w, TRUE) \/ AgentStopped(w, FALSE) \/ UNCHANGED <<board, runs>>
    BY <1>7 DEF AgentStop
  <2>5. QED
    BY <2>1, <2>2, <2>3, <2>4
<1>8. CASE \/ PrepareFails(w) \/ InitNotStarted(w) \/ InitPid(w) \/ InitGo(w)
           \/ InitFails(w) \/ InitSucceeds(w) \/ InitStop(w) \/ SendGo(w)
           \/ EndTurn(w) \/ AgentFails(w)
  BY <1>8 DEF PrepareFails, InitNotStarted, InitPid, InitGo, InitFails,
     InitSucceeds, InitStop, SendGo, EndTurn, AgentFails, Internal,
     SameClaim, SamePlace
<1>9. QED
  BY <1>2, <1>3, <1>4, <1>5, <1>6, <1>7, <1>8 DEF Perform

-----------------------------------------------------------------------------
(* The ways of a task through the columns. *)

\* The task is shown in IN PROGRESS and w answers for it.
Owned(t, w) ==
    /\ board[t].status = "IN PROGRESS" /\ board[t].active = w
    /\ runs[w].task = t /\ runs[w].state \in Active

\* The task stays where it is, and with it the run that owns it.
Stays(t) == SamePlace(t) /\ \A w \in Worker : Owned(t, w) => Owned(t, w)'

LEMMA EndRunPlace ==
    ASSUME IInv, NEW w \in Worker, NEW v \in Verdicts, EndRun(w, v), NEW t \in Task
    PROVE  \/ Stays(t)
           \/ board'[t].status = "WAIT"
           \/ board'[t].status = "REVIEW" /\ Owned(t, w) /\ ~Failed(runs[w], v)
<1>1. TypeOK /\ OneHolder /\ board[t] \in TaskRows
  BY DEF IInv, Data, TypeOK
<1>2. CASE runs[w].state \notin Active
  BY <1>2 DEF EndRun, Stays, SamePlace, Owned
<1>3. CASE runs[w].state \in Active
  <2> DEFINE n == board[t].initUncertain \/ InitUncertain(v)
             m == board[t].agentUncertain \/ LeavesMark(runs[w], v)
             f == Failed(runs[w], v)
             o == Outcome(board[t], w, f)
  <2>1. \/ t # runs[w].task /\ board'[t] = board[t]
        \/ /\ t = runs[w].task
           /\ board'[t] = [board[t] EXCEPT !.initUncertain = n,
                                           !.agentUncertain = m, !.status = o]
    BY <1>3 DEF EndRun, CloseRun, CloseTask
  <2>2. \/ o = board[t].status /\ ~(/\ board[t].status = "IN PROGRESS"
                                    /\ board[t].active = w)
        \/ /\ board[t].status = "IN PROGRESS" /\ board[t].active = w
           /\ o = "WAIT" \/ (o = "REVIEW" /\ ~f)
    BY DEF Outcome
  <2> HIDE DEF n, m, o, f
  <2>3. \/ t # runs[w].task /\ SamePlace(t)
        \/ /\ t = runs[w].task /\ board'[t].status = o
           /\ board'[t].active = board[t].active
    BY <1>1, <2>1 DEF TaskRows, SamePlace
  <2>4. ASSUME NEW u \in Worker, Owned(t, u) PROVE u = w
    BY <1>1, <1>3, <2>4 DEF Owned, OneHolder
  <2>5. QED
    BY <1>3, <2>2, <2>3, <2>4 DEF Stays, SamePlace, Owned, f
<1>4. QED
  BY <1>2, <1>3

LEMMA PlaceStep ==
    ASSUME IInv, [Next]_vars, NEW t \in Task
    PROVE  \/ Stays(t)
           \/ board'[t].status \notin {"IN PROGRESS", "REVIEW"}
           \/ \E w \in Worker : Owned(t, w)'
           \/ \E s \in Columns : MoveTask(t, s)
           \/ /\ board'[t].status = "REVIEW"
              /\ \E w \in Worker : Finish(w) /\ Owned(t, w) /\ ~Failed(runs[w], verdict[w])
<1>1. TypeOK /\ board[t] \in TaskRows
  BY DEF IInv, TypeOK
<1>2. ASSUME SamePlace(t), \A u \in Worker : SameClaim(u) PROVE Stays(t)
  BY <1>2 DEF Stays, Owned, SamePlace, SameClaim
<1>3. ASSUME UNCHANGED runs, board'[t] = board[t] PROVE Stays(t)
  BY <1>3 DEF Stays, Owned, SamePlace
<1>4. ASSUME NEW u \in Task, CreateTask(u) \/ AddUserComment(u)
      PROVE  Stays(t) \/ board'[t].status \notin {"IN PROGRESS", "REVIEW"}
  <2>1. CASE u # t
    BY <1>1, <1>3, <1>4, <2>1 DEF CreateTask, AddUserComment, TypeOK
  <2>2. CASE u = t
    BY <1>1, <1>4, <2>2, ZenonT(30) DEF CreateTask, AddUserComment, TypeOK, TaskRows, NoTask
  <2>3. QED
    BY <2>1, <2>2
<1>5. ASSUME NEW u \in Task, NEW s \in Columns, MoveTask(u, s), u # t
      PROVE  Stays(t)
  BY <1>1, <1>3, <1>5 DEF MoveTask, TypeOK
<1>6. ASSUME NEW u \in Task, DeleteTask(u)
      PROVE  Stays(t) \/ board'[t].status \notin {"IN PROGRESS", "REVIEW"}
  <2>1. CASE u = t
    BY <1>1, <1>6, <2>1 DEF DeleteTask, TypeOK, NoTask
  <2>2. CASE u # t
    <3>1. board'[t] = board[t]
      BY <1>1, <1>6, <2>2 DEF DeleteTask, TypeOK
    <3>2. \A w \in Worker : runs[w].task = t => runs'[w] = runs[w]
      BY <1>6, <2>2 DEF DeleteTask
    <3>3. QED
      BY <3>1, <3>2 DEF Stays, SamePlace, Owned
  <2>3. QED
    BY <2>1, <2>2
<1>7. ASSUME ClearDatabase
      PROVE  board'[t].status \notin {"IN PROGRESS", "REVIEW"}
  BY <1>7 DEF ClearDatabase, NoTask
<1>8. ASSUME NEW w \in Worker, ConfirmRemoteStop(w) PROVE Stays(t)
  <2>1. SamePlace(t)
    <3>1. \/ board'[t] = board[t]
          \/ board'[t] = [board[t] EXCEPT !.agentUncertain = FALSE]
      BY <1>8 DEF ConfirmRemoteStop
    <3>2. QED
      BY <1>1, <3>1 DEF TaskRows, SamePlace
  <2>2. \A u \in Worker : SameClaim(u)
    BY <1>1, <1>8, StageSets DEF ConfirmRemoteStop, TypeOK, RunRows, SameClaim
  <2>3. QED
    BY <1>2, <2>1, <2>2
<1>9. ASSUME NEW p \in Process, Recover(p)
      PROVE  Stays(t) \/ board'[t].status = "WAIT"
  <2>1. ASSUME NEW w \in Worker, CloseDead(p, w)
        PROVE  Stays(t) \/ board'[t].status = "WAIT"
    <3> DEFINE v == RecoveredVerdict(row[p])
    <3>1. v \in Verdicts /\ v # "ok" /\ EndRun(w, v)
      BY <2>1 DEF RecoveredVerdict, Verdicts, CloseDead
    <3> HIDE DEF v
    <3>2. Failed(runs[w], v)
      BY <3>1 DEF Failed
    <3>3. QED
      BY <3>1, <3>2, EndRunPlace
  <2>2. (\E w \in Worker : CloseDead(p, w)) \/ UNCHANGED <<board, runs>>
    BY <1>9 DEF Recover, Snapshot, LeaveAlive, TerminateExpired, KillExpired,
                Unwind, Killed
  <2>3. QED
    BY <1>3, <2>1, <2>2
<1>10. ASSUME NEW w \in Worker, Claim(w)
       PROVE  Stays(t) \/ Owned(t, w)'
  <2>1. PICK u \in Task : Claim(w)!3!(u)
    BY <1>10 DEF Claim
  <2>2. /\ runs'[w] = [NoRun EXCEPT !.state = "PREPARING", !.task = u]
        /\ \A x \in Worker \ {w} : runs'[x] = runs[x]
    BY <1>1, <2>1 DEF TypeOK
  <2>3. CASE u = t
    <3>1. board'[t] = [board[t] EXCEPT !.status = "IN PROGRESS", !.active = w]
      BY <1>1, <2>1, <2>3 DEF TypeOK
    <3>2. QED
      BY <1>1, <2>2, <2>3, <3>1 DEF TaskRows, Owned, NoRun, Active
  <2>4. CASE u # t
    <3>1. board'[t] = board[t]
      BY <1>1, <2>1, <2>4 DEF TypeOK
    <3>2. runs[w].state \notin Active
      BY <1>10 DEF Claim, Unblocked, ActiveRuns
    <3>3. QED
      BY <2>2, <3>1, <3>2 DEF Stays, SamePlace, Owned
  <2>5. QED
    BY <2>3, <2>4
<1>11. ASSUME NEW w \in Worker, Perform(w)
       PROVE  \/ Stays(t) \/ board'[t].status = "WAIT"
              \/ /\ board'[t].status = "REVIEW"
                 /\ Finish(w) /\ Owned(t, w) /\ ~Failed(runs[w], verdict[w])
  <2>1. CASE Finish(w)
    <3>1. verdict[w] \in Verdicts /\ EndRun(w, verdict[w])
      BY <1>1, <2>1 DEF TypeOK, Finish
    <3>2. QED
      BY <2>1, <3>1, EndRunPlace
  <2>2. CASE ~Finish(w)
    BY <1>2, <1>11, <2>2, PerformPlaces
  <2>3. QED
    BY <2>1, <2>2
<1>12. ASSUME NEW w \in Worker,
              \/ ClaimNothing(w) \/ Crash(w) \/ Shutdown(w) \/ RemoteExit(w)
       PROVE  Stays(t)
  <2>1. UNCHANGED <<board, runs>>
    BY <1>12 DEF ClaimNothing, Crash, Killed, Shutdown, Unwind, RemoteExit
  <2>2. QED
    BY <1>3, <2>1
<1>13. CASE UNCHANGED vars
  BY <1>3, <1>13 DEF vars
<1>14. CASE People
  BY <1>4, <1>5, <1>6, <1>7, <1>8, <1>14 DEF People
<1>15. ASSUME NEW p \in Process, RecoveryDies(p) PROVE Stays(t)
  BY <1>3, <1>15 DEF RecoveryDies
<1>16. QED
  BY <1>9, <1>10, <1>11, <1>12, <1>13, <1>14, <1>15 DEF Next

\* Does somebody force tasks into the column s?
Unforced(s) == Forced => s \notin Columns

LEMMA UnforcedMove ==
    ASSUME TypeOK, NEW t \in Task, NEW s \in Columns, MoveTask(t, s),
           NEW c \in {"IN PROGRESS", "REVIEW"}, Unforced(c)
    PROVE  board'[t].status # c
<1>1. board[t] \in TaskRows /\ board[t].status \in Statuses
  BY DEF TypeOK, MoveTask
<1>2. s # c
  BY <1>1 DEF MoveTask, Unforced, AllowedTransitions, Statuses
<1>3. board'[t].status = s
  <2> DEFINE a == Disowned(board[t])
  <2>1. board'[t] = [board[t] EXCEPT !.status = s, !.active = a]
    BY DEF MoveTask, TypeOK
  <2> HIDE DEF a
  <2>2. QED
    BY <1>1, <2>1 DEF TaskRows
<1>4. QED
  BY <1>2, <1>3

(* IN PROGRESS shows only tasks of active runs: an interrupted or recovered *)
(* run never leaves its task behind in that column.                         *)
THEOREM InProgressOwned ==
    ASSUME Unforced("IN PROGRESS") PROVE Spec => []InProgressIsOwned
<1>1. Init => InProgressIsOwned
  <2> SUFFICES ASSUME Init, NEW t \in Task PROVE board[t].status # "IN PROGRESS"
    BY DEF InProgressIsOwned
  <2>1. board[t] = NoTask
    BY DEF Init
  <2>2. QED
    BY <2>1, StageSets
<1>2. ASSUME IInv, InProgressIsOwned, [Next]_vars PROVE InProgressIsOwned'
  <2> SUFFICES ASSUME NEW t \in Task, board'[t].status = "IN PROGRESS"
               PROVE  \E w \in Worker : Owned(t, w)'
    BY DEF InProgressIsOwned, Owned
  <2>1. Stays(t) \/ \E w \in Worker : Owned(t, w)'
    BY <1>2, PlaceStep, UnforcedMove DEF IInv
  <2>2. CASE Stays(t)
    <3>1. PICK w \in Worker : Owned(t, w)
      BY <1>2, <2>2 DEF Stays, SamePlace, InProgressIsOwned, Owned
    <3>2. QED
      BY <2>2, <3>1 DEF Stays
  <2>3. QED
    BY <2>1, <2>2
<1>3. QED
  BY <1>1, <1>2, Safety, PTL DEF Spec

-----------------------------------------------------------------------------
(* REVIEW. *)

\* A turn that ended well is reported as such only with a confirmed stop.
Earned(w) ==
    verdict[w] = "ok" => \/ pc[w] = "agentStop"
                         \/ pc[w] = "finish" /\ runs[w].stopConfirmed

LEMMA PerformMoves ==
    ASSUME IInv, NEW w \in Worker, Perform(w)
    PROVE  /\ \A u \in Worker \ {w} : /\ pc'[u] = pc[u] /\ verdict'[u] = verdict[u]
                                      /\ runs'[u] = runs[u]
           /\ verdict'[w] = "ok" =>
                 \/ EndTurn(w) \/ AgentStop(w)
                 \/ verdict[w] = "ok" /\ pc[w] \notin {"agentStop", "finish"}
<1>1. TypeOK /\ w \in Process /\ Worker \subseteq Process
  BY DEF IInv, Process
<1>2. CASE BeginInit(w) \/ BeginAgent(w)
  <2>1. PICK from \in {"prepare", "beginAgent"}, to \in Working, f \in Phases :
          EnterPhase(w, from, to, f)
    BY <1>2 DEF BeginInit, BeginAgent, Working, Phases
  <2>2. /\ pc' = [pc EXCEPT ![w] = to] \/ pc' = [pc EXCEPT ![w] = "finish"]
        /\ pc[w] = from
        /\ UNCHANGED verdict \/ verdict' = [verdict EXCEPT ![w] = "initError"]
        /\ UNCHANGED runs \/ runs' = [runs EXCEPT ![w].phase = f]
    BY <2>1 DEF EnterPhase, Step, Fail
  <2>3. QED
    BY <1>1, <2>2 DEF TypeOK
<1>3. CASE AgentStart(w) \/ SaveSession(w)
  BY <1>1, <1>3 DEF AgentStart, SaveSession, Step, TypeOK
<1>4. CASE InitSaved(w) \/ SavePid(w)
  BY <1>1, <1>4 DEF InitSaved, SavePid, Fail, TypeOK
<1>5. CASE AgentStop(w)
  <2>1. \A u \in Worker \ {w} : pc'[u] = pc[u] /\ verdict'[u] = verdict[u]
    BY <1>1, <1>5 DEF AgentStop, Step, TypeOK
  <2>2. CASE AgentStopped(w, TRUE) \/ AgentStopped(w, FALSE)
    BY <1>1, <1>5, <2>1, <2>2, AgentStoppedRow
  <2>3. QED
    BY <1>5, <2>1, <2>2 DEF AgentStop
<1>6. CASE Finish(w)
  <2>1. /\ verdict[w] \in Verdicts /\ EndRun(w, verdict[w])
        /\ pc' = [pc EXCEPT ![w] = "gone"]
        /\ verdict' = [verdict EXCEPT ![w] = "error"]
    BY <1>1, <1>6 DEF TypeOK, Finish, Fail
  <2>2. \A u \in Worker \ {w} : runs'[u] = runs[u]
    BY <1>1, <2>1, EndRunRow DEF EndRun
  <2>3. QED
    BY <1>1, <2>1, <2>2 DEF TypeOK
<1>7. CASE PrepareFails(w) \/ InitNotStarted(w) \/ InitStop(w) \/ AgentFails(w)
  BY <1>1, <1>7 DEF PrepareFails, InitNotStarted, InitStop, AgentFails, Fail,
                    Internal, TypeOK
<1>8. CASE InitPid(w) \/ InitGo(w) \/ InitSucceeds(w) \/ SendGo(w)
  BY <1>1, <1>8 DEF InitPid, InitGo, InitSucceeds, SendGo, Step, Internal, TypeOK
<1>9. CASE InitFails(w) \/ EndTurn(w)
  BY <1>1, <1>9 DEF InitFails, EndTurn, Fail, Internal, TypeOK
<1>10. QED
  BY <1>2, <1>3, <1>4, <1>5, <1>6, <1>7, <1>8, <1>9 DEF Perform

\* A process that recovers has no verdict of its own; a signal overrides it.
LEMMA RecoverMoves ==
    ASSUME IInv, NEW p \in Process, Recover(p), NEW w \in Worker
    PROVE  \/ verdict'[w] # "ok"
           \/ /\ verdict'[w] = verdict[w] /\ (pc'[w] = pc[w] \/ w = p)
              /\ runs[w].stopConfirmed => runs'[w].stopConfirmed
<1>1. TypeOK /\ w \in Process
  BY DEF IInv, Process
<1>2. CASE Snapshot(p)
  BY <1>1, <1>2 DEF Snapshot, Step, TypeOK
<1>3. ASSUME NEW x \in Worker, LeaveAlive(p, x)
      PROVE  /\ verdict'[w] = verdict[w] /\ (pc'[w] = pc[w] \/ w = p)
             /\ runs' = runs
  BY <1>1, <1>3 DEF LeaveAlive, TypeOK
<1>4. ASSUME NEW x \in Worker, CloseDead(p, x)
      PROVE  /\ verdict'[w] = verdict[w] /\ (pc'[w] = pc[w] \/ w = p)
             /\ runs[w].stopConfirmed => runs'[w].stopConfirmed
  <2>1. RecoveredVerdict(row[p]) \in Verdicts /\ EndRun(x, RecoveredVerdict(row[p]))
    BY <1>4 DEF RecoveredVerdict, Verdicts, CloseDead
  <2>2. runs[w].stopConfirmed => runs'[w].stopConfirmed
    <3>1. CASE runs[x].state \in Active
      BY <1>1, <2>1, <3>1, EndRunRow
    <3>2. CASE runs[x].state \notin Active
      BY <2>1, <3>2 DEF EndRun
    <3>3. QED
      BY <3>1, <3>2
  <2>3. QED
    BY <1>1, <1>4, <2>2 DEF CloseDead, TypeOK
<1>5. ASSUME NEW x \in Worker, TerminateExpired(p, x)
      PROVE  \/ verdict'[w] # "ok"
             \/ /\ verdict'[w] = verdict[w] /\ (pc'[w] = pc[w] \/ w = p)
                /\ runs' = runs
  <2>1. PICK u \in Unwinding(x) :
          Unwind(x, u) /\ pc' = [pc EXCEPT ![p] = "wait", ![x] = u.pc]
    BY <1>5 DEF TerminateExpired
  <2>2. u.verdict # "ok"
    BY DEF Unwinding
  <2>3. QED
    BY <1>1, <2>1, <2>2 DEF Unwind, TypeOK
<1>6. ASSUME NEW x \in Worker, KillExpired(p, x)
      PROVE  \/ verdict'[w] # "ok"
             \/ verdict'[w] = verdict[w] /\ pc'[w] = pc[w] /\ runs' = runs
  BY <1>1, <1>6 DEF KillExpired, Killed, TypeOK
<1>7. QED
  BY <1>2, <1>3, <1>4, <1>5, <1>6 DEF Recover, Snapshot

LEMMA EarnedStep ==
    ASSUME IInv, \A w \in Worker : Earned(w), [Next]_vars, NEW w \in Worker
    PROVE  Earned(w)'
<1>1. TypeOK /\ Earned(w) /\ Stage(w) /\ runs[w] \in RunRows
  BY DEF IInv, Control, TypeOK
<1>2. ASSUME \/ verdict'[w] # "ok"
             \/ /\ verdict'[w] = verdict[w] /\ pc'[w] = pc[w]
                /\ runs[w].stopConfirmed => runs'[w].stopConfirmed
      PROVE  Earned(w)'
  BY <1>1, <1>2 DEF Earned
<1>3. CASE People
  <2>1. UNCHANGED <<pc, verdict>>
    BY <1>3 DEF People, CreateTask, AddUserComment, DeleteTask, MoveTask,
                ClearDatabase, ConfirmRemoteStop, BoardOnly
  <2>2. CASE ClearDatabase
    <3>1. pc[w] \notin Working
      BY <1>1, <2>2 DEF ClearDatabase, ActiveRuns, Stage
    <3>2. QED
      BY <1>1, <2>1, <3>1 DEF Earned, Working
  <2>3. ASSUME NEW u \in Worker, ConfirmRemoteStop(u)
        PROVE  runs[w].stopConfirmed => runs'[w].stopConfirmed
    <3>1. \/ runs'[w] = runs[w]
          \/ runs'[w] = [runs[w] EXCEPT !.agentUncertain = FALSE,
                                        !.stopConfirmed = TRUE]
      BY <1>1, <2>3 DEF ConfirmRemoteStop, TypeOK
    <3>2. QED
      BY <1>1, <3>1 DEF RunRows
  <2>4. ASSUME NEW t \in Task, DeleteTask(t)
        PROVE  runs[w].stopConfirmed => runs'[w].stopConfirmed
    <3>1. runs'[w] = runs[w] \/ runs'[w] = [runs[w] EXCEPT !.task = None]
      BY <2>4 DEF DeleteTask
    <3>2. QED
      BY <1>1, <3>1 DEF RunRows
  <2>5. ASSUME NEW t \in Task,
               \/ CreateTask(t) \/ AddUserComment(t)
               \/ \E s \in Columns : MoveTask(t, s)
        PROVE  UNCHANGED runs
    BY <2>5 DEF CreateTask, AddUserComment, MoveTask
  <2>6. QED
    BY <1>2, <1>3, <2>1, <2>2, <2>3, <2>4, <2>5 DEF People
<1>4. ASSUME NEW p \in Process, Recover(p) PROVE Earned(w)'
  <2>1. CASE verdict[w] = "ok" /\ w = p
    <3>1. pc[w] \in {"off", "inspect", "wait"}
      BY <1>4, <2>1 DEF Recover, Snapshot, Step, CloseDead, LeaveAlive,
                        TerminateExpired, KillExpired
    <3>2. QED
      BY <1>1, <2>1, <3>1 DEF Earned
  <2>2. CASE ~(verdict[w] = "ok" /\ w = p)
    <3>1. \/ verdict'[w] # "ok"
          \/ /\ verdict'[w] = verdict[w] /\ (pc'[w] = pc[w] \/ w = p)
             /\ runs[w].stopConfirmed => runs'[w].stopConfirmed
      BY <1>4, RecoverMoves
    <3>2. CASE verdict'[w] = "ok"
      <4>1. /\ verdict'[w] = verdict[w] /\ pc'[w] = pc[w]
            /\ runs[w].stopConfirmed => runs'[w].stopConfirmed
        BY <2>2, <3>1, <3>2
      <4>2. QED
        BY <1>2, <4>1
    <3>3. QED
      BY <1>2, <3>2
  <2>3. QED
    BY <2>1, <2>2
<1>5. ASSUME NEW u \in Worker, Claim(u) PROVE Earned(w)'
  <2>1. /\ pc[u] = "claim" /\ \A x \in Worker \ {u} : pc'[x] = pc[x]
        /\ UNCHANGED verdict /\ \A x \in Worker \ {u} : runs'[x] = runs[x]
    BY <1>1, <1>5 DEF Claim, Step, TypeOK, Process
  <2>2. QED
    BY <1>1, <1>2, <2>1 DEF Earned
<1>6. ASSUME NEW u \in Worker, ClaimNothing(u) PROVE Earned(w)'
  <2>1. /\ pc[u] = "claim" /\ \A x \in Worker \ {u} : pc'[x] = pc[x]
        /\ UNCHANGED <<verdict, runs>>
    BY <1>1, <1>6 DEF ClaimNothing, Step, TypeOK, Process
  <2>2. QED
    BY <1>1, <1>2, <2>1 DEF Earned
<1>7. ASSUME NEW u \in Worker, Perform(u) PROVE Earned(w)'
  <2>1. CASE w # u
    BY <1>2, <1>7, <2>1, PerformMoves
  <2>2. CASE w = u /\ verdict'[w] = "ok" /\ EndTurn(w)
    <3>1. pc'[w] = "agentStop"
      BY <1>1, <2>2 DEF EndTurn, Fail, TypeOK, Process
    <3>2. QED
      BY <3>1 DEF Earned
  <2>3. CASE w = u /\ verdict'[w] = "ok" /\ AgentStop(w)
    <3>1. pc'[w] = "finish"
      BY <1>1, <2>3 DEF AgentStop, Step, TypeOK, Process
    <3>2. AgentStopped(w, TRUE)
      BY <1>1, <2>3 DEF AgentStop, UnconfirmedVerdict, TypeOK
    <3>3. runs'[w].stopConfirmed
      BY <1>1, <3>2, AgentStoppedRow
    <3>4. QED
      BY <3>1, <3>3 DEF Earned
  <2>4. CASE w = u /\ verdict'[w] = "ok" /\ ~EndTurn(w) /\ ~AgentStop(w)
    BY <1>1, <1>7, <2>4, PerformMoves DEF Earned
  <2>5. QED
    BY <1>2, <2>1, <2>2, <2>3, <2>4
<1>8. ASSUME NEW u \in Worker, Crash(u) \/ Shutdown(u) PROVE Earned(w)'
  <2>1. CASE Crash(u)
    BY <1>1, <1>2, <2>1 DEF Crash, Killed, TypeOK, Process
  <2>2. CASE Shutdown(u)
    <3>1. PICK x \in Unwinding(u) : Unwind(u, x) /\ pc' = [pc EXCEPT ![u] = x.pc]
      BY <2>2 DEF Shutdown
    <3>2. x.verdict # "ok"
      BY DEF Unwinding
    <3>3. QED
      BY <1>1, <1>2, <3>1, <3>2 DEF Unwind, TypeOK, Process
  <2>3. QED
    BY <1>8, <2>1, <2>2
<1>9. ASSUME NEW u \in Worker, RemoteExit(u) PROVE Earned(w)'
  BY <1>2, <1>9 DEF RemoteExit
<1>10. CASE UNCHANGED vars
  BY <1>2, <1>10 DEF vars
<1>11. ASSUME NEW p \in Process, RecoveryDies(p) PROVE Earned(w)'
  <2>1. /\ UNCHANGED <<runs, verdict>>
        /\ pc'[w] = pc[w] \/ pc[w] \in {"inspect", "wait"}
    BY <1>1, <1>11 DEF RecoveryDies, Step, TypeOK, Process
  <2>2. QED
    BY <1>1, <1>2, <2>1 DEF Earned
<1>12. QED
  BY <1>3, <1>4, <1>5, <1>6, <1>7, <1>8, <1>9, <1>10, <1>11 DEF Next

LEMMA EarnedAlways == Spec => [](\A w \in Worker : Earned(w))
<1>1. Init => \A w \in Worker : Earned(w)
  BY DEF Init, Earned
<1>2. IInv /\ (\A w \in Worker : Earned(w)) /\ [Next]_vars
        => (\A w \in Worker : Earned(w))'
  BY EarnedStep
<1>3. QED
  BY <1>1, <1>2, Safety, PTL DEF Spec

(* REVIEW is entered only by the success of the run that owns the task,     *)
(* with its agent confirmed to be gone: no crash, disowning, recovery or    *)
(* lost stop lets unfinished work pass for finished.                        *)
THEOREM ReviewEarned == ASSUME Unforced("REVIEW") PROVE Spec => ReviewIsEarned
<1>1. ASSUME IInv, \A w \in Worker : Earned(w), [Next]_vars, NEW t \in Task,
             board[t].status # "REVIEW", board'[t].status = "REVIEW"
      PROVE  \E w \in Worker : /\ board[t].active = w
                               /\ runs[w].task = t
                               /\ runs'[w].state = "SUCCEEDED"
                               /\ runs'[w].stopConfirmed
                               /\ agent'[w] # "running"
  <2>1. /\ ~Stays(t) /\ \A w \in Worker : ~Owned(t, w)'
        /\ ~\E s \in Columns : MoveTask(t, s)
    BY <1>1, UnforcedMove DEF IInv, Stays, SamePlace, Owned
  <2>2. PICK w \in Worker :
          Finish(w) /\ Owned(t, w) /\ ~Failed(runs[w], verdict[w])
    BY <1>1, <2>1, PlaceStep
  <2>3. /\ TypeOK /\ Remote(w) /\ runs[w].state \in Active
        /\ verdict[w] = "ok" /\ verdict[w] \in Verdicts /\ pc[w] = "finish"
        /\ EndRun(w, verdict[w]) /\ UNCHANGED agent
    BY <1>1, <2>2 DEF IInv, Control, Owned, Failed, Finish, Fail, TypeOK
  <2>4. runs[w].stopConfirmed
    BY <1>1, <2>3 DEF Earned
  <2>5. runs'[w].stopConfirmed /\ agent'[w] # "running"
    BY <2>3, <2>4, EndRunRow DEF Remote
  <2>6. runs'[w].state = "SUCCEEDED"
    <3> DEFINE v == verdict[w]
               m == runs[w].agentUncertain \/ LeavesMark(runs[w], v)
               i == IF InitFailed(runs[w], v) THEN "FAILED" ELSE runs[w].initResult
    <3>1. runs' = [runs EXCEPT ![w] = [runs[w] EXCEPT !.state = "SUCCEEDED",
                                       !.agentUncertain = m, !.initResult = i]]
      BY <2>2, <2>3 DEF EndRun, CloseRun, ClosedRun
    <3> HIDE DEF m, i
    <3>2. QED
      BY <2>3, <3>1 DEF TypeOK, RunRows
  <2>7. QED
    BY <2>2, <2>5, <2>6 DEF Owned
<1>2. ASSUME IInv, \A w \in Worker : Earned(w), [Next]_vars
      PROVE  \A t \in Task :
               board[t].status # "REVIEW" /\ board'[t].status = "REVIEW" =>
                 \E w \in Worker : /\ board[t].active = w
                                   /\ runs[w].task = t
                                   /\ runs'[w].state = "SUCCEEDED"
                                   /\ runs'[w].stopConfirmed
                                   /\ agent'[w] # "running"
  BY <1>1, <1>2
<1>3. QED
  BY <1>2, EarnedAlways, Safety, PTL DEF Spec, ReviewIsEarned

-----------------------------------------------------------------------------
(* INIT is not repeated. *)

\* The executor is about to perform Init for a task that still names it.
Preparing(w) ==
    \/ pc[w] = "prepare" /\ fresh[w]
    \/ pc[w] \in {"init", "initGo", "initRun"}

Named(w) == runs[w].task \in Task /\ board[runs[w].task].active = w

\* Stronger than InitNotRepeated: from the claim on, in whatever column.
FirstInit(w) == Preparing(w) /\ Named(w) => ~board[runs[w].task].initSucceeded

\* The row t names nobody new, and no success is added to it.
Unprepared(t) ==
    /\ board'[t].active \in {board[t].active, None}
    /\ board'[t].initSucceeded => board[t].initSucceeded

LEMMA EndRunUnprepared ==
    ASSUME IInv, NEW w \in Worker, NEW v \in Verdicts, EndRun(w, v), NEW t \in Task
    PROVE  /\ Unprepared(t)
           /\ \A u \in Worker : runs'[u].task = runs[u].task
<1>1. TypeOK /\ board[t] \in TaskRows
  BY DEF IInv, TypeOK
<1>2. Unprepared(t)
  <2> DEFINE n == board[t].initUncertain \/ InitUncertain(v)
             m == board[t].agentUncertain \/ LeavesMark(runs[w], v)
             o == Outcome(board[t], w, Failed(runs[w], v))
  <2>1. \/ board'[t] = board[t]
        \/ board'[t] = [board[t] EXCEPT !.initUncertain = n,
                                        !.agentUncertain = m, !.status = o]
    BY DEF EndRun, CloseRun, CloseTask
  <2> HIDE DEF n, m, o
  <2>2. QED
    BY <1>1, <2>1 DEF TaskRows, Unprepared
<1>3. ASSUME NEW u \in Worker PROVE runs'[u].task = runs[u].task
  <2>1. CASE runs[w].state \in Active
    BY <1>1, <2>1, EndRunRow
  <2>2. CASE runs[w].state \notin Active
    BY <2>2 DEF EndRun
  <2>3. QED
    BY <2>1, <2>2
<1>4. QED
  BY <1>2, <1>3

LEMMA PerformUnprepared ==
    ASSUME IInv, NEW w \in Worker, Perform(w), NEW t \in Task
    PROVE  /\ \/ Unprepared(t)
              \/ InitSaved(w) /\ board[t].active = w /\ board'[t].active = w
           /\ \A u \in Worker : runs'[u].task = runs[u].task
<1>1. TypeOK /\ board[t] \in TaskRows
  BY DEF IInv, TypeOK
<1>2. CASE Finish(w)
  <2>1. verdict[w] \in Verdicts /\ EndRun(w, verdict[w])
    BY <1>1, <1>2 DEF TypeOK, Finish
  <2>2. QED
    BY <2>1, EndRunUnprepared
<1>3. ASSUME ~Finish(w)
      PROVE  SamePlace(t) /\ \A u \in Worker : runs'[u].task = runs[u].task
  BY <1>3, PerformPlaces DEF SameClaim
<1>4. CASE InitSaved(w)
  <2>1. ~Finish(w)
    BY <1>4 DEF InitSaved, Finish, Fail
  <2>2. board'[t] = board[t] \/ board[t].active = w
    BY <1>4 DEF InitSaved
  <2>3. QED
    BY <1>3, <1>4, <2>1, <2>2 DEF SamePlace, Unprepared
<1>5. CASE ~Finish(w) /\ ~InitSaved(w)
  <2>1. CASE AgentStop(w)
    <3>1. ASSUME NEW c \in BOOLEAN, AgentStopped(w, c)
          PROVE  board'[t].initSucceeded = board[t].initSucceeded
      <4> DEFINE m == ~c \/ (board[t].agentUncertain /\ UncertainRun(runs', t))
      <4>1. \/ board'[t] = board[t]
            \/ board'[t] = [board[t] EXCEPT !.agentUncertain = m]
        BY <3>1 DEF AgentStopped
      <4> HIDE DEF m
      <4>2. QED
        BY <1>1, <4>1 DEF TaskRows
    <3>2. AgentStopped(w, TRUE) \/ AgentStopped(w, FALSE) \/ UNCHANGED board
      BY <2>1 DEF AgentStop
    <3>3. board'[t].initSucceeded = board[t].initSucceeded
      BY <3>1, <3>2
    <3>4. QED
      BY <1>3, <1>5, <3>3 DEF SamePlace, Unprepared
  <2>2. CASE ~AgentStop(w)
    <3>1. UNCHANGED board
      BY <1>5, <2>2 DEF Perform, PrepareFails, BeginInit, BeginAgent, EnterPhase,
         InitNotStarted, InitPid, InitGo, InitFails, InitSucceeds, InitStop,
         AgentStart, SavePid, SendGo, SaveSession, EndTurn, AgentFails, Internal
    <3>2. QED
      BY <1>3, <1>5, <3>1 DEF Unprepared
  <2>3. QED
    BY <2>1, <2>2
<1>6. QED
  BY <1>2, <1>4, <1>5

\* Only its claim names an executor, only its Init is noted as a success.
LEMMA NamedStep ==
    ASSUME IInv, [Next]_vars, NEW t \in Task, NEW w \in Worker, ~Claim(w),
           board'[t].active = w, runs'[w].task = t
    PROVE  /\ board[t].active = w /\ runs[w].task = t
           /\ board'[t].initSucceeded => board[t].initSucceeded \/ InitSaved(w)
<1>1. TypeOK /\ board[t] \in TaskRows /\ w # None /\ t # None
  BY NoneAssumption DEF IInv, TypeOK
<1> DEFINE Goal == /\ board[t].active = w /\ runs[w].task = t
                   /\ board'[t].initSucceeded => board[t].initSucceeded \/ InitSaved(w)
<1>2. ASSUME Unprepared(t), runs'[w].task \in {runs[w].task, None} PROVE Goal
  BY <1>1, <1>2 DEF Unprepared
<1> HIDE DEF Goal
<1>3. ASSUME UNCHANGED runs, board'[t] = board[t] PROVE Goal
  BY <1>2, <1>3 DEF Unprepared
<1>4. ASSUME NEW u \in Task,
             CreateTask(u) \/ AddUserComment(u) \/ \E s \in Columns : MoveTask(u, s)
      PROVE  Goal
  <2>1. CASE u # t
    BY <1>1, <1>3, <1>4, <2>1 DEF CreateTask, AddUserComment, MoveTask, TypeOK
  <2>2. CASE u = t
    <3>1. CASE CreateTask(t)
      BY <1>1, <1>2, <3>1 DEF CreateTask, TypeOK, NoTask, Unprepared
    <3>2. CASE AddUserComment(t)
      BY <1>1, <1>2, <3>2 DEF AddUserComment, TypeOK, TaskRows, Unprepared
    <3>3. ASSUME NEW s \in Columns, MoveTask(t, s) PROVE Goal
      <4> DEFINE a == Disowned(board[t])
      <4>1. a \in {board[t].active, None}
        BY DEF Disowned
      <4>2. board'[t] = [board[t] EXCEPT !.status = s, !.active = a] /\ UNCHANGED runs
        BY <1>1, <3>3 DEF MoveTask, TypeOK
      <4> HIDE DEF a
      <4>3. QED
        BY <1>1, <1>2, <4>1, <4>2 DEF TaskRows, Unprepared
    <3>4. QED
      BY <1>4, <2>2, <3>1, <3>2, <3>3
  <2>3. QED
    BY <2>1, <2>2
<1>5. ASSUME NEW u \in Task, DeleteTask(u) PROVE Goal
  <2>1. board'[t] = NoTask \/ board'[t] = board[t]
    BY <1>1, <1>5 DEF DeleteTask, TypeOK
  <2>2. runs'[w].task \in {runs[w].task, None}
    <3>1. runs'[w] = runs[w] \/ runs'[w] = [runs[w] EXCEPT !.task = None]
      BY <1>5 DEF DeleteTask
    <3>2. QED
      BY <1>1, <3>1 DEF TypeOK, RunRows
  <2>3. QED
    BY <1>2, <2>1, <2>2 DEF Unprepared, NoTask
<1>6. ASSUME ClearDatabase PROVE Goal
  BY <1>1, <1>6 DEF ClearDatabase, NoRun
<1>7. ASSUME NEW u \in Worker, ConfirmRemoteStop(u) PROVE Goal
  <2>1. \/ board'[t] = board[t]
        \/ board'[t] = [board[t] EXCEPT !.agentUncertain = FALSE]
    BY <1>7 DEF ConfirmRemoteStop
  <2>2. runs'[w].task = runs[w].task
    BY <1>1, <1>7 DEF ConfirmRemoteStop, TypeOK, RunRows
  <2>3. QED
    BY <1>1, <1>2, <2>1, <2>2 DEF TaskRows, Unprepared
<1>8. ASSUME NEW p \in Process, Recover(p) PROVE Goal
  <2>1. ASSUME NEW x \in Worker, CloseDead(p, x) PROVE Goal
    <3>1. RecoveredVerdict(row[p]) \in Verdicts /\ EndRun(x, RecoveredVerdict(row[p]))
      BY <2>1 DEF RecoveredVerdict, Verdicts, CloseDead
    <3>2. QED
      BY <1>2, <3>1, EndRunUnprepared
  <2>2. (\E x \in Worker : CloseDead(p, x)) \/ UNCHANGED <<board, runs>>
    BY <1>8 DEF Recover, Snapshot, LeaveAlive, TerminateExpired, KillExpired,
                Unwind, Killed
  <2>3. QED
    BY <1>3, <2>1, <2>2
<1>9. ASSUME NEW v \in Worker, Claim(v) PROVE Goal
  <2>1. PICK u \in Task : Claim(v)!3!(u)
    BY <1>9 DEF Claim
  <2>2. v # w /\ runs'[w] = runs[w]
    BY <1>1, <1>9, <2>1 DEF TypeOK
  <2>3. CASE u = t
    <3>1. board'[t] = [board[t] EXCEPT !.status = "IN PROGRESS", !.active = v]
      BY <1>1, <2>1, <2>3 DEF TypeOK
    <3>2. QED
      BY <1>1, <2>2, <3>1 DEF TaskRows
  <2>4. CASE u # t
    <3>1. board'[t] = board[t]
      BY <1>1, <2>1, <2>4 DEF TypeOK
    <3>2. QED
      BY <1>2, <2>2, <3>1 DEF Unprepared
  <2>5. QED
    BY <2>3, <2>4
<1>10. ASSUME NEW v \in Worker, Perform(v) PROVE Goal
  BY <1>2, <1>10, PerformUnprepared DEF Goal, Unprepared
<1>11. ASSUME NEW v \in Worker,
              \/ ClaimNothing(v) \/ Crash(v) \/ Shutdown(v) \/ RemoteExit(v)
       PROVE  Goal
  <2>1. UNCHANGED <<board, runs>>
    BY <1>11 DEF ClaimNothing, Crash, Killed, Shutdown, Unwind, RemoteExit
  <2>2. QED
    BY <1>3, <2>1
<1>12. CASE UNCHANGED vars
  BY <1>3, <1>12 DEF vars, Goal
<1>13. CASE People
  BY <1>4, <1>5, <1>6, <1>7, <1>13 DEF People, Goal
<1>14. ASSUME NEW p \in Process, RecoveryDies(p) PROVE Goal
  BY <1>3, <1>14 DEF RecoveryDies
<1>15. QED
  BY <1>8, <1>9, <1>10, <1>11, <1>12, <1>13, <1>14 DEF Next, Goal

\* Only its own steps bring an executor to Init, and none from there to there
\* that notes a success.
LEMMA PreparingStep ==
    ASSUME IInv, [Next]_vars, NEW w \in Worker, ~Claim(w), Preparing(w)'
    PROVE  Preparing(w) /\ ~InitSaved(w)
<1>1. TypeOK /\ w \in Process /\ Worker \subseteq Process
  BY DEF IInv, Process
<1>2. ASSUME pc'[w] = pc[w], fresh'[w] = fresh[w] PROVE Preparing(w)
  BY <1>2 DEF Preparing
<1>3. ~InitSaved(w)
  BY <1>1 DEF InitSaved, Fail, TypeOK, Preparing
<1> SUFFICES Preparing(w)
  BY <1>3
<1>4. CASE People
  BY <1>2, <1>4 DEF People, CreateTask, AddUserComment, DeleteTask, MoveTask,
              ClearDatabase, ConfirmRemoteStop, BoardOnly
<1>5. ASSUME NEW p \in Process, Recover(p) \/ RecoveryDies(p), p = w PROVE FALSE
  <2>1. pc'[w] \in {"inspect", "wait", "claim", "off", "gone"}
        \/ \E x \in Worker : TerminateExpired(w, x) \/ KillExpired(w, x)
    BY <1>1, <1>5 DEF Recover, RecoveryDies, Snapshot, CloseDead, LeaveAlive, Step,
       AfterRecovery, TypeOK
  <2>2. ASSUME NEW x \in Worker, TerminateExpired(w, x) PROVE FALSE
    <3>1. PICK u \in Unwinding(x) : pc' = [pc EXCEPT ![w] = "wait", ![x] = u.pc]
      BY <2>2 DEF TerminateExpired
    <3>2. u.pc \in {"finish", "initStop", "agentStop", "gone"}
      BY DEF Unwinding
    <3>3. QED
      BY <1>1, <3>1, <3>2 DEF TypeOK, Preparing
  <2>3. ASSUME NEW x \in Worker, KillExpired(w, x) PROVE FALSE
    BY <1>1, <2>3 DEF KillExpired, Killed, TypeOK, Preparing
  <2>4. QED
    BY <2>1, <2>2, <2>3 DEF Preparing
<1>6. ASSUME NEW p \in Process, Recover(p) \/ RecoveryDies(p), p # w PROVE Preparing(w)
  <2>1. ASSUME NEW x \in Worker, TerminateExpired(p, x) PROVE Preparing(w)
    <3>1. PICK u \in Unwinding(x) :
            Unwind(x, u) /\ pc' = [pc EXCEPT ![p] = "wait", ![x] = u.pc]
      BY <2>1 DEF TerminateExpired
    <3>2. u.pc \in {"finish", "initStop", "agentStop", "gone"}
      BY DEF Unwinding
    <3>3. QED
      BY <1>1, <1>2, <1>6, <3>1, <3>2 DEF Unwind, TypeOK, Preparing
  <2>2. ASSUME NEW x \in Worker, KillExpired(p, x) PROVE Preparing(w)
    BY <1>1, <1>2, <2>2 DEF KillExpired, Killed, TypeOK, Preparing
  <2>3. QED
    BY <1>1, <1>2, <1>6, <2>1, <2>2 DEF Recover, RecoveryDies, Snapshot, CloseDead,
       LeaveAlive, Step, TypeOK
<1>7. ASSUME NEW u \in Worker, u # w, Claim(u) \/ ClaimNothing(u) \/ RemoteExit(u)
      PROVE  Preparing(w)
  BY <1>1, <1>2, <1>7 DEF Claim, ClaimNothing, RemoteExit, Step, TypeOK
<1>8. CASE ClaimNothing(w) \/ RemoteExit(w)
  BY <1>1, <1>2, <1>8 DEF ClaimNothing, RemoteExit, Step, TypeOK, Preparing
<1>9. ASSUME NEW u \in Worker, Crash(u) PROVE Preparing(w)
  BY <1>1, <1>2, <1>9 DEF Crash, Killed, TypeOK, Preparing
<1>10. ASSUME NEW u \in Worker, Shutdown(u) PROVE Preparing(w)
  <2>1. PICK x \in Unwinding(u) : Unwind(u, x) /\ pc' = [pc EXCEPT ![u] = x.pc]
    BY <1>10 DEF Shutdown
  <2>2. x.pc \in {"finish", "initStop", "agentStop", "gone"}
    BY DEF Unwinding
  <2>3. QED
    BY <1>1, <1>2, <2>1, <2>2 DEF Unwind, TypeOK, Preparing
<1>11. ASSUME NEW u \in Worker, u # w, Perform(u) PROVE Preparing(w)
  <2>1. pc'[w] = pc[w]
    BY <1>11, PerformMoves
  <2>2. fresh'[w] = fresh[w]
    BY <1>1, <1>11 DEF Perform, PrepareFails, BeginInit, BeginAgent, EnterPhase,
       InitNotStarted, InitPid, InitGo, InitFails, InitSucceeds, InitStop, InitSaved,
       AgentStart, SavePid, SendGo, SaveSession, EndTurn, AgentFails, AgentStop,
       Finish, Internal, TypeOK
  <2>3. QED
    BY <1>2, <2>1, <2>2
<1>12. CASE Perform(w)
  <2>1. CASE BeginInit(w) \/ BeginAgent(w)
    BY <1>1, <2>1 DEF BeginInit, BeginAgent, EnterPhase, Step, Fail, TypeOK, Preparing
  <2>2. CASE InitPid(w) \/ InitGo(w) \/ InitSucceeds(w)
    BY <1>1, <2>2 DEF InitPid, InitGo, InitSucceeds, Step, Fail, TypeOK, Preparing
  <2>3. CASE PrepareFails(w) \/ InitNotStarted(w) \/ InitFails(w) \/ InitStop(w)
    BY <1>1, <2>3 DEF PrepareFails, InitNotStarted, InitFails, InitStop, Fail, TypeOK,
       Preparing
  <2>4. CASE AgentStart(w) \/ SavePid(w) \/ SendGo(w) \/ SaveSession(w)
    BY <1>1, <2>4 DEF AgentStart, SavePid, SendGo, SaveSession, Step, Fail, TypeOK, Preparing
  <2>5. CASE EndTurn(w) \/ AgentFails(w) \/ AgentStop(w) \/ Finish(w)
    BY <1>1, <2>5 DEF EndTurn, AgentFails, AgentStop, Finish, Step, Fail, TypeOK, Preparing
  <2>6. QED
    BY <1>3, <1>12, <2>1, <2>2, <2>3, <2>4, <2>5 DEF Perform
<1>13. CASE UNCHANGED vars
  BY <1>2, <1>13 DEF vars
<1>14. QED
  BY <1>3, <1>4, <1>5, <1>6, <1>7, <1>8, <1>9, <1>10, <1>11, <1>12, <1>13 DEF Next

LEMMA FirstInitStep ==
    ASSUME IInv, [Next]_vars, NEW w \in Worker, FirstInit(w) PROVE FirstInit(w)'
<1> SUFFICES ASSUME Preparing(w)', Named(w)' PROVE ~board'[runs'[w].task].initSucceeded
  BY DEF FirstInit
<1> DEFINE t == runs'[w].task
<1>1. TypeOK /\ t \in Task /\ board'[t].active = w
  BY DEF IInv, Named
<1>2. CASE Claim(w)
  <2>1. PICK u \in Task : Claim(w)!3!(u)
    BY <1>2 DEF Claim
  <2>2. pc'[w] = "prepare"
    BY <1>1, <1>2 DEF Claim, Step, TypeOK, Process
  <2>3. t = u /\ fresh'[w] = NeedsInit(u)
    BY <1>1, <2>1 DEF TypeOK, NoRun
  <2>4. board'[u].initSucceeded = board[u].initSucceeded
    BY <1>1, <2>1 DEF TypeOK, TaskRows
  <2>5. NeedsInit(u)
    BY <2>2, <2>3 DEF Preparing
  <2>6. QED
    BY <2>3, <2>4, <2>5 DEF NeedsInit
<1>3. CASE ~Claim(w)
  <2>1. Preparing(w) /\ ~InitSaved(w)
    BY <1>3, PreparingStep
  <2>2. /\ board[t].active = w /\ runs[w].task = t
        /\ board'[t].initSucceeded => board[t].initSucceeded \/ InitSaved(w)
    BY <1>1, <1>3, NamedStep
  <2>3. QED
    BY <1>1, <2>1, <2>2 DEF FirstInit, Named
<1>4. QED
  BY <1>2, <1>3

(* A task is prepared at most once, although the decision is taken at the    *)
(* claim and people move the task while the run gets ready.                 *)
THEOREM InitOnce == Spec => []InitNotRepeated
<1>1. Init => \A w \in Worker : FirstInit(w)
  BY DEF Init, FirstInit, Preparing, Process
<1>2. IInv /\ (\A w \in Worker : FirstInit(w)) /\ [Next]_vars
        => (\A w \in Worker : FirstInit(w))'
  BY FirstInitStep
<1>3. (\A w \in Worker : FirstInit(w)) => InitNotRepeated
  BY DEF FirstInit, Preparing, Named, Owner, InitNotRepeated
<1>4. QED
  BY <1>1, <1>2, <1>3, Safety, PTL DEF Spec

-----------------------------------------------------------------------------
(* SUPERVISION. *)

LEMMA KillRefines ==
    ASSUME NEW w \in Worker, Kill(w) PROVE [Next]_vars
BY DEF Kill, Next

LEMMA ConsumerDeathRefines == ASSUME ConsumerDies PROVE [Next]_vars
<1>1. Consumer \in Process
  BY DEF Process
<1>2. QED
  BY <1>1 DEF ConsumerDies, Next

LEMMA ConsumerRefines ==
    ASSUME ConsumerStep, cons \in {"watch", "halt"} => child \in Worker
    PROVE  [Next]_vars
<1>1. ASSUME NEW w \in Worker, Spawn(w) PROVE UNCHANGED vars
  BY <1>1 DEF Spawn, Create
<1>2. CASE ConsumerRecovers
  BY <1>2 DEF ConsumerRecovers, Process, Next
<1>3. CASE HaltChild
  <2>1. child \in Worker /\ Terminate(child)
    BY <1>3 DEF HaltChild
  <2>2. CASE Kill(child)
    BY <2>1, <2>2, KillRefines
  <2>3. CASE Shutdown(child)
    BY <2>1, <2>3 DEF Next
  <2>4. QED
    BY <2>1, <2>2, <2>3 DEF Terminate
<1>4. CASE KillChild
  BY <1>4, KillRefines DEF KillChild
<1>5. CASE SpawnLater \/ Reap \/ NextRound \/ ConsumerEnds
  BY <1>5 DEF SpawnLater, Reap, NextRound, ConsumerEnds
<1>6. QED
  BY <1>1, <1>2, <1>3, <1>4, <1>5 DEF ConsumerStep

-----------------------------------------------------------------------------
(* How far the consumer and the clocks can be apart. *)

\* The consumer has an executor only while it watches or stops it, and told it
\* to stop at once when it was told itself.  What it created and is no longer
\* its executor is gone, or was left by a crash.
Patience ==
    /\ alive \subseteq Worker
    /\ child \in Worker \cup {None}
    /\ cons \in {"watch", "halt"} => child \in Worker
    /\ cons \notin {"watch", "halt"} => child = None
    /\ cons \in {"spawn", "watch"} => age = 0
    /\ cons = "halt" => app = "halt" /\ age = wait /\ wait \in 0..ExecutorTicks
    /\ app = "off" => cons = "off"
    /\ app = "up" => age = 0
    /\ spawned \subseteq alive /\ spawned \subseteq {child} \cup orphans

LEMMA PatienceInit == SupervisorInit => Patience
BY DEF SupervisorInit, Patience

\* The executors: no step gives life to anything but a worker.
Kin == alive' \subseteq Worker /\ spawned' \subseteq alive'

LEMMA AfterAlive ==
    ASSUME alive \subseteq Worker, NEW K \in SUBSET Worker, After(K)
    PROVE  /\ Kin
           /\ spawned \subseteq {child} \cup orphans
                => spawned' \subseteq {child} \cup orphans'
BY DEF After, Kin

LEMMA PatienceStep == Patience /\ [SupervisorNext]_all => Patience'
<1> SUFFICES ASSUME Patience, [SupervisorNext]_all PROVE Patience'
  OBVIOUS
<1> DEFINE Same == Kin /\ spawned' \subseteq {child} \cup orphans'
<1>a. ASSUME Same, UNCHANGED control PROVE Patience'
  BY <1>a DEF Patience, control, Kin
<1>b. ASSUME NEW K \in SUBSET Worker, After(K) PROVE Same
  BY <1>b, AfterAlive DEF Patience
<1>c. ASSUME UNCHANGED processes PROVE Same
  BY <1>c DEF Patience, processes, Kin
<1> HIDE DEF Same
<1>1. CASE Environment
  <2>1. Same /\ UNCHANGED control
    BY <1>1, <1>b, <1>c DEF Environment, Kill
  <2>2. QED
    BY <1>a, <2>1
<1>2. ASSUME NEW w \in Worker, Execute(w) \/ Launch(w) PROVE Patience'
  <2>1. UNCHANGED control
    BY <1>2 DEF Execute, Launch
  <2>2. Same
    <3>1. CASE Execute(w)
      BY <3>1, <1>b DEF Execute
    <3>2. CASE Launch(w)
      BY <3>2 DEF Launch, Create, Patience, Kin, Same
    <3>3. QED
      BY <1>2, <3>1, <3>2
  <2>3. QED
    BY <1>a, <2>1, <2>2
<1>3. ASSUME NEW w \in Worker, Spawn(w) PROVE Patience'
  <2>1. child = None /\ spawned \subseteq orphans
    BY <1>3, NoneAssumption DEF Spawn, Patience
  <2>2. QED
    BY <1>3, <2>1 DEF Spawn, Create, Patience
<1>4. CASE SpawnLater \/ Reap \/ NextRound \/ ConsumerEnds
  BY <1>4 DEF SpawnLater, Reap, NextRound, ConsumerEnds, processes, Patience
<1>5. CASE ConsumerRecovers
  <2>1. Same
    BY <1>5, <1>b DEF ConsumerRecovers
  <2>2. QED
    BY <1>5, <2>1 DEF ConsumerRecovers, Patience, Same, Kin
<1>6. CASE HaltChild
  <2>1. Same
    BY <1>6, <1>b DEF HaltChild, Terminate, Kill, Patience
  <2>2. QED
    BY <1>6, <2>1 DEF HaltChild, Told, ExecutorTicks, Patience, Same, Kin
<1>7. CASE KillChild
  <2>1. Same
    BY <1>7, <1>b DEF KillChild, Kill, Patience
  <2>2. QED
    BY <1>7, <1>a, <2>1 DEF KillChild
<1>8. CASE KillConsumer
  <2>1. cons \notin {"watch", "halt"}
    BY <1>8 DEF KillConsumer, ConsumerTicks, ExecutorTicks, Patience
  <2>2. QED
    BY <1>8, <2>1 DEF KillConsumer, ConsumerDies, Patience
<1>9. CASE AppEnds \/ StartApp \/ StopApp
  BY <1>9 DEF AppEnds, StartApp, StopApp, processes, Patience
<1>10. CASE Tick
  BY <1>10 DEF Tick, processes, Patience, ExecutorTicks
<1>11. CASE ConsumerCrash
  BY <1>11 DEF ConsumerCrash, ConsumerDies, Patience
<1>12. CASE UNCHANGED all
  BY <1>12, <1>a, <1>c DEF all
<1>13. QED
  BY <1>1, <1>2, <1>3, <1>4, <1>5, <1>6, <1>7, <1>8, <1>9, <1>10, <1>11, <1>12
     DEF SupervisorNext, ConsumerStep, Stopping

LEMMA PatienceAlways == SupervisorSpec => []Patience
BY PatienceInit, PatienceStep, PTL DEF SupervisorSpec

(* An application that was stopped left no executor of its consumers        *)
(* behind, for any number of executors and any order of stops, hangs and    *)
(* kills: a consumer gives up on its executor before start.py gives up on   *)
(* the consumer.  The executors of consumers that crashed by themselves are *)
(* the exception, and the only one.                                         *)
THEOREM NoneLeft == SupervisorSpec => []StopLeavesNoExecutor
<1>1. Patience => StopLeavesNoExecutor
  BY NoneAssumption DEF Patience, StopLeavesNoExecutor
<1>2. QED
  BY <1>1, PatienceAlways, PTL

-----------------------------------------------------------------------------
(* The processes as seen from the database. *)

LEMMA StepRefines == Patience /\ [SupervisorNext]_all => [Next]_vars
<1> SUFFICES ASSUME Patience, [SupervisorNext]_all PROVE [Next]_vars
  OBVIOUS
<1>1. CASE Environment
  BY <1>1, KillRefines DEF Environment, Next
<1>2. ASSUME NEW w \in Worker, Execute(w) \/ Launch(w) PROVE [Next]_vars
  BY <1>2 DEF Execute, Launch, Create, Process, Next
<1>3. CASE ConsumerStep
  BY <1>3, ConsumerRefines DEF Patience
<1>4. CASE KillConsumer \/ ConsumerCrash
  BY <1>4, ConsumerDeathRefines DEF KillConsumer, ConsumerCrash
<1>5. CASE AppEnds \/ Tick \/ StartApp \/ StopApp \/ UNCHANGED all
  BY <1>5 DEF AppEnds, Tick, StartApp, StopApp, all
<1>6. QED
  BY <1>1, <1>2, <1>3, <1>4, <1>5 DEF SupervisorNext, Stopping

(* Whatever start.py, the consumer and the launcher do to executors, the    *)
(* database and the remote hosts see a behaviour of TaskRuns.               *)
THEOREM SupervisorImplementsTaskRuns == SupervisorSpec => Spec
<1>1. SupervisorInit => Init
  BY DEF SupervisorInit
<1>2. QED
  BY <1>1, PatienceAlways, StepRefines, PTL DEF SupervisorSpec, Spec

\* The variables of Supervisor alone.
ProcessTypes ==
    /\ alive \subseteq Worker /\ killed \subseteq Worker \ alive
    /\ spawned \subseteq alive /\ orphans \subseteq spawned
    /\ app \in {"off", "up", "halt"}
    /\ cons \in {"off", "spawn", "watch", "recover", "halt", "interval"}
    /\ age \in 0..ConsumerTicks /\ wait \in 0..ExecutorTicks
    /\ stops \in 0..MaxStop

LEMMA AfterTypes ==
    ASSUME ProcessTypes, NEW K \in SUBSET Worker, After(K)
    PROVE  /\ alive' \subseteq Worker /\ killed' \subseteq Worker \ alive'
           /\ spawned' \subseteq alive' /\ orphans' \subseteq spawned'
BY DEF After, ProcessTypes

LEMMA ProcessTypesStep ==
    Patience /\ ProcessTypes /\ [SupervisorNext]_all => ProcessTypes'
<1> SUFFICES ASSUME Patience, ProcessTypes, [SupervisorNext]_all PROVE ProcessTypes'
  OBVIOUS
<1> DEFINE Kept == /\ alive' \subseteq Worker /\ killed' \subseteq Worker \ alive'
                   /\ spawned' \subseteq alive' /\ orphans' \subseteq spawned'
<1>a. ASSUME Kept, UNCHANGED control PROVE ProcessTypes'
  BY <1>a DEF ProcessTypes, control
<1>b. ASSUME UNCHANGED processes PROVE Kept
  BY <1>b DEF ProcessTypes, processes
<1>c. ASSUME NEW w \in Worker, Create(w),
             spawned' = spawned \/ spawned' = spawned \cup {w}
      PROVE  Kept
  BY <1>c DEF Create, ProcessTypes
<1>d. ASSUME NEW K \in SUBSET Worker, After(K) PROVE Kept
  BY <1>d, AfterTypes
<1> HIDE DEF Kept
<1>1. CASE Environment
  BY <1>1, <1>a, <1>b, <1>d DEF Environment, Kill
<1>2. ASSUME NEW w \in Worker, Execute(w) \/ Launch(w) PROVE ProcessTypes'
  BY <1>2, <1>a, <1>c, <1>d DEF Execute, Launch
<1>3. CASE ConsumerStep
  <2>1. Kept
    <3>1. ASSUME NEW w \in Worker, Spawn(w) PROVE Kept
      BY <3>1, <1>c DEF Spawn
    <3>2. CASE HaltChild \/ KillChild
      BY <3>2, <1>d DEF HaltChild, KillChild, Terminate, Kill, Patience
    <3>3. CASE SpawnLater \/ Reap \/ ConsumerRecovers \/ NextRound \/ ConsumerEnds
      BY <3>3, <1>b, <1>d DEF SpawnLater, Reap, ConsumerRecovers, NextRound, ConsumerEnds
    <3>4. QED
      BY <1>3, <3>1, <3>2, <3>3 DEF ConsumerStep
  <2>2. /\ cons' \in {"off", "spawn", "watch", "recover", "halt", "interval"}
        /\ wait' \in 0..ExecutorTicks /\ UNCHANGED <<app, age, stops>>
    BY <1>3 DEF ConsumerStep, Spawn, SpawnLater, Reap, ConsumerRecovers, NextRound,
                HaltChild, KillChild, ConsumerEnds, ProcessTypes, ExecutorTicks, control
  <2>3. QED
    BY <2>1, <2>2 DEF ProcessTypes, Kept
<1>4. CASE Stopping \/ StartApp \/ StopApp \/ ConsumerCrash
  <2>1. Kept
    <3>1. CASE AppEnds \/ Tick \/ StartApp \/ StopApp
      BY <3>1, <1>b DEF AppEnds, Tick, StartApp, StopApp
    <3>2. CASE KillConsumer \/ ConsumerCrash
      BY <3>2 DEF KillConsumer, ConsumerCrash, ConsumerDies, ProcessTypes, Kept
    <3>3. QED
      BY <1>4, <3>1, <3>2 DEF Stopping
  <2>2. /\ app' \in {"off", "up", "halt"} /\ cons' \in {cons, "off", "spawn"}
        /\ age' \in 0..ConsumerTicks /\ wait' \in 0..ExecutorTicks
        /\ stops' \in 0..MaxStop
    BY <1>4, MaxStopAssumption
       DEF Stopping, KillConsumer, AppEnds, Tick, StartApp, StopApp, ConsumerCrash,
           ConsumerDies, ProcessTypes, ConsumerTicks, ExecutorTicks
  <2>3. QED
    BY <2>1, <2>2 DEF ProcessTypes, Kept
<1>5. CASE UNCHANGED all
  BY <1>5, <1>a, <1>b DEF all
<1>6. QED
  BY <1>1, <1>2, <1>3, <1>4, <1>5 DEF SupervisorNext

(* Every reachable state of the processes is well typed.                    *)
THEOREM SupervisorTypes == SupervisorSpec => []SupervisorTypeOK
<1>1. SupervisorInit => ProcessTypes
  BY MaxStopAssumption
     DEF SupervisorInit, ProcessTypes, ConsumerTicks, ExecutorTicks
<1>2. SupervisorSpec => []ProcessTypes
  BY <1>1, PatienceAlways, ProcessTypesStep, PTL DEF SupervisorSpec
<1>3. TypeOK /\ ProcessTypes /\ Patience => SupervisorTypeOK
  BY DEF ProcessTypes, Patience, SupervisorTypeOK
<1>4. QED
  BY <1>2, <1>3, SupervisorImplementsTaskRuns, TypeCorrect, PatienceAlways, PTL

(* Hence the queue is safe under them: one run holds it, and an agent that  *)
(* outlives its run is marked.                                              *)
THEOREM SupervisedQueueIsSafe == SupervisorSpec => [](IInv /\ NoUntrackedAgent)
BY SupervisorImplementsTaskRuns, Safety, AgentIsTracked, PTL

=============================================================================
