# AI UI Orchestrator: TLA+ specifications

The program is a task board in front of a coding agent. People write tasks and
move them between columns; executors take the tasks of the column OPEN one at a
time, copy what belongs to them to a remote host over SSH, run an Init script
and an ACP agent there, and move the task to REVIEW or WAIT. The web server, the
consumer and the executors are separate processes that share an SQLite database;
browsers follow the board over an event stream.

The modules here model the parts of that program in which order, failure and
concurrency decide about correctness. `PROJECT.json` maps every definition to
the lines it models.

## 1. Inventory

| Part | State | Operations | Hard about it |
|---|---|---|---|
| Task runs: `agent_store.py` | rows of `agent_runs` and the columns of `board_tasks` that belong to runs | claim, finish, recover, session, started, confirm_remote_stop | every executor recovers before it claims; the process it judges may be alive, dead, on another host or in the middle of its own cleanup |
| Executor: `agent_worker.py` | one process, its copy of the claimed run | perform a run, SIGTERM at any point | killed or unwound between any two transactions |
| Fencing: `task_cycle.py` | none of its own | active, check, phase, pid, agent_pid, initialized, agent_stopped, prepared | ownership is looked at, then used |
| Init: `task_init.py` | a remote process group behind a gate | run_init, stop_group | the stop may be unconfirmed |
| Agent phase: `agent_remote.py`, `agent_control.py` | three threads, a lock, the SSH channel, a remote group | handshake, requests, cancel, stop | blocked writes, a GO in flight during the stop, results racing with timeouts and cancellations |
| Board: `board_store.py`, `controllers/board.py`, `move_task.py` | `board_tasks` with `sort_order`; attachments as rows and files | create, update, move, comment, delete | forms and positions from an outdated view; files beside a transaction |
| Clear database: `database_store.py` | all tables, all files | clear_database | files moved aside and back around a commit |
| Remote task directory: `task_context.py`, `task_remote.py` | a directory per task identifier | prepare, synchronise, delete | reuse after failures, deletion while a cancelled run still prepares |
| Live board: `board_events.py`, `board-live.js`, `board.js` | the board shown, a pending snapshot, a drag | event stream, requests, drags | answers and events overtake each other, streams break |
| Task chat: `task-chat.js`, `spinner.js` | generation, timer, pending data | poll, send, close, save, page cache | late answers, polling that must not die |
| Application, consumer, launcher: `start.py`, `agent_consumer.py`, `agent_launcher.py` | child processes and the deadlines of their stop | start, watch, stop, recover, launch | stops are nested, each with its own patience; an executor survives its parent |
| Settings: `settings/`, `controllers/settings.py` | JSON files behind a file lock, `save_lock` | save, snapshot at claim | overlapping saves, the file and what runs |
| HTTP proxy: `http_proxy.py` | running servers with their policies, two tasks and a queue per request | forward, save, start, stop | policies replaced beside requests, a client that leaves while its body is queued |
| Git proxy: `controllers/git_proxy.py` | a lock per repository, a pump beside the response | forward over HTTPS or SSH | a timeout around a lock, a transfer and a response |

How they interact: the web server, the command line and the executors write the
same two tables, each write one `BEGIN IMMEDIATE` transaction; ownership of a
task by a run is `board_tasks.active_run_id`, which people take away by moving
the task, and which the executor only sees by polling. The consumer starts
executors and recovers after a failed one; executors recover at their start.
The executor reaches the remote host; a person who deletes a task in the browser
does, too, from the web server. The browser learns of everything from
snapshots and polls. The remote agent reaches the outside through the two proxies,
which the web server runs in its own process.

What makes each part correct, and where it is stated, is the subject of
section 4; `PROJECT.json` lists the hazards at their lines.

## 2. Modules

| Module | Models | Builds on |
|---|---|---|
| `TaskRuns` | task and run rows, executors, recovery, people, the remote processes | the promise of `AgentPhase`, as its own steps |
| `Supervisor` | application, consumer, launcher and the processes they start, with the deadlines of a stop | implements `TaskRuns` |
| `TaskRunsProofs` | proofs about the queue: its types, its inductive invariant and what follows from it, the columns, Init; and about its supervision: `Supervisor` implements `TaskRuns` and leaves no executor behind | `Supervisor`, and through it `TaskRuns` |
| `AgentPhase` | what a phase Agent promises: recorded before it works, never again after a confirmed stop | |
| `AgentControl` | the threads of `run_remote`, the lock of `AgentControl`, the channel, the remote group | implements `AgentPhase` |
| `AgentControlProofs` | proofs of the conversation, of the verdict and of the refinement | `AgentControl` |
| `BoardOrder` | columns, `sort_order`, the command line, claim order | |
| `BoardOrderProofs` | proofs about ranks, renumbering and who overtakes whom | `BoardOrder` |
| `BoardLive` | event stream, responses, drags | |
| `BoardLiveProofs` | proofs that events and put-off snapshots are never stale | `BoardLive` |
| `TaskChat` | polls, comments, spinner, page cache, forms opened in turn | |
| `TaskChatProofs` | proofs that the open form shows its own conversation and goes forward | `TaskChat` |
| `TaskMaterials` | attachments as rows and files, clearing, the remote directory from preparation to deletion | |
| `TaskMaterialsProofs` | proofs about rows and files, the maker of the directory and the mirror | `TaskMaterials` |
| `ProxyAnswer` | what a client of a proxy may see of one request | |
| `GitProxy` | the lock, both transports, the pump and the timeout | implements `ProxyAnswer` |
| `GitProxyProofs` | proofs of the lock's discipline and of the refinement | `GitProxy` |
| `ProxySettings` | the proxies' file, their running policies, Save | |
| `HttpProxy` | requests at work on those servers: transfer, watcher, queue | `ProxySettings`; implements `ProxyAnswer` |
| `HttpProxyProofs` | proofs about Save and of the refinement | `HttpProxy` |
| `MC...` | instances for TLC: model values, symmetry, scopes | |

**State and actions against the code.** A database transaction is one action.
Code between two transactions of a process is where that process stands (`pc` in
`TaskRuns`, `main`/`worker`/`sender` in `AgentControl`, `run.pc` and `op.step` in
`TaskMaterials`), and every other actor may act there. In the proxies an action is
what a coroutine does between two awaits. In detail:

* `TaskRuns.board` and `TaskRuns.runs` are the rows. A run is identified with the
  executor that claimed it. `row` is the copy of the row that `recover` works
  from; `fresh` the decision on Init that `claim` hands out; `verdict` is what
  `run_remote` reports to `finish`. `init` and `agent` are the remote processes,
  which the program cannot see. `gaps` is a history variable (section 5).
  Deadlines are free choices: wherever the code asks whether one has passed both
  answers are possible.
* `AgentControl` splits the locked regions from what precedes and follows them:
  a write that blocks stays in its state (`go`, `write`, `answering`) with the
  lock held. `wire` is the GO between host and group. `TimeOut` and
  `CancelOver` are the clocks. The saved columns `agentPid` and `stop` are the
  ones of `TaskRuns` and are what `AgentPhase` talks about.
* `BoardOrder` identifies a task with its primary key, so that ties are
  resolved as `ORDER BY sort_order, id` does. `CliCount` and `CliMove` are the two
  transactions of `move_task.py`; `cli` keeps the cards that the first one counted. A
  run whose task was taken away keeps the task and loses `owned`, since it may still
  mark the task as held when it finishes. `blocked` stands for the rows marked
  `agent_uncertain`: `claim` hands out nothing while there is one, and
  `ConfirmRemoteStop` is the person who removes the mark.
* `BoardLive` counts versions of the database. Each EventSource has its own
  `previous` and `wire`; `Render` stands for `render()` with the new EventSource
  that it opens.
* `TaskChat` counts versions of each conversation; a poll carries its
  generation as its token, and `close()` and `send()` advance the generation.
* `TaskMaterials` follows one identifier through the tasks that bear it in turn
  (`task.no`). `op` is the transaction that holds the write lock (with the remote
  walk of `delete_task_directory` inside it), `tails` are the files that a request
  unlinks after its transaction. `staged` is the hidden directory of `clear_database`,
  `MoveBack` what a failed clear does with it: a `replace` that raises ends the loop,
  and what is left there goes with the directory (`lost`). `maker` is the run whose `mkdir` made the
  directory. `RunEnds` is any failure of the executor before Init.

* `Supervisor` adds to `TaskRuns` which executors exist (`alive`), which ended by a
  signal (`killed`, what the exit code tells the consumer), and where `serve`
  (`app`) and `consume` (`cons`) stand. An executor takes the steps of `TaskRuns`
  only while it exists; `Terminate` is `Shutdown` of `TaskRuns`, or the plain end of
  a process without a run. Time is counted in ticks of five seconds, and only
  while the application stops: `age` since `serve` told the consumer, `wait` since
  the consumer told its executor. The constants 3 and 2 are the timeouts 15 and 10.
  `spawned` are the living executors that a consumer created, `orphans` those of them
  whose consumer crashed (`ConsumerCrash`, with the application up or while it stops).
* `GitProxy` has one action per await of `GitResponse`. `queue` is the waiters' list
  of the repository's `asyncio.Lock` with its holder in front; `cause` is the
  exception that unwinds the coroutine; `wire` is what was sent to the client, from
  which the refinement reads the answer. `line` is the connection: "dialing" while
  `client.connect` has no transport yet, which `client.close` cannot end and a timeout
  leaves to its thread (`Dial`), "open" with a transport, "busy" with a request or a
  command. `over` is a history variable: the upstream's answer is whole. Of a POST over
  SSH that is exit status 0 after the whole body was sent; of a GET over SSH, whose
  exit status is not read, the flush packet.
* `ProxySettings` numbers the saved configurations. A server's `policy` is the number
  of the Save its methods and patterns come from. `Apply` is one server inside
  `apply_policies`, `told` what the last answered Save said.
* `HttpProxy` has the two tasks of `ProxyApplication.__call__` and the queue of one
  message between them. What the policy decides is free (`Admit`, `Deny`); `EndRequests` is
  the end of the coroutine, which cancels both tasks; `Stop` ends the servers.

Operators such as `Claim_...` or `Rollback_KeepsFiles`, whose name extends the
name of a definition, are defective variants of it: no specification uses them.
Each property is known to reject one of them.

## 3. Bounds and instances

* `two_tasks`: two tasks and two executors of one host, with a crash or SIGTERM at
  every step, Init enabled and an operator who forces tasks into OPEN, BACKLOG and
  DONE. The consumer is on another host, so the executors recover each other, and
  the rule that a process judges only its own scope matters. A third executor
  adds only further closed runs.
* `supervisor`: one task, one executor beside the consumer, two stops of the
  application: enough for a run that outlives one application and is recovered by
  the next. Further executors of the consumer are `SpawnLater`, rounds that claim
  nothing. No symmetry, for liveness.
* `stale_recovery`, `interrupted_cleanup`: the smallest instances that show the
  two disagreements of section 5.
* `agent_phase`: unbounded but finite; one run, all threads.
* `board_order`: three cards, order values and positions up to 2 (enough for a gap, a
  tie and a position beyond the end), moved between OPEN and BACKLOG, with the
  command line and stops that block the queue.
* `board_live`: three versions, three EventSources, two requests, one loss.
  `chat`, `chat_pending`: two tasks, two changes, four generations.
* `materials`: two bearers of the identifier, two attachments.
* `git_proxy`: three requests for one repository (one at work, one about to be
  next, one behind it), each over either transport. Requests for different
  repositories share nothing.
* `http_proxy`: two ports, of which one is removed, added or given another remote
  by a Save; two editors, two saves that replace the file, one request.

Executors, tasks and attachments are interchangeable where `SYMMETRY` is given;
only safety is checked there. Deadlock is not checked except in `http_proxy`: every counter is bounded,
so the instances do come to rest, and an idle board is a legal state.

**Fairness.** `TaskRuns` has none of its own. `Supervisor`: an executor that is not
killed goes on, since each of its waits has a deadline (SSH timeouts, the agent's
and Init's timeouts, `stop_group`); the consumer's loop and the application's stop go
on, time passes, and a stopped application is started again. Excepted is
what a stop must survive: an executor that was told to stop and a consumer that
is recovering may hang while the application stops. Nothing is assumed of
people, signals, crashes or remote processes. `AgentControl`: only the main thread and
the clocks are fair; worker and sender may hang for ever. `BoardOrder`: executors
claim when they may and finish (which is `RunsEnd` of `TaskRuns`); nobody need confirm
a stop. `BoardLive`: the page loads,
the server polls, events arrive unless lost, a drag ends. `TaskChat`: requests
are answered though many may fail (strong fairness of the poll that is repeated),
timers fire, hidden pages return. `GitProxy`: the clock of `asyncio.timeout`
strikes and the clean-up that follows is carried out; nothing is assumed of upstream, client,
pump or the holder of a lock. `HttpProxy`: the watcher receives what there is, the
queue moves, a wait on the upstream that has a timeout ends (`Bounded`), and
`asyncio.wait` returns; a stream of an upstream that has read the whole request may
go on for ever, since httpcore bounds only the pause between two of its chunks.

## 4. What is checked

`TaskRuns`
* `NoUntrackedAgent`: an agent at work belongs to an active run or to one that
  is marked as unconfirmed and so blocks the queue.
* `ExclusiveAgent`, `OneHolder`: one agent at a time, one run that is active
  or marked at a time.
* `MarksAgree`: a task is marked exactly while one of its runs is, though
  cleanup, recovery, deletion and the operator all write the two marks.
* `InProgressIsOwned`, `ReviewIsEarned`: columns tell the truth about runs.
* `InitNotRepeated`, and within `IInv` `InitIsGuarded`, `InitAlone`: Init is not
  repeated after its success, and nothing is started beside an Init that may
  still run.
* `ClosedIsFinal`, `ClosedByRightProcess`: a run is closed once, by its executor
  or after its death by a process of its host.
* `IInv`: the inductive strengthening (section 6), checked on reachable states.

`Supervisor`
* `StopLeavesNoExecutor`: an application that has stopped left no executor of its
  consumers behind, although the consumer is killed when its parent's patience ends:
  the deadlines are nested. Excepted are the executors of consumers that crashed by
  themselves (`orphans`): they run in sessions of their own and nobody ends them.
* `StopCompletes` (liveness): a stop ends, even if the consumer recovers for ever or its
  executor does not react.
* `RunsEnd` (liveness): every active run is closed by its executor, or by a recovery
  of the consumer or of a later executor, across deaths and stops of each of them.

`AgentControl`
* `Conversation`: GO, requests and `session/cancel` are sent in the order of the
  protocol, and one thread writes at a time.
* `NoPromptAfterCancel`: once a cancellation finds that nothing was prompted, nothing
  is, so that the main thread may stop the group without its grace.
* `SuccessIsClean`: success is reported only of an undisturbed turn, with the group
  known to be gone.
* `CleanupCompletes` (liveness): the main thread gets through its cleanup with worker
  and sender stuck.
* `ImplementsAgentPhase`: an agent works only once its pid is recorded, and never
  after its stop was confirmed.

`BoardOrder`
* `OthersKeepOrder`: two cards that nobody drags or moves keep their order, through
  renumbering, ties and gaps.
* `OvertakenByHand`: creating or saving a card never puts it in front of a waiting task.
* `CliMovesLast`: `move_task.py` puts its card last although it counts and moves in two
  transactions, unless another card entered the column in between.
* `QueueServes` (liveness): a task starves in OPEN only if people put others ahead of it
  again and again, or if nobody confirms a stop that blocks the queue.

`BoardLive`: `OnlyLateAnswersGoBack`, `DragIsUndisturbed`, `BoardFollows`
(liveness across lost streams). `TaskChat`: `ChatGoesForward`,
`StraysOnlyFromPending`, `ChatFollows` (liveness).

`TaskMaterials`: `RowsHaveFiles` and `NoFileLeftOver` over failures of every
step, but for the files that a clear had moved aside when it crashed or could not move
back when it failed; `OwnDirectory`: work starts only in a directory that a run of this very
task made; `MirrorIsExact`: with exactly the attachments that were read, whatever
earlier runs and half-done deletions left; `DeletedLeavesNoFiles`.

`GitProxy`
* `OnlyHolderWorks`: a request or command at the upstream, or a pump, is at work only
  for the holder of its repository's lock, and a request that ended keeps no place
  among the waiters, wherever the timeout struck it. A connection beside the lock is
  one whose `connect` the timeout gave up on, and never carries a command.
* `RequestsEnd` (liveness): every request ends, though the lock, the upstream, the
  client and the pump may all hang.
* `ImplementsProxyAnswer`: the client sees one answer; it is whole only if the
  upstream's was, for a POST over SSH with exit status 0 and the whole request body sent.

`HttpProxy`
* `SavedIsInForce`: what a Save answered is in force in every running proxy it
  names, and no overlapping Save brings older policies back.
* `RestartIsTold`: the answer's `restart_required` is the truth about what runs.
* `DisconnectEnds` (liveness): a client that leaves ends its request, with the
  watcher stuck at a full queue, too.
* `ImplementsProxyAnswer`: one answer, whole, broken off or refused.

The type invariants (`TypeOK` of each module) document the states; each is proved, too.
`IInv` of `TaskRuns`, which contains the first of them, is also checked by its runs. The
inductive invariants of the other components live beside their proofs; each was
checked on the component's instance before it was proved.

## 5. Disagreements and known gaps

Found while modelling and shown by a run that TLC ends with a counterexample:
1. `stale_recovery` / `DeathInAgentBlocks`: `recover` closes a run by the phase
   it copied before the executor died; an executor that entered Agent meanwhile
   is closed without the mark (`agent_store.py:217`, against `specs/agent.md:282`).
2. `interrupted_cleanup` / `UnconfirmedStopIsSaved`: a SIGTERM inside the
   cleanup loses that the stop was not confirmed (`agent_worker.py`, against the
   same paragraph).
3. `chat_pending` / `ShowsOwnTask`: data put off by the spinner of one form may
   be rendered into the next one (`task-chat.js:183`).

The passing runs of `TaskRuns` excuse exactly the runs in `gaps`: those closed
through 1 or 2, and those whose mark `clear_database` erased.
`StraysOnlyFromPending` and `ChatGoesForward` excuse exactly the step of 3.

Known, modelled as they are, and without a run of their own: a form that was
opened in BACKLOG and is saved after the task was queued and claimed takes it out
of IN PROGRESS (`board_store.py:412`; `specs/board.md:146` wants the claim kept); the
timeout of a Git request may strike while the connection of a request that the
upstream rejected is closed, and then a second response is started, since `_https`
reports of a rejection that nothing was started (`git_proxy.py:114`; the answer
`<<"reject", "error">>` in `GitProxy`); a
crash inside `clear_database` leaves files in its hidden directory, and a failed move
back in it deletes those that are still there (`database_store.py:40`; `lost` in
`TaskMaterials`); a `client.connect` that the timeout of a Git request gave up on goes
on in its thread, and may open a connection after the repository's lock has passed on
(`git_proxy.py:143`, `Dial`); the executor of a consumer that crashed outlives the
application (`orphans` in `Supervisor`); a failed write, unlink or crash leaves a file without a row
(`strays`; `specs/board.md:148` accepts the unlink); a half-done deletion leaves a
task that is refused until the deletion is repeated; a cancelled run may make
the empty directory of a deleted task again, which then refuses a new task with
the same identifier.

## 6. What is proved

Every safety property and every action property that a passing run checks is also a
theorem, for every value of the constants, as are all refinements and all type
invariants: `Spec => []TypeOK` is the theorem `TypeCorrect` of each module of proofs,
and `SupervisorTypes` for `Supervisor`. Each component has its inductive invariant,
proved step by step, one lemma or step per action.

The assumptions are the named `ASSUME`s of the modules. Most say that `None` and the
like are none of the values they stand beside (each `NoneAssumption`,
`ConsumerAssumption`, `MaterialsAssumption`), which their use as a mark for "nothing"
means. The others give a constant its type: columns, flags, signals, configurations,
bounds. One says more: in `BoardOrder` a column of all tasks fits into the range of
`sort_order` (`MaxTask <= MaxOrder + 1`), which a 64-bit integer of SQLite grants and
without which renumbering would leave that range.

### The queue: `TaskRunsProofs`

For every set of tasks and executors, every distribution over hosts, with or without
Init, signals and forced moves.

*Types*: a lemma per group of actions; lemmas about `EndRun`, `AgentStopped` and
`Unwind` give the types of the rows they write. *Safety*: `Spec => []IInv`, and from it

| Theorem | Says |
|---|---|
| `AgentIsTracked` | `NoUntrackedAgent` |
| `AgentIsExclusive` | `ExclusiveAgent` |
| `OneRunHolds`, `MarksStayInStep` | `OneHolder`, `MarksAgree` |
| `EndIsAccounted` | `StoppedOrMarked`: an ended run with a recorded agent has a confirmed stop or the mark |
| `InitIsSafe` | `InitIsGuarded`, `InitAlone` |
| `ClosedStaysClosed`, `ClosedByOwnScope` | `ClosedIsFinal`, `ClosedByRightProcess` |

*The argument.* None of these is inductive: that an agent is tracked depends on
what its executor knew when it closed the run, and that on where the executor
stood. `IInv` adds this in two parts.

* `Control`, per executor: `Stage` (where the process stands says which phase its
  row has, that the row is still active, that nothing was confirmed yet),
  `Report` (an executor about to close its run has saved, or is about to say,
  what may be left running), `Remote` (an agent works only behind a recorded pid,
  which only the phase Agent records, and never after a confirmed stop), and
  `Copy` (the row that recovery copied is of a run of its own scope that has
  begun; a confirmation in the copy is still one in the row).
* `Data`, over both tables and the remote processes: `References`, `OneHolder`,
  `MarksAgree`, `StoppedOrMarked`, `InitIsGuarded`, `InitSettled`, `InitAlone`.

An agent that works has a recorded pid (`Remote`); if its run is closed, it has a
confirmed stop or the mark (`StoppedOrMarked`), and the first is excluded by
`Remote`: hence `AgentIsTracked`. `StoppedOrMarked` survives `finish` because of
`Report`, and recovery because the copied phase is the row's phase, except in the
first gap, and because of `Copy`. `Report` survives SIGTERM except in the
second gap, and clearing the database is the third: the set `gaps` collects
exactly the runs for which these steps of the proof do not go through. A claim
needs `OneHolder` for exclusiveness, and `InitSettled`, which follows from the
task's mark that `Claimable` asks for, for the directory. Each action is proved to
keep both parts; `DataFrame`, `ControlFrame`, `WorkerStep` and `RecoveryFrame` say
what a step must leave alone, so that most actions need a few lines. The two
action properties follow from `RunStates`, the ways in which a run's state changes.

*Columns*: `InProgressOwned` and `ReviewEarned`, under the hypothesis that nobody
forces a task into that column from the command line (`Unforced`), which does break
them. `PlaceStep` lists the ways of a task through the columns; `Earned`, a further
invariant, says that an executor whose turn ended well and is about to say so has a
confirmed stop.

*Init*: `InitOnce`, that is `InitNotRepeated`. The property speaks of an executor that
prepares Init of a task IN PROGRESS, and is not inductive: a person may take the task
out of the column and put it back. `FirstInit` speaks of the executor that the task
still names, in whatever column; it is kept because nothing but the run that holds
the task records a success (`Unprepared` for all others), and a claim decides `fresh`
in the same transaction that names the run.

*Supervision*: `SupervisorImplementsTaskRuns`, `SupervisorSpec => Spec`: every
step of application, consumer and launcher is a step of `TaskRuns` or none, so that
(`SupervisedQueueIsSafe`) `IInv` and `NoUntrackedAgent` hold of the executors they
create. `NoneLeft`: `StopLeavesNoExecutor`, from the invariant `Patience`: a living
executor that a consumer created is its `child` or an orphan of a crash. It ties
the two clocks together: the consumer passes its order on before the next tick, so that
while it waits for its executor both have waited equally long, and it kills the
executor one tick before its parent would kill it. The refinement needs `Patience`, too,
for what the consumer's `child` is.

### The agent phase: `AgentControlProofs`

`ControlImplementsPhase`: the threads implement `AgentPhase`. `ConversationHolds`,
`SuccessHolds` and `NoLatePrompt` are `Conversation`, `SuccessIsClean` and
`NoPromptAfterCancel`. The invariant has one part per concern:

* `Locks`: whoever holds the writers' lock stands inside a region it guards.
* `Group`: what was known, recorded and opened of the remote group, by where the worker
  stands. Its pid is recorded before GO is on the wire: half of the refinement.
* `Cleanup`: after the freeze no further pid becomes known, so that the group a
  confirmed stop speaks of is the only one whose gate could open: the other half.
* `Judged`: a verdict of success was given while nothing was requested.
* `Cancelling`: the sender finds "no prompt" only while the worker is not about to
  write one; this is what `NoPromptAfterCancel` needs.
* `Talk`, `Said`: the last line sent, by where the worker stands, and that each line
  follows the one before it. `Conversation`, about the whole sequence, follows.

### Order on the board: `BoardOrderProofs`

For any number of tasks. The lemmas about `Rank` carry everything: `RankIncreases` (it
follows the order of the cards), `RankIsOnto` (it leaves no gap, by counting: an
injection of a column into its numbers is onto) and `RanksCount` (below place n lie n
cards). `RenumberedKeepsOrder` gives `OthersStay` (`OthersKeepOrder`), also where one
action renumbers two columns; `LastOrderIsLast` gives `OvertakenOnlyByHand`
(`OvertakenByHand`); `RanksCount` gives `CliAppends` (`CliMovesLast`) and `DropLands`
(`LandsWhereDropped`: a dragged card takes the place it was dropped at, or the last
one; it has a theorem and no run). The
invariant adds to the types that tasks not yet created are in no column and that the
task of the executor is IN PROGRESS.

### What a run works on: `TaskMaterialsProofs`

For any number of attachments, tasks with one identifier, crashes and failures.
`RowsKeepFiles` and `FilesAreAccounted` follow from `Files`: each stored file has one
owner, a row, the transaction that wrote it or the request that is about to unlink
it, a stored name is given out once, and a row's file is stored, moved aside by the
clear under way, or among those `lost` to one. `Transactions` says what the write lock keeps
still while a transaction lasts. `WorksInOwnDirectory` follows from `Makers`: a mark
`context_ready`, and a run that relies on it, vouch for who made the directory.
`StartsWithMirror` follows from `Mirror`, an invariant of the two loops: what is
there is what was copied and what is still to be removed. `DeletedStayEmpty` follows from
`Empty`, which begins when the deletion sees the directory gone, before its commit.

### What people see: `BoardLiveProofs`, `TaskChatProofs`

`OnlyAnswersGoBack` (`OnlyLateAnswersGoBack`) and `DragUndisturbed` follow from
`Ordered`: the board shown, the snapshot put off, the events on the wire and the
database are each at least as new as the one before. A late response breaks this
order only together with the stream: it opens a new one, with nothing on the wire.

`GoesForward` (`ChatGoesForward`) and `StraysExplained` (`StraysOnlyFromPending`) follow
from `InTurn` (within a generation one poll, timer or comment is under way, for the open
form) and `Fresh` (an answer that will be rendered is not older than what it
replaces). Both properties excuse the step of disagreement 3, and the proof shows that
it is the only one.

### The proxies: `GitProxyProofs`, `HttpProxyProofs`

`GitProxyProofs`, for any number of requests and repositories: `HolderWorks`, from
`Place` (a request is in its repository's queue from its arrival to the end of its
clean-up and not otherwise, and stands in front while it works, its connection
included until it has closed its client), and `ProxyAnswers`, the
refinement of `ProxyAnswer`, from `Talk` (what was sent to the client so far, by where
the request stands, and that `over` holds where the last part is sent). The
lemmas about queues (`QueueArrives`, `QueueLeaves`, `QueueStays`) and about words on
the wire (`Words`, `Meanings`) do the work; an action is then a move of `pc` with one of
them.

`HttpProxyProofs`, for any ports, remotes, editors and configurations: `SavesInForce`
and `RestartsTold`, from `Kept`. Its parts: `Locked` (`save_lock` keeps the Saves apart),
`Snapshot` (a Save looks at running servers), `Youngest` (a Save that applies is the
file's; the servers it has looked at have its number), `Counting`
(`restart_required` so far is the truth about the servers looked at so far), `Down` (a
process that is not up has forgotten everything). `ProxyAnswers` is the refinement;
the end of the process breaks any number of requests off in one step, which `Break` of
`ProxyAnswer` allows. `InRange` bounds the numbers of servers, Saves and answers by those of the file.

### Only model-checked

Liveness: `RunsEnd`, `StopCompletes`, `CleanupCompletes`, `QueueServes`, `BoardFollows`,
`ChatFollows`, `RequestsEnd`, `DisconnectEnds`. They rest on fairness, and the prover
has no rules for `ENABLED`. The three disagreements of section 5 are counterexamples,
which are TLC's, too.

## 7. Not modelled

Contents: descriptions, prompts, ACP payloads, diagnostics, raw logs, rendering
and markup. SQLite's lock timeout of 10 seconds (a deletion holds the lock for
as long as its SSH walk): an executor that fails on it is one that dies there.
Legacy rows without a scope. Windows process calls. A `Popen` that fails: a round
without an executor. A kill of `start.py` itself, whose children then go on without
it (an executor without its consumer is modelled, `ConsumerCrash`). The pool of the HTTP
proxy's connections and the matching of its patterns and headers; packets and
paths of the Git proxy. Of the settings, all sections but `http_proxy` and the
snapshot that an executor takes of them under `configuration_lock`. The host a deletion goes to
is the one configured now, not the one the directory was made on.
`log_cleanup.py`, field validators, drafts in local storage, toasts: no state that
another actor changes. Tests and vendored scripts.

## 8. Plan

Order: first the queue (`TaskRuns`), since every other part serves it, then
the phase it relies on (`AgentPhase`, `AgentControl`), what people do to the
queue (`BoardOrder`), what a run works on (`TaskMaterials`), what people see
(`BoardLive`, `TaskChat`), then the processes around it (`Supervisor`) and the proxies
(`GitProxy`, `HttpProxy`). These are done. Left:

1. `Settings`: `configuration_lock`, file replacement and the snapshot that an executor
   takes of several sections.
2. Forms beside the queue: a save with the status of an outdated form against a
   claim, as a run of its own.
3. Proofs for both, and a theorem that relates the steps of the phase in `TaskRuns` to
   `AgentPhase`. It is not a plain refinement: an unconfirmed stop with the GO still
   under way is one step there and two here, and an operator may confirm a stop later.
