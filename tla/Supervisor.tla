----------------------------- MODULE Supervisor -----------------------------
(***************************************************************************)
(* The processes around the executors of TaskRuns: the application          *)
(* (start.py), which starts a web server and a consumer and stops both, the *)
(* consumer (agent_consumer.py), which spawns one executor after another    *)
(* and recovers what a failed one left, and the launcher                    *)
(* (agent_launcher.py), whose executors nobody waits for.                   *)
(*                                                                         *)
(* An executor exists from its creation to its end; in between it takes the *)
(* steps of TaskRuns.  Time matters only while the application stops: a     *)
(* tick is five seconds.  The web server is up whenever the application is. *)
(***************************************************************************)
EXTENDS TaskRuns

CONSTANT MaxStop  \* bound: how often the application stops

ASSUME MaxStopAssumption == MaxStop \in Nat

VARIABLES
    alive,  \* the executors that exist
    killed, \* those that a signal ended before they were through
    spawned, \* those of them that exist and that a consumer created
    orphans, \* those of these whose consumer crashed
    app,    \* start.py: "off", "up", or "halt" while it stops its processes
    cons,   \* the consumer
    child,  \* its executor
    age,    \* ticks since the consumer was told to stop
    wait,   \* ticks since it told its executor
    stops   \* how often the application stopped

control == <<app, cons, child, age, wait, stops>>
processes == <<alive, killed, spawned, orphans>>
all == <<vars, processes, control>>

\* stop_process(consumer, 15), stop_process(executor, 10)
ConsumerTicks_Swapped == 2
ConsumerTicks == 3
ExecutorTicks == 2

SupervisorTypeOK ==
    /\ TypeOK
    /\ alive \subseteq Worker /\ killed \subseteq Worker \ alive
    /\ spawned \subseteq alive /\ orphans \subseteq spawned
    /\ app \in {"off", "up", "halt"}
    /\ cons \in {"off", "spawn", "watch", "recover", "halt", "interval"}
    /\ child \in Worker \cup {None}
    /\ age \in 0..ConsumerTicks /\ wait \in 0..ExecutorTicks
    /\ stops \in 0..MaxStop

SupervisorInit ==
    /\ Init
    /\ alive = {} /\ killed = {} /\ spawned = {} /\ orphans = {}
    /\ app = "off" /\ cons = "off" /\ child = None
    /\ age = 0 /\ wait = 0 /\ stops = 0

-----------------------------------------------------------------------------
(* Executors. *)

\* After a step of TaskRuns: K were killed, others may have ended by themselves.
After(K) ==
    /\ alive' = {w \in alive \ K : pc'[w] = pc[w] \/ pc'[w] \notin {"off", "gone"}}
    /\ killed' = killed \cup K
    /\ spawned' = spawned \cap alive' /\ orphans' = orphans \cap alive'

Create(w) ==
    /\ pc[w] = "off" /\ w \notin alive \cup {child}
    /\ alive' = alive \cup {w} /\ killed' = killed \ {w}
    /\ UNCHANGED <<vars, orphans>>

Execute(w) ==
    /\ w \in alive
    /\ Recover(w) \/ Claim(w) \/ ClaimNothing(w) \/ Perform(w)
    /\ After({})
    /\ UNCHANGED control

Kill(w) ==
    /\ w \in alive
    /\ IF pc[w] = "off" THEN UNCHANGED vars ELSE Crash(w)
    /\ After({w})

\* SIGTERM: the run is unwound; without one the process just ends.
Terminate(w) ==
    IF pc[w] \in Starting THEN Kill(w)
    ELSE Shutdown(w) /\ After({})

\* Executors crash, and remote processes end.
Environment ==
    \/ \E w \in Worker : Kill(w) /\ UNCHANGED control
    \/ (People \/ \E w \in Worker : RemoteExit(w)) /\ UNCHANGED <<processes, control>>

\* launch() refuses beside a run of another scope, and beside one that lives
\* and has time left.
Launch(w) ==
    /\ app # "off"
    /\ \A v \in ActiveRuns : SameScope(Consumer, v)
    /\ Create(w)
    /\ UNCHANGED <<spawned, control>>

-----------------------------------------------------------------------------
(* The consumer. *)

Spawn(w) ==
    /\ cons = "spawn" /\ cons' = "watch"
    /\ Create(w) /\ spawned' = spawned \cup {w} /\ child' = w
    /\ UNCHANGED <<app, age, wait, stops>>

\* Beyond the executors of the instance: one that recovers and claims nothing.
SpawnLater ==
    /\ cons = "spawn" /\ cons' = "recover"
    /\ \A w \in Worker : pc[w] # "off" \/ w \in alive
    /\ UNCHANGED <<vars, processes, app, child, age, wait, stops>>

\* Exit code 0: nothing to do, or a success.
Clean(w) == w \notin killed /\ runs[w].state \in {"none", "SUCCEEDED"}

Reap ==
    /\ cons = "watch" /\ child \notin alive
    /\ cons' = IF Clean(child) THEN "interval" ELSE "recover"
    /\ child' = None
    /\ UNCHANGED <<vars, processes, app, age, wait, stops>>

ConsumerRecovers ==
    /\ cons = "recover"
    /\ \/ Recover(Consumer)
       \/ /\ pc[Consumer] = "off" /\ \A w \in ActiveRuns : ~SameScope(Consumer, w)
          /\ UNCHANGED vars
    /\ cons' = IF pc'[Consumer] = "off" THEN "interval" ELSE "recover"
    /\ After({})
    /\ UNCHANGED <<app, child, age, wait, stops>>

NextRound ==
    /\ cons = "interval" /\ app = "up" /\ cons' = "spawn"
    /\ UNCHANGED <<vars, processes, app, child, age, wait, stops>>

\* SIGTERM sets the event; the consumer looks at it every 0.2 seconds.
Told == app = "halt"

HaltChild ==
    /\ Told /\ cons = "watch" /\ cons' = "halt" /\ wait' = 0
    /\ child \in alive /\ Terminate(child)
    /\ UNCHANGED <<app, child, age, stops>>

KillChild ==
    /\ cons = "halt" /\ wait = ExecutorTicks
    /\ Kill(child)
    /\ UNCHANGED control

\* It ends between two rounds, and when its executor is gone.
ConsumerEnds ==
    /\ Told
    /\ cons \in {"spawn", "interval"} \/ (cons = "halt" /\ child \notin alive)
    /\ cons' = "off" /\ child' = None
    /\ UNCHANGED <<vars, processes, app, age, wait, stops>>

-----------------------------------------------------------------------------
(* The application. *)

StartApp ==
    /\ app = "off" /\ app' = "up" /\ cons' = "spawn" /\ age' = 0
    /\ UNCHANGED <<vars, processes, child, wait, stops>>

\* A signal, or the death of the web server.
StopApp ==
    /\ app = "up" /\ stops < MaxStop
    /\ app' = "halt" /\ stops' = stops + 1
    /\ UNCHANGED <<vars, processes, cons, child, age, wait>>

\* Its executor, in a session of its own, survives it.
ConsumerDies ==
    /\ cons' = "off"
    /\ IF pc[Consumer] = "off" THEN UNCHANGED vars ELSE RecoveryDies(Consumer)
    /\ UNCHANGED <<alive, killed, spawned>>

\* serve notices and stops the rest, or no longer waits for it.
ConsumerCrash ==
    /\ cons # "off"
    /\ ConsumerDies /\ child' = None
    /\ orphans' = orphans \cup ({child} \cap spawned)
    /\ \/ app = "halt" /\ UNCHANGED stops
       \/ app = "up" /\ stops < MaxStop /\ stops' = stops + 1
    /\ app' = "halt"
    /\ UNCHANGED <<age, wait>>

KillConsumer_Never == FALSE /\ UNCHANGED all
KillConsumer ==
    /\ app = "halt" /\ cons # "off" /\ age = ConsumerTicks
    /\ ConsumerDies
    /\ UNCHANGED <<orphans, app, child, age, wait, stops>>

\* The web server, told last, has no executors to wait for.
AppEnds ==
    /\ app = "halt" /\ cons = "off" /\ app' = "off"
    /\ UNCHANGED <<vars, processes, cons, child, age, wait, stops>>

\* What happens at once happens before the next tick.
Tick ==
    /\ app = "halt" /\ age < ConsumerTicks
    /\ \/ cons = "recover"
       \/ cons = "halt" /\ child \in alive /\ wait < ExecutorTicks
    /\ age' = age + 1
    /\ wait' = IF cons = "halt" THEN wait + 1 ELSE wait
    /\ UNCHANGED <<vars, processes, app, cons, child, stops>>

ConsumerStep ==
    \/ \E w \in Worker : Spawn(w)
    \/ SpawnLater \/ Reap \/ ConsumerRecovers \/ NextRound
    \/ HaltChild \/ KillChild \/ ConsumerEnds

Stopping == KillConsumer \/ AppEnds \/ Tick

SupervisorNext ==
    \/ Environment
    \/ \E w \in Worker : Execute(w) \/ Launch(w)
    \/ ConsumerStep \/ Stopping
    \/ StartApp \/ StopApp \/ ConsumerCrash

\* Processes run, an executor's waits are bounded, time passes, and an
\* application that was stopped is started again.  While it stops, an executor
\* that was told to end and a recovery may hang.
SupervisorSpec ==
    /\ SupervisorInit /\ [][SupervisorNext]_all
    /\ \A w \in Worker : WF_all(Execute(w) /\ ~(cons = "halt" /\ child = w))
    /\ WF_all(ConsumerStep /\ ~(cons = "recover" /\ Told))
    /\ WF_all(Stopping) /\ WF_all(StartApp)

-----------------------------------------------------------------------------
(* Properties. *)

(* An application that was stopped left no executor behind that a consumer  *)
(* of its had created: the consumer's own wait ends before its parent's     *)
(* patience does (the timeouts of stop_process in serve and consume).  The  *)
(* exception: the executor of a consumer that crashed by itself, before or  *)
(* during the stop, whose end nobody sees to.                               *)
StopLeavesNoExecutor == app = "off" => spawned \subseteq orphans

(* The application ends once it was told to, though the consumer may be     *)
(* busy recovering and its executor may not react.                          *)
StopCompletes == app = "halt" ~> app = "off"

=============================================================================
