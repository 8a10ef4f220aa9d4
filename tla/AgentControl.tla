---------------------------- MODULE AgentControl ----------------------------
(***************************************************************************)
(* The phase Agent of one run: the three threads of run_remote and the      *)
(* remote process group they share (agent_remote.py, agent_control.py).     *)
(*   main    polls the owner, the deadlines and the worker, then cleans up; *)
(*   worker  starts the group, opens its gate and talks ACP (execute);      *)
(*   sender  sends session/cancel once the task was taken away.             *)
(* A write to the channel may block for as long as it likes: the remote     *)
(* window may be full.  The process may be killed at any step.              *)
(*                                                                         *)
(* A step between two locked regions is one action; clocks are the events   *)
(* TimeOut and CancelOver.  ACP messages are their methods: contents, logs  *)
(* and diagnostics are left out.                                            *)
(***************************************************************************)
EXTENDS Naturals, Sequences, SequencesExt

VARIABLES
    main,        \* where the main thread stands
    worker,      \* where the thread execute() stands
    sender,      \* where the thread cancel_session() stands
    request,     \* the ACP request the worker is at
    lock,        \* AgentControl.lock: its holder
    cancelled,   \* the event cancelled: cleanup has begun
    requested,   \* the event requested: the task was taken away
    cancelSent,  \* the event cancel_sent: the sender is through
    pid,         \* AgentControl.pid is known
    target,      \* the pid that stop() works with is known
    promptSent,  \* AgentControl.prompt_sent
    outcome,     \* outcome of the worker
    verdict,     \* why the main loop ended
    uncertain,   \* run_remote's uncertain
    active,      \* TaskCycle.active(): the run owns a task in progress
    agentPid,    \* saved: agent_runs.agent_pid
    stop,        \* saved: agent_stop_confirmed / agent_uncertain
    remote,      \* the process group behind the SSH channel
    channel,     \* the SSH channel is open
    wire,        \* GO is on its way
    sent,        \* the lines written to the agent's stdin
    reply,       \* what the agent answered to the worker's request
    timedOut,    \* the agent's timeout has passed
    cancelOver   \* CANCEL_TIMEOUT has passed since the cancellation

threads == <<main, worker, sender, request, lock>>
flags == <<cancelled, requested, cancelSent, pid, target, promptSent>>
results == <<outcome, verdict, uncertain>>
saved == <<active, agentPid, stop>>
net == <<remote, channel, wire, sent, reply>>
clocks == <<timedOut, cancelOver>>
vars == <<threads, flags, results, saved, net, clocks>>

Mains == {"look", "check", "cancel", "freeze", "stop", "close", "done", "dead"}
Workers == {"start", "exec", "hello", "lock", "persist", "gate", "go", "send",
            "write", "read", "answer", "answering", "ended"}
Senders == {"off", "lock", "write", "done"}
Requests == {"initialize", "session", "prompt"}
Lines == Requests \cup {"GO", "cancel"}

TypeOK ==
    /\ main \in Mains /\ worker \in Workers /\ sender \in Senders
    /\ request \in Requests
    /\ lock \in {"free", "worker", "sender"}
    /\ cancelled \in BOOLEAN /\ requested \in BOOLEAN /\ cancelSent \in BOOLEAN
    /\ pid \in BOOLEAN /\ target \in BOOLEAN /\ promptSent \in BOOLEAN
    /\ uncertain \in BOOLEAN /\ active \in BOOLEAN /\ agentPid \in BOOLEAN
    /\ channel \in BOOLEAN /\ wire \in BOOLEAN
    /\ timedOut \in BOOLEAN /\ cancelOver \in BOOLEAN
    /\ outcome \in {"none", "ok", "failed"}
    /\ verdict \in {"none", "ok", "failed", "timeout", "cancelled"}
    /\ stop \in {"none", "confirmed", "unconfirmed"}
    /\ remote \in {"none", "gated", "working", "gone"}
    /\ sent \in Seq(Lines)
    /\ reply \in {"none", "result", "missing", "error", "request"}

Init ==
    /\ main = "look" /\ worker = "start" /\ sender = "off"
    /\ request = "initialize" /\ lock = "free"
    /\ cancelled = FALSE /\ requested = FALSE /\ cancelSent = FALSE
    /\ pid = FALSE /\ target = FALSE /\ promptSent = FALSE
    /\ outcome = "none" /\ verdict = "none" /\ uncertain = FALSE
    /\ active = TRUE /\ agentPid = FALSE /\ stop = "none"
    /\ remote = "none" /\ channel = TRUE /\ wire = FALSE
    /\ sent = <<>> /\ reply = "none"
    /\ timedOut = FALSE /\ cancelOver = FALSE

-----------------------------------------------------------------------------
(* The worker: execute(), AgentControl.handshake and send, _request. *)

\* execute() returns or raises: finished is set, the lock is released.
Return(result) ==
    /\ worker' = "ended"
    /\ outcome' = IF cancelled THEN outcome ELSE result
    /\ lock' = IF lock = "worker" THEN "free" ELSE lock
    /\ UNCHANGED <<main, sender, request, verdict, uncertain>>

Goto(from, to) ==
    /\ worker = from /\ worker' = to
    /\ UNCHANGED <<main, sender, request, results>>

Acquire(thread) == lock = "free" /\ lock' = thread

\* cycle.check and on_started
Start ==
    /\ \/ active /\ Goto("start", "exec") /\ UNCHANGED lock
       \/ ~active /\ worker = "start" /\ Return("failed")
    /\ UNCHANGED <<flags, saved, net, clocks>>

\* channel.exec_command: a call that fails may still have reached the host.
Exec ==
    /\ \/ channel /\ Goto("exec", "hello") /\ remote' = "gated" /\ UNCHANGED lock
       \/ /\ worker = "exec" /\ Return("failed")
          /\ remote' \in {remote, "gated"}
    /\ UNCHANGED <<channel, wire, sent, reply, flags, saved, clocks>>

\* The group announces its pid, then waits at its gate.
Hello ==
    /\ \/ /\ ~cancelled /\ channel /\ remote = "gated"
          /\ Goto("hello", "lock")
          /\ UNCHANGED lock
       \/ worker = "hello" /\ cancelled /\ Return(outcome)
       \/ worker = "hello" /\ Return("failed")
    /\ UNCHANGED <<flags, saved, net, clocks>>

Frozen_OnStopOnly == cancelled
Frozen == cancelled \/ requested

\* startup_lock: stop() sees either no pid or the one that is set here.
Record_Unsaved ==
    /\ ~Frozen /\ Goto("lock", "gate") /\ Acquire("worker") /\ pid' = TRUE
    /\ UNCHANGED <<cancelled, requested, cancelSent, target, promptSent,
                   saved, net, clocks>>
Record ==
    /\ \/ ~Frozen /\ Goto("lock", "persist") /\ Acquire("worker") /\ pid' = TRUE
       \/ Frozen /\ worker = "lock" /\ lock = "free" /\ Return(outcome) /\ UNCHANGED pid
    /\ UNCHANGED <<cancelled, requested, cancelSent, target, promptSent,
                   saved, net, clocks>>

\* TaskCycle.agent_pid, which also checks the owner.
Persist ==
    /\ \/ active /\ Goto("persist", "gate") /\ UNCHANGED lock /\ agentPid' = TRUE
       \/ ~active /\ worker = "persist" /\ Return("failed") /\ agentPid' = TRUE
       \/ worker = "persist" /\ Return("failed") /\ UNCHANGED agentPid
    /\ UNCHANGED <<active, stop, flags, net, clocks>>

Gate ==
    /\ \/ ~Frozen /\ Goto("gate", "go") /\ UNCHANGED lock
       \/ Frozen /\ worker = "gate" /\ Return(outcome)
    /\ UNCHANGED <<flags, saved, net, clocks>>

WriteGo ==
    /\ \/ /\ channel /\ Goto("go", "send") /\ lock' = "free"
          /\ wire' = TRUE /\ sent' = Append(sent, "GO")
       \/ /\ ~channel /\ worker = "go" /\ Return("failed")
          /\ UNCHANGED <<wire, sent>>
    /\ UNCHANGED <<remote, channel, reply, flags, saved, clocks>>

\* AgentControl.send refuses every further request after a cancellation.
Send ==
    /\ \/ ~Frozen /\ Goto("send", "write") /\ Acquire("worker")
       \/ Frozen /\ worker = "send" /\ lock = "free" /\ Return("failed")
    /\ UNCHANGED <<flags, saved, net, clocks>>

Write ==
    /\ \/ /\ channel /\ Goto("write", "read") /\ lock' = "free"
          /\ sent' = Append(sent, request)
          /\ promptSent' = (promptSent \/ request = "prompt")
       \/ /\ ~channel /\ worker = "write" /\ Return("failed")
          /\ UNCHANGED <<sent, promptSent>>
    /\ UNCHANGED <<remote, channel, wire, reply, cancelled, requested,
                   cancelSent, pid, target, saved, clocks>>

\* The reply of each request leads to the next one, or to the end of the turn.
ReadResult ==
    /\ worker = "read" /\ reply = "result" /\ ~cancelled
    /\ reply' = "none"
    /\ \/ /\ request # "prompt"
          /\ worker' = "send"
          /\ request' = IF request = "initialize" THEN "session" ELSE "prompt"
          /\ UNCHANGED <<main, sender, lock, results>>
       \/ request = "prompt" /\ Return("ok")
       \/ request = "session" /\ Return("failed")    \* on_session failed
    /\ UNCHANGED <<remote, channel, wire, sent, flags, saved, clocks>>

\* session/load did not find the session: session/new is tried instead.
ReadMissing ==
    /\ worker = "read" /\ reply = "missing" /\ ~cancelled
    /\ Goto("read", "send") /\ UNCHANGED lock
    /\ reply' = "none"
    /\ UNCHANGED <<remote, channel, wire, sent, flags, saved, clocks>>

\* An error, an invalid line or the end of the stream; or cleanup has begun.
ReadFails ==
    /\ worker = "read"
    /\ cancelled \/ reply = "error" \/ remote = "gone" \/ ~channel
    /\ Return("failed")
    /\ UNCHANGED <<flags, saved, net, clocks>>

\* The agent's own requests are refused, also during a cancellation.
ReadRequest ==
    /\ worker = "read" /\ reply = "request" /\ ~cancelled
    /\ Goto("read", "answer") /\ UNCHANGED lock
    /\ reply' = "none"
    /\ UNCHANGED <<remote, channel, wire, sent, flags, saved, clocks>>

Answer ==
    /\ \/ ~cancelled /\ Goto("answer", "answering") /\ Acquire("worker")
       \/ cancelled /\ worker = "answer" /\ lock = "free" /\ Return("failed")
       \/ channel /\ Goto("answering", "read") /\ lock' = "free"
       \/ ~channel /\ worker = "answering" /\ Return("failed")
    /\ UNCHANGED <<flags, saved, net, clocks>>

Worker ==
    \/ Start \/ Exec \/ Hello \/ Record \/ Persist \/ Gate \/ WriteGo
    \/ Send \/ Write \/ ReadResult \/ ReadMissing \/ ReadFails \/ ReadRequest
    \/ Answer

-----------------------------------------------------------------------------
(* The sender: AgentControl.request_cancel. *)

SenderGoto(from, to) ==
    /\ sender = from /\ sender' = to
    /\ cancelSent' = (to = "done")
    /\ UNCHANGED <<main, worker, request, cancelled, requested, pid, target,
                   promptSent, results, saved, clocks>>

CancelAtPrompt_Always == TRUE
CancelAtPrompt == promptSent /\ ~cancelled

RequestCancel ==
    /\ \/ CancelAtPrompt /\ SenderGoto("lock", "write") /\ Acquire("sender")
       \/ ~CancelAtPrompt /\ lock = "free" /\ SenderGoto("lock", "done") /\ UNCHANGED lock
    /\ UNCHANGED net

WriteCancel ==
    /\ SenderGoto("write", "done") /\ lock' = "free"
    /\ sent' = IF channel THEN Append(sent, "cancel") ELSE sent
    /\ UNCHANGED <<remote, channel, wire, reply>>

Sender == RequestCancel \/ WriteCancel

-----------------------------------------------------------------------------
(* The main thread: the polling loop and the finally clause of run_remote. *)

MainGoto(from, to) ==
    /\ main = from /\ main' = to
    /\ UNCHANGED <<worker, request, lock>>

\* A task that was taken away is cancelled once.
Look ==
    /\ MainGoto("look", "check")
    /\ IF active \/ requested THEN UNCHANGED <<requested, sender>>
       ELSE requested' = TRUE /\ sender' = "lock"
    /\ UNCHANGED <<cancelled, cancelSent, pid, target, promptSent, results,
                   saved, net, clocks>>

\* The database may fail, before the sender is started.
LookFails ==
    /\ MainGoto("look", "cancel")
    /\ verdict' = "failed"
    /\ requested' \in {requested, requested \/ ~active}
    /\ UNCHANGED <<sender, cancelled, cancelSent, pid, target, promptSent,
                   outcome, uncertain, saved, net, clocks>>

Finished == worker = "ended"

Enough ==
    \/ Finished
    \/ requested /\ ((cancelSent /\ ~promptSent) \/ cancelOver)
    \/ ~requested /\ timedOut

Verdict_Late == IF ~Finished THEN "timeout" ELSE outcome
Verdict ==
    CASE requested -> "cancelled"
      [] ~requested /\ ~Finished -> "timeout"
      [] OTHER -> IF outcome = "ok" THEN "ok" ELSE "failed"

Check ==
    /\ \/ Enough /\ MainGoto("check", "cancel") /\ verdict' = Verdict
       \/ ~Enough /\ MainGoto("check", "look") /\ UNCHANGED verdict
    /\ UNCHANGED <<sender, outcome, uncertain, flags, saved, net, clocks>>

Cancel ==
    /\ MainGoto("cancel", "freeze")
    /\ cancelled' = TRUE
    /\ UNCHANGED <<sender, requested, cancelSent, pid, target, promptSent,
                   results, saved, net, clocks>>

\* AgentControl.stop takes the startup lock only, never that of the writers.
Freeze_BehindWriters ==
    /\ lock = "free" /\ MainGoto("freeze", "stop") /\ target' = pid
    /\ UNCHANGED <<sender, cancelled, requested, cancelSent, pid, promptSent,
                   results, saved, net, clocks>>
Freeze ==
    /\ MainGoto("freeze", "stop")
    /\ target' = pid
    /\ UNCHANGED <<sender, cancelled, requested, cancelSent, pid, promptSent,
                   results, saved, net, clocks>>

\* stop_group on the remote host: TERM, KILL, and a look for survivors.
Killed == IF remote \in {"gated", "working"} THEN "gone" ELSE remote

StopGroup ==
    /\ MainGoto("stop", "close")
    /\ \/ /\ stop' = "confirmed" /\ uncertain' = FALSE
          /\ remote' = IF target THEN Killed ELSE remote
       \/ /\ target
          /\ stop' = "unconfirmed" /\ uncertain' = TRUE
          /\ remote' \in {remote, Killed}
       \/ /\ UNCHANGED stop /\ uncertain' = TRUE         \* it could not be saved
          /\ remote' \in IF target THEN {remote, Killed} ELSE {remote}
    /\ UNCHANGED <<sender, channel, wire, sent, reply, outcome, verdict,
                   active, agentPid, flags, clocks>>

\* Closing the channel wakes every blocked reader and writer.  A log that
\* cannot be saved makes a success a failure, and no other difference here.
Close ==
    /\ MainGoto("close", "done")
    /\ channel' = FALSE
    /\ verdict' \in {verdict, IF verdict = "ok" THEN "failed" ELSE verdict}
    /\ UNCHANGED <<sender, remote, wire, sent, reply, flags, outcome, uncertain,
                   saved, clocks>>

Main == Look \/ LookFails \/ Check \/ Cancel \/ Freeze \/ StopGroup \/ Close

Crash ==
    /\ main \notin {"done", "dead"}
    /\ main' = "dead" /\ worker' = "ended" /\ sender' = "done"
    /\ lock' = "free" /\ channel' = FALSE
    /\ UNCHANGED <<request, remote, wire, sent, reply, flags, results, saved,
                   clocks>>

-----------------------------------------------------------------------------
(* The remote host, the board and the clocks. *)

Remote ==
    /\ \/ /\ wire /\ remote = "gated"
          /\ remote' = "working" /\ wire' = FALSE
          /\ UNCHANGED reply
       \/ /\ remote = "working" \/ (remote = "gated" /\ ~channel)
          /\ remote' = "gone"
          /\ UNCHANGED <<wire, reply>>
       \/ /\ remote = "working" /\ worker = "read" /\ reply = "none"
          /\ reply' \in {"result", "error", "request"} \cup
                 IF request = "session" /\ Last(sent) = "session"
                    /\ \A i \in DOMAIN sent : sent[i] = "session" => i = Len(sent)
                 THEN {"missing"} ELSE {}
          /\ UNCHANGED <<remote, wire>>
    /\ UNCHANGED <<channel, sent, threads, flags, results, saved, clocks>>

\* Somebody moves the task out of IN PROGRESS.
TakeAway ==
    /\ active /\ active' = FALSE
    /\ UNCHANGED <<agentPid, stop, threads, flags, results, net, clocks>>

TimeOut == ~timedOut /\ timedOut' = TRUE
           /\ UNCHANGED <<cancelOver, threads, flags, results, saved, net>>

CancelOver == requested /\ ~cancelOver /\ cancelOver' = TRUE
              /\ UNCHANGED <<timedOut, threads, flags, results, saved, net>>

Next ==
    \/ Main \/ Worker \/ Sender \/ Crash
    \/ Remote \/ TakeAway \/ TimeOut \/ CancelOver

Spec == Init /\ [][Next]_vars

\* Only the main thread and the clocks are sure to go on: worker and sender
\* may hang in a read or a write for ever.
FairSpec == Spec /\ WF_vars(Main) /\ WF_vars(TimeOut) /\ WF_vars(CancelOver)

-----------------------------------------------------------------------------
(* Properties. *)

Rank(entry) ==
    CASE entry = "GO" -> 1 [] entry = "initialize" -> 2 [] entry = "session" -> 3
      [] entry = "prompt" -> 4 [] entry = "cancel" -> 5

(* The agent reads a proper conversation: complete lines, GO first, requests *)
(* in order, at most one session/cancel, and nothing but it after the        *)
(* cancellation of a prompt (send, request_cancel, the lock they share).     *)
Conversation ==
    /\ ~(worker \in {"go", "write", "answering"} /\ sender = "write")
    /\ \A i \in DOMAIN sent :
        /\ i = 1 => sent[i] = "GO"
        /\ i > 1 => \/ Rank(sent[i - 1]) + 1 = Rank(sent[i])
                    \/ sent[i - 1] = "session" /\ sent[i] = "session"

(* Once the main loop may conclude that no prompt is under way, none is     *)
(* sent any more: it stops the group without the 60 seconds of grace.       *)
NoPromptAfterCancel == [][cancelSent /\ ~promptSent => ~promptSent']_vars

(* Success is reported only for an undisturbed turn whose agent is known to *)
(* be gone (the finally clause of run_remote).                              *)
SuccessIsClean ==
    main = "done" /\ verdict = "ok" /\ ~uncertain =>
        stop = "confirmed" /\ ~requested /\ remote # "working"

(* Cleanup always completes, even with worker and sender blocked in writes  *)
(* to the agent while they hold the lock (stop, CANCEL_TIMEOUT).            *)
CleanupCompletes == <>(main \in {"done", "dead"})

Phase == INSTANCE AgentPhase WITH
    recorded <- agentPid, working <- (remote = "working"), stop <- stop

(* The threads implement the phase Agent that the queue relies on: no agent  *)
(* works before its pid is saved (handshake: persist before GO), and neither *)
(* a GO in flight nor a worker thread that outlives cleanup starts one after *)
(* a confirmed stop (stop).                                                  *)
ImplementsAgentPhase == Phase!Spec

=============================================================================
