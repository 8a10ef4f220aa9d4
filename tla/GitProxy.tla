------------------------------ MODULE GitProxy ------------------------------
(***************************************************************************)
(* The Git proxy (controllers/git_proxy.py): requests that wait for the     *)
(* lock of their repository and are passed on over HTTPS or SSH, the task   *)
(* that pumps a request's body into an SSH channel, and the timeout that    *)
(* covers the wait and the transfer and strikes at any await, whereupon a   *)
(* connect that runs in a thread goes on there by itself.                   *)
(*                                                                         *)
(* The upstream and the client are free: whatever they do is an action.     *)
(* asyncio.Lock is first in, first out: the head of a repository's queue    *)
(* holds its lock.  A chunk after the first changes nothing here.           *)
(***************************************************************************)
EXTENDS Naturals, Sequences, SequencesExt

CONSTANTS
    Request,  \* HTTP requests
    RepoOf    \* the repository of each

VARIABLES
    pc,     \* where each request stands
    kind,   \* transport and method of one that is transferred
    cause,  \* the exception on its way, "none" without one
    queue,  \* per repository: the requests that hold or wait for its lock
    line,   \* the connection to the upstream, one that still has to come to be
            \* ("dialing") or has no command yet ("open") included
    pump,   \* pump_task
    wire,   \* what was sent to the client: starts and ends of responses
    over    \* history: is the upstream's answer whole?  Of POST over SSH this is
            \* exit status 0 after the whole body, of GET the flush packet.

vars == <<pc, kind, cause, queue, line, pump, wire, over>>

Repo == {RepoOf[r] : r \in Request}
Kinds == [ssh : BOOLEAN, post : BOOLEAN]
NoKind == [ssh |-> FALSE, post |-> FALSE]
Finished(r) == pc[r] \in {"done", "failed"}

TypeOK ==
    /\ pc \in [Request -> {"new", "wait", "send", "connect", "advertisement", "stream",
                           "join", "status", "last", "leave", "unwind", "reply",
                           "done", "failed"}]
    /\ kind \in [Request -> Kinds]
    /\ cause \in [Request -> {"none", "timeout", "transport", "client"}]
    /\ queue \in [Repo -> Seq(Request)]
    /\ \A p \in Repo : IsInjective(queue[p])
    /\ line \in [Request -> {"none", "dialing", "open", "busy"}]
    /\ pump \in [Request -> {"none", "running", "done", "failed"}]
    /\ wire \in [Request -> Seq({"start", "reject", "error", "end"})]
    /\ over \in [Request -> BOOLEAN]

Init ==
    /\ pc = [r \in Request |-> "new"]
    /\ kind = [r \in Request |-> NoKind]
    /\ cause = [r \in Request |-> "none"]
    /\ queue = [p \in Repo |-> <<>>]
    /\ line = [r \in Request |-> "none"] /\ pump = [r \in Request |-> "none"]
    /\ wire = [r \in Request |-> <<>>] /\ over = [r \in Request |-> FALSE]

Go(r, from, to) == pc[r] = from /\ pc' = [pc EXCEPT ![r] = to]
Send(r, messages) == wire' = [wire EXCEPT ![r] = @ \o messages]
Started(r) == "start" \in ToSet(wire[r])
\* The response is started in front of the first data.
Start(r) == Send(r, IF Started(r) THEN <<>> ELSE <<"start">>)

-----------------------------------------------------------------------------
(* git_proxy and the lock. *)

\* Not an operation of Git (400), or no valid configuration (503).
Refuse(r) ==
    /\ Go(r, "new", "done") /\ Send(r, <<"error">>)
    /\ UNCHANGED <<kind, cause, queue, line, pump, over>>

Arrive(r) ==
    /\ Go(r, "new", "wait")
    /\ queue' = [queue EXCEPT ![RepoOf[r]] = Append(@, r)]
    /\ UNCHANGED <<kind, cause, line, pump, wire, over>>

Holds(r) == queue[RepoOf[r]] # <<>> /\ Head(queue[RepoOf[r]]) = r

Acquire(r) ==
    /\ Holds(r)
    /\ \E k \in Kinds :
          /\ Go(r, "wait", IF k.ssh THEN "connect" ELSE "send")
          /\ kind' = [kind EXCEPT ![r] = k]
          /\ line' = [line EXCEPT ![r] = IF k.ssh THEN "dialing" ELSE "busy"]
    /\ UNCHANGED <<cause, queue, pump, wire, over>>

Release(r) ==
    \E i \in DOMAIN queue[RepoOf[r]] :
        /\ queue[RepoOf[r]][i] = r
        /\ queue' = [queue EXCEPT ![RepoOf[r]] = RemoveAt(@, i)]

-----------------------------------------------------------------------------
(* _https *)

Transfer(r) == UNCHANGED <<kind, cause, queue, line>>

Accepted(r) ==
    /\ Go(r, "send", "stream") /\ Start(r)
    /\ Transfer(r) /\ UNCHANGED <<pump, over>>

\* A status other than 2xx; nothing notes that this answer was started.
Rejected(r) ==
    /\ Go(r, "send", "leave") /\ Send(r, <<"reject">>)
    /\ Transfer(r) /\ UNCHANGED <<pump, over>>

HttpsEnds(r) ==
    /\ ~kind[r].ssh
    /\ Go(r, "stream", "last")
    /\ over' = [over EXCEPT ![r] = TRUE]
    /\ Transfer(r) /\ UNCHANGED <<pump, wire>>

-----------------------------------------------------------------------------
(* _ssh *)

\* The thread of client.connect gets its transport or fails, whether or not
\* the request still waits for it.
Dial(r) ==
    /\ line[r] = "dialing"
    /\ \E result \in {"open", "none"} : line' = [line EXCEPT ![r] = result]
    /\ UNCHANGED <<pc, kind, cause, queue, pump, wire, over>>

\* Authenticated, with a channel and the command.
Connected(r) ==
    /\ line[r] = "open"
    /\ Go(r, "connect", "advertisement")
    /\ line' = [line EXCEPT ![r] = "busy"]
    /\ UNCHANGED <<kind, cause, queue, pump, wire, over>>

\* A connection that came to be after its request closed the client ends
\* with the client's object, some time after the thread.
Collect(r) ==
    /\ line[r] = "open" /\ pc[r] \in {"reply", "done", "failed"}
    /\ line' = [line EXCEPT ![r] = "none"]
    /\ UNCHANGED <<pc, kind, cause, queue, pump, wire, over>>

\* A packet of the advertisement, which POST has no use for.
Packet(r) ==
    /\ Go(r, "advertisement", "advertisement")
    /\ ~kind[r].post /\ ~Started(r) /\ Start(r)
    /\ Transfer(r) /\ UNCHANGED <<pump, over>>

Flush(r) ==
    /\ \/ /\ ~kind[r].post
          /\ Go(r, "advertisement", "last") /\ Start(r)
          /\ over' = [over EXCEPT ![r] = TRUE] /\ UNCHANGED pump
       \/ /\ kind[r].post
          /\ Go(r, "advertisement", "stream")
          /\ pump' = [pump EXCEPT ![r] = "running"] /\ UNCHANGED <<wire, over>>
    /\ Transfer(r)

\* The whole body was sent and the channel's input shut, or the channel or the
\* client failed.
Pump(r) ==
    /\ pump[r] = "running"
    /\ \E result \in {"done", "failed"} : pump' = [pump EXCEPT ![r] = result]
    /\ Transfer(r) /\ UNCHANGED <<pc, wire, over>>

Data(r) ==
    /\ kind[r].ssh
    /\ Go(r, "stream", "stream")
    /\ ~Started(r) /\ Start(r)
    /\ Transfer(r) /\ UNCHANGED <<pump, over>>

Eof(r) ==
    /\ kind[r].ssh
    /\ Go(r, "stream", "join")
    /\ Transfer(r) /\ UNCHANGED <<pump, wire, over>>

Joined_Unawaited(r) ==
    /\ Go(r, "join", "status")
    /\ Transfer(r) /\ UNCHANGED <<pump, wire, over>>
Joined(r) ==
    /\ pump[r] = "done"
    /\ Go(r, "join", "status")
    /\ Transfer(r) /\ UNCHANGED <<pump, wire, over>>

\* recv_exit_status = 0
Succeeded(r) ==
    /\ Go(r, "status", "last") /\ Start(r)
    /\ over' = [over EXCEPT ![r] = pump[r] = "done"]
    /\ Transfer(r) /\ UNCHANGED pump

EndResponse(r) ==
    /\ Go(r, "last", "leave") /\ Send(r, <<"end">>)
    /\ Transfer(r) /\ UNCHANGED <<pump, over>>

-----------------------------------------------------------------------------
(* The end of a request. *)

\* What the finally clause does to the transport and its pump.  It cannot
\* close a transport that connect has not made yet.
Closed(r) == [line EXCEPT ![r] = IF @ = "dialing" THEN @ ELSE "none"]
CloseLine_KeepsPump(r) ==
    /\ line' = Closed(r)
    /\ kind' = [kind EXCEPT ![r] = NoKind]
    /\ UNCHANGED pump
CloseLine(r) ==
    /\ line' = Closed(r)
    /\ kind' = [kind EXCEPT ![r] = NoKind]
    /\ pump' = [pump EXCEPT ![r] = "none"]

Leave(r) ==
    /\ Go(r, "leave", "done")
    /\ CloseLine(r) /\ Release(r)
    /\ UNCHANGED <<cause, wire, over>>

Raise(r, exception) ==
    /\ pc' = [pc EXCEPT ![r] = "unwind"]
    /\ cause' = [cause EXCEPT ![r] = exception]
    /\ UNCHANGED <<kind, queue, line, pump, wire, over>>

\* The transport or the upstream's command failed.
Fail(r) ==
    \/ /\ pc[r] \in {"send", "connect", "advertisement", "stream", "status"}
       /\ line[r] # "dialing"
       /\ Raise(r, "transport")
    \/ /\ pc[r] \in {"stream", "join"} /\ pump[r] = "failed"
       /\ \E exception \in {"transport", "client"} : Raise(r, exception)
    \/ /\ pc[r] = "send" /\ kind[r].post
       /\ Raise(r, "client")

\* asyncio.timeout, once.
Strike_AfterWait(r) ==
    /\ pc[r] \notin {"new", "wait", "reply", "done", "failed"} /\ cause[r] # "timeout"
    /\ Raise(r, "timeout")
Strike(r) ==
    /\ pc[r] \notin {"new", "reply", "done", "failed"} /\ cause[r] # "timeout"
    /\ Raise(r, "timeout")

Unwind(r) ==
    /\ Go(r, "unwind", "reply")
    /\ CloseLine(r) /\ Release(r)
    /\ UNCHANGED <<cause, wire, over>>

\* RuntimeError once the response was started; the client's going is not
\* caught.  Otherwise 504 or 502.
Reply(r) ==
    /\ IF Started(r) \/ cause[r] = "client"
       THEN Go(r, "reply", "failed") /\ UNCHANGED wire
       ELSE Go(r, "reply", "done") /\ Send(r, <<"error">>)
    /\ cause' = [cause EXCEPT ![r] = "none"]
    /\ UNCHANGED <<kind, queue, line, pump, over>>

Next ==
    \E r \in Request :
        \/ Refuse(r) \/ Arrive(r) \/ Acquire(r)
        \/ Accepted(r) \/ Rejected(r) \/ HttpsEnds(r)
        \/ Dial(r) \/ Connected(r) \/ Collect(r) \/ Packet(r) \/ Flush(r) \/ Pump(r) \/ Data(r)
        \/ Eof(r) \/ Joined(r) \/ Succeeded(r) \/ EndResponse(r) \/ Leave(r)
        \/ Fail(r) \/ Strike(r) \/ Unwind(r) \/ Reply(r)

\* The event loop's clock goes on and clean-up steps are carried out; nothing
\* is expected of the upstream, the client or the holder of a lock.
Spec ==
    /\ Init /\ [][Next]_vars
    /\ \A r \in Request : WF_vars(Strike(r)) /\ WF_vars(Unwind(r)) /\ WF_vars(Reply(r))

-----------------------------------------------------------------------------
(* Properties. *)

\* A request or a command at the upstream, or a pump.
Operating(r) == line[r] = "busy" \/ pump[r] = "running"

\* A connection without a command, of a request that gave up waiting for it.
GivenUp(r) == line[r] \in {"dialing", "open"} /\ pc[r] \in {"reply", "done", "failed"}

(* Operations on one repository follow one another: only the request that   *)
(* holds the repository's lock is at work at the upstream or has a pump,    *)
(* and one that is over keeps no place in the queue, wherever the timeout   *)
(* or a failure struck it (GitResponse.__call__, _ssh's finally clause).    *)
(* What may be connected without the lock is the connection of a request    *)
(* that the timeout took from client.connect: it never carries a command.   *)
OnlyHolderWorks ==
    \A r \in Request :
        /\ Operating(r) => Holds(r)
        /\ line[r] # "none" => Holds(r) \/ GivenUp(r)
        /\ Finished(r) => r \notin ToSet(queue[RepoOf[r]])

(* Every request that arrives is answered or broken off, although the wait  *)
(* for the lock has no bound of its own, the upstream may hang at any point *)
(* and the client may never send its body.                                  *)
RequestsEnd == \A r \in Request : pc[r] # "new" ~> pc[r] = "new" \/ Finished(r)

\* Any other sequence of starts and ends would be a mixture of responses.
Answer(said, broken) ==
    CASE said \in {<<"error">>, <<"reject">>, <<"reject", "error">>} -> "refused"
      [] said = <<"start", "end">> -> "whole"
      [] said \in {<<>>, <<"start">>} /\ broken -> "broken"
      [] said = <<>> /\ ~broken -> "none"
      [] said = <<"start">> /\ ~broken -> "begun"
      [] OTHER -> "mixed"

Answered(r) == Answer(wire[r], pc[r] = "failed")

Answers == INSTANCE ProxyAnswer WITH answer <- [r \in Request |-> Answered(r)]

(* The client is sent one response.  One of 2xx that is complete is the     *)
(* whole answer of the upstream, for a POST over SSH with the whole request *)
(* body sent and exit status 0 (of a GET over SSH no exit status is read),  *)
(* and a failure is reported as one: 502 or 504 before the response's       *)
(* start, an interrupted stream after it.  The one exception to one         *)
(* response: the timeout strikes while the connection of a request that the *)
(* upstream rejected is closed; _https says that no response was started.   *)
ImplementsProxyAnswer == Answers!Spec

=============================================================================
