----------------------------- MODULE HttpProxy -----------------------------
(***************************************************************************)
(* The HTTP proxies at work (ProxyApplication of http_proxy.py): a request  *)
(* that the policy of its server admits is passed on by two tasks, transfer *)
(* and watcher, with a queue of one body message between them, while Saves  *)
(* (ProxySettings) change the policies and the application stops and        *)
(* starts.                                                                  *)
(*                                                                         *)
(* The upstream and the client are free, and so is the judgement of a       *)
(* policy.  The pool's limit of connections is left out: a request that     *)
(* waits for one is connecting.                                             *)
(***************************************************************************)
EXTENDS ProxySettings

CONSTANT Request  \* HTTP requests to the proxies

VARIABLES
    pc,        \* each request: "new", "active", "done"
    client,    \* its client: sending the body, done with that, or gone
    incoming,  \* the message in its queue
    transfer,  \* its task forward()
    watcher,   \* its task disconnected(), or the message it wants to queue
    early,     \* the requests whose upstream closed before the body's end
    answer,    \* what its client was sent
    over       \* history: did the upstream's answer end properly?

requests == <<pc, client, incoming, transfer, watcher, early, answer, over>>
vars == <<settings, requests>>

Each(values) == [Request -> values]
Message == {"more", "last"}

TypeOK ==
    /\ SettingsTypeOK
    /\ pc \in Each({"new", "active", "done"})
    /\ client \in Each({"sending", "sent", "gone"})
    /\ incoming \in Each(Message \cup {"empty"})
    /\ transfer \in Each({"off", "connect", "body", "head", "stream", "last", "done", "raised"})
    /\ watcher \in Each({"off", "receive", "gone"} \cup Message)
    /\ early \subseteq Request
    /\ answer \in Each({"none", "begun", "whole", "refused", "broken"})
    /\ over \in Each(BOOLEAN)

Init ==
    /\ SettingsInit
    /\ pc = [r \in Request |-> "new"] /\ client = [r \in Request |-> "sending"]
    /\ incoming = [r \in Request |-> "empty"]
    /\ transfer = [r \in Request |-> "off"] /\ watcher = [r \in Request |-> "off"]
    /\ early = {}
    /\ answer = [r \in Request |-> "none"] /\ over = [r \in Request |-> FALSE]

Move(f, r, from, to) == f[r] = from /\ f' = [f EXCEPT ![r] = to]

-----------------------------------------------------------------------------
(* The request and its watcher. *)

Deny(r) ==
    /\ Running # {}
    /\ Move(pc, r, "new", "done") /\ Move(answer, r, "none", "refused")
    /\ UNCHANGED <<settings, client, incoming, transfer, watcher, early, over>>

Admit(r) ==
    /\ Running # {}
    /\ Move(pc, r, "new", "active")
    /\ Move(transfer, r, "off", "connect") /\ Move(watcher, r, "off", "receive")
    /\ UNCHANGED <<settings, client, incoming, early, answer, over>>

ClientLeaves(r) ==
    /\ pc[r] = "active" /\ client[r] # "gone"
    /\ client' = [client EXCEPT ![r] = "gone"]
    /\ UNCHANGED <<settings, pc, incoming, transfer, watcher, early, answer, over>>

Receive(r) ==
    /\ \/ /\ client[r] = "gone"
          /\ Move(watcher, r, "receive", "gone") /\ UNCHANGED client
       \/ /\ client[r] = "sending"
          /\ \E m \in Message :
                /\ Move(watcher, r, "receive", m)
                /\ client' = IF m = "last" THEN [client EXCEPT ![r] = "sent"] ELSE client
    /\ UNCHANGED <<settings, pc, incoming, transfer, early, answer, over>>

\* incoming.put waits while the queue is full.
Put(r) ==
    /\ watcher[r] \in Message
    /\ Move(incoming, r, "empty", watcher[r])
    /\ watcher' = [watcher EXCEPT ![r] = "receive"]
    /\ UNCHANGED <<settings, pc, client, transfer, early, answer, over>>

-----------------------------------------------------------------------------
(* The transfer. *)

Forward(r, from, to) ==
    Move(transfer, r, from, to) /\ UNCHANGED <<settings, pc, client, watcher>>

Connect(r) ==
    /\ Forward(r, "connect", "body")
    /\ UNCHANGED <<incoming, early, answer, over>>

TakeBody(r) ==
    /\ incoming[r] \in Message
    /\ Forward(r, "body", IF incoming[r] = "last" THEN "head" ELSE "body")
    /\ incoming' = [incoming EXCEPT ![r] = "empty"]
    /\ UNCHANGED <<early, answer, over>>

\* httpcore reads the answer of an upstream that takes no more of the body.
ClosesEarly(r) ==
    /\ Forward(r, "body", "head")
    /\ early' = early \cup {r}
    /\ UNCHANGED <<incoming, answer, over>>

Respond(r) ==
    /\ Forward(r, "head", "stream")
    /\ Move(answer, r, "none", "begun")
    /\ UNCHANGED <<incoming, early, over>>

\* 101 becomes 502.
SwitchProtocols(r) ==
    /\ Forward(r, "head", "done")
    /\ Move(answer, r, "none", "refused")
    /\ UNCHANGED <<incoming, early, over>>

StreamEnds(r) ==
    /\ Forward(r, "stream", "last")
    /\ over' = [over EXCEPT ![r] = TRUE]
    /\ UNCHANGED <<incoming, early, answer>>

EndResponse(r) ==
    /\ Forward(r, "last", "done")
    /\ Move(answer, r, "begun", "whole")
    /\ UNCHANGED <<incoming, early, over>>

\* A timeout, network or protocol error: 504 or 502 unless the response was
\* started, RuntimeError if it was.
Fail_Restarts(r) ==
    /\ \E from \in {"connect", "body", "head", "stream"} : Forward(r, from, "done")
    /\ answer' = [answer EXCEPT ![r] = "refused"]
    /\ UNCHANGED <<incoming, early, over>>
Fail(r) ==
    /\ \/ /\ \E from \in {"connect", "body", "head"} : Forward(r, from, "done")
          /\ Move(answer, r, "none", "refused")
       \/ Forward(r, "stream", "raised") /\ UNCHANGED answer
    /\ UNCHANGED <<incoming, early, over>>

-----------------------------------------------------------------------------
(* The end. *)

\* The request's coroutine ends, and with it, through cancellation, both tasks.
EndRequests(R) ==
    /\ pc' = [r \in Request |-> IF r \in R THEN "done" ELSE pc[r]]
    /\ answer' = [r \in Request |-> IF r \in R /\ answer[r] \in {"none", "begun"}
                                    THEN "broken" ELSE answer[r]]
    /\ incoming' = [r \in Request |-> IF r \in R THEN "empty" ELSE incoming[r]]
    /\ transfer' = [r \in Request |-> IF r \in R THEN "off" ELSE transfer[r]]
    /\ watcher' = [r \in Request |-> IF r \in R THEN "off" ELSE watcher[r]]
    /\ UNCHANGED <<client, early, over>>

\* asyncio.wait, FIRST_COMPLETED
Finish_AwaitsTransfer(r) ==
    /\ transfer[r] \in {"done", "raised"}
    /\ EndRequests({r})
    /\ UNCHANGED settings
Finish(r) ==
    /\ transfer[r] \in {"done", "raised"} \/ watcher[r] = "gone"
    /\ EndRequests({r})
    /\ UNCHANGED settings

\* A server that stops cancels its requests, and the death of the process
\* ends them.
Stop == StopServers /\ EndRequests({r \in Request : pc[r] = "active"})

Next ==
    \/ SettingsNext /\ UNCHANGED requests
    \/ Stop
    \/ \E r \in Request :
        \/ Deny(r) \/ Admit(r) \/ ClientLeaves(r) \/ Receive(r) \/ Put(r)
        \/ Connect(r) \/ TakeBody(r) \/ ClosesEarly(r) \/ Respond(r)
        \/ SwitchProtocols(r) \/ StreamEnds(r) \/ EndResponse(r) \/ Fail(r)
        \/ Finish(r)

\* What a timeout of httpcore or the upstream's closing bounds.  A stream of an
\* upstream that read the whole request may go on for ever.
Bounded(r) ==
    /\ transfer[r] # "stream" \/ r \in early
    /\ \/ Connect(r) \/ Respond(r) \/ StreamEnds(r) \/ EndResponse(r) \/ Fail(r)

Spec ==
    /\ Init /\ [][Next]_vars
    /\ \A r \in Request :
          /\ WF_vars(Receive(r)) /\ WF_vars(Put(r)) /\ WF_vars(TakeBody(r))
          /\ WF_vars(Bounded(r)) /\ WF_vars(Finish(r))

-----------------------------------------------------------------------------
(* Properties. *)

(* A client that leaves ends its request, the endless stream of an upstream *)
(* included, even if the watcher is stuck with a message of the body that   *)
(* nobody will take (ProxyApplication.__call__, disconnected).              *)
DisconnectEnds ==
    \A r \in Request : client[r] = "gone" /\ pc[r] = "active" ~> pc[r] = "done"

Answers == INSTANCE ProxyAnswer

(* A client is sent one answer: the upstream's, whole or broken off, or a   *)
(* 403, 502 or 504 in its place, whatever fails, leaves or stops when.      *)
ImplementsProxyAnswer == Answers!Spec

=============================================================================
