------------------------- MODULE AgentControlProofs -------------------------
(***************************************************************************)
(* Proofs about AgentControl: the threads of run_remote implement           *)
(* AgentPhase, keep to one conversation with the agent, and report success  *)
(* only of a turn whose agent is gone.                                      *)
(***************************************************************************)
EXTENDS AgentControl, TLAPS

\* Where the worker has not recorded the group's pid, is opening its gate,
\* and talks to the agent behind it.
Opening == {"start", "exec", "hello", "lock"}
Gating == {"persist", "gate", "go"}
Talking == {"send", "write", "read", "answer", "answering"}

-----------------------------------------------------------------------------
(* The inductive invariant. *)

\* The writers' lock is held exactly inside the regions it guards.
Locks ==
    /\ lock = "worker" <=> worker \in Gating \cup {"write", "answering"}
    /\ lock = "sender" <=> sender = "write"

\* What was set when of the remote group: known, recorded, opened.
Group ==
    /\ worker \in {"start", "exec"} => remote = "none"
    /\ worker \in {"hello", "lock"} => remote # "none"
    /\ worker \in Opening => ~pid
    /\ worker \in Gating \cup Talking => pid
    /\ worker \in {"gate", "go"} \cup Talking => agentPid
    /\ wire \/ remote = "working" => agentPid
    /\ agentPid => pid
    /\ pid => remote # "none"

\* After the freeze no other group becomes known, so that a confirmed stop is
\* one of the only group that could open its gate.
Cleanup ==
    /\ main \in {"look", "check", "cancel"} => ~cancelled
    /\ main \in {"freeze", "stop", "close", "done"} => cancelled
    /\ main \in {"stop", "close", "done"} => target = pid
    /\ main \notin {"close", "done", "dead"} => stop = "none" /\ ~uncertain
    /\ main \in {"close", "done"} /\ ~uncertain => stop = "confirmed"
    /\ stop = "confirmed" =>
          cancelled /\ remote # "working" /\ (pid => remote # "gated")

Judged ==
    /\ main \in {"look", "check"} => verdict = "none"
    /\ verdict = "ok" => ~requested

\* The sender is through only once no prompt can follow.
Cancelling ==
    /\ sender \in {"lock", "write"} => requested
    /\ sender = "done" /\ main # "dead" => requested
    /\ cancelSent => requested
    /\ sender = "write" => promptSent
    /\ cancelSent /\ ~promptSent => worker # "write"

LastSent == sent[Len(sent)]

\* What was said last when the worker is about to say something, and when it
\* waits for an answer.
Talk ==
    /\ worker \in Opening \cup Gating =>
          sent = <<>> /\ request = "initialize" /\ ~promptSent
    /\ worker \in Talking => sent # <<>>
    /\ worker \in {"send", "write"} =>
          /\ ~promptSent
          /\ \/ request = "initialize" /\ LastSent = "GO"
             \/ request = "session" /\ LastSent \in {"initialize", "session"}
             \/ request = "prompt" /\ LastSent = "session"
    /\ worker \in {"read", "answer", "answering"} =>
          LastSent = request \/ (request = "prompt" /\ LastSent = "cancel")
    /\ promptSent => sent # <<>> /\ LastSent \in {"prompt", "cancel"}
    /\ promptSent /\ sender # "done" => LastSent = "prompt"
    /\ reply # "none" => worker \in {"read", "ended"}
    /\ reply = "missing" => request = "session"

Follows(a, b) == Rank(a) + 1 = Rank(b) \/ (a = "session" /\ b = "session")

Said ==
    \A i \in 1..Len(sent) :
        /\ i = 1 => sent[i] = "GO"
        /\ i > 1 => Follows(sent[i - 1], sent[i])

IInv == TypeOK /\ Locks /\ Group /\ Cleanup /\ Judged /\ Cancelling /\ Talk /\ Said

-----------------------------------------------------------------------------
(* Types. *)

Flags ==
    /\ cancelled \in BOOLEAN /\ requested \in BOOLEAN /\ cancelSent \in BOOLEAN
    /\ pid \in BOOLEAN /\ target \in BOOLEAN /\ promptSent \in BOOLEAN
    /\ uncertain \in BOOLEAN /\ active \in BOOLEAN /\ agentPid \in BOOLEAN
    /\ channel \in BOOLEAN /\ wire \in BOOLEAN /\ timedOut \in BOOLEAN
    /\ cancelOver \in BOOLEAN

Places ==
    /\ main \in Mains /\ worker \in Workers /\ sender \in Senders
    /\ request \in Requests
    /\ lock \in {"free", "worker", "sender"}
    /\ outcome \in {"none", "ok", "failed"}
    /\ verdict \in {"none", "ok", "failed", "timeout", "cancelled"}
    /\ stop \in {"none", "confirmed", "unconfirmed"}
    /\ remote \in {"none", "gated", "working", "gone"}
    /\ reply \in {"none", "result", "missing", "error", "request"}

LEMMA TypesSplit == TypeOK <=> Flags /\ Places /\ sent \in Seq(Lines)
BY DEF TypeOK, Flags, Places

LEMMA Writers ==
    ASSUME [Next]_vars
    PROVE  /\ cancelled' = cancelled \/ Cancel
           /\ requested' = requested \/ Look \/ LookFails
           /\ cancelSent' = cancelSent \/ Sender
           /\ pid' = pid \/ Record
           /\ target' = target \/ Freeze
           /\ promptSent' = promptSent \/ Write
           /\ uncertain' = uncertain \/ StopGroup
           /\ active' = active \/ TakeAway
           /\ agentPid' = agentPid \/ Persist
           /\ stop' = stop \/ StopGroup
           /\ channel' = channel \/ Close \/ Crash
           /\ wire' = wire \/ WriteGo \/ Remote
           /\ timedOut' = timedOut \/ TimeOut
           /\ cancelOver' = cancelOver \/ CancelOver
           /\ remote' = remote \/ Exec \/ StopGroup \/ Remote
           /\ verdict' = verdict \/ verdict' = "failed" \/ Check
           /\ sent' = sent \/ WriteGo \/ Write \/ WriteCancel
<1> USE DEF vars, threads, flags, results, saved, net, clocks
<1>1. CASE Main
  BY <1>1 DEF Main, Look, LookFails, Check, Cancel, Freeze, StopGroup, Close, MainGoto
<1>2. CASE Worker
  BY <1>2 DEF Worker, Start, Exec, Hello, Record, Persist, Gate, WriteGo, Send,
     Write, ReadResult, ReadMissing, ReadFails, ReadRequest, Answer, Goto, Return
<1>3. CASE Sender
  BY <1>3 DEF Sender, RequestCancel, WriteCancel, SenderGoto
<1>4. CASE Crash \/ Remote \/ TakeAway \/ TimeOut \/ CancelOver \/ UNCHANGED vars
  BY <1>4 DEF Crash, Remote, TakeAway, TimeOut, CancelOver
<1>5. QED
  BY <1>1, <1>2, <1>3, <1>4 DEF Next

LEMMA FlagsStep == ASSUME Flags, [Next]_vars PROVE Flags'
<1> USE Writers DEF Flags
<1>1. cancelled' \in BOOLEAN /\ target' \in BOOLEAN /\ active' \in BOOLEAN
  BY DEF Cancel, Freeze, TakeAway
<1>2. requested' \in BOOLEAN
  BY DEF Look, LookFails
<1>3. cancelSent' \in BOOLEAN
  BY DEF Sender, RequestCancel, WriteCancel, SenderGoto
<1>4. promptSent' \in BOOLEAN
  BY DEF Write
<1>5. pid' \in BOOLEAN /\ agentPid' \in BOOLEAN
  BY DEF Record, Persist
<1>6. uncertain' \in BOOLEAN
  BY DEF StopGroup
<1>7. channel' \in BOOLEAN /\ wire' \in BOOLEAN
  BY DEF Close, Crash, WriteGo, Remote
<1>8. timedOut' \in BOOLEAN /\ cancelOver' \in BOOLEAN
  BY DEF TimeOut, CancelOver
<1>9. QED
  BY <1>1, <1>2, <1>3, <1>4, <1>5, <1>6, <1>7, <1>8

LEMMA PlacesStep == ASSUME Places, [Next]_vars PROVE Places'
<1>1. CASE Main
  BY <1>1 DEF Places, Main, Look, LookFails, Check, Cancel, Freeze, StopGroup, Close,
     MainGoto, Verdict, Killed, Mains, Senders, flags, results, saved, net
<1>2. CASE Worker
  BY <1>2 DEF Places, Worker, Start, Exec, Hello, Record, Persist, Gate, WriteGo, Send,
     Write, ReadResult, ReadMissing, ReadFails, ReadRequest, Answer, Goto, Return,
     Acquire, Workers, Requests, flags, results, saved, net
<1>3. CASE Sender
  BY <1>3 DEF Places, Sender, RequestCancel, WriteCancel, SenderGoto, Acquire,
     Senders, results, saved, net
<1>4. CASE Crash \/ Remote \/ TakeAway \/ TimeOut \/ CancelOver \/ UNCHANGED vars
  BY <1>4 DEF Places, Crash, Remote, TakeAway, TimeOut, CancelOver, vars,
     Mains, Workers, Senders, threads, flags, results, saved, net
<1>5. QED
  BY <1>1, <1>2, <1>3, <1>4 DEF Next

LEMMA TypeStep == ASSUME TypeOK, [Next]_vars PROVE TypeOK'
<1>1. Flags /\ Places /\ sent \in Seq(Lines)
  BY TypesSplit
<1>2. Flags' /\ Places'
  BY <1>1, FlagsStep, PlacesStep
<1>3. sent' \in Seq(Lines)
  <2>1. request \in Lines /\ "GO" \in Lines /\ "cancel" \in Lines
    BY <1>1 DEF Places, Lines
  <2>2. sent' = sent \/ \E x \in Lines : sent' = Append(sent, x)
    BY <2>1, Writers, Zenon DEF WriteGo, Write, WriteCancel
  <2>3. QED
    BY <1>1, <2>2
<1>4. QED
  BY <1>2, <1>3, SMTT(20) DEF TypeOK, Flags, Places

-----------------------------------------------------------------------------
(* The parts of the invariant. *)

LEMMA LocksStep == ASSUME Flags, Places, Locks, Cancelling, [Next]_vars PROVE Locks'
<1> USE DEF Locks, Cancelling, Flags, Places, Gating, vars, threads, flags, results, saved, net, clocks
<1>1. CASE Main
  BY <1>1 DEF Main, Look, LookFails, Check, Cancel, Freeze, StopGroup, Close, MainGoto
<1>2. CASE Worker
  BY <1>2 DEF Worker, Start, Exec, Hello, Record, Persist, Gate, WriteGo, Send, Write,
     ReadResult, ReadMissing, ReadFails, ReadRequest, Answer, Goto, Return, Acquire
<1>3. CASE Sender
  BY <1>3 DEF Sender, RequestCancel, WriteCancel, SenderGoto, Acquire
<1>4. CASE Crash \/ Remote \/ TakeAway \/ TimeOut \/ CancelOver \/ UNCHANGED vars
  BY <1>4 DEF Crash, Remote, TakeAway, TimeOut, CancelOver
<1>5. QED
  BY <1>1, <1>2, <1>3, <1>4 DEF Next

LEMMA GroupStep == ASSUME Flags, Places, Group, [Next]_vars PROVE Group'
<1> USE DEF Group, Flags, Places, Opening, Gating, Talking,
            vars, threads, flags, results, saved, net, clocks
<1>1. CASE Main
  BY <1>1 DEF Main, Look, LookFails, Check, Cancel, Freeze, StopGroup, Close, MainGoto, Killed
<1>2. CASE Worker
  BY <1>2 DEF Worker, Start, Exec, Hello, Record, Persist, Gate, WriteGo, Send, Write,
     ReadResult, ReadMissing, ReadFails, ReadRequest, Answer, Goto, Return, Acquire
<1>3. CASE Sender
  BY <1>3 DEF Sender, RequestCancel, WriteCancel, SenderGoto, Acquire
<1>4. CASE Crash \/ Remote \/ TakeAway \/ TimeOut \/ CancelOver \/ UNCHANGED vars
  BY <1>4 DEF Crash, Remote, TakeAway, TimeOut, CancelOver
<1>5. QED
  BY <1>1, <1>2, <1>3, <1>4 DEF Next

LEMMA CleanupStep == ASSUME Flags, Places, Group, Cleanup, [Next]_vars PROVE Cleanup'
<1> USE DEF Cleanup, Group, Flags, Places, Gating, Talking, Frozen,
            vars, threads, flags, results, saved, net, clocks
<1>1. CASE Main
  BY <1>1 DEF Main, Look, LookFails, Check, Cancel, Freeze, StopGroup, Close, MainGoto, Killed
<1>2. CASE Worker
  BY <1>2 DEF Worker, Start, Exec, Hello, Record, Persist, Gate, WriteGo, Send, Write,
     ReadResult, ReadMissing, ReadFails, ReadRequest, Answer, Goto, Return, Acquire
<1>3. CASE Sender
  BY <1>3 DEF Sender, RequestCancel, WriteCancel, SenderGoto, Acquire
<1>4. CASE Crash \/ Remote \/ TakeAway \/ TimeOut \/ CancelOver \/ UNCHANGED vars
  BY <1>4 DEF Crash, Remote, TakeAway, TimeOut, CancelOver
<1>5. QED
  BY <1>1, <1>2, <1>3, <1>4 DEF Next

LEMMA JudgedStep == ASSUME Places, Judged, [Next]_vars PROVE Judged'
<1> USE DEF Judged, Places, vars, threads, flags, results, saved, net, clocks
<1>1. CASE Main
  BY <1>1 DEF Main, Look, LookFails, Check, Cancel, Freeze, StopGroup, Close, MainGoto,
     Enough, Verdict
<1>2. CASE Worker
  BY <1>2 DEF Worker, Start, Exec, Hello, Record, Persist, Gate, WriteGo, Send, Write,
     ReadResult, ReadMissing, ReadFails, ReadRequest, Answer, Goto, Return, Acquire
<1>3. CASE Sender
  BY <1>3 DEF Sender, RequestCancel, WriteCancel, SenderGoto, Acquire
<1>4. CASE Crash \/ Remote \/ TakeAway \/ TimeOut \/ CancelOver \/ UNCHANGED vars
  BY <1>4 DEF Crash, Remote, TakeAway, TimeOut, CancelOver
<1>5. QED
  BY <1>1, <1>2, <1>3, <1>4 DEF Next

LEMMA CancellingStep ==
    ASSUME Flags, Places, Locks, Cancelling, [Next]_vars PROVE Cancelling'
<1> USE DEF Cancelling, Locks, Flags, Places, Frozen,
            vars, threads, flags, results, saved, net, clocks
<1>1. CASE Main
  BY <1>1 DEF Main, Look, LookFails, Check, Cancel, Freeze, StopGroup, Close, MainGoto
<1>2. CASE Worker
  BY <1>2 DEF Worker, Start, Exec, Hello, Record, Persist, Gate, WriteGo, Send, Write,
     ReadResult, ReadMissing, ReadFails, ReadRequest, Answer, Goto, Return, Acquire
<1>3. CASE RequestCancel
  BY <1>3 DEF RequestCancel, SenderGoto, Acquire, CancelAtPrompt
<1>4. CASE WriteCancel
  BY <1>4 DEF WriteCancel, SenderGoto
<1>5. CASE Crash \/ Remote \/ TakeAway \/ TimeOut \/ CancelOver \/ UNCHANGED vars
  BY <1>5 DEF Crash, Remote, TakeAway, TimeOut, CancelOver
<1>6. QED
  BY <1>1, <1>2, <1>3, <1>4, <1>5 DEF Next, Sender

\* The lines on the agent's stdin.
LEMMA AppendFacts ==
    ASSUME NEW S, NEW s \in Seq(S), NEW x \in S
    PROVE  /\ Len(Append(s, x)) = Len(s) + 1 /\ Append(s, x) # <<>>
           /\ Append(s, x)[Len(s) + 1] = x
           /\ \A i \in 1..Len(s) : Append(s, x)[i] = s[i]
           /\ s # <<>> => Len(s) >= 1
           /\ Len(s) \in Nat
<1>1. Len(s) \in Nat /\ Len(Append(s, x)) = Len(s) + 1
  OBVIOUS
<1>2. Append(s, x)[Len(s) + 1] = x /\ \A i \in 1..Len(s) : Append(s, x)[i] = s[i]
  OBVIOUS
<1>3. s # <<>> => Len(s) >= 1
  OBVIOUS
<1>4. Append(s, x) # <<>>
  BY <1>1
<1>5. QED
  BY <1>1, <1>2, <1>3, <1>4

\* A line that may follow the last one keeps the order.
LEMMA SaidGrows ==
    ASSUME sent \in Seq(Lines), Said, NEW x \in Lines, sent' = Append(sent, x),
           IF sent = <<>> THEN x = "GO" ELSE Follows(LastSent, x)
    PROVE  Said' /\ sent' # <<>> /\ LastSent' = x
<1>1. /\ Len(sent') = Len(sent) + 1 /\ sent' # <<>> /\ Len(sent) \in Nat
      /\ sent'[Len(sent) + 1] = x
      /\ \A i \in 1..Len(sent) : sent'[i] = sent[i]
      /\ sent # <<>> => Len(sent) >= 1
      /\ sent = <<>> => Len(sent) = 0
  BY AppendFacts
<1>2. LastSent' = x
  BY <1>1 DEF LastSent
<1>3. ASSUME NEW i \in 1..Len(sent')
      PROVE  /\ i = 1 => sent'[i] = "GO"
             /\ i > 1 => Follows(sent'[i - 1], sent'[i])
  <2>1. CASE i \in 1..Len(sent)
    <3>1. sent'[i] = sent[i] /\ (i > 1 => sent'[i - 1] = sent[i - 1])
      BY <1>1, <2>1
    <3>2. QED
      BY <2>1, <3>1 DEF Said
  <2>2. CASE i = Len(sent) + 1
    <3>1. CASE sent = <<>>
      BY <1>1, <2>2, <3>1
    <3>2. CASE sent # <<>>
      <4>1. i > 1 /\ i - 1 = Len(sent) /\ Len(sent) \in 1..Len(sent)
        BY <1>1, <2>2, <3>2
      <4>2. sent'[i - 1] = LastSent /\ sent'[i] = x
        BY <1>1, <2>2, <4>1 DEF LastSent
      <4>3. QED
        BY <3>2, <4>1, <4>2
    <3>3. QED
      BY <3>1, <3>2
  <2>3. QED
    BY <1>1, <2>1, <2>2
<1>4. QED
  BY <1>1, <1>2, <1>3 DEF Said, Follows, Rank

\* Each thread says what may follow.
LEMMA MaySay ==
    ASSUME Flags, Places, Locks, Cancelling, Talk
    PROVE  /\ WriteGo => sent = <<>>
           /\ Write => sent # <<>> /\ Follows(LastSent, request)
           /\ WriteCancel => sent # <<>> /\ Follows(LastSent, "cancel")
<1>1. WriteGo => sent = <<>>
  BY DEF WriteGo, Talk, Gating, Goto, Return
<1>2. Write => sent # <<>> /\ Follows(LastSent, request)
  BY DEF Write, Talk, Talking, Follows, Rank, Goto, Return, Places, Requests
<1>3. WriteCancel => sent # <<>> /\ Follows(LastSent, "cancel")
  BY DEF WriteCancel, Talk, Cancelling, SenderGoto, Follows, Rank
<1>4. QED
  BY <1>1, <1>2, <1>3

LEMMA SaidStep ==
    ASSUME TypeOK, Locks, Cancelling, Talk, Said, [Next]_vars
    PROVE  /\ Said'
           /\ WriteGo /\ worker' = "send" => sent' # <<>> /\ LastSent' = "GO"
           /\ Write /\ worker' = "read" => sent' # <<>> /\ LastSent' = request
           /\ WriteCancel /\ channel => sent' # <<>> /\ LastSent' = "cancel"
<1>1. Flags /\ Places /\ sent \in Seq(Lines)
  BY TypesSplit
<1>2. request \in Lines /\ "GO" \in Lines /\ "cancel" \in Lines
  BY <1>1 DEF Places, Lines
<1>3. /\ \/ sent' = sent
         \/ WriteGo /\ sent' = Append(sent, "GO")
         \/ Write /\ sent' = Append(sent, request)
         \/ WriteCancel /\ sent' = Append(sent, "cancel")
      /\ WriteGo /\ worker' = "send" => sent' = Append(sent, "GO")
      /\ Write /\ worker' = "read" => sent' = Append(sent, request)
      /\ WriteCancel /\ channel => sent' = Append(sent, "cancel")
  BY Writers DEF WriteGo, Write, WriteCancel, Return
<1>4. sent' = sent => Said'
  BY DEF Said
<1>5. WriteGo /\ sent' = Append(sent, "GO") => Said' /\ sent' # <<>> /\ LastSent' = "GO"
  BY <1>1, <1>2, MaySay, SaidGrows
<1>6. Write /\ sent' = Append(sent, request) => Said' /\ sent' # <<>> /\ LastSent' = request
  BY <1>1, <1>2, MaySay, SaidGrows
<1>7. WriteCancel /\ sent' = Append(sent, "cancel") =>
          Said' /\ sent' # <<>> /\ LastSent' = "cancel"
  BY <1>1, <1>2, MaySay, SaidGrows
<1>8. QED
  BY <1>3, <1>4, <1>5, <1>6, <1>7

\* The worker, the sender and the others leave Talk intact.
LEMMA TalkStep ==
    ASSUME TypeOK, Locks, Cancelling, Talk, Said, [Next]_vars PROVE Talk'
<1>1. Flags /\ Places
  BY TypesSplit
<1> USE <1>1 DEF Flags, Places, Locks, Cancelling, Talk, Opening, Gating, Talking,
            vars, threads, flags, results, saved, net, clocks
<1>2. CASE Main
  BY <1>2 DEF Main, Look, LookFails, Check, Cancel, Freeze, StopGroup, Close, MainGoto,
     LastSent
<1>3. CASE Start \/ Exec \/ Hello \/ Record \/ Persist \/ Gate
  BY <1>3 DEF Start, Exec, Hello, Record, Persist, Gate, Goto, Return, Acquire, LastSent
<1>4. CASE ReadResult
  BY <1>4 DEF ReadResult, Goto, Return, LastSent, Requests
<1>5. CASE Send \/ ReadMissing \/ ReadFails \/ ReadRequest \/ Answer
  BY <1>5 DEF Send, ReadMissing, ReadFails, ReadRequest, Answer, Goto, Return, Acquire,
     LastSent
<1>6. CASE WriteGo
  <2>1. CASE worker' = "send"
    BY <1>6, <2>1, SaidStep DEF WriteGo, Goto, Return
  <2>2. CASE worker' # "send"
    BY <1>6, <2>2 DEF WriteGo, Goto, Return, LastSent
  <2>3. QED
    BY <2>1, <2>2
<1>7. CASE Write
  <2>1. CASE worker' = "read"
    BY <1>7, <2>1, SaidStep DEF Write, Goto, Return
  <2>2. CASE worker' # "read"
    BY <1>7, <2>2 DEF Write, Goto, Return, LastSent
  <2>3. QED
    BY <2>1, <2>2
<1>8. CASE RequestCancel
  BY <1>8 DEF RequestCancel, SenderGoto, Acquire, CancelAtPrompt, LastSent
<1>9. CASE WriteCancel
  <2>1. CASE channel
    BY <1>9, <2>1, SaidStep DEF WriteCancel, SenderGoto
  <2>2. CASE ~channel
    BY <1>9, <2>2 DEF WriteCancel, SenderGoto, LastSent
  <2>3. QED
    BY <2>1, <2>2
<1>10. CASE Crash \/ Remote \/ TakeAway \/ TimeOut \/ CancelOver \/ UNCHANGED vars
  BY <1>10 DEF Crash, Remote, TakeAway, TimeOut, CancelOver, LastSent
<1>11. QED
  BY <1>2, <1>3, <1>4, <1>5, <1>6, <1>7, <1>8, <1>9, <1>10 DEF Next, Worker, Sender

-----------------------------------------------------------------------------
(* The theorems. *)

LEMMA InitInv == Init => IInv
<1> SUFFICES ASSUME Init PROVE IInv
  OBVIOUS
<1>1. TypeOK
  <2>1. Flags /\ Places
    BY DEF Init, Flags, Places, Mains, Workers, Senders, Requests
  <2>2. sent \in Seq(Lines)
    BY DEF Init
  <2>3. QED
    BY <2>1, <2>2, TypesSplit
<1>2. Locks /\ Group /\ Cleanup /\ Judged /\ Cancelling
  BY DEF Init, Locks, Group, Cleanup, Judged, Cancelling, Opening, Gating, Talking
<1>3. Talk
  BY DEF Init, Talk, Opening, Gating, Talking
<1>4. Said
  BY DEF Init, Said
<1>5. QED
  BY <1>1, <1>2, <1>3, <1>4 DEF IInv

LEMMA StepInv == IInv /\ [Next]_vars => IInv'
<1> SUFFICES ASSUME IInv, [Next]_vars PROVE IInv'
  OBVIOUS
<1>1. Flags /\ Places
  BY TypesSplit DEF IInv
<1>2. TypeOK'
  BY TypeStep DEF IInv
<1>3. Locks' /\ Group' /\ Cleanup' /\ Judged' /\ Cancelling'
  BY <1>1, LocksStep, GroupStep, CleanupStep, JudgedStep, CancellingStep DEF IInv
<1>4. Talk' /\ Said'
  BY TalkStep, SaidStep DEF IInv
<1>5. QED
  BY <1>2, <1>3, <1>4 DEF IInv

LEMMA IInvariant == Spec => []IInv
BY InitInv, StepInv, PTL DEF Spec

(* The variables of run_remote and its threads keep their types.            *)
THEOREM TypeCorrect == Spec => []TypeOK
<1>1. IInv => TypeOK
  BY DEF IInv
<1>2. QED
  BY <1>1, IInvariant, PTL

(* Worker and sender never write at once, and what the agent has read is a  *)
(* proper conversation at every moment, for any number of requests, retries *)
(* of the session, refused requests and cancellations.                      *)
THEOREM ConversationHolds == Spec => []Conversation
<1>1. ASSUME IInv PROVE Conversation
  <2>1. sent \in Seq(Lines) /\ Locks /\ Said
    BY <1>1 DEF IInv, TypeOK
  <2>2. ~(worker \in {"go", "write", "answering"} /\ sender = "write")
    BY <2>1 DEF Locks, Gating
  <2>3. DOMAIN sent = 1..Len(sent)
    BY <2>1
  <2>4. QED
    BY <2>1, <2>2, <2>3 DEF Said, Follows, Conversation
<1>2. QED
  BY <1>1, IInvariant, PTL

(* A turn reported as successful was never taken away before its verdict,   *)
(* and its agent is gone by a confirmed stop.                               *)
THEOREM SuccessHolds == Spec => []SuccessIsClean
<1>1. IInv => SuccessIsClean
  BY DEF IInv, Cleanup, Judged, SuccessIsClean
<1>2. QED
  BY <1>1, IInvariant, PTL

(* A prompt is never sent once the sender has found that there is none to   *)
(* cancel, whichever thread takes the lock first.                           *)
THEOREM NoLatePrompt == Spec => NoPromptAfterCancel
<1>1. IInv /\ [Next]_vars => [cancelSent /\ ~promptSent => ~promptSent']_vars
  <2> SUFFICES ASSUME IInv, [Next]_vars, cancelSent, ~promptSent PROVE ~promptSent'
    OBVIOUS
  <2>1. worker # "write"
    BY DEF IInv, Cancelling
  <2>2. Write => ~promptSent'
    BY <2>1 DEF Write, Goto, Return
  <2>3. QED
    BY <2>2, Writers
<1>2. QED
  BY <1>1, IInvariant, PTL DEF Spec, NoPromptAfterCancel

LEMMA PhaseStep ==
    ASSUME IInv, [Next]_vars PROVE [Phase!Next]_(Phase!vars)
<1>1. Flags /\ Places /\ Group /\ Cleanup
  BY TypesSplit DEF IInv
<1> USE DEF Flags, Places, Group, Cleanup, Phase!vars
<1>2. CASE Persist
  <2>1. remote' = remote /\ stop' = stop /\ (agentPid' = agentPid \/ agentPid' = TRUE)
    BY <1>2 DEF Persist, net
  <2>2. agentPid' = agentPid \/ Phase!Record
    BY <1>1, <2>1 DEF Phase!Record
  <2>3. QED
    BY <2>1, <2>2 DEF Phase!Next
<1>3. CASE StopGroup
  <2>1. stop = "none" /\ target = pid /\ agentPid' = agentPid
    BY <1>1, <1>3 DEF StopGroup, MainGoto
  <2>2. remote' = "working" => remote = "working"
    BY <1>3 DEF StopGroup, Killed
  <2>3. stop' = "confirmed" => remote' # "working"
    BY <1>1, <1>3, <2>1 DEF StopGroup, Killed
  <2>4. stop' \in {"none", "confirmed", "unconfirmed"}
    BY <1>3, <2>1 DEF StopGroup
  <2>5. CASE stop' = "none"
    BY <2>1, <2>2, <2>5 DEF Phase!Next, Phase!Exit
  <2>6. CASE stop' = "confirmed"
    BY <2>1, <2>3, <2>6 DEF Phase!Next, Phase!Confirm
  <2>7. CASE stop' = "unconfirmed"
    BY <2>1, <2>2, <2>7 DEF Phase!Next, Phase!GiveUp
  <2>8. QED
    BY <2>4, <2>5, <2>6, <2>7
<1>4. CASE Remote
  <2>1. agentPid' = agentPid /\ stop' = stop
    BY <1>4 DEF Remote, saved
  <2>2. CASE wire /\ remote = "gated" /\ remote' = "working"
    <3>1. agentPid /\ stop # "confirmed"
      BY <1>1, <2>2
    <3>2. Phase!Start
      BY <2>1, <2>2, <3>1 DEF Phase!Start
    <3>3. QED
      BY <3>2 DEF Phase!Next
  <2>3. CASE remote' = "gone"
    BY <2>1, <2>3 DEF Phase!Next, Phase!Exit
  <2>4. CASE remote' = remote
    BY <2>1, <2>4
  <2>5. QED
    BY <1>4, <2>2, <2>3, <2>4 DEF Remote
<1>5. CASE Exec
  BY <1>1, <1>5 DEF Exec, Goto, Return, saved
<1>6. CASE agentPid' = agentPid /\ stop' = stop /\ remote' = remote
  BY <1>6
<1>7. QED
  BY <1>2, <1>3, <1>4, <1>5, <1>6, Writers

(* The threads of run_remote, whatever blocks, fails, is cancelled or dies, *)
(* are a phase Agent as the task queue counts on: recorded before it works, *)
(* at work never again after a confirmed stop.                              *)
THEOREM ControlImplementsPhase == Spec => ImplementsAgentPhase
<1>1. Init => Phase!Init
  BY DEF Init, Phase!Init
<1>2. IInv /\ [Next]_vars => [Phase!Next]_(Phase!vars)
  BY PhaseStep
<1>3. QED
  BY <1>1, <1>2, IInvariant, PTL DEF Spec, ImplementsAgentPhase, Phase!Spec

=============================================================================
