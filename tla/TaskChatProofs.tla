--------------------------- MODULE TaskChatProofs ---------------------------
(* Theorems about TaskChat, for any tasks, saves and bounds: an open form    *)
(* shows its own conversation and never an older state of it, but for what  *)
(* a spinner put off.                                                       *)
EXTENDS TaskChat, TLAPS

-----------------------------------------------------------------------------
(* The invariant. *)

\* Tokens are generations that began; a poll that fails is not answered.
Tokens ==
    /\ \A p \in polls : p.token <= generation /\ p.answer # Failed
    /\ timer <= generation
    /\ send # None => send.token <= generation

\* The polls whose answer will not be dropped.
Live == {p \in polls : p.token = generation}

\* Within a generation the chat does one thing at a time: it waits for a poll,
\* for the timer or for the answer to a comment, always of the open form.
InTurn ==
    /\ \A p, q \in Live : p = q
    /\ \A p \in Live : p.task = current
    /\ Live # {} => timer # generation
    /\ send # None /\ send.token = generation =>
         Live = {} /\ timer # generation /\ send.task = current
    /\ hidden =>
         /\ Live = {} /\ timer # generation
         /\ send # None => send.token # generation

Older(data, t, v) == data # None /\ data.task = t => data.version <= v

\* Whatever the page knows the server has had.
Known ==
    /\ \A t \in Task : Older(shown, t, server[t]) /\ Older(pendingData, t, server[t])
    /\ \A p \in polls : p.answer # None => p.answer <= server[p.task]
    /\ send # None /\ send.answer \notin {None, Failed} =>
         send.answer <= server[send.task]

\* An answer that will be rendered is not older than what it replaces.
Fresh ==
    /\ \A p \in Live : p.answer # None =>
         Older(shown, p.task, p.answer) /\ Older(pendingData, p.task, p.answer)
    /\ send # None /\ send.token = generation /\ send.answer \notin {None, Failed} =>
         Older(shown, send.task, send.answer)

Blank == current = None => shown = None

IInv == TypeOK /\ Tokens /\ InTurn /\ Known /\ Fresh /\ Blank

-----------------------------------------------------------------------------
(* Calls. *)

LEMMA CallTypes ==
    ASSUME TypeOK
    PROVE  /\ \A p \in polls : /\ p.token \in Nat /\ p.task \in Task
                             /\ p.answer \in Version \cup {None, Failed}
           /\ send # None => /\ send.token \in Nat /\ send.task \in Task
                            /\ send.answer \in Version \cup {None, Failed}
           /\ \A t \in Task : server[t] \in Nat
           /\ shown # None => shown.task \in Task /\ shown.version \in Nat
           /\ pendingData # None => pendingData.task \in Task /\ pendingData.version \in Nat
           /\ generation \in Nat /\ timer \in Nat
BY BoundsAssumption DEF TypeOK, Calls, Data, Version

LEMMA RequestFields ==
    ASSUME NEW n, NEW t
    PROVE  /\ Request(n, t).token = n /\ Request(n, t).task = t
           /\ Request(n, t).answer = None
           /\ n \in 0..MaxGen /\ t \in Task => Request(n, t) \in Calls
BY DEF Request, Calls

LEMMA AbortedPolls ==
    ASSUME NEW new, Abort(new)
    PROVE  /\ \A p \in polls' : p \in polls \/ p \in new
           /\ new \subseteq polls'
BY DEF Abort

-----------------------------------------------------------------------------
(* The parts of the invariant, action by action. *)

LEMMA TypeStep == ASSUME TypeOK, Tokens, [Next]_vars PROVE TypeOK'
<1> USE BoundsAssumption DEF TypeOK
<1>1. CASE AnswerPoll
  <2>1. PICK p \in polls : polls' = (polls \ {p}) \cup {[p EXCEPT !.answer = server[p.task]]}
    BY <1>1 DEF AnswerPoll
  <2>2. [p EXCEPT !.answer = server[p.task]] \in Calls
    BY DEF Calls
  <2>3. QED
    BY <1>1, <2>1, <2>2 DEF AnswerPoll
<1>2. CASE AnswerSend
  <2>1. send \in Calls /\ server' \in [Task -> Version]
    BY <1>2 DEF AnswerSend, Calls, Version
  <2>2. send' \in Calls
    BY <1>2, <2>1 DEF AnswerSend, Calls
  <2>3. QED
    BY <1>2, <2>1, <2>2 DEF AnswerSend
<1>3. CASE PollTimer
  <2>1. polls' \subseteq Calls
    BY <1>3, RequestFields DEF PollTimer
  <2>2. QED
    BY <1>3, <2>1 DEF PollTimer
<1>4. CASE Close
  <2>1. polls' \subseteq Calls
    BY <1>4, AbortedPolls DEF Close, Closed
  <2>2. QED
    BY <1>4, <2>1 DEF Close, Closed, NextGeneration
<1>5. CASE Send
  <2>1. generation' \in 0..MaxGen /\ current \in Task
    BY <1>5 DEF Send, NextGeneration
  <2>2. polls' \subseteq Calls /\ send' \in Calls
    BY <1>5, <2>1, AbortedPolls, RequestFields DEF Send
  <2>3. QED
    BY <1>5, <2>1, <2>2 DEF Send
<1>6. CASE SendDone
  <2>1. polls' \subseteq Calls
    BY <1>6, RequestFields DEF SendDone
  <2>2. [task |-> send.task, version |-> send.answer] \in Data \/ send.answer = Failed
    BY <1>6, CallTypes DEF SendDone, Data
  <2>3. shown' \in Data \cup {None} /\ pendingData' \in Data \cup {None}
    BY <1>6, <2>2 DEF SendDone
  <2>4. QED
    BY <1>6, <2>1, <2>3 DEF SendDone
<1>7. CASE Hide
  <2>1. polls' \subseteq Calls
    BY <1>7, AbortedPolls DEF Hide
  <2>2. QED
    BY <1>7, <2>1 DEF Hide, NextGeneration
<1>8. CASE Show
  <2>1. polls' \subseteq Calls
    BY <1>8, RequestFields DEF Show
  <2>2. QED
    BY <1>8, <2>1 DEF Show
<1>9. CASE Save \/ SaveLoaded
  BY <1>9 DEF Save, SaveLoaded
<1>10. CASE SaveDone
  <2>1. polls' \subseteq Calls
    BY <1>10, AbortedPolls DEF SaveDone, Closed
  <2>2. QED
    BY <1>10, <2>1 DEF SaveDone, Closed, NextGeneration
<1>11. ASSUME NEW t \in Task, Open(t) PROVE TypeOK'
  <2>1. generation' \in 0..MaxGen
    BY <1>11 DEF Open, NextGeneration
  <2>2. polls' \subseteq Calls
    BY <1>11, <2>1, AbortedPolls, RequestFields DEF Open
  <2>3. [task |-> t, version |-> 0] \in Data
    BY DEF Data, Version
  <2>4. QED
    BY <1>11, <2>1, <2>2, <2>3 DEF Open, Render
<1>12. ASSUME NEW t \in Task, Write(t) PROVE TypeOK'
  BY <1>12 DEF Write, Version
<1>13. ASSUME NEW p \in polls, PollDone(p), p.answer # Failed PROVE TypeOK'
  <2>1. [task |-> p.task, version |-> p.answer] \in Data
    BY <1>13, CallTypes DEF PollDone, Data
  <2>2. p.token \in 0..MaxGen
    BY DEF Calls
  <2>3. QED
    BY <1>13, <2>1, <2>2 DEF PollDone, Render
<1>14. ASSUME NEW p \in polls, PollFails(p) PROVE TypeOK'
  <2>1. p.token \in 0..MaxGen
    BY DEF Calls
  <2>2. QED
    BY <1>14, <2>1 DEF PollFails
<1>15. CASE UNCHANGED vars
  BY <1>15 DEF vars
<1>16. QED
  BY <1>1, <1>2, <1>3, <1>4, <1>5, <1>6, <1>7, <1>8, <1>9, <1>10, <1>11, <1>12,
     <1>13, <1>14, <1>15 DEF Next, Tokens

\* A call keeps its token and task when it is answered.
LEMMA AnswerPollStep ==
    ASSUME TypeOK, AnswerPoll
    PROVE  \E p \in polls, q \in Calls :
             /\ p.answer = None /\ polls' = (polls \ {p}) \cup {q}
             /\ q.token = p.token /\ q.task = p.task
             /\ q.answer = server[p.task] /\ q.answer \in Version
<1>1. PICK p \in polls : p.answer = None /\ polls' = (polls \ {p}) \cup {[p EXCEPT !.answer = server[p.task]]}
  BY DEF AnswerPoll
<1>2. p \in Calls /\ server[p.task] \in Version
  BY DEF TypeOK, Calls
<1>3. [p EXCEPT !.answer = server[p.task]] \in Calls
  BY <1>2 DEF Calls
<1>4. QED
  BY <1>1, <1>2, <1>3 DEF Calls

LEMMA AnswerSendStep ==
    ASSUME TypeOK, AnswerSend
    PROVE  /\ send # None /\ send' # None
           /\ send'.token = send.token /\ send'.task = send.task
           /\ \/ /\ send'.answer = server'[send.task] /\ send'.answer \in Version
                 /\ server' = [server EXCEPT ![send.task] = @ + 1]
              \/ send'.answer = Failed /\ server' = server
<1>1. send \in Calls /\ send.task \in Task
  BY DEF AnswerSend, TypeOK, Calls
<1>2. send' \in Calls
  BY <1>1, BoundsAssumption DEF AnswerSend, TypeOK, Calls, Version
<1>3. send' # None
  BY <1>2, NoneAssumption
<1>4. QED
  BY <1>1, <1>3, BoundsAssumption DEF AnswerSend, TypeOK, Calls, Version

LEMMA TokensStep == ASSUME TypeOK, Tokens, [Next]_vars PROVE Tokens'
<1> USE CallTypes, NoneAssumption DEF Tokens
<1>1. CASE AnswerPoll
  BY <1>1, AnswerPollStep DEF AnswerPoll
<1>2. CASE AnswerSend
  BY <1>2, AnswerSendStep DEF AnswerSend
<1>3. CASE PollTimer
  BY <1>3, RequestFields DEF PollTimer
<1>4. CASE Close
  BY <1>4, AbortedPolls DEF Close, Closed, NextGeneration
<1>5. CASE Send
  BY <1>5, AbortedPolls, RequestFields DEF Send, NextGeneration
<1>6. CASE SendDone
  BY <1>6, RequestFields DEF SendDone
<1>7. CASE Hide
  BY <1>7, AbortedPolls DEF Hide, NextGeneration
<1>8. CASE Show
  BY <1>8, RequestFields DEF Show
<1>9. CASE Save \/ SaveLoaded
  BY <1>9 DEF Save, SaveLoaded
<1>10. CASE SaveDone
  BY <1>10, AbortedPolls DEF SaveDone, Closed, NextGeneration
<1>11. ASSUME NEW t \in Task, Open(t) PROVE Tokens'
  BY <1>11, AbortedPolls, RequestFields DEF Open, NextGeneration
<1>12. ASSUME NEW t \in Task, Write(t) PROVE Tokens'
  BY <1>12 DEF Write
<1>13. ASSUME NEW p \in polls, PollDone(p) PROVE Tokens'
  BY <1>13 DEF PollDone
<1>14. ASSUME NEW p \in polls, PollFails(p) PROVE Tokens'
  BY <1>14 DEF PollFails
<1>15. CASE UNCHANGED vars
  BY <1>15 DEF vars
<1>16. QED
  BY <1>1, <1>2, <1>3, <1>4, <1>5, <1>6, <1>7, <1>8, <1>9, <1>10, <1>11, <1>12,
     <1>13, <1>14, <1>15 DEF Next

\* A new generation begins with nothing under way but its own calls.
LEMMA GenerationBegins ==
    ASSUME TypeOK, Tokens, generation' = generation + 1, timer' = 0, NEW new, Abort(new)
    PROVE  /\ Live' \subseteq new /\ timer' # generation'
           /\ send # None => send.token # generation'
<1>1. generation \in Nat
  BY CallTypes
<1>2. \A p \in polls : p.token \in Nat /\ p.token <= generation
  BY CallTypes DEF Tokens
<1>3. send # None => send.token \in Nat /\ send.token <= generation
  BY CallTypes DEF Tokens
<1>4. QED
  BY <1>1, <1>2, <1>3, AbortedPolls DEF Live

LEMMA InTurnStep == ASSUME TypeOK, Tokens, InTurn, [Next]_vars PROVE InTurn'
<1> USE NoneAssumption DEF InTurn
<1>1. CASE AnswerPoll
  <2>1. PICK p \in polls, q \in Calls :
           /\ polls' = (polls \ {p}) \cup {q}
           /\ q.token = p.token /\ q.task = p.task
    BY <1>1, AnswerPollStep
  <2>2. \A r \in Live' : (r = q /\ p \in Live) \/ (r \in Live /\ r # p)
    BY <1>1, <2>1 DEF AnswerPoll, Live
  <2>3. QED
    BY <1>1, <2>1, <2>2 DEF AnswerPoll
<1>2. CASE AnswerSend
  BY <1>2, AnswerSendStep DEF AnswerSend, Live
<1>3. CASE PollTimer
  <2>1. timer # generation => Live' = Live
    BY <1>3 DEF PollTimer, Live
  <2>2. timer = generation => Live = {} /\ (current # None => Live' = {Request(timer, current)})
                              /\ (current = None => Live' = {})
    BY <1>3, RequestFields DEF PollTimer, Live
  <2>3. timer' # generation'
    BY <1>3, CallTypes DEF PollTimer, Tokens
  <2>4. QED
    BY <1>3, <2>1, <2>2, <2>3, RequestFields DEF PollTimer
<1>4. CASE Close
  BY <1>4, GenerationBegins DEF Close, Closed, NextGeneration
<1>5. CASE Send
  <2>1. Live' \subseteq {} /\ timer' # generation'
    BY <1>5, GenerationBegins DEF Send, NextGeneration
  <2>2. QED
    BY <1>5, <2>1, RequestFields DEF Send
<1>6. CASE SendDone
  <2>1. CASE current # None /\ send.token = generation
    <3>1. Live' = {Request(generation, current)} /\ timer' # generation'
      BY <1>6, <2>1, RequestFields DEF SendDone, Live
    <3>2. QED
      BY <1>6, <3>1, RequestFields DEF SendDone
  <2>2. CASE ~(current # None /\ send.token = generation)
    BY <1>6, <2>2 DEF SendDone, Live
  <2>3. QED
    BY <2>1, <2>2
<1>7. CASE Hide
  BY <1>7, GenerationBegins DEF Hide, NextGeneration
<1>8. CASE Show
  <2>1. Live' = IF current = None THEN {} ELSE {Request(generation, current)}
    BY <1>8, RequestFields DEF Show, Live
  <2>2. QED
    BY <1>8, <2>1, RequestFields DEF Show
<1>9. CASE Save \/ SaveLoaded
  BY <1>9 DEF Save, SaveLoaded, Live
<1>10. CASE SaveDone
  <2>1. CASE Closed
    BY <1>10, <2>1, GenerationBegins DEF SaveDone, Closed, NextGeneration
  <2>2. CASE UNCHANGED <<current, generation, polls, timer>>
    BY <1>10, <2>2 DEF SaveDone, Live
  <2>3. QED
    BY <1>10, <2>1, <2>2 DEF SaveDone
<1>11. ASSUME NEW t \in Task, Open(t) PROVE InTurn'
  <2>1. /\ Live' \subseteq {Request(generation', t)} /\ timer' # generation'
        /\ send # None => send.token # generation'
    BY <1>11, GenerationBegins DEF Open, NextGeneration
  <2>2. QED
    BY <1>11, <2>1, RequestFields DEF Open
<1>12. ASSUME NEW t \in Task, Write(t) PROVE InTurn'
  BY <1>12 DEF Write, Live
<1>13. ASSUME NEW p \in polls, PollDone(p) PROVE InTurn'
  BY <1>13 DEF PollDone, Live
<1>14. ASSUME NEW p \in polls, PollFails(p) PROVE InTurn'
  BY <1>14 DEF PollFails, Live
<1>15. CASE UNCHANGED vars
  BY <1>15 DEF vars, Live
<1>16. QED
  BY <1>1, <1>2, <1>3, <1>4, <1>5, <1>6, <1>7, <1>8, <1>9, <1>10, <1>11, <1>12,
     <1>13, <1>14, <1>15 DEF Next

LEMMA KnownStep == ASSUME TypeOK, Tokens, Known, [Next]_vars PROVE Known'
<1> USE CallTypes, NoneAssumption DEF Known, Older
<1>1. CASE AnswerPoll
  BY <1>1, AnswerPollStep DEF AnswerPoll, Version
<1>2. CASE AnswerSend
  <2>1. /\ send # None /\ send'.task = send.task /\ send.task \in Task
        /\ \A t \in Task : server[t] <= server'[t] /\ server'[t] \in Nat
        /\ send'.answer \in {server'[send.task], Failed}
    BY <1>2, AnswerSendStep DEF TypeOK
  <2>2. \A t \in Task : Older(shown, t, server'[t]) /\ Older(pendingData, t, server'[t])
    BY <2>1
  <2>3. \A p \in polls : p.answer # None => p.answer <= server'[p.task]
    BY <2>1 DEF Tokens, Version
  <2>4. QED
    BY <1>2, <2>1, <2>2, <2>3 DEF AnswerSend
<1>3. CASE PollTimer
  BY <1>3, RequestFields DEF PollTimer
<1>4. CASE Close
  BY <1>4, AbortedPolls DEF Close, Closed
<1>5. CASE Send
  BY <1>5, AbortedPolls, RequestFields DEF Send
<1>6. CASE SendDone
  <2>1. \A t \in Task : Older(shown', t, server[t]) /\ Older(pendingData', t, server[t])
    BY <1>6 DEF SendDone
  <2>2. \A p \in polls' : p.answer # None => p.answer <= server[p.task]
    BY <1>6, RequestFields DEF SendDone
  <2>3. QED
    BY <1>6, <2>1, <2>2 DEF SendDone
<1>7. CASE Hide
  BY <1>7, AbortedPolls DEF Hide
<1>8. CASE Show
  BY <1>8, RequestFields DEF Show
<1>9. CASE Save \/ SaveLoaded
  BY <1>9 DEF Save, SaveLoaded
<1>10. CASE SaveDone
  BY <1>10, AbortedPolls DEF SaveDone, Closed
<1>11. ASSUME NEW t \in Task, Open(t) PROVE Known'
  BY <1>11, AbortedPolls, RequestFields DEF Open, Render
<1>12. ASSUME NEW t \in Task, Write(t) PROVE Known'
  <2>1. \A u \in Task : server[u] <= server'[u] /\ server'[u] \in Nat
    BY <1>12 DEF Write, TypeOK
  <2>2. \A u \in Task : Older(shown, u, server'[u]) /\ Older(pendingData, u, server'[u])
    BY <2>1
  <2>3. \A p \in polls : p.answer # None => p.answer <= server'[p.task]
    BY <2>1 DEF Tokens, Version
  <2>4. send # None /\ send.answer \notin {None, Failed} => send.answer <= server'[send.task]
    BY <2>1 DEF Version
  <2>5. QED
    BY <1>12, <2>2, <2>3, <2>4 DEF Write
<1>13. ASSUME NEW p \in polls, PollDone(p) PROVE Known'
  BY <1>13 DEF PollDone, Render
<1>14. ASSUME NEW p \in polls, PollFails(p) PROVE Known'
  BY <1>14 DEF PollFails
<1>15. CASE UNCHANGED vars
  BY <1>15 DEF vars
<1>16. QED
  BY <1>1, <1>2, <1>3, <1>4, <1>5, <1>6, <1>7, <1>8, <1>9, <1>10, <1>11, <1>12,
     <1>13, <1>14, <1>15 DEF Next

LEMMA FreshStep == ASSUME IInv, [Next]_vars PROVE Fresh'
<1> USE NoneAssumption DEF IInv, Fresh
<1>1. CASE AnswerPoll
  <2>1. PICK p \in polls, q \in Calls :
           /\ polls' = (polls \ {p}) \cup {q}
           /\ q.token = p.token /\ q.task = p.task /\ q.answer = server[p.task]
    BY <1>1, AnswerPollStep
  <2>2. \A r \in Live' : (r = q /\ p \in Live) \/ r \in Live
    BY <1>1, <2>1 DEF AnswerPoll, Live
  <2>3. Older(shown, q.task, q.answer) /\ Older(pendingData, q.task, q.answer)
    BY <2>1, CallTypes DEF Known
  <2>4. QED
    BY <1>1, <2>2, <2>3 DEF AnswerPoll
<1>2. CASE AnswerSend
  <2>1. /\ send' # None /\ send'.task \in Task
        /\ send'.answer \notin {None, Failed} => Older(shown, send'.task, send'.answer)
    BY <1>2, AnswerSendStep, CallTypes, KnownStep DEF AnswerSend, Known
  <2>2. QED
    BY <1>2, <2>1 DEF AnswerSend, Live
<1>3. CASE PollTimer
  BY <1>3, RequestFields DEF PollTimer, Live
<1>4. CASE Close
  BY <1>4, GenerationBegins DEF Close, Closed, NextGeneration
<1>5. CASE Send
  BY <1>5, GenerationBegins, RequestFields DEF Send, NextGeneration
<1>6. CASE SendDone
  <2>1. CASE send.answer # Failed /\ send.token = generation
    <3>1. Live' \subseteq {Request(generation, current)}
      BY <1>6, <2>1, RequestFields DEF SendDone, Live, InTurn
    <3>2. QED
      BY <1>6, <3>1, RequestFields DEF SendDone
  <2>2. CASE ~(send.answer # Failed /\ send.token = generation)
    <3>1. \A p \in Live' : p \in Live \/ p.answer = None
      BY <1>6, RequestFields DEF SendDone, Live
    <3>2. shown' \in {shown, pendingData} /\ pendingData' \in {None, pendingData}
      BY <1>6, <2>2 DEF SendDone
    <3>3. QED
      BY <1>6, <3>1, <3>2 DEF SendDone, Older
  <2>3. QED
    BY <2>1, <2>2
<1>7. CASE Hide
  BY <1>7, GenerationBegins DEF Hide, NextGeneration
<1>8. CASE Show
  BY <1>8, RequestFields DEF Show, Live
<1>9. CASE Save \/ SaveLoaded
  BY <1>9 DEF Save, SaveLoaded, Live
<1>10. CASE SaveDone
  <2>1. CASE Closed
    BY <1>10, <2>1, GenerationBegins DEF SaveDone, Closed, NextGeneration
  <2>2. CASE UNCHANGED <<current, generation, shown, polls, timer>>
    BY <1>10, <2>2 DEF SaveDone, Live
  <2>3. QED
    BY <1>10, <2>1, <2>2 DEF SaveDone
<1>11. ASSUME NEW t \in Task, Open(t) PROVE Fresh'
  <2>1. /\ Live' \subseteq {Request(generation', t)}
        /\ send # None => send.token # generation'
    BY <1>11, GenerationBegins DEF Open, NextGeneration
  <2>2. QED
    BY <1>11, <2>1, RequestFields DEF Open
<1>12. ASSUME NEW t \in Task, Write(t) PROVE Fresh'
  BY <1>12 DEF Write, Live
<1>13. ASSUME NEW p \in polls, PollDone(p) PROVE Fresh'
  <2>1. CASE p.token = generation
    <3>1. Live' = {} /\ (send # None => send.token # generation)
      BY <1>13, <2>1 DEF PollDone, Live, InTurn
    <3>2. QED
      BY <1>13, <3>1 DEF PollDone
  <2>2. CASE p.token # generation
    BY <1>13, <2>2 DEF PollDone, Live
  <2>3. QED
    BY <2>1, <2>2
<1>14. ASSUME NEW p \in polls, PollFails(p) PROVE Fresh'
  BY <1>14 DEF PollFails, Live
<1>15. CASE UNCHANGED vars
  BY <1>15 DEF vars, Live
<1>16. QED
  BY <1>1, <1>2, <1>3, <1>4, <1>5, <1>6, <1>7, <1>8, <1>9, <1>10, <1>11, <1>12,
     <1>13, <1>14, <1>15 DEF Next

LEMMA BlankStep == ASSUME IInv, [Next]_vars PROVE Blank'
<1> USE NoneAssumption DEF IInv, Blank
<1>1. CASE AnswerPoll \/ AnswerSend \/ PollTimer \/ Send \/ Hide \/ Show \/ Save \/ SaveLoaded
  BY <1>1 DEF AnswerPoll, AnswerSend, PollTimer, Send, Hide, Show, Save, SaveLoaded
<1>2. CASE Close \/ SaveDone
  BY <1>2 DEF Close, SaveDone, Closed
<1>3. CASE SendDone
  <2>1. current = None => shown' = shown
    BY <1>3 DEF SendDone
  <2>2. QED
    BY <1>3, <2>1 DEF SendDone
<1>4. ASSUME NEW t \in Task, Open(t) PROVE Blank'
  BY <1>4 DEF Open
<1>5. ASSUME NEW t \in Task, Write(t) PROVE Blank'
  BY <1>5 DEF Write
<1>6. ASSUME NEW p \in polls, PollDone(p) PROVE Blank'
  BY <1>6, CallTypes DEF PollDone, InTurn, Live
<1>7. ASSUME NEW p \in polls, PollFails(p) PROVE Blank'
  BY <1>7 DEF PollFails
<1>8. CASE UNCHANGED vars
  BY <1>8 DEF vars
<1>9. QED
  BY <1>1, <1>2, <1>3, <1>4, <1>5, <1>6, <1>7, <1>8 DEF Next

LEMMA Initially == Init => IInv
<1>1. Init => TypeOK
  <2> SUFFICES ASSUME Init PROVE TypeOK
    OBVIOUS
  <2>1. 0 \in Version /\ 0 \in 0..MaxGen
    BY BoundsAssumption DEF Version
  <2>2. server \in [Task -> Version]
    BY <2>1 DEF Init
  <2>3. QED
    BY <2>1, <2>2 DEF Init, TypeOK
<1>2. Init => Tokens /\ InTurn /\ Known /\ Fresh /\ Blank
  BY DEF Init, Tokens, InTurn, Live, Known, Older, Fresh, Blank
<1>3. QED
  BY <1>1, <1>2 DEF IInv

LEMMA Always == Spec => []IInv
<1>1. IInv /\ [Next]_vars => IInv'
  BY TypeStep, TokensStep, InTurnStep, KnownStep, FreshStep, BlankStep DEF IInv
<1>2. QED
  BY <1>1, Initially, PTL DEF Spec

(* Every reachable state of the chat is well typed.                         *)
THEOREM TypeCorrect == Spec => []TypeOK
<1>1. IInv => TypeOK
  BY DEF IInv
<1>2. QED
  BY <1>1, Always, PTL

-----------------------------------------------------------------------------
(* What a step shows. *)

\* Nothing but an answer that is in turn, or what a spinner put off, is shown
\* in a form that stays open.
LEMMA ShownStep ==
    ASSUME IInv, [Next]_vars, shown' # shown, current # None, current' = current
    PROVE  \/ \E p \in Live : /\ p.answer \in Version
                             /\ shown' = [task |-> p.task, version |-> p.answer]
           \/ /\ send # None /\ send.token = generation /\ send.answer \in Version
              /\ shown' = [task |-> send.task, version |-> send.answer]
           \/ AppliesPending
<1> DEFINE Goal ==
       \/ \E p \in Live : /\ p.answer \in Version
                         /\ shown' = [task |-> p.task, version |-> p.answer]
       \/ /\ send # None /\ send.token = generation /\ send.answer \in Version
          /\ shown' = [task |-> send.task, version |-> send.answer]
       \/ AppliesPending
<1> SUFFICES Goal
  OBVIOUS
<1> USE DEF IInv
<1>1. CASE AnswerPoll \/ AnswerSend \/ PollTimer \/ Send \/ Hide \/ Show \/ Save \/ SaveLoaded
  BY <1>1 DEF AnswerPoll, AnswerSend, PollTimer, Send, Hide, Show, Save, SaveLoaded
<1>2. CASE Close \/ SaveDone
  BY <1>2 DEF Close, SaveDone, Closed
<1>3. CASE SendDone
  BY <1>3, CallTypes DEF SendDone, AppliesPending
<1>4. ASSUME NEW t \in Task, Open(t) PROVE Goal
  BY <1>4 DEF Open
<1>5. ASSUME NEW t \in Task, Write(t) PROVE Goal
  BY <1>5 DEF Write
<1>6. ASSUME NEW p \in polls, PollDone(p) PROVE Goal
  BY <1>6, CallTypes DEF PollDone, Render, Live, Tokens
<1>7. ASSUME NEW p \in polls, PollFails(p) PROVE Goal
  BY <1>7 DEF PollFails
<1>8. CASE UNCHANGED vars
  BY <1>8 DEF vars
<1> HIDE DEF Goal
<1>9. QED
  BY <1>1, <1>2, <1>3, <1>4, <1>5, <1>6, <1>7, <1>8 DEF Next

(* While a form stays open its conversation goes back to an older version   *)
(* only by what a spinner had put off (render and applyPending of           *)
(* task-chat.js): answers overtaken by a send, a page change or a save are  *)
(* dropped by their generation.                                             *)
THEOREM GoesForward == Spec => ChatGoesForward
<1>1. IInv /\ [Next]_vars =>
        [ /\ current # None /\ current' = current /\ ~AppliesPending
          /\ shown # None /\ shown' # None /\ shown'.task = shown.task
          => shown'.version >= shown.version]_vars
  <2> SUFFICES ASSUME IInv, [Next]_vars, current # None, current' = current,
                      ~AppliesPending, shown # None, shown' # None,
                      shown'.task = shown.task
               PROVE  shown'.version >= shown.version
    OBVIOUS
  <2> USE NoneAssumption DEF IInv, Fresh, Older, Version
  <2>1. CASE shown' = shown
    BY <2>1, CallTypes
  <2>2. ASSUME NEW p \in Live, p.answer \in Version,
               shown' = [task |-> p.task, version |-> p.answer]
        PROVE  shown'.version >= shown.version
    <3>1. shown.version <= p.answer
      BY <2>2
    <3>2. QED
      BY <2>2, <3>1, CallTypes
  <2>3. ASSUME send # None, send.token = generation, send.answer \in Version,
               shown' = [task |-> send.task, version |-> send.answer]
        PROVE  shown'.version >= shown.version
    <3>1. shown.version <= send.answer
      BY <2>3
    <3>2. QED
      BY <2>3, <3>1, CallTypes
  <2>4. QED
    BY <2>1, <2>2, <2>3, ShownStep
<1>2. QED
  BY <1>1, Always, PTL DEF Spec, ChatGoesForward

(* The conversation of another task gets into an open form only by what a   *)
(* spinner had put off, although polls and comments of the forms that were  *)
(* open before are answered late.                                           *)
THEOREM StraysExplained == Spec => StraysOnlyFromPending
<1>1. IInv /\ IInv' /\ [Next]_vars =>
        [ShowsOwnTask /\ ~ShowsOwnTask' => AppliesPending]_vars
  <2> SUFFICES ASSUME IInv, IInv', [Next]_vars, ShowsOwnTask, ~ShowsOwnTask'
               PROVE  AppliesPending
    OBVIOUS
  <2>1. current' # None /\ shown' # None /\ shown'.task # current'
    BY DEF ShowsOwnTask
  <2>2. CASE current' = current
    <3>1. shown' # shown
      BY <2>1, <2>2 DEF ShowsOwnTask
    <3>2. \A p \in Live : p.task = current
      BY DEF IInv, InTurn
    <3>3. send # None /\ send.token = generation => send.task = current
      BY DEF IInv, InTurn
    <3>4. QED
      BY <2>1, <2>2, <3>1, <3>2, <3>3, ShownStep
  <2>3. CASE current' # current
    <3>1. PICK t \in Task : Open(t)
      BY <2>1, <2>3 DEF Next, AnswerPoll, AnswerSend, PollTimer, Close, Send, SendDone,
         Hide, Show, Save, SaveDone, SaveLoaded, Closed, Write, PollDone, PollFails, vars
    <3>2. shown = None
      BY <3>1 DEF Open, IInv, Blank
    <3>3. QED
      BY <2>1, <3>1, <3>2 DEF Open, Render
  <2>4. QED
    BY <2>2, <2>3
<1>2. QED
  BY <1>1, Always, PTL DEF Spec, StraysOnlyFromPending

=============================================================================
