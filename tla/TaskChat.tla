------------------------------ MODULE TaskChat ------------------------------
(***************************************************************************)
(* The conversation shown beside an open task form (task-chat.js): polling, *)
(* sending a comment, the spinner of the form that defers what arrives      *)
(* meanwhile (spinner.js), and the closing and opening of forms by board.js *)
(* (save, closeForm, openForm).                                             *)
(*                                                                         *)
(* A conversation and its task's status are one version number; requests    *)
(* may be answered late, fail, or be overtaken.  An answer carries the      *)
(* version of the moment the server made it.                                *)
(***************************************************************************)
EXTENDS Naturals

CONSTANTS
    Task,
    Saves,       \* does the user save forms, too?
    MaxVersion,  \* bound: changes of a conversation
    MaxGen,      \* bound: generations of the chat
    None,        \* no form open, nothing pending, no answer yet
    Failed       \* the answer to a comment that was not accepted

ASSUME SavesAssumption == Saves \in BOOLEAN
ASSUME BoundsAssumption == MaxVersion \in Nat /\ MaxGen \in Nat

Version == 0..MaxVersion
Data == [task : Task, version : Version]

VARIABLES
    server,      \* the version of each task's conversation
    current,     \* the task of the open form
    generation,  \* advanced by every close and send
    shown,       \* what the panel shows
    pendingData, \* what arrived while the spinner was active
    spinner,     \* who holds the form's spinner
    polls,       \* the polls under way: generation, task and answer
    timer,       \* the generation of the armed timer, 0 if none
    send,        \* the comment under way: its generation, task and answer
    hidden       \* the page is in the back/forward cache

vars == <<server, current, generation, shown, pendingData, spinner, polls,
          timer, send, hidden>>

Calls == [token : 0..MaxGen, task : Task, answer : Version \cup {None, Failed}]

ASSUME NoneAssumption ==
    /\ None \notin Task \cup Version \cup Data \cup Calls
    /\ Failed \notin Version \cup {None}

TypeOK ==
    /\ server \in [Task -> Version]
    /\ current \in Task \cup {None}
    /\ generation \in 0..MaxGen
    /\ shown \in Data \cup {None}
    /\ pendingData \in Data \cup {None}
    /\ spinner \in {"off", "send", "save", "saved"}
    /\ polls \subseteq Calls
    /\ timer \in 0..MaxGen
    /\ send \in Calls \cup {None}
    /\ hidden \in BOOLEAN

Init ==
    /\ server = [t \in Task |-> 0]
    /\ current = None /\ generation = 0
    /\ shown = None /\ pendingData = None
    /\ spinner = "off" /\ polls = {} /\ timer = 0 /\ send = None
    /\ hidden = FALSE

-----------------------------------------------------------------------------
(* The server: agents and other people write, requests are answered. *)

Write(t) ==
    /\ server[t] < MaxVersion
    /\ server' = [server EXCEPT ![t] = @ + 1]
    /\ UNCHANGED <<current, generation, shown, pendingData, spinner, polls,
                   timer, send, hidden>>

AnswerPoll ==
    /\ \E p \in polls :
         /\ p.answer = None
         /\ polls' = (polls \ {p}) \cup {[p EXCEPT !.answer = server[p.task]]}
    /\ UNCHANGED <<server, current, generation, shown, pendingData, spinner,
                   timer, send, hidden>>

\* add_user_comment, or its refusal: a wrong status, a lost connection
AnswerSend ==
    /\ send # None /\ send.answer = None
    /\ \/ /\ server[send.task] < MaxVersion
          /\ server' = [server EXCEPT ![send.task] = @ + 1]
          /\ send' = [send EXCEPT !.answer = server'[send.task]]
       \/ send' = [send EXCEPT !.answer = Failed] /\ UNCHANGED server
    /\ UNCHANGED <<current, generation, shown, pendingData, spinner, polls,
                   timer, hidden>>

-----------------------------------------------------------------------------
(* task-chat.js *)

\* render: put off while the spinner is active
Render(data) ==
    IF spinner # "off" THEN pendingData' = data /\ UNCHANGED shown
    ELSE shown' = data /\ UNCHANGED pendingData

Request(token, t) == [token |-> token, task |-> t, answer |-> None]

\* close, send and pagehide advance the generation and abort the poll: an
\* answer that was read already is still to come.
NextGeneration_Kept == generation
NextGeneration == generation + 1

Abort(new) ==
    \E read \in SUBSET {p \in polls : p.answer # None} : polls' = read \cup new

\* openForm calls taskChat.open, which closes the previous conversation.
Open(t) ==
    /\ generation < MaxGen /\ current = None /\ ~hidden
    /\ spinner \in {"off", "saved"}
    /\ generation' = NextGeneration
    /\ current' = t
    /\ Render([task |-> t, version |-> 0])
    /\ Abort({Request(generation', t)}) /\ timer' = 0
    /\ UNCHANGED <<server, spinner, send, hidden>>

\* closeForm: only without a spinner, or by save itself
Closed ==
    /\ generation < MaxGen
    /\ generation' = NextGeneration
    /\ current' = None /\ shown' = None
    /\ Abort({}) /\ timer' = 0

Close ==
    /\ current # None /\ spinner = "off" /\ ~hidden
    /\ Closed
    /\ UNCHANGED <<server, pendingData, spinner, send, hidden>>

PollTimer ==
    /\ timer # 0 /\ timer' = 0
    /\ IF current = None \/ timer # generation THEN UNCHANGED polls
       ELSE polls' = polls \cup {Request(timer, current)}
    /\ UNCHANGED <<server, current, generation, shown, pendingData, spinner,
                   send, hidden>>

\* The answer of a poll; the next one is scheduled.
PollDone_AnyToken(p) ==
    /\ p.answer # None /\ ~hidden /\ polls' = polls \ {p} /\ timer' = p.token
    /\ IF current # None THEN Render([task |-> p.task, version |-> p.answer])
       ELSE UNCHANGED <<shown, pendingData>>
    /\ UNCHANGED <<server, current, generation, spinner, send, hidden>>
PollDone(p) ==
    /\ p.answer # None /\ ~hidden /\ polls' = polls \ {p}
    /\ IF p.token # generation THEN UNCHANGED <<shown, pendingData, timer>>
       ELSE /\ timer' = p.token
            /\ Render([task |-> p.task, version |-> p.answer])
    /\ UNCHANGED <<server, current, generation, spinner, send, hidden>>

PollFails(p) ==
    /\ ~hidden /\ polls' = polls \ {p}
    /\ timer' = IF p.token = generation THEN p.token ELSE timer
    /\ UNCHANGED <<server, current, generation, shown, pendingData, spinner,
                   send, hidden>>

Send ==
    /\ current # None /\ spinner = "off" /\ send = None /\ ~hidden
    /\ generation < MaxGen
    /\ spinner' = "send" /\ timer' = 0 /\ Abort({})
    /\ generation' = NextGeneration
    /\ send' = Request(generation', current)
    /\ UNCHANGED <<server, current, shown, pendingData, hidden>>

\* The answer is rendered behind the spinner, the spinner stops, what is
\* pending is applied, and polling begins again.
SendDone_NoPoll ==
    /\ send # None /\ send.answer # None /\ ~hidden
    /\ send' = None /\ spinner' = "off" /\ pendingData' = None
    /\ shown' = IF send.answer = Failed THEN shown
                ELSE [task |-> send.task, version |-> send.answer]
    /\ UNCHANGED <<server, current, generation, polls, timer, hidden>>
SendDone ==
    /\ send # None /\ send.answer # None /\ ~hidden
    /\ send' = None /\ spinner' = "off"
    /\ LET fresh == send.answer # Failed /\ send.token = generation
           data == IF fresh THEN [task |-> send.task, version |-> send.answer]
                   ELSE pendingData
           apply == data # None /\ current # None
       IN /\ shown' = IF apply THEN data ELSE shown
          /\ pendingData' = IF apply THEN None ELSE data
    /\ polls' = IF current # None /\ send.token = generation
                THEN polls \cup {Request(generation, current)} ELSE polls
    /\ UNCHANGED <<server, current, generation, timer, hidden>>

\* pagehide and pageshow: the back/forward cache
Hide ==
    /\ ~hidden /\ generation < MaxGen /\ hidden' = TRUE
    /\ timer' = 0 /\ Abort({})
    /\ generation' = NextGeneration
    /\ UNCHANGED <<server, current, shown, pendingData, spinner, send>>

Show ==
    /\ hidden /\ hidden' = FALSE
    /\ polls' = IF current = None THEN polls
                ELSE polls \cup {Request(generation, current)}
    /\ UNCHANGED <<server, current, generation, shown, pendingData, spinner,
                   timer, send>>

-----------------------------------------------------------------------------
(* board.js: Save holds the spinner while the form is still polling. *)

Save ==
    /\ Saves /\ current # None /\ spinner = "off" /\ ~hidden
    /\ spinner' = "save"
    /\ UNCHANGED <<server, current, generation, shown, pendingData, polls,
                   timer, send, hidden>>

\* save is accepted: closeForm, and the spinner stops once the board is
\* loaded (a form may be open again by then); or it is refused.
SaveDone ==
    /\ spinner = "save" /\ ~hidden
    /\ \/ Closed /\ spinner' = "saved"
       \/ spinner' = "off" /\ UNCHANGED <<current, generation, shown, polls, timer>>
    /\ UNCHANGED <<server, pendingData, send, hidden>>

SaveLoaded ==
    /\ spinner = "saved" /\ ~hidden /\ spinner' = "off"
    /\ UNCHANGED <<server, current, generation, shown, pendingData, polls,
                   timer, send, hidden>>

-----------------------------------------------------------------------------

Next ==
    \/ AnswerPoll \/ AnswerSend \/ PollTimer \/ Close \/ Send \/ SendDone
    \/ Hide \/ Show \/ Save \/ SaveDone \/ SaveLoaded
    \/ \E t \in Task : Open(t) \/ Write(t)
    \/ \E p \in polls : PollDone(p) \/ PollFails(p)

Spec == Init /\ [][Next]_vars

\* Requests are answered (a poll that is made again and again, though many fail),
\* an answered poll is not lost for ever, timers fire, a hidden page is shown
\* again.
FairSpec ==
    /\ Spec
    /\ SF_vars(AnswerPoll) /\ WF_vars(AnswerSend) /\ WF_vars(PollTimer)
    /\ SF_vars(\E p \in polls : PollDone(p)) /\ WF_vars(SendDone)
    /\ WF_vars(Show) /\ WF_vars(SaveDone) /\ WF_vars(SaveLoaded)

-----------------------------------------------------------------------------
(* Properties. *)

(* An open form shows the conversation of its own task.                     *)
ShowsOwnTask == current # None /\ shown # None => shown.task = current

\* A comment that was refused, or overtaken by a page change, applies what an
\* earlier spinner put off.
AppliesPending ==
    /\ send # None /\ send' = None /\ pendingData # None
    /\ send.answer = Failed \/ send.token # generation

(* Another task's conversation gets into an open form in that way only.     *)
StraysOnlyFromPending ==
    [][ShowsOwnTask /\ ~ShowsOwnTask' => AppliesPending]_vars

(* While a form stays open its conversation goes back to an older version   *)
(* in that way only (the first, empty rendering aside): answers that were   *)
(* overtaken by a send, a page change or a save are dropped.                *)
ChatGoesForward ==
    [][ /\ current # None /\ current' = current /\ ~AppliesPending
        /\ shown # None /\ shown' # None /\ shown'.task = shown.task
        => shown'.version >= shown.version]_vars

(* An open conversation comes to show what the server has, whatever was     *)
(* sent, refused, hidden or saved in between: polling never dies.           *)
ChatFollows ==
    \A t \in Task, v \in Version :
        <>[](current = t /\ server[t] = v /\ spinner = "off") =>
            <>[](current = t /\ shown = [task |-> t, version |-> v])

=============================================================================
