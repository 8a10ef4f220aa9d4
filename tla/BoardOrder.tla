----------------------------- MODULE BoardOrder -----------------------------
(***************************************************************************)
(* The columns of the board and the order of their cards (board_store.py),  *)
(* as changed by browsers, by the command line (move_task.py) and by the     *)
(* executors (agent_store.claim and finish).  Every database transaction is *)
(* one step.                                                                *)
(*                                                                         *)
(* A task is identified with its primary key: a later task has a greater    *)
(* one.  Task contents, phases and the run rows are left out; TaskRuns has  *)
(* the runs.  Of the marks init_uncertain and agent_uncertain only what they *)
(* do to claim is kept.                                                     *)
(***************************************************************************)
EXTENDS Naturals, FiniteSets

CONSTANTS
    MaxTask,   \* bound: tasks ever created
    MaxOrder,  \* bound: values of sort_order
    MaxPosition, \* bound: positions that a browser asks for
    Columns,   \* bound: the columns that people move cards to
    Cli,       \* bound: the columns that move_task.py is used for
    None       \* no command under way, no run

\* The bounds leave room for a column of all tasks.
ASSUME BoundsAssumption ==
    /\ MaxTask \in Nat /\ MaxOrder \in Nat /\ MaxPosition \in Nat
    /\ MaxTask <= MaxOrder + 1

Task == 1..MaxTask
Position == 0..MaxPosition

Statuses == {"BACKLOG", "OPEN", "WAIT", "IN PROGRESS", "REVIEW", "DONE",
             "ARCHIVE"}

ASSUME ColumnsAssumption == Columns \subseteq Statuses
ASSUME CliAssumption == Cli \subseteq Statuses \ {"ARCHIVE"}

AllowedTransitions ==
    [s \in Statuses |->
        CASE s = "BACKLOG" -> {"OPEN", "ARCHIVE"}
          [] s = "OPEN" -> {"BACKLOG"}
          [] s = "WAIT" -> {"ARCHIVE"}
          [] s = "IN PROGRESS" -> {"BACKLOG"}
          [] s = "REVIEW" -> {"OPEN", "BACKLOG", "DONE"}
          [] s = "DONE" -> {"ARCHIVE"}
          [] s = "ARCHIVE" -> {}]

VARIABLES
    created,  \* how many tasks were created: the last primary key
    column,   \* the status of each task; "ABSENT" without a row
    order,    \* sort_order of each task
    run,      \* the active run: its task, and whether it still owns it
    held,     \* the tasks marked init_uncertain: never claimed
    blocked,  \* is a run marked agent_uncertain?  Nothing is claimed then
    cli       \* move_task.py between its two transactions: where to, and
              \* the cards it counted there

vars == <<created, column, order, run, held, blocked, cli>>

TypeOK ==
    /\ created \in 0..MaxTask
    /\ column \in [Task -> Statuses \cup {"ABSENT"}]
    /\ order \in [Task -> 0..MaxOrder]
    /\ run \in [task : Task, owned : BOOLEAN] \cup {None}
    /\ held \subseteq Task /\ blocked \in BOOLEAN
    /\ cli \in [status : Statuses, counted : SUBSET Task] \cup {None}

Init ==
    /\ created = 0
    /\ column = [t \in Task |-> "ABSENT"]
    /\ order = [t \in Task |-> 0]
    /\ run = None /\ held = {} /\ blocked = FALSE
    /\ cli = None

In(s) == {t \in Task : column[t] = s}

\* ORDER BY sort_order, id: how the board shows a column and claim reads it.
Before(t, u) == order[t] < order[u] \/ (order[t] = order[u] /\ t < u)

Rank(t, tasks) == Cardinality({u \in tasks : Before(u, t)})

\* COALESCE(MAX(sort_order), -1) + 1
LastOrder_Tie(s) ==
    CHOOSE n \in 0..MaxOrder + 1 :
        /\ \A t \in In(s) : order[t] <= n
        /\ n = 0 \/ \E t \in In(s) : order[t] = n
LastOrder(s) ==
    CHOOSE n \in 0..MaxOrder + 1 :
        /\ \A t \in In(s) : order[t] < n
        /\ n = 0 \/ \E t \in In(s) : order[t] = n - 1

Allowed(t, s) == s = column[t] \/ s \in AllowedTransitions[column[t]]

-----------------------------------------------------------------------------
(* Creating, editing, moving, commenting and deleting tasks. *)

CreateTask ==
    /\ created < MaxTask /\ LastOrder("BACKLOG") <= MaxOrder
    /\ created' = created + 1
    /\ column' = [column EXCEPT ![created + 1] = "BACKLOG"]
    /\ order' = [order EXCEPT ![created + 1] = LastOrder("BACKLOG")]
    /\ UNCHANGED <<run, held, blocked, cli>>

Owned(t) == run = [task |-> t, owned |-> TRUE]

\* A task that leaves IN PROGRESS is taken from its run, which is cancelled.
Disown(t, s) ==
    IF Owned(t) /\ s # column[t] THEN [task |-> t, owned |-> FALSE] ELSE run

\* update_task with the status that a form submits.  The form may have been
\* opened under another status; the present one decides.
UpdateTask(t, s) ==
    /\ column[t] # "ABSENT" /\ Allowed(t, s)
    /\ run' = Disown(t, s)
    /\ IF s = column[t] THEN UNCHANGED <<column, order>>
       ELSE /\ LastOrder(s) <= MaxOrder
            /\ column' = [column EXCEPT ![t] = s]
            /\ order' = [order EXCEPT ![t] = LastOrder(s)]

Save(t, s) == UpdateTask(t, s) /\ UNCHANGED <<created, held, blocked, cli>>

\* move_task: the card is inserted at the position, both columns renumbered.
Renumbered_OnlyMoved(t, s, position) == [order EXCEPT ![t] = position]
Renumbered_ById(t, s, position) ==
    [u \in Task |-> IF u = t THEN 0
                    ELSE IF column[u] = column[t] THEN Cardinality({v \in In(column[u]) : v < u})
                    ELSE order[u]]
Renumbered(t, s, position) ==
    LET others == In(s) \ {t}
        size == Cardinality(others)
        at == IF position < size THEN position ELSE size
        inserted(rank) == IF rank < at THEN rank ELSE rank + 1
    IN [u \in Task |->
          CASE u = t -> at
            [] u \in others -> inserted(Rank(u, others))
            [] column[u] = column[t] /\ s # column[t] /\ u # t ->
                 Rank(u, In(column[t]) \ {t})
            [] OTHER -> order[u]]

Place(t, s, position) ==
    /\ column' = [column EXCEPT ![t] = s]
    /\ run' = Disown(t, s)
    /\ order' = Renumbered(t, s, position)

\* Dragging, and the buttons REOPEN, DONE and To Archive (position 0).  The
\* position comes from the board as the browser shows it.
MoveTask(t, s, position) ==
    /\ column[t] # "ABSENT" /\ Allowed(t, s)
    /\ UNCHANGED <<created, held, blocked, cli>>
    /\ Place(t, s, position)

\* move_task.py counts the destination column, then moves in a second step.
CliCount(s) ==
    /\ cli = None
    /\ cli' = [status |-> s, counted |-> In(s)]
    /\ UNCHANGED <<created, column, order, run, held, blocked>>

CliMove(t) ==
    /\ cli # None /\ cli' = None
    /\ IF column[t] = "ABSENT" THEN UNCHANGED <<column, order, run>>
       ELSE Place(t, cli.status, Cardinality(cli.counted))
    /\ UNCHANGED <<created, held, blocked>>

AddUserComment(t) ==
    /\ column[t] \in {"REVIEW", "WAIT"}
    /\ column' = [column EXCEPT ![t] = "OPEN"]
    /\ UNCHANGED <<created, order, run, held, blocked, cli>>

DeleteTask(t) ==
    /\ column[t] \in {"BACKLOG", "ARCHIVE"}
    /\ column' = [column EXCEPT ![t] = "ABSENT"]
    /\ order' = [order EXCEPT ![t] = 0]
    /\ held' = held \ {t}
    /\ UNCHANGED <<created, run, blocked, cli>>

-----------------------------------------------------------------------------
(* The executors: one run at a time. *)

Claimable == In("OPEN") \ held

First_Newest == CHOOSE t \in Claimable : \A u \in Claimable : u <= t
First == CHOOSE t \in Claimable : Rank(t, Claimable) = 0

Claim ==
    /\ run = None /\ ~blocked /\ Claimable # {}
    /\ column' = [column EXCEPT ![First] = "IN PROGRESS"]
    /\ run' = [task |-> First, owned |-> TRUE]
    /\ UNCHANGED <<created, order, held, blocked, cli>>

\* finish: a run that still owns its task moves it.  An unfinished Init holds
\* the task back, an unconfirmed stop the queue; both are errors.
Finish ==
    /\ run # None /\ run' = None
    /\ \E failed, initUncertain, agentUncertain \in BOOLEAN :
        /\ initUncertain \/ agentUncertain => failed
        /\ column' = IF run.owned
                     THEN [column EXCEPT ![run.task] = IF failed THEN "WAIT" ELSE "REVIEW"]
                     ELSE column
        /\ held' = IF initUncertain /\ column[run.task] # "ABSENT"
                   THEN held \cup {run.task} ELSE held
        /\ blocked' = (blocked \/ agentUncertain)
    /\ UNCHANGED <<created, order, cli>>

\* A person has looked at the remote host.
ConfirmRemoteStop ==
    /\ blocked /\ blocked' = FALSE
    /\ UNCHANGED <<created, column, order, run, held, cli>>

-----------------------------------------------------------------------------

Next ==
    \/ CreateTask \/ Claim \/ Finish \/ ConfirmRemoteStop
    \/ \E t \in Task :
        \/ AddUserComment(t) \/ DeleteTask(t) \/ CliMove(t)
        \/ \E s \in Columns \cup {column[t]} :
            Save(t, s) \/ \E position \in Position : MoveTask(t, s, position)
    \/ \E s \in Cli : CliCount(s)

Spec == Init /\ [][Next]_vars

\* The consumer starts executors for ever, and every run is closed (RunsEnd
\* of TaskRuns).  People need not do anything, not even confirm a stop.
FairSpec ==
    Spec /\ WF_vars(Claim) /\ WF_vars(Finish)

-----------------------------------------------------------------------------
(* Properties. *)

Ahead(t) == {u \in In(column[t]) : Before(u, t)}

(* Two cards that stay in a column keep their order, unless one of them is  *)
(* dragged or moved: neither renumbering nor ties reorder the others.       *)
OthersKeepOrder ==
    [][\A t, u \in Task :
        /\ column[t] = column[u] /\ column'[t] = column[t] /\ column'[u] = column[u]
        /\ column[t] # "ABSENT" /\ Before(t, u) /\ ~Before(t, u)'
        => \/ CliMove(t) \/ CliMove(u)
           \/ \E x \in {t, u}, p \in Position : MoveTask(x, column[t], p)]_vars

(* A waiting task is overtaken only by a card that somebody dragged or       *)
(* commented on (REOPEN, Send comment): never by creating or saving one.    *)
Overtaken(t) ==
    column[t] = "OPEN" /\ column'[t] = "OPEN" /\ ~(Ahead(t)' \subseteq Ahead(t))

OvertakenByHand ==
    [][\A t \in Task : Overtaken(t) =>
        \/ \E u \in Task : AddUserComment(u) \/ CliMove(u)
        \/ \E u \in Task, p \in Position : MoveTask(u, "OPEN", p)]_vars

(* A card that move_task.py moves comes last in its column, although it     *)
(* counts and moves in two transactions (move_task.py:22), unless another   *)
(* card entered the column in between.                                      *)
CliMovesLast ==
    [][\A t \in Task :
        LET others == In(cli.status) \ {t}
        IN CliMove(t) /\ column[t] # "ABSENT" /\ others \subseteq cli.counted
           => Ahead(t)' = others]_vars

(* A task waits for ever in OPEN only if it is overtaken again and again, or *)
(* if nobody ever confirms a stop that blocks the queue (claim,             *)
(* specs/board.md:198): the queue itself starves nobody.                    *)
QueueServes ==
    \A t \in Task :
        /\ <>[](column[t] = "OPEN" /\ t \notin held)
        /\ []<>~blocked
        => []<><<Overtaken(t)>>_vars

=============================================================================
