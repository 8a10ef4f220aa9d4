----------------------------- MODULE BoardLive ------------------------------
(***************************************************************************)
(* How an open board follows the database: the event stream of the server   *)
(* (board_events.py), the EventSource of the browser (board-live.js) and    *)
(* the board that also takes the responses of its own requests (board.js).  *)
(*                                                                         *)
(* What the board shows is a version of the database: versions are counted, *)
(* contents left out.  Responses and events may be delayed arbitrarily and  *)
(* overtake each other; the stream may break at any time.                   *)
(***************************************************************************)
EXTENDS Naturals, Sequences

CONSTANTS
    Request,     \* requests of this browser (move, review, archive, save...)
    MaxVersion,  \* bound: changes of the database
    MaxSource,   \* bound: EventSource objects the browser creates
    MaxLoss,     \* bound: broken connections
    None         \* nothing sent, nothing pending, no version

ASSUME BoundsAssumption ==
    MaxVersion \in Nat /\ MaxSource \in Nat /\ MaxLoss \in Nat

Version == 0..MaxVersion
Source == 1..MaxSource

ASSUME NoneAssumption == None \notin Version

VARIABLES
    db,        \* the version of the database
    source,    \* the browser's current EventSource; 0 before the first
    previous,  \* per stream: what task_events sent last
    wire,      \* per stream: the events on their way
    shown,     \* the version the board shows
    pending,   \* pendingSnapshot
    dragging,  \* is a card being dragged?
    dragEnd,   \* is the event dragend still to come?
    request,   \* per request: not used yet, at the server, answered, over
    answer,    \* per request: the version its response carries
    losses     \* broken connections so far

vars == <<db, source, previous, wire, shown, pending, dragging, dragEnd,
          request, answer, losses>>

TypeOK ==
    /\ db \in Version
    /\ source \in 0..MaxSource
    /\ previous \in [Source -> Version \cup {None}]
    /\ wire \in [Source -> Seq(Version)]
    /\ shown \in Version \cup {None}
    /\ pending \in Version \cup {None}
    /\ dragging \in BOOLEAN /\ dragEnd \in BOOLEAN
    /\ request \in [Request -> {"unused", "sent", "answered", "failed", "over"}]
    /\ answer \in [Request -> Version \cup {None}]
    /\ losses \in 0..MaxLoss

Init ==
    /\ db = 0 /\ source = 0 /\ losses = 0
    /\ previous = [s \in Source |-> None]
    /\ wire = [s \in Source |-> <<>>]
    /\ shown = None /\ pending = None
    /\ dragging = FALSE /\ dragEnd = FALSE
    /\ request = [r \in Request |-> "unused"]
    /\ answer = [r \in Request |-> None]

-----------------------------------------------------------------------------
(* The server. *)

\* Other browsers and the executors change the board.
Change ==
    /\ db < MaxVersion /\ db' = db + 1
    /\ UNCHANGED <<source, previous, wire, shown, pending, dragging, dragEnd,
                   request, answer, losses>>

\* move_task and the like answer with the tasks as of their own read.
Serve(r) ==
    /\ request[r] = "sent"
    /\ \/ /\ db' \in {db, db + 1} \cap Version
          /\ request' = [request EXCEPT ![r] = "answered"]
          /\ answer' = [answer EXCEPT ![r] = db']
       \/ /\ UNCHANGED <<db, answer>>
          /\ request' = [request EXCEPT ![r] = "failed"]
    /\ UNCHANGED <<source, previous, wire, shown, pending, dragging, dragEnd, losses>>

\* One round of task_events: only a changed snapshot is sent.
PollTasks(s) ==
    /\ s = source /\ previous[s] # db
    /\ previous' = [previous EXCEPT ![s] = db]
    /\ wire' = [wire EXCEPT ![s] = Append(@, db)]
    /\ UNCHANGED <<db, source, shown, pending, dragging, dragEnd, request,
                   answer, losses>>

\* The stream breaks; the EventSource connects again by itself.
Lose_Silently(s) ==
    /\ s = source /\ losses < MaxLoss
    /\ wire' = [wire EXCEPT ![s] = <<>>] /\ losses' = losses + 1
    /\ UNCHANGED <<db, source, previous, shown, pending, dragging, dragEnd,
                   request, answer>>
Lose(s) ==
    /\ s = source /\ losses < MaxLoss
    /\ wire' = [wire EXCEPT ![s] = <<>>]
    /\ previous' = [previous EXCEPT ![s] = None]
    /\ losses' = losses + 1
    /\ UNCHANGED <<db, source, shown, pending, dragging, dragEnd, request, answer>>

-----------------------------------------------------------------------------
(* The browser. *)

\* boardLive.refresh: the old source is closed, a new one asks for a snapshot.
Connect == source < MaxSource /\ source' = source + 1

\* receiveTasks
Receive_Dragging(v) ==
    shown' = v /\ UNCHANGED pending
Receive(v) ==
    IF dragging THEN pending' = v /\ UNCHANGED shown
    ELSE shown' = v /\ UNCHANGED pending

\* An event of a source that was replaced meanwhile is ignored.
Deliver(s) ==
    /\ wire[s] # <<>>
    /\ wire' = [wire EXCEPT ![s] = Tail(@)]
    /\ IF s = source THEN Receive(Head(wire[s])) ELSE UNCHANGED <<shown, pending>>
    /\ UNCHANGED <<db, source, previous, dragging, dragEnd, request, answer, losses>>

\* render() with refresh: the cards are replaced, a dragged one with them.
Render_KeepsPending ==
    /\ Connect /\ UNCHANGED pending /\ dragging' = FALSE
    /\ UNCHANGED <<db, previous, wire, dragEnd, losses>>
Render ==
    /\ Connect /\ pending' = None /\ dragging' = FALSE
    /\ UNCHANGED <<db, previous, wire, dragEnd, losses>>

\* The page loads: GET /api/board/tasks, then the stream.
Load(v) ==
    /\ source = 0 /\ v <= db
    /\ shown' = v /\ Render
    /\ UNCHANGED <<request, answer>>

Send(r) ==
    /\ source > 0 /\ request[r] = "unused"
    /\ request' = [request EXCEPT ![r] = "sent"]
    /\ UNCHANGED <<db, source, previous, wire, shown, pending, dragging,
                   dragEnd, answer, losses>>

\* move, reviewTask, archiveTask; for save, the response of its load().
Respond(r) ==
    /\ request[r] = "answered" /\ request' = [request EXCEPT ![r] = "over"]
    /\ shown' = answer[r] /\ Render
    /\ UNCHANGED answer

\* A refused or failed move draws the board anew; deleteTask only takes its
\* own card away.
Redraw(r) ==
    /\ request[r] \in {"answered", "failed"}
    /\ request' = [request EXCEPT ![r] = "over"]
    /\ Render
    /\ UNCHANGED <<shown, answer>>

DragStart ==
    /\ source > 0 /\ ~dragEnd
    /\ dragging' = TRUE /\ dragEnd' = TRUE
    /\ UNCHANGED <<db, source, previous, wire, shown, pending, request, answer, losses>>

\* dragend reaches its card even if the card was replaced meanwhile.
DragEnd ==
    /\ dragEnd /\ dragEnd' = FALSE /\ dragging' = FALSE
    /\ pending' = None
    /\ shown' = IF pending = None THEN shown ELSE pending
    /\ UNCHANGED <<db, source, previous, wire, request, answer, losses>>

-----------------------------------------------------------------------------

Next ==
    \/ Change \/ DragStart \/ DragEnd
    \/ \E v \in Version : Load(v)
    \/ \E r \in Request : Serve(r) \/ Send(r) \/ Respond(r) \/ Redraw(r)
    \/ \E s \in Source : PollTasks(s) \/ Lose(s) \/ Deliver(s)

Spec == Init /\ [][Next]_vars

\* The page does load, the stream runs, and nobody drags a card for ever.
FairSpec ==
    /\ Spec /\ WF_vars(DragEnd) /\ WF_vars(\E v \in Version : Load(v))
    /\ \A s \in Source : WF_vars(PollTasks(s)) /\ WF_vars(Deliver(s))

-----------------------------------------------------------------------------
(* Properties. *)

(* The board goes back to an older version only through a response of its   *)
(* own that came late, and then asks for a fresh snapshot in the same step: *)
(* neither an event nor the snapshot put off by a drag is ever stale.       *)
OnlyLateAnswersGoBack ==
    [][shown # None /\ shown' < shown => source' # source]_vars

(* While a card is dragged the board under it does not change, unless a     *)
(* request of the same browser is answered (specs/board.md).                *)
DragIsUndisturbed ==
    [][dragging /\ dragging' => shown' = shown]_vars

(* When the database rests the board shows it, whatever was lost, delayed,  *)
(* refused or dragged before (specs/board.md).                              *)
BoardFollows ==
    \A v \in Version :
        <>[](db = v) => <>[](dragging \/ shown = v)

=============================================================================
