-------------------------- MODULE BoardLiveProofs ---------------------------
(* Theorems about BoardLive, for any requests and bounds: neither an event  *)
(* of the stream nor the snapshot that a drag put off is ever stale.        *)
EXTENDS BoardLive, TLAPS

-----------------------------------------------------------------------------
(* The invariant. *)

\* A snapshot is put off only while a card is dragged, and a drag ends.
PutOff == (pending # None => dragging) /\ (dragging => dragEnd)

\* A stream that is not open yet has sent nothing; no board and
\* nothing put off without a stream.
Unopened ==
    /\ \A s \in Source : s > source => wire[s] = <<>>
    /\ source = 0 => shown = None /\ pending = None

\* Responses are of the present or the past.
Answered ==
    \A r \in Request :
        /\ request[r] = "answered" => answer[r] # None
        /\ answer[r] # None => answer[r] <= db

\* The events of one stream are in order, and none is of the future.
InOrder(events, now) ==
    /\ \A i \in 1..Len(events) : events[i] <= now
    /\ \A i, j \in 1..Len(events) : i <= j => events[i] <= events[j]

NotAfter(v, events) == v # None => \A i \in 1..Len(events) : v <= events[i]

\* What the board shows, then what a drag put off, then the events that are on
\* their way, then the database: each as new as the one before it.
Ordered ==
    /\ shown # None => shown <= db
    /\ pending # None => pending <= db
    /\ shown # None /\ pending # None => shown <= pending
    /\ source # 0 =>
         /\ InOrder(wire[source], db)
         /\ NotAfter(shown, wire[source]) /\ NotAfter(pending, wire[source])

IInv == TypeOK /\ PutOff /\ Unopened /\ Answered /\ Ordered

-----------------------------------------------------------------------------
(* Streams. *)

LEMMA NumberTypes ==
    ASSUME TypeOK
    PROVE  /\ db \in Nat /\ source \in Nat
           /\ shown # None => shown \in Nat
           /\ pending # None => pending \in Nat
           /\ \A r \in Request : answer[r] # None => answer[r] \in Nat
           /\ \A s \in Source : wire[s] \in Seq(Version) /\ s \in Nat
           /\ source # 0 => source \in Source
<1>1. Version \subseteq Nat
  BY BoundsAssumption DEF Version
<1>2. db \in Nat /\ (shown # None => shown \in Nat) /\ (pending # None => pending \in Nat)
  BY <1>1 DEF TypeOK
<1>3. \A r \in Request : answer[r] # None => answer[r] \in Nat
  BY <1>1 DEF TypeOK
<1>4. \A s \in Source : wire[s] \in Seq(Version)
  BY DEF TypeOK
<1>5. source \in 0..MaxSource
  BY DEF TypeOK
<1>6. /\ source \in Nat /\ (source # 0 => source \in Source)
      /\ \A s \in Source : s \in Nat
  BY <1>5, BoundsAssumption DEF Source
<1>7. QED
  BY <1>2, <1>3, <1>4, <1>6

LEMMA EventArrives ==
    ASSUME NEW events \in Seq(Version), NEW now \in Version, InOrder(events, now),
           NEW v, v # None => v \in Nat /\ v <= now, NotAfter(v, events)
    PROVE  /\ InOrder(Append(events, now), now)
           /\ NotAfter(v, Append(events, now))
<1>1. \A i \in 1..Len(Append(events, now)) :
         Append(events, now)[i] = IF i <= Len(events) THEN events[i] ELSE now
  OBVIOUS
<1>2. now \in Nat /\ \A i \in 1..Len(events) : events[i] \in Nat
  BY BoundsAssumption DEF Version
<1>3. Len(Append(events, now)) = Len(events) + 1 /\ Len(events) \in Nat
  OBVIOUS
<1>4. QED
  BY <1>1, <1>2, <1>3 DEF InOrder, NotAfter

LEMMA EventTaken ==
    ASSUME NEW events \in Seq(Version), events # <<>>, NEW now \in Version, InOrder(events, now)
    PROVE  /\ Head(events) \in Nat /\ Head(events) <= now
           /\ InOrder(Tail(events), now) /\ NotAfter(Head(events), Tail(events))
           /\ \A v : NotAfter(v, events) =>
                NotAfter(v, Tail(events)) /\ (v # None => v <= Head(events))
<1>1. Len(events) \in Nat /\ Len(events) # 0 /\ Len(Tail(events)) = Len(events) - 1
  OBVIOUS
<1>2. Head(events) = events[1] /\ \A i \in 1..Len(Tail(events)) : Tail(events)[i] = events[i + 1]
  OBVIOUS
<1>3. now \in Nat /\ \A i \in 1..Len(events) : events[i] \in Nat
  BY BoundsAssumption DEF Version
<1>4. QED
  BY <1>1, <1>2, <1>3 DEF InOrder, NotAfter
-----------------------------------------------------------------------------
(* The invariant is kept, action by action. *)

LEMMA TypeStep == ASSUME TypeOK, [Next]_vars PROVE TypeOK'
<1> USE BoundsAssumption DEF TypeOK
<1>1. CASE Change
  BY <1>1 DEF Change, Version
<1>2. CASE DragStart
  BY <1>2 DEF DragStart
<1>3. CASE DragEnd
  BY <1>3 DEF DragEnd
<1>4. ASSUME NEW v \in Version, Load(v) PROVE TypeOK'
  <2>1. source' \in 0..MaxSource
    BY <1>4 DEF Load, Render, Connect
  <2>2. QED
    BY <1>4, <2>1 DEF Load, Render
<1>5. ASSUME NEW r \in Request, Serve(r) PROVE TypeOK'
  BY <1>5 DEF Serve
<1>6. ASSUME NEW r \in Request, Send(r) PROVE TypeOK'
  BY <1>6 DEF Send
<1>7. ASSUME NEW r \in Request, Respond(r) PROVE TypeOK'
  <2>1. source' \in 0..MaxSource
    BY <1>7 DEF Respond, Render, Connect
  <2>2. QED
    BY <1>7, <2>1 DEF Respond, Render
<1>8. ASSUME NEW r \in Request, Redraw(r) PROVE TypeOK'
  <2>1. source' \in 0..MaxSource
    BY <1>8 DEF Redraw, Render, Connect
  <2>2. QED
    BY <1>8, <2>1 DEF Redraw, Render
<1>9. ASSUME NEW s \in Source, PollTasks(s) PROVE TypeOK'
  <2>1. Append(wire[s], db) \in Seq(Version)
    OBVIOUS
  <2>2. QED
    BY <1>9, <2>1 DEF PollTasks
<1>10. ASSUME NEW s \in Source, Lose(s) PROVE TypeOK'
  <2>1. <<>> \in Seq(Version)
    OBVIOUS
  <2>2. QED
    BY <1>10, <2>1 DEF Lose
<1>11. ASSUME NEW s \in Source, Deliver(s) PROVE TypeOK'
  <2>1. wire[s] \in Seq(Version) /\ wire[s] # <<>>
    BY <1>11 DEF Deliver
  <2>2. Tail(wire[s]) \in Seq(Version) /\ Head(wire[s]) \in Version
    BY <2>1
  <2>3. wire' \in [Source -> Seq(Version)]
    BY <1>11, <2>2 DEF Deliver
  <2>4. shown' \in Version \cup {None} /\ pending' \in Version \cup {None}
    BY <1>11, <2>2 DEF Deliver, Receive
  <2>5. QED
    BY <1>11, <2>3, <2>4 DEF Deliver
<1>12. CASE UNCHANGED vars
  BY <1>12 DEF vars
<1>13. QED
  BY <1>1, <1>2, <1>3, <1>4, <1>5, <1>6, <1>7, <1>8, <1>9, <1>10, <1>11, <1>12 DEF Next

LEMMA DragStep ==
    ASSUME TypeOK, PutOff, Unopened, Answered, [Next]_vars
    PROVE  PutOff' /\ Unopened' /\ Answered'
<1> USE NumberTypes, NoneAssumption DEF PutOff, Unopened, Answered
<1>1. CASE Change
  BY <1>1 DEF Change
<1>2. CASE DragStart
  BY <1>2 DEF DragStart
<1>3. CASE DragEnd
  BY <1>3 DEF DragEnd
<1>4. ASSUME NEW v \in Version, Load(v) PROVE PutOff' /\ Unopened' /\ Answered'
  <2>1. source' = source + 1 /\ source \in Nat
    BY <1>4 DEF Load, Render, Connect
  <2>2. PutOff' /\ Answered'
    BY <1>4 DEF Load, Render
  <2>3. Unopened'
    BY <1>4, <2>1 DEF Load, Render
  <2>4. QED
    BY <2>2, <2>3
<1>5. ASSUME NEW r \in Request, Serve(r) PROVE PutOff' /\ Unopened' /\ Answered'
  <2>1. PutOff' /\ Unopened'
    BY <1>5 DEF Serve
  <2>2. db <= db' /\ db' \in Nat /\ db' # None
    BY <1>5, BoundsAssumption DEF Serve, Version, TypeOK
  <2>3. ASSUME NEW q \in Request
        PROVE  /\ request'[q] = "answered" => answer'[q] # None
               /\ answer'[q] # None => answer'[q] <= db'
    <3>1. CASE answer' = answer
      BY <1>5, <2>2, <3>1 DEF Serve, TypeOK
    <3>2. CASE answer' = [answer EXCEPT ![r] = db']
      <4>1. answer'[q] = IF q = r THEN db' ELSE answer[q]
        BY <3>2 DEF TypeOK
      <4>2. q # r => request'[q] = request[q]
        BY <1>5 DEF Serve, TypeOK
      <4>3. QED
        BY <2>2, <4>1, <4>2
    <3>3. QED
      BY <1>5, <3>1, <3>2 DEF Serve
  <2>4. QED
    BY <2>1, <2>3
<1>6. ASSUME NEW r \in Request, Send(r) PROVE PutOff' /\ Unopened' /\ Answered'
  BY <1>6 DEF Send, TypeOK
<1>7. ASSUME NEW r \in Request, Respond(r) PROVE PutOff' /\ Unopened' /\ Answered'
  BY <1>7 DEF Respond, Render, Connect, TypeOK
<1>8. ASSUME NEW r \in Request, Redraw(r) PROVE PutOff' /\ Unopened' /\ Answered'
  BY <1>8 DEF Redraw, Render, Connect, TypeOK
<1>9. ASSUME NEW s \in Source, PollTasks(s) PROVE PutOff' /\ Unopened' /\ Answered'
  BY <1>9 DEF PollTasks, TypeOK
<1>10. ASSUME NEW s \in Source, Lose(s) PROVE PutOff' /\ Unopened' /\ Answered'
  BY <1>10 DEF Lose, TypeOK
<1>11. ASSUME NEW s \in Source, Deliver(s) PROVE PutOff' /\ Unopened' /\ Answered'
  <2>1. s <= source
    BY <1>11 DEF Deliver
  <2>2. \A q \in Source : q # s => wire'[q] = wire[q]
    BY <1>11 DEF Deliver, TypeOK
  <2>3. source # 0 /\ source' = source
    BY <1>11, <2>1 DEF Deliver, Source
  <2>4. PutOff' /\ Answered'
    BY <1>11 DEF Deliver, Receive
  <2>5. Unopened'
    BY <2>1, <2>2, <2>3
  <2>6. QED
    BY <2>4, <2>5
<1>12. CASE UNCHANGED vars
  BY <1>12 DEF vars
<1>13. QED
  BY <1>1, <1>2, <1>3, <1>4, <1>5, <1>6, <1>7, <1>8, <1>9, <1>10, <1>11, <1>12 DEF Next

\* A new stream starts with the events to come.
LEMMA StreamOpens ==
    ASSUME IInv, Render
    PROVE  source' \in Source /\ wire'[source'] = <<>> /\ pending' = None /\ db' = db
BY NumberTypes, BoundsAssumption DEF IInv, Unopened, Render, Connect, Source

LEMMA OrderedStep == ASSUME IInv, [Next]_vars PROVE Ordered'
<1> USE NumberTypes, NoneAssumption DEF IInv, Ordered
<1>e. \A v, n : InOrder(<<>>, n) /\ NotAfter(v, <<>>)
  BY DEF InOrder, NotAfter
<1>d. ASSUME source # 0, NEW now \in Nat, db <= now PROVE InOrder(wire[source], now)
  BY <1>d, BoundsAssumption DEF InOrder, Version
<1>1. CASE Change
  BY <1>1, <1>d DEF Change
<1>2. CASE DragStart
  BY <1>2 DEF DragStart
<1>3. CASE DragEnd
  BY <1>3 DEF DragEnd, NotAfter
<1>4. ASSUME NEW v \in Version, Load(v) PROVE Ordered'
  BY <1>4, <1>e, StreamOpens DEF Load
<1>5. ASSUME NEW r \in Request, Serve(r) PROVE Ordered'
  <2>1. db <= db' /\ db' \in Nat
    BY <1>5, BoundsAssumption DEF Serve, Version
  <2>2. QED
    BY <1>5, <1>d, <2>1 DEF Serve
<1>6. ASSUME NEW r \in Request, Send(r) PROVE Ordered'
  BY <1>6 DEF Send
<1>7. ASSUME NEW r \in Request, Respond(r) PROVE Ordered'
  BY <1>7, <1>e, StreamOpens DEF Respond, Answered
<1>8. ASSUME NEW r \in Request, Redraw(r) PROVE Ordered'
  BY <1>8, <1>e, StreamOpens DEF Redraw
<1>9. ASSUME NEW s \in Source, PollTasks(s) PROVE Ordered'
  <2>1. s = source /\ source \in Source /\ wire'[source] = Append(wire[source], db) /\ source # 0
    BY <1>9 DEF PollTasks, TypeOK, Source
  <2>2. db \in Version /\ wire[source] \in Seq(Version)
    BY <2>1 DEF TypeOK
  <2>3. /\ InOrder(Append(wire[source], db), db)
        /\ NotAfter(shown, Append(wire[source], db))
        /\ NotAfter(pending, Append(wire[source], db))
    BY <2>1, <2>2, EventArrives
  <2>4. QED
    BY <1>9, <2>1, <2>3 DEF PollTasks
<1>10. ASSUME NEW s \in Source, Lose(s) PROVE Ordered'
  <2>1. s = source /\ wire'[source] = <<>>
    BY <1>10 DEF Lose, TypeOK
  <2>2. QED
    BY <1>10, <1>e, <2>1 DEF Lose
<1>11. ASSUME NEW s \in Source, Deliver(s) PROVE Ordered'
  <2>1. CASE s # source
    BY <1>11, <2>1 DEF Deliver, TypeOK
  <2>2. CASE s = source
    <3> DEFINE events == wire[source]
               now == Head(events)
    <3>1. /\ events # <<>> /\ wire'[source] = Tail(events) /\ source # 0
          /\ events \in Seq(Version) /\ db \in Version
          /\ UNCHANGED <<db, source, dragging>>
      BY <1>11, <2>2 DEF Deliver, TypeOK, Source
    <3>2. /\ now \in Nat /\ now <= db /\ InOrder(Tail(events), db)
          /\ NotAfter(now, Tail(events))
          /\ NotAfter(shown, Tail(events)) /\ (shown # None => shown <= now)
          /\ NotAfter(pending, Tail(events))
      BY <3>1, EventTaken
    <3>3. \/ dragging /\ pending' = now /\ shown' = shown
          \/ pending = None /\ pending' = None /\ shown' = now
      BY <1>11, <2>2 DEF Deliver, Receive, PutOff
    <3> HIDE DEF events, now
    <3>4. QED
      BY <3>1, <3>2, <3>3
  <2>3. QED
    BY <2>1, <2>2
<1>12. CASE UNCHANGED vars
  BY <1>12 DEF vars
<1>13. QED
  BY <1>1, <1>2, <1>3, <1>4, <1>5, <1>6, <1>7, <1>8, <1>9, <1>10, <1>11, <1>12 DEF Next

LEMMA Initially == Init => IInv
<1> SUFFICES ASSUME Init PROVE IInv
  OBVIOUS
<1>1. 0 \in Version /\ 0 \in 0..MaxSource /\ 0 \in 0..MaxLoss /\ <<>> \in Seq(Version)
  BY BoundsAssumption DEF Version
<1>2. TypeOK
  BY <1>1 DEF Init, TypeOK
<1>3. PutOff /\ Unopened /\ Answered /\ Ordered
  BY DEF Init, PutOff, Unopened, Answered, Ordered
<1>4. QED
  BY <1>2, <1>3 DEF IInv

LEMMA Always == Spec => []IInv
<1>1. IInv /\ [Next]_vars => IInv'
  BY TypeStep, DragStep, OrderedStep DEF IInv
<1>2. QED
  BY <1>1, Initially, PTL DEF Spec

(* Every reachable state of the page and its streams is well typed.         *)
THEOREM TypeCorrect == Spec => []TypeOK
<1>1. IInv => TypeOK
  BY DEF IInv
<1>2. QED
  BY <1>1, Always, PTL

-----------------------------------------------------------------------------
(* What a step shows. *)

LEMMA ShownStep ==
    ASSUME IInv, [Next]_vars, shown' # shown
    PROVE  \/ source' = source + 1 /\ ~dragging'
           \/ source' = source /\ source # 0 /\ ~dragging /\ wire[source] # <<>>
              /\ shown' = Head(wire[source])
           \/ source' = source /\ ~dragging' /\ pending # None /\ shown' = pending
<1>1. CASE Change \/ DragStart
  BY <1>1 DEF Change, DragStart
<1>2. CASE DragEnd
  BY <1>2 DEF DragEnd
<1>3. ASSUME NEW v \in Version, Load(v) PROVE source' = source + 1 /\ ~dragging'
  BY <1>3 DEF Load, Render, Connect
<1>4. ASSUME NEW r \in Request, Serve(r) \/ Send(r) PROVE FALSE
  BY <1>4 DEF Serve, Send
<1>5. ASSUME NEW r \in Request, Respond(r) \/ Redraw(r)
      PROVE  source' = source + 1 /\ ~dragging'
  BY <1>5 DEF Respond, Redraw, Render, Connect
<1>6. ASSUME NEW s \in Source, PollTasks(s) \/ Lose(s) PROVE FALSE
  BY <1>6 DEF PollTasks, Lose
<1>7. ASSUME NEW s \in Source, Deliver(s)
      PROVE  source' = source /\ source # 0 /\ ~dragging /\ wire[source] # <<>>
             /\ shown' = Head(wire[source])
  BY <1>7 DEF Deliver, Receive, Source
<1>8. CASE UNCHANGED vars
  BY <1>8 DEF vars
<1>9. QED
  BY <1>1, <1>2, <1>3, <1>4, <1>5, <1>6, <1>7, <1>8 DEF Next

(* Events and the snapshot put off by a drag never take the board back:     *)
(* only a late response does, and it opens a new stream (receiveTasks and   *)
(* refresh of board-live.js, dragend of board.js).                          *)
THEOREM OnlyAnswersGoBack == Spec => OnlyLateAnswersGoBack
<1>1. IInv /\ [Next]_vars => [shown # None /\ shown' < shown => source' # source]_vars
  <2> SUFFICES ASSUME IInv, [Next]_vars, shown # None, source' = source, shown' < shown
               PROVE  FALSE
    OBVIOUS
  <2> USE NumberTypes DEF IInv, Ordered
  <2>1. source \in Nat /\ shown \in Nat
    OBVIOUS
  <2>2. CASE shown' = shown
    BY <2>1, <2>2
  <2>3. CASE source # 0 /\ wire[source] # <<>> /\ shown' = Head(wire[source])
    <3>1. shown <= shown' /\ shown' \in Nat
      BY <2>3, EventTaken DEF TypeOK
    <3>2. QED
      BY <2>1, <3>1
  <2>4. CASE pending # None /\ shown' = pending
    <3>1. shown <= pending /\ pending \in Nat
      BY <2>4
    <3>2. QED
      BY <2>1, <2>4, <3>1
  <2>5. QED
    BY <2>1, <2>2, <2>3, <2>4, ShownStep
<1>2. QED
  BY <1>1, Always, PTL DEF Spec, OnlyLateAnswersGoBack

(* While a card is dragged the board stays as it is (receiveTasks).         *)
THEOREM DragUndisturbed == Spec => DragIsUndisturbed
<1>1. IInv /\ [Next]_vars => [dragging /\ dragging' => shown' = shown]_vars
  BY ShownStep
<1>2. QED
  BY <1>1, Always, PTL DEF Spec, DragIsUndisturbed

=============================================================================
