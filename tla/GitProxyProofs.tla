--------------------------- MODULE GitProxyProofs ---------------------------
(***************************************************************************)
(* Proofs about GitProxy for any number of requests and repositories: the   *)
(* lock of a repository orders its connections and pumps, and the client is *)
(* answered as ProxyAnswer says.                                            *)
(***************************************************************************)
EXTENDS GitProxy, SequenceTheorems, TLAPS

-----------------------------------------------------------------------------
(* Queues. *)

LEMMA RemoveAtSeq ==
    ASSUME NEW S, NEW s \in Seq(S), NEW i \in DOMAIN s
    PROVE  /\ RemoveAt(s, i) \in Seq(S)
           /\ Len(RemoveAt(s, i)) = Len(s) - 1
           /\ \A j \in 1..Len(s) - 1 :
                RemoveAt(s, i)[j] = IF j < i THEN s[j] ELSE s[j + 1]
<1> DEFINE a == SubSeq(s, 1, i - 1)
           b == SubSeq(s, i + 1, Len(s))
<1>1. i \in 1..Len(s) /\ Len(s) \in Nat
  OBVIOUS
<1>2. a \in Seq(S) /\ Len(a) = i - 1 /\ \A j \in 1..i - 1 : a[j] = s[j]
  BY <1>1
<1>3. /\ b \in Seq(S) /\ Len(b) = Len(s) - i
      /\ \A j \in 1..Len(s) - i : b[j] = s[i + j]
  BY <1>1
<1> HIDE DEF a, b
<1>4. /\ a \o b \in Seq(S) /\ Len(a \o b) = Len(a) + Len(b)
      /\ \A j \in 1..Len(a) + Len(b) :
           (a \o b)[j] = IF j <= Len(a) THEN a[j] ELSE b[j - Len(a)]
  <2>1. a \in Seq(S) /\ b \in Seq(S)
    BY <1>2, <1>3
  <2>2. QED
    BY <2>1
<1>5. ASSUME NEW j \in 1..Len(s) - 1
      PROVE  (a \o b)[j] = IF j < i THEN s[j] ELSE s[j + 1]
  <2>1. Len(a) + Len(b) = Len(s) - 1 /\ Len(a) = i - 1 /\ i \in Nat
    BY <1>1, <1>2, <1>3
  <2>2. CASE j < i
    <3>1. (a \o b)[j] = a[j] /\ j \in 1..i - 1
      BY <1>4, <2>1, <2>2
    <3>2. QED
      BY <1>2, <2>2, <3>1
  <2>3. CASE ~(j < i)
    <3>1. j - (i - 1) \in 1..Len(s) - i /\ i + (j - (i - 1)) = j + 1
      BY <1>1, <2>3
    <3>2. (a \o b)[j] = b[j - (i - 1)]
      <4>1. j \in 1..Len(a) + Len(b)
        BY <2>1
      <4>2. ~(j <= Len(a))
        BY <1>1, <2>1, <2>3
      <4>3. (a \o b)[j] = b[j - Len(a)]
        BY <1>4, <4>1, <4>2, Zenon
      <4>4. QED
        BY <2>1, <4>3, Zenon
    <3>3. b[j - (i - 1)] = s[j + 1]
      BY <1>3, <3>1
    <3>4. QED
      BY <2>3, <3>2, <3>3
  <2>4. QED
    BY <2>2, <2>3
<1>6. Len(a \o b) = Len(s) - 1
  BY <1>1, <1>2, <1>3, <1>4
<1>7. QED
  BY <1>4, <1>5, <1>6 DEF RemoveAt, a, b

\* Joining a queue at its end, and leaving it from any place.
LEMMA AppendKeeps ==
    ASSUME NEW S, NEW s \in Seq(S), NEW r \in S, IsInjective(s), r \notin ToSet(s)
    PROVE  /\ Append(s, r) \in Seq(S) /\ IsInjective(Append(s, r))
           /\ ToSet(Append(s, r)) = ToSet(s) \cup {r}
           /\ s # <<>> => Append(s, r) # <<>> /\ Head(Append(s, r)) = Head(s)
<1>1. /\ Append(s, r) \in Seq(S) /\ Len(Append(s, r)) = Len(s) + 1
      /\ \A i \in 1..Len(s) : Append(s, r)[i] = s[i]
      /\ Append(s, r)[Len(s) + 1] = r
  OBVIOUS
<1>2. IsInjective(Append(s, r))
  BY <1>1 DEF IsInjective, ToSet
<1>3. ToSet(Append(s, r)) = ToSet(s) \cup {r}
  BY <1>1 DEF ToSet
<1>4. s # <<>> => Append(s, r) # <<>> /\ Head(Append(s, r)) = Head(s)
  BY <1>1
<1>5. QED
  BY <1>1, <1>2, <1>3, <1>4

LEMMA RemoveKeeps ==
    ASSUME NEW S, NEW s \in Seq(S), NEW i \in DOMAIN s, IsInjective(s)
    PROVE  /\ RemoveAt(s, i) \in Seq(S) /\ IsInjective(RemoveAt(s, i))
           /\ ToSet(RemoveAt(s, i)) = ToSet(s) \ {s[i]}
           /\ Head(s) # s[i] =>
                RemoveAt(s, i) # <<>> /\ Head(RemoveAt(s, i)) = Head(s)
<1> DEFINE t == RemoveAt(s, i)
<1>1. /\ t \in Seq(S) /\ Len(t) = Len(s) - 1 /\ i \in 1..Len(s)
      /\ \A j \in 1..Len(s) - 1 : t[j] = IF j < i THEN s[j] ELSE s[j + 1]
  BY RemoveAtSeq
<1>2. DOMAIN t = 1..Len(s) - 1 /\ DOMAIN s = 1..Len(s) /\ Len(s) \in Nat
  BY <1>1
<1> HIDE DEF t
<1> DEFINE From(n) == IF n < i THEN n ELSE n + 1
<1>3. \A n \in DOMAIN t : From(n) \in (DOMAIN s) \ {i} /\ t[n] = s[From(n)]
  BY <1>1, <1>2
<1>4. \A m, n \in DOMAIN t : From(m) = From(n) => m = n
  BY <1>2
<1> HIDE DEF From
<1>5. IsInjective(t)
  BY <1>3, <1>4 DEF IsInjective
<1>6. ToSet(t) = ToSet(s) \ {s[i]}
  <2>1. ASSUME NEW j \in DOMAIN t PROVE t[j] \in ToSet(s) \ {s[i]}
    <3>1. i \in DOMAIN s /\ s[From(j)] # s[i]
      BY <1>1, <1>2, <1>3 DEF IsInjective
    <3>2. QED
      BY <1>3, <3>1 DEF ToSet
  <2>2. ASSUME NEW j \in DOMAIN s, s[j] # s[i] PROVE s[j] \in ToSet(t)
    <3>1. CASE j < i
      BY <1>1, <1>2, <3>1 DEF ToSet
    <3>2. CASE j > i
      <4>1. j - 1 \in DOMAIN t /\ t[j - 1] = s[j]
        BY <1>1, <1>2, <3>2
      <4>2. QED
        BY <4>1 DEF ToSet
    <3>3. QED
      BY <1>2, <2>2, <3>1, <3>2
  <2>3. QED
    BY <2>1, <2>2 DEF ToSet
<1>7. Head(s) # s[i] => t # <<>> /\ Head(t) = Head(s)
  BY <1>1, <1>2
<1>8. QED
  BY <1>1, <1>5, <1>6, <1>7 DEF t

-----------------------------------------------------------------------------
(* Types. *)

Messages == {"start", "reject", "error", "end"}
Act(r) ==
    \/ Refuse(r) \/ Arrive(r) \/ Acquire(r)
    \/ Accepted(r) \/ Rejected(r) \/ HttpsEnds(r)
    \/ Dial(r) \/ Connected(r) \/ Collect(r)
    \/ Packet(r) \/ Flush(r) \/ Pump(r) \/ Data(r) \/ Eof(r)
    \/ Joined(r) \/ Succeeded(r) \/ EndResponse(r) \/ Leave(r)
    \/ Fail(r) \/ Strike(r) \/ Unwind(r) \/ Reply(r)

LEMMA SendTypes ==
    ASSUME TypeOK, NEW r \in Request, NEW m \in Seq(Messages), Send(r, m)
    PROVE  /\ wire' \in [Request -> Seq(Messages)]
           /\ wire'[r] = wire[r] \o m
           /\ \A v \in Request \ {r} : wire'[v] = wire[v]
<1>1. wire \in [Request -> Seq(Messages)]
  BY DEF TypeOK, Messages
<1>2. wire[r] \o m \in Seq(Messages)
  BY <1>1
<1>3. QED
  BY <1>1, <1>2 DEF Send

LEMMA StartTypes ==
    ASSUME TypeOK, NEW r \in Request, Start(r)
    PROVE  /\ wire' \in [Request -> Seq(Messages)]
           /\ wire'[r] = IF Started(r) THEN wire[r] ELSE wire[r] \o <<"start">>
           /\ \A v \in Request \ {r} : wire'[v] = wire[v]
<1>1. <<>> \in Seq(Messages) /\ <<"start">> \in Seq(Messages)
  BY DEF Messages
<1>2. wire[r] \o <<>> = wire[r]
  BY DEF TypeOK
<1>3. CASE Started(r)
  BY <1>1, <1>2, <1>3, SendTypes DEF Start
<1>4. CASE ~Started(r)
  BY <1>1, <1>4, SendTypes DEF Start
<1>5. QED
  BY <1>3, <1>4

\* What a step of one request leaves alone, the queues apart.
Alone(r) ==
    \A v \in Request \ {r} :
        /\ pc'[v] = pc[v] /\ kind'[v] = kind[v] /\ cause'[v] = cause[v]
        /\ pump'[v] = pump[v] /\ wire'[v] = wire[v] /\ over'[v] = over[v]
        /\ line'[v] = line[v]

LEMMA WireStep ==
    ASSUME TypeOK, NEW r \in Request, Act(r)
    PROVE  /\ wire' \in [Request -> Seq(Messages)]
           /\ \A v \in Request \ {r} : wire'[v] = wire[v]
<1>1. /\ <<"error">> \in Seq(Messages) /\ <<"reject">> \in Seq(Messages)
      /\ <<"end">> \in Seq(Messages) /\ wire \in [Request -> Seq(Messages)]
  BY DEF Messages, TypeOK
<1>2. CASE Refuse(r) \/ Rejected(r) \/ EndResponse(r)
  BY <1>1, <1>2, SendTypes DEF Refuse, Rejected, EndResponse
<1>3. CASE Accepted(r) \/ Packet(r) \/ Data(r) \/ Succeeded(r)
  BY <1>3, StartTypes DEF Accepted, Packet, Data, Succeeded
<1>4. CASE Flush(r) \/ Reply(r)
  BY <1>1, <1>4, StartTypes, SendTypes DEF Flush, Reply
<1>5. CASE \/ Arrive(r) \/ Acquire(r) \/ HttpsEnds(r) \/ Connected(r) \/ Pump(r)
           \/ Dial(r) \/ Collect(r)
           \/ Eof(r) \/ Joined(r) \/ Leave(r) \/ Fail(r) \/ Strike(r) \/ Unwind(r)
  BY <1>1, <1>5 DEF Arrive, Acquire, HttpsEnds, Dial, Connected, Collect, Pump, Eof,
                    Joined, Leave, Fail, Strike, Unwind, Raise
<1>6. QED
  BY <1>2, <1>3, <1>4, <1>5 DEF Act

Pcs == {"new", "wait", "send", "connect", "advertisement", "stream", "join", "status",
        "last", "leave", "unwind", "reply", "done", "failed"}
Causes == {"none", "timeout", "transport", "client"}

\* Everything of TypeOK but the queues and the responses.
Plain ==
    /\ pc \in [Request -> Pcs] /\ kind \in [Request -> Kinds]
    /\ cause \in [Request -> Causes]
    /\ line \in [Request -> {"none", "dialing", "open", "busy"}]
    /\ pump \in [Request -> {"none", "running", "done", "failed"}]
    /\ over \in [Request -> BOOLEAN]

LEMMA PlainStep ==
    ASSUME Plain, NEW r \in Request, Act(r)
    PROVE  Plain'
<1> USE DEF Plain, Pcs, Causes, Go, Transfer
<1>1. NoKind \in Kinds
  BY DEF NoKind, Kinds
<1>2. CASE Refuse(r) \/ Arrive(r)
  BY <1>2 DEF Refuse, Arrive
<1>3. CASE Acquire(r)
  BY <1>3 DEF Acquire
<1>4. CASE Accepted(r) \/ Rejected(r) \/ HttpsEnds(r)
  BY <1>4 DEF Accepted, Rejected, HttpsEnds
<1>5. CASE \/ Dial(r) \/ Connected(r) \/ Collect(r) \/ Packet(r) \/ Data(r) \/ Eof(r)
           \/ Joined(r) \/ EndResponse(r)
  BY <1>5 DEF Dial, Connected, Collect, Packet, Data, Eof, Joined, EndResponse
<1>6. CASE Flush(r)
  BY <1>6 DEF Flush
<1>7. CASE Pump(r)
  BY <1>7 DEF Pump
<1>8. CASE Succeeded(r)
  BY <1>8 DEF Succeeded
<1>9. CASE Leave(r)
  BY <1>1, <1>9 DEF Leave, CloseLine, Closed
<1>10. CASE Unwind(r)
  BY <1>1, <1>10 DEF Unwind, CloseLine, Closed
<1>11. ASSUME NEW e \in Causes, Raise(r, e) PROVE Plain'
  BY <1>11 DEF Raise
<1>12. CASE Fail(r) \/ Strike(r)
  BY <1>11, <1>12 DEF Fail, Strike
<1>13. CASE Reply(r)
  BY <1>13 DEF Reply
<1>14. QED
  BY <1>2, <1>3, <1>4, <1>5, <1>6, <1>7, <1>8, <1>9, <1>10, <1>12, <1>13 DEF Act

LEMMA AloneStep ==
    ASSUME TypeOK, NEW r \in Request, Act(r)
    PROVE  Alone(r)
<1>1. /\ \A v \in Request \ {r} : wire'[v] = wire[v]
      /\ Plain
  BY WireStep DEF TypeOK, Plain, Pcs, Causes
<1> SUFFICES \A v \in Request \ {r} :
                /\ pc'[v] = pc[v] /\ kind'[v] = kind[v] /\ cause'[v] = cause[v]
                /\ pump'[v] = pump[v] /\ over'[v] = over[v]
                /\ line'[v] = line[v]
  BY <1>1 DEF Alone
<1> USE <1>1 DEF Plain, Go, Transfer
<1>2. CASE Refuse(r) \/ Arrive(r)
  BY <1>2 DEF Refuse, Arrive
<1>3. CASE Acquire(r)
  BY <1>3 DEF Acquire
<1>4. CASE Accepted(r) \/ Rejected(r) \/ HttpsEnds(r)
  BY <1>4 DEF Accepted, Rejected, HttpsEnds
<1>5. CASE Dial(r) \/ Connected(r) \/ Collect(r) \/ Packet(r) \/ Data(r) \/ Eof(r)
  BY <1>5 DEF Dial, Connected, Collect, Packet, Data, Eof
<1>6. CASE Flush(r)
  BY <1>6 DEF Flush
<1>7. CASE Pump(r) \/ Joined(r) \/ Succeeded(r) \/ EndResponse(r)
  BY <1>7 DEF Pump, Joined, Succeeded, EndResponse
<1>8. CASE Leave(r) \/ Unwind(r)
  BY <1>8 DEF Leave, Unwind, CloseLine, Closed
<1>9. CASE Fail(r) \/ Strike(r)
  BY <1>9 DEF Fail, Strike, Raise
<1>10. CASE Reply(r)
  BY <1>10 DEF Reply
<1>11. QED
  BY <1>2, <1>3, <1>4, <1>5, <1>6, <1>7, <1>8, <1>9, <1>10 DEF Act

-----------------------------------------------------------------------------
(* The lock. *)

Waiting(r) == r \in ToSet(queue[RepoOf[r]])
Working(r) ==
    \/ pc[r] \in {"send", "connect", "advertisement", "stream", "join", "status",
                  "last", "leave"}
    \/ Operating(r)
    \/ line[r] # "none" /\ pc[r] \notin {"reply", "done", "failed"}

\* A request is in its repository's queue from its arrival to the end of its
\* clean-up, and holds the lock while it works.
Place ==
    \A r \in Request :
        /\ Waiting(r) <=> pc[r] \notin {"new", "reply", "done", "failed"}
        /\ Working(r) => Holds(r)

Queues == queue \in [Repo -> Seq(Request)] /\ \A p \in Repo : IsInjective(queue[p])

\* A step of one request leaves the places of the others alone.
Undisturbed(r) ==
    \A v \in Request \ {r} :
        /\ Waiting(v)' <=> Waiting(v)
        /\ Holds(v) => Holds(v)'

LEMMA QueueArrives ==
    ASSUME Queues, NEW r \in Request, ~Waiting(r), Arrive(r)
    PROVE  Queues' /\ Undisturbed(r) /\ Waiting(r)'
<1> DEFINE q == queue[RepoOf[r]]
           new == Append(q, r)
<1>1. RepoOf[r] \in Repo /\ \A v \in Request : RepoOf[v] \in Repo
  BY DEF Repo
<1>2. q \in Seq(Request) /\ IsInjective(q) /\ r \notin ToSet(q)
  BY <1>1 DEF Queues, Waiting
<1>3. /\ new \in Seq(Request) /\ IsInjective(new) /\ ToSet(new) = ToSet(q) \cup {r}
      /\ q # <<>> => new # <<>> /\ Head(new) = Head(q)
  BY <1>2, AppendKeeps
<1>4. /\ queue' = [queue EXCEPT ![RepoOf[r]] = new]
      /\ queue \in [Repo -> Seq(Request)]
  BY DEF Arrive, Queues
<1> HIDE DEF new
<1>5. queue'[RepoOf[r]] = new /\ \A p \in Repo \ {RepoOf[r]} : queue'[p] = queue[p]
  BY <1>1, <1>4
<1>6. Queues'
  BY <1>1, <1>3, <1>4, <1>5 DEF Queues, Repo
<1>7. ASSUME NEW v \in Request \ {r}
      PROVE  (Waiting(v)' <=> Waiting(v)) /\ (Holds(v) => Holds(v)')
  <2>1. CASE RepoOf[v] = RepoOf[r]
    BY <1>3, <1>5, <2>1 DEF Waiting, Holds
  <2>2. CASE RepoOf[v] # RepoOf[r]
    BY <1>1, <1>5, <2>2 DEF Waiting, Holds
  <2>3. QED
    BY <2>1, <2>2
<1>8. QED
  BY <1>3, <1>5, <1>6, <1>7 DEF Undisturbed, Waiting

LEMMA QueueLeaves ==
    ASSUME Queues, NEW r \in Request, Release(r)
    PROVE  Queues' /\ Undisturbed(r) /\ ~Waiting(r)'
<1> DEFINE q == queue[RepoOf[r]]
<1>1. RepoOf[r] \in Repo /\ \A v \in Request : RepoOf[v] \in Repo
  BY DEF Repo
<1>2. PICK i \in DOMAIN q :
        /\ q[i] = r
        /\ queue' = [queue EXCEPT ![RepoOf[r]] = RemoveAt(q, i)]
  BY DEF Release
<1> DEFINE new == RemoveAt(q, i)
<1>3. q \in Seq(Request) /\ IsInjective(q) /\ queue \in [Repo -> Seq(Request)]
  BY <1>1 DEF Queues
<1>4. /\ new \in Seq(Request) /\ IsInjective(new) /\ ToSet(new) = ToSet(q) \ {r}
      /\ Head(q) # r => new # <<>> /\ Head(new) = Head(q)
  BY <1>2, <1>3, RemoveKeeps
<1> HIDE DEF new
<1>5. queue'[RepoOf[r]] = new /\ \A p \in Repo \ {RepoOf[r]} : queue'[p] = queue[p]
  BY <1>1, <1>2, <1>3 DEF new
<1>6. Queues'
  BY <1>1, <1>2, <1>3, <1>4, <1>5 DEF Queues, Repo, new
<1>7. ASSUME NEW v \in Request \ {r}
      PROVE  (Waiting(v)' <=> Waiting(v)) /\ (Holds(v) => Holds(v)')
  <2>1. CASE RepoOf[v] = RepoOf[r]
    BY <1>4, <1>5, <2>1 DEF Waiting, Holds
  <2>2. CASE RepoOf[v] # RepoOf[r]
    BY <1>1, <1>5, <2>2 DEF Waiting, Holds
  <2>3. QED
    BY <2>1, <2>2
<1>8. QED
  BY <1>4, <1>5, <1>6, <1>7 DEF Undisturbed, Waiting

LEMMA QueueStays ==
    ASSUME Queues, NEW r \in Request, UNCHANGED queue
    PROVE  Queues' /\ Undisturbed(r) /\ \A v \in Request : Holds(v)' = Holds(v)
                                                        /\ Waiting(v)' = Waiting(v)
  BY DEF Queues, Undisturbed, Waiting, Holds, Repo

LEMMA HeadWaits == ASSUME Queues, NEW r \in Request, Holds(r) PROVE Waiting(r)
<1>1. queue[RepoOf[r]] \in Seq(Request)
  BY DEF Queues, Repo
<1>2. 1 \in DOMAIN queue[RepoOf[r]] /\ queue[RepoOf[r]][1] = r
  BY <1>1 DEF Holds
<1>3. QED
  BY <1>2 DEF Waiting, ToSet

Ordered == TypeOK /\ Place

LEMMA TypesSplit == TypeOK <=> Plain /\ Queues /\ wire \in [Request -> Seq(Messages)]
  BY DEF TypeOK, Plain, Pcs, Causes, Queues, Messages

\* The places of the others, and what is left to show of a step: the place of
\* the request that takes it.
LEMMA PlaceOfOthers ==
    ASSUME Place, NEW r \in Request, Alone(r), Undisturbed(r),
           Waiting(r)' <=> pc'[r] \notin {"new", "reply", "done", "failed"},
           Working(r)' => Holds(r)'
    PROVE  Place'
<1>1. ASSUME NEW v \in Request \ {r}
      PROVE  /\ Waiting(v)' <=> pc'[v] \notin {"new", "reply", "done", "failed"}
             /\ Working(v)' => Holds(v)'
  BY <1>1 DEF Place, Alone, Undisturbed, Working, Operating
<1>2. QED
  BY <1>1 DEF Place

LEMMA OrderedStep == ASSUME Ordered, NEW r \in Request, Act(r) PROVE Ordered'
<1>1. /\ Plain' /\ wire' \in [Request -> Seq(Messages)] /\ Alone(r)
      /\ Plain /\ Queues /\ Place
  BY PlainStep, WireStep, AloneStep, TypesSplit DEF Ordered
<1>2. /\ Waiting(r) <=> pc[r] \notin {"new", "reply", "done", "failed"}
      /\ Working(r) => Holds(r)
      /\ pc \in [Request -> Pcs] /\ pump \in [Request -> {"none", "running", "done", "failed"}]
  BY <1>1 DEF Place, Plain
<1> SUFFICES /\ Queues' /\ Undisturbed(r)
             /\ Waiting(r)' <=> pc'[r] \notin {"new", "reply", "done", "failed"}
             /\ Working(r)' => Holds(r)'
  BY <1>1, PlaceOfOthers, TypesSplit DEF Ordered, TypeOK, Queues, Plain, Pcs, Causes, Messages, Repo
<1>3. CASE Arrive(r)
  <2>1. pc[r] = "new" /\ pc'[r] = "wait" /\ line' = line /\ pump' = pump
    BY <1>2, <1>3 DEF Arrive, Go
  <2>2. Queues' /\ Undisturbed(r) /\ Waiting(r)'
    BY <1>1, <1>2, <1>3, <2>1, QueueArrives
  <2>3. ~Waiting(r)
    BY <1>2, <2>1
  <2>4. ~Working(r)'
    BY <1>1, <1>2, <2>1, <2>3, HeadWaits DEF Working, Operating
  <2>5. QED
    BY <2>1, <2>2, <2>4
<1>4. CASE Leave(r) \/ Unwind(r)
  <2>1. /\ pc'[r] \in {"done", "reply"} /\ line'[r] # "busy" /\ pump'[r] = "none"
        /\ Release(r)
    BY <1>1, <1>2, <1>4 DEF Leave, Unwind, Go, CloseLine, Closed, Plain
  <2>2. Queues' /\ Undisturbed(r) /\ ~Waiting(r)'
    BY <1>1, <2>1, QueueLeaves
  <2>3. ~Working(r)'
    BY <2>1 DEF Working, Operating
  <2>4. QED
    BY <2>1, <2>2, <2>3
<1>5. CASE ~Arrive(r) /\ ~Leave(r) /\ ~Unwind(r)
  <2> UNCHANGED queue
    BY <1>5 DEF Act, Refuse, Acquire, Accepted, Rejected, HttpsEnds, Dial, Connected,
       Collect, Packet,
       Flush, Pump, Data, Eof, Joined, Succeeded, EndResponse, Fail, Strike, Raise, Reply,
       Transfer
  <2>1. Queues' /\ Undisturbed(r) /\ Holds(r)' = Holds(r) /\ Waiting(r)' = Waiting(r)
    BY <1>1, QueueStays
  <2>2. /\ pc[r] \notin {"new", "reply", "done", "failed"}
             <=> pc'[r] \notin {"new", "reply", "done", "failed"}
        /\ Working(r)' => Working(r) \/ Holds(r)
    <3>1. CASE Refuse(r) \/ Acquire(r)
      BY <1>2, <3>1 DEF Refuse, Acquire, Go, Working, Operating, Pcs
    <3>2. CASE Accepted(r) \/ Rejected(r) \/ HttpsEnds(r) \/ Connected(r) \/ Packet(r)
      BY <1>2, <3>2 DEF Accepted, Rejected, HttpsEnds, Connected, Packet, Go, Transfer,
                        Working, Operating, Pcs
    <3>3. CASE Flush(r) \/ Pump(r) \/ Data(r) \/ Eof(r) \/ Joined(r)
      BY <1>2, <3>3 DEF Flush, Pump, Data, Eof, Joined, Go, Transfer, Working, Operating, Pcs
    <3>4. CASE Succeeded(r) \/ EndResponse(r)
      BY <1>2, <3>4 DEF Succeeded, EndResponse, Go, Transfer, Working, Operating, Pcs
    <3>5. CASE Fail(r) \/ Strike(r)
      BY <1>2, <3>5 DEF Fail, Strike, Raise, Working, Operating, Pcs
    <3>6. CASE Reply(r)
      BY <1>2, <3>6 DEF Reply, Go, Working, Operating, Pcs
    <3>7. CASE Dial(r) \/ Collect(r)
      BY <1>1, <1>2, <3>7 DEF Dial, Collect, Working, Operating, Pcs, Plain
    <3>8. QED
      BY <1>5, <3>1, <3>2, <3>3, <3>4, <3>5, <3>6, <3>7 DEF Act
  <2>3. QED
    BY <1>2, <2>1, <2>2
<1>6. QED
  BY <1>3, <1>4, <1>5

LEMMA OrderedInvariant == Spec => []Ordered
<1>1. Init => Ordered
  <2> SUFFICES ASSUME Init PROVE Ordered
    OBVIOUS
  <2>1. TypeOK
    <3>1. <<>> \in Seq(Request) /\ <<>> \in Seq(Messages) /\ IsInjective(<<>>)
      BY DEF IsInjective
    <3>2. Plain
      BY DEF Init, Plain, Pcs, Causes, NoKind, Kinds
    <3>3. Queues /\ wire \in [Request -> Seq(Messages)]
      BY <3>1 DEF Init, Queues
    <3>4. QED
      BY <3>2, <3>3, TypesSplit
  <2>2. \A r \in Request : queue[RepoOf[r]] = <<>>
    BY DEF Init, Repo
  <2>3. ToSet(<<>>) = {}
    BY DEF ToSet
  <2>4. Place
    BY <2>2, <2>3 DEF Init, Place, Waiting, Working, Operating
  <2>5. QED
    BY <2>1, <2>4 DEF Ordered
<1>2. Ordered /\ [Next]_vars => Ordered'
  <2>1. ASSUME Ordered, Next PROVE Ordered'
    BY <2>1, OrderedStep DEF Next, Act
  <2>2. ASSUME Ordered, UNCHANGED vars PROVE Ordered'
    BY <2>2 DEF vars, Ordered, TypeOK, Place, Waiting, Working, Holds, Operating, Repo
  <2>3. QED
    BY <2>1, <2>2
<1>3. QED
  BY <1>1, <1>2, PTL DEF Spec

(* Requests, locks, transfers and answers keep their types.                 *)
THEOREM TypeCorrect == Spec => []TypeOK
<1>1. Ordered => TypeOK
  BY DEF Ordered
<1>2. QED
  BY <1>1, OrderedInvariant, PTL

(* One request at a time has a request or a command at the upstream for a   *)
(* repository, or a pump, for any number of requests and any distribution   *)
(* of them over repositories.  The exception stated: a connect given up by  *)
(* the timeout may still open a connection, without a command, after the    *)
(* lock has passed on.                                                      *)
THEOREM HolderWorks == Spec => []OnlyHolderWorks
<1>1. ASSUME Ordered, NEW r \in Request
      PROVE  /\ Operating(r) => Holds(r)
             /\ line[r] # "none" => Holds(r) \/ GivenUp(r)
             /\ Finished(r) => r \notin ToSet(queue[RepoOf[r]])
  <2>1. /\ Working(r) => Holds(r)
        /\ Waiting(r) <=> pc[r] \notin {"new", "reply", "done", "failed"}
        /\ line[r] \in {"none", "dialing", "open", "busy"}
    BY <1>1 DEF Ordered, Place, TypeOK
  <2>2. Holds(r) => Waiting(r)
    BY <1>1, HeadWaits, TypesSplit DEF Ordered
  <2>3. QED
    BY <2>1, <2>2 DEF Working, Operating, GivenUp, Finished, Waiting
<1>2. Ordered => OnlyHolderWorks
  BY <1>1 DEF OnlyHolderWorks
<1>3. QED
  BY <1>2, OrderedInvariant, PTL

-----------------------------------------------------------------------------
(* The answer. *)

LEMMA Pair ==
    ASSUME NEW S, NEW x \in S, NEW y \in S
    PROVE  <<x>> \o <<y>> = <<x, y>>
<1> DEFINE s == <<x>> \o <<y>>
           t == <<x, y>>
<1>1. <<x>> \in Seq(S) /\ <<y>> \in Seq(S) /\ t \in Seq(S)
  OBVIOUS
<1>2. s \in Seq(S) /\ Len(s) = 2 /\ s[1] = x /\ s[2] = y
  BY <1>1
<1>3. Len(t) = 2 /\ t[1] = x /\ t[2] = y
  OBVIOUS
<1> HIDE DEF s, t
<1>4. \A i \in 1..Len(s) : s[i] = t[i]
  BY <1>2, <1>3
<1>5. s = t
  BY <1>1, <1>2, <1>3, <1>4, SeqEqual
<1>6. QED
  BY <1>5 DEF s, t

LEMMA Words ==
    /\ "start" \notin ToSet(<<>>) /\ "start" \notin ToSet(<<"reject">>)
    /\ "start" \in ToSet(<<"start">>) /\ "start" \in ToSet(<<"start", "end">>)
    /\ <<>> \o <<"start">> = <<"start">> /\ <<>> \o <<"reject">> = <<"reject">>
    /\ <<>> \o <<"error">> = <<"error">>
    /\ <<"start">> \o <<"end">> = <<"start", "end">>
    /\ <<"reject">> \o <<"error">> = <<"reject", "error">>
<1>1. ToSet(<<>>) = {}
  BY DEF ToSet
<1>2. "start" \notin ToSet(<<"reject">>) /\ "start" \in ToSet(<<"start">>)
  BY DEF ToSet
<1>3. "start" \in ToSet(<<"start", "end">>)
  <2>1. 1 \in DOMAIN <<"start", "end">> /\ <<"start", "end">>[1] = "start"
    OBVIOUS
  <2>2. QED
    BY <2>1 DEF ToSet
<1>4. /\ <<>> \o <<"start">> = <<"start">> /\ <<>> \o <<"reject">> = <<"reject">>
      /\ <<>> \o <<"error">> = <<"error">>
  OBVIOUS
<1>5. \A x, y \in Messages : <<x>> \o <<y>> = <<x, y>>
  BY Pair
<1>6. "start" \in Messages /\ "end" \in Messages /\ "reject" \in Messages /\ "error" \in Messages
  BY DEF Messages
<1>7. /\ <<"start">> \o <<"end">> = <<"start", "end">>
      /\ <<"reject">> \o <<"error">> = <<"reject", "error">>
  BY <1>5, <1>6
<1>8. QED
  BY <1>1, <1>2, <1>3, <1>4, <1>7

\* What each sequence means to the client.
LEMMA Meanings ==
    /\ Answer(<<>>, FALSE) = "none" /\ Answer(<<>>, TRUE) = "broken"
    /\ Answer(<<"start">>, FALSE) = "begun" /\ Answer(<<"start">>, TRUE) = "broken"
    /\ \A broken \in BOOLEAN :
          /\ Answer(<<"start", "end">>, broken) = "whole"
          /\ Answer(<<"error">>, broken) = "refused"
          /\ Answer(<<"reject">>, broken) = "refused"
          /\ Answer(<<"reject", "error">>, broken) = "refused"
  BY DEF Answer

\* What was said at each place of a request's way.
Talk(r) ==
    /\ pc[r] \in {"new", "wait", "send", "connect"} => wire[r] = <<>>
    /\ pc[r] \in {"connect", "advertisement"} => kind[r].ssh
    /\ pc[r] \in {"advertisement", "stream", "join", "status"}
         => wire[r] \in {<<>>, <<"start">>}
    /\ pc[r] = "stream" /\ ~kind[r].ssh => wire[r] = <<"start">>
    /\ pc[r] = "status" => pump[r] = "done"
    /\ pc[r] = "last" => wire[r] = <<"start">> /\ over[r]
    /\ pc[r] = "leave" => wire[r] \in {<<"start", "end">>, <<"reject">>}
    /\ pc[r] \in {"unwind", "reply"}
         => wire[r] \in {<<>>, <<"start">>, <<"start", "end">>, <<"reject">>}
    /\ cause[r] # "none" => pc[r] \in {"unwind", "reply"}
    /\ cause[r] = "client" => wire[r] \in {<<>>, <<"start">>}

\* A step as ProxyAnswer sees it.
Moves(r) ==
    LET a == Answered(r)
        b == Answered(r)'
    IN  \/ a = b /\ over'[r] = over[r]
        \/ a \in {"none", "begun"} /\ b = a /\ over'[r] = TRUE
        \/ a = "none" /\ b = "begun" /\ over'[r] = TRUE
        \/ /\ over'[r] = over[r]
           /\ \/ a = "none" /\ b \in {"refused", "begun"}
              \/ a = "begun" /\ b = "whole" /\ over[r]
              \/ a \in {"none", "begun"} /\ b = "broken"

LEMMA MovesMap ==
    ASSUME TypeOK, NEW r \in Request, Alone(r), over' \in [Request -> BOOLEAN], Moves(r)
    PROVE  [Answers!Next]_(Answers!vars)
<1> DEFINE answer == [v \in Request |-> Answered(v)]
           a == Answered(r)
           b == Answered(r)'
<1>1. answer' = [answer EXCEPT ![r] = b]
  BY DEF Alone, Answered
<1>2. over' = over \/ over' = [over EXCEPT ![r] = TRUE]
  BY DEF Moves, Alone, TypeOK
<1>3. over'[r] = over[r] => over' = over
  BY DEF Alone, TypeOK
<1>4. answer[r] = a /\ (b = a => answer' = answer)
  BY <1>1
<1>5. /\ over'[r] = TRUE => over' = [over EXCEPT ![r] = TRUE]
  BY DEF Alone, TypeOK
<1> HIDE DEF a, b, answer
<1>6. \/ a = b /\ over'[r] = over[r]
      \/ a \in {"none", "begun"} /\ b = a /\ over'[r] = TRUE
      \/ a = "none" /\ b = "begun" /\ over'[r] = TRUE
      \/ /\ over'[r] = over[r]
         /\ \/ a = "none" /\ b \in {"refused", "begun"}
            \/ a = "begun" /\ b = "whole" /\ over[r]
            \/ a \in {"none", "begun"} /\ b = "broken"
  BY DEF Moves, a, b
<1>7. \/ <<answer, over>>' = <<answer, over>>
      \/ answer[r] \in {"none", "begun"} /\ answer' = [answer EXCEPT ![r] = answer[r]]
         /\ over' = [over EXCEPT ![r] = TRUE]
      \/ answer[r] \in {"none"} /\ answer' = [answer EXCEPT ![r] = "begun"]
         /\ (over' = [over EXCEPT ![r] = TRUE] \/ over' = over)
      \/ answer[r] \in {"none"} /\ answer' = [answer EXCEPT ![r] = "refused"] /\ over' = over
      \/ over[r] /\ answer[r] \in {"begun"} /\ answer' = [answer EXCEPT ![r] = "whole"]
         /\ over' = over
      \/ answer[r] \in {"none", "begun"} /\ answer' = [answer EXCEPT ![r] = "broken"]
         /\ over' = over
  BY <1>1, <1>3, <1>4, <1>5, <1>6
<1>8. CASE answer[r] \in {"none", "begun"} /\ answer' = [answer EXCEPT ![r] = "broken"]
           /\ over' = over
  <2>1. /\ answer' = [v \in Request |-> IF v \in {r} THEN "broken" ELSE answer[v]]
        /\ {r} \in SUBSET Request /\ \A v \in {r} : answer[v] \in {"none", "begun"}
    BY <1>8 DEF answer
  <2>2. Answers!Break({r})
    BY <1>8, <2>1 DEF answer, Answers!Break
  <2>3. QED
    BY <2>1, <2>2 DEF Answers!Next
<1>9. QED
  BY <1>7, <1>8 DEF answer, Answers!Next, Answers!vars, Answers!UpstreamEnds, Answers!Refuse,
     Answers!Begin, Answers!Complete, Answers!Answer, Answers!Ends

LEMMA StartSays ==
    ASSUME TypeOK, NEW r \in Request, Start(r), wire[r] \in {<<>>, <<"start">>}
    PROVE  wire'[r] = <<"start">>
  BY StartTypes, Words DEF Started

LEMMA SendSays ==
    ASSUME TypeOK, NEW r \in Request, NEW m \in Messages, Send(r, <<m>>)
    PROVE  wire'[r] = wire[r] \o <<m>>
<1>1. <<m>> \in Seq(Messages)
  OBVIOUS
<1>2. QED
  BY <1>1, SendTypes

\* Steps that say nothing: what was said still fits the place.
LEMMA SilentStep ==
    ASSUME TypeOK, NEW r \in Request, Talk(r),
           \/ Arrive(r) \/ Acquire(r) \/ HttpsEnds(r) \/ Dial(r) \/ Connected(r)
           \/ Collect(r) \/ Pump(r) \/ Eof(r) \/ Joined(r) \/ Leave(r) \/ Fail(r) \/ Strike(r) \/ Unwind(r)
    PROVE  Talk(r)' /\ wire'[r] = wire[r]
<1>1. Plain
  BY TypesSplit
<1> USE <1>1 DEF Plain, Pcs, Causes, Talk, Go, Transfer
<1>2. CASE Arrive(r)
  BY <1>2 DEF Arrive
<1>3. CASE Acquire(r)
  BY <1>3 DEF Acquire, Kinds
<1>4. CASE HttpsEnds(r)
  BY <1>4 DEF HttpsEnds
<1>5. CASE Dial(r) \/ Connected(r) \/ Collect(r)
  BY <1>5 DEF Dial, Connected, Collect
<1>6. CASE Pump(r)
  BY <1>6 DEF Pump
<1>7. CASE Eof(r)
  BY <1>7 DEF Eof
<1>8. CASE Joined(r)
  BY <1>8 DEF Joined
<1>9. CASE Leave(r)
  BY <1>9 DEF Leave, CloseLine, Closed
<1>10. ASSUME NEW e \in Causes, Raise(r, e),
              pc[r] \notin {"new", "done", "failed"},
              e = "client" => wire[r] \in {<<>>, <<"start">>}
       PROVE  Talk(r)' /\ wire'[r] = wire[r]
  BY <1>10 DEF Raise
<1>11. CASE Fail(r)
  BY <1>10, <1>11 DEF Fail
<1>12. CASE Strike(r)
  BY <1>10, <1>12 DEF Strike
<1>13. CASE Unwind(r)
  BY <1>13 DEF Unwind, CloseLine, Closed
<1>14. QED
  BY <1>2, <1>3, <1>4, <1>5, <1>6, <1>7, <1>8, <1>9, <1>11, <1>12, <1>13

LEMMA SilentMoves ==
    ASSUME TypeOK, NEW r \in Request, Talk(r),
           \/ Arrive(r) \/ Acquire(r) \/ HttpsEnds(r) \/ Dial(r) \/ Connected(r)
           \/ Collect(r) \/ Pump(r) \/ Eof(r) \/ Joined(r) \/ Leave(r) \/ Fail(r) \/ Strike(r) \/ Unwind(r)
    PROVE  Moves(r)
<1>1. Plain /\ wire'[r] = wire[r]
  BY TypesSplit, SilentStep
<1> USE <1>1 DEF Plain, Pcs, Go, Transfer
<1>2. pc'[r] = "failed" <=> pc[r] = "failed"
  <2>1. CASE \/ Arrive(r) \/ Acquire(r) \/ HttpsEnds(r) \/ Dial(r) \/ Connected(r)
             \/ Collect(r) \/ Pump(r)
    BY <2>1 DEF Arrive, Acquire, HttpsEnds, Dial, Connected, Collect, Pump
  <2>2. CASE Eof(r) \/ Joined(r) \/ Leave(r) \/ Unwind(r)
    BY <2>2 DEF Eof, Joined, Leave, Unwind
  <2>3. CASE Fail(r) \/ Strike(r)
    BY <2>3 DEF Fail, Strike, Raise
  <2>4. QED
    BY <2>1, <2>2, <2>3
<1>3. Answered(r)' = Answered(r)
  BY <1>1, <1>2 DEF Answered
<1>4. CASE HttpsEnds(r)
  <2>1. wire[r] = <<"start">> /\ pc[r] # "failed" /\ over'[r] = TRUE
    BY <1>4 DEF HttpsEnds, Talk
  <2>2. Answered(r) = "begun"
    BY <2>1, Meanings DEF Answered
  <2>3. QED
    BY <1>3, <2>1, <2>2 DEF Moves
<1>5. CASE ~HttpsEnds(r)
  <2>1. over' = over
    BY <1>5 DEF Arrive, Acquire, Dial, Connected, Collect, Pump, Eof, Joined, Leave, Fail, Strike, Raise,
                Unwind
  <2>2. QED
    BY <1>3, <2>1 DEF Moves
<1>6. QED
  BY <1>4, <1>5

\* Steps that start a response.
LEMMA StartStep ==
    ASSUME TypeOK, NEW r \in Request, Talk(r),
           Accepted(r) \/ Packet(r) \/ Flush(r) \/ Data(r) \/ Succeeded(r)
    PROVE  Talk(r)' /\ Moves(r)
<1>1. Plain
  BY TypesSplit
<1>2. /\ wire[r] \in {<<>>, <<"start">>} /\ cause[r] = "none"
      /\ pc[r] # "failed" /\ pc'[r] \notin {"failed", "done", "leave"}
      /\ cause' = cause /\ kind' = kind
  <2> USE <1>1 DEF Plain, Pcs, Go, Transfer, Talk
  <2>1. CASE Accepted(r) \/ Packet(r) \/ Data(r)
    BY <2>1 DEF Accepted, Packet, Data
  <2>2. CASE Flush(r) \/ Succeeded(r)
    BY <2>2 DEF Flush, Succeeded
  <2>3. QED
    BY <2>1, <2>2
<1>3. \/ Start(r)
      \/ Flush(r) /\ pc'[r] = "stream" /\ kind[r].ssh /\ wire' = wire /\ over' = over
  BY <1>1 DEF Plain, Pcs, Go, Accepted, Packet, Flush, Data, Succeeded, Talk
<1>4. CASE Start(r)
  <2>1. wire'[r] = <<"start">>
    BY <1>2, <1>4, StartSays
  <2>2. /\ pc'[r] \in {"advertisement", "stream", "last"}
        /\ pc'[r] = "last" => over'[r] = TRUE
        /\ over'[r] = over[r] \/ over'[r] = TRUE
        /\ pc'[r] = "advertisement" => kind[r].ssh
    <3> USE <1>1 DEF Plain, Pcs, Go, Transfer, Talk
    <3>1. CASE Accepted(r) \/ Packet(r) \/ Data(r)
      BY <3>1 DEF Accepted, Packet, Data
    <3>2. CASE Flush(r)
      BY <3>2 DEF Flush
    <3>3. CASE Succeeded(r)
      BY <3>3 DEF Succeeded
    <3>4. QED
      BY <3>1, <3>2, <3>3
  <2>3. Talk(r)'
    BY <1>2, <2>1, <2>2 DEF Talk
  <2>4. Answered(r) \in {"none", "begun"} /\ Answered(r)' = "begun"
    BY <1>2, <2>1, Meanings DEF Answered
  <2>5. Moves(r)
    BY <2>2, <2>4 DEF Moves
  <2>6. QED
    BY <2>3, <2>5
<1>5. CASE /\ Flush(r) /\ pc'[r] = "stream" /\ kind[r].ssh
           /\ wire' = wire /\ over' = over
  <2>1. Talk(r)'
    BY <1>2, <1>5 DEF Talk
  <2>2. Answered(r)' = Answered(r)
    BY <1>2, <1>5 DEF Answered
  <2>3. QED
    BY <1>5, <2>1, <2>2 DEF Moves
<1>6. QED
  BY <1>3, <1>4, <1>5

\* Steps that end one, or send another.
LEMMA EndStep ==
    ASSUME TypeOK, NEW r \in Request, Talk(r),
           Refuse(r) \/ Rejected(r) \/ EndResponse(r) \/ Reply(r)
    PROVE  Talk(r)' /\ Moves(r)
<1>1. Plain /\ "error" \in Messages /\ "reject" \in Messages /\ "end" \in Messages
  BY TypesSplit DEF Messages
<1>2. CASE Refuse(r)
  <2>1. /\ pc[r] = "new" /\ pc'[r] = "done" /\ wire[r] = <<>> /\ cause' = cause
        /\ cause[r] = "none" /\ over' = over
    BY <1>1, <1>2 DEF Refuse, Go, Talk, Plain
  <2>2. wire'[r] = <<"error">>
    BY <1>1, <1>2, <2>1, SendSays, Words DEF Refuse
  <2>3. Answered(r) = "none" /\ Answered(r)' = "refused"
    BY <2>1, <2>2, Meanings DEF Answered
  <2>4. QED
    BY <2>1, <2>3 DEF Moves, Talk
<1>3. CASE Rejected(r)
  <2>1. /\ pc[r] = "send" /\ pc'[r] = "leave" /\ wire[r] = <<>> /\ cause' = cause
        /\ cause[r] = "none" /\ over' = over
    BY <1>1, <1>3 DEF Rejected, Go, Talk, Plain, Transfer
  <2>2. wire'[r] = <<"reject">>
    BY <1>1, <1>3, <2>1, SendSays, Words DEF Rejected
  <2>3. Answered(r) = "none" /\ Answered(r)' = "refused"
    BY <2>1, <2>2, Meanings DEF Answered
  <2>4. QED
    BY <2>1, <2>2, <2>3 DEF Moves, Talk
<1>4. CASE EndResponse(r)
  <2>1. /\ pc[r] = "last" /\ pc'[r] = "leave" /\ wire[r] = <<"start">> /\ over[r]
        /\ cause' = cause /\ cause[r] = "none" /\ over' = over
    BY <1>1, <1>4 DEF EndResponse, Go, Talk, Plain, Transfer
  <2>2. wire'[r] = <<"start", "end">>
    BY <1>1, <1>4, <2>1, SendSays, Words DEF EndResponse
  <2>3. Answered(r) = "begun" /\ Answered(r)' = "whole"
    BY <2>1, <2>2, Meanings DEF Answered
  <2>4. QED
    BY <2>1, <2>2, <2>3 DEF Moves, Talk
<1>5. CASE Reply(r)
  <2>1. /\ pc[r] = "reply" /\ pc'[r] \in {"done", "failed"} /\ over' = over
        /\ cause'[r] = "none"
        /\ wire[r] \in {<<>>, <<"start">>, <<"start", "end">>, <<"reject">>}
        /\ cause[r] = "client" => wire[r] \in {<<>>, <<"start">>}
    BY <1>1, <1>5 DEF Reply, Go, Talk, Plain
  <2>2. CASE Started(r) \/ cause[r] = "client"
    <3>1. /\ pc'[r] = "failed" /\ wire' = wire
          /\ wire[r] \in {<<>>, <<"start">>, <<"start", "end">>}
      BY <1>1, <1>5, <2>1, <2>2, Words DEF Reply, Go, Plain, Started
    <3>2. \/ Answered(r) \in {"none", "begun"} /\ Answered(r)' = "broken"
          \/ Answered(r)' = Answered(r)
      BY <2>1, <3>1, Meanings DEF Answered
    <3>3. QED
      BY <2>1, <3>1, <3>2 DEF Moves, Talk
  <2>3. CASE ~(Started(r) \/ cause[r] = "client")
    <3>1. pc'[r] = "done" /\ Send(r, <<"error">>) /\ wire[r] \in {<<>>, <<"reject">>}
      BY <1>1, <1>5, <2>1, <2>3, Words DEF Reply, Go, Plain, Started
    <3>2. wire'[r] = wire[r] \o <<"error">>
      BY <1>1, <3>1, SendSays
    <3>3. \/ wire[r] = <<>> /\ wire'[r] = <<"error">>
          \/ wire[r] = <<"reject">> /\ wire'[r] = <<"reject", "error">>
      BY <3>1, <3>2, Words
    <3>4. /\ Answered(r)' = "refused"
          /\ Answered(r) = "none" \/ Answered(r) = "refused"
      BY <2>1, <3>1, <3>3, Meanings DEF Answered
    <3>5. QED
      BY <2>1, <3>1, <3>4 DEF Moves, Talk
  <2>4. QED
    BY <2>2, <2>3
<1>6. QED
  BY <1>2, <1>3, <1>4, <1>5

Told == TypeOK /\ \A r \in Request : Talk(r)

LEMMA ToldStep ==
    ASSUME Told, TypeOK', NEW r \in Request, Act(r)
    PROVE  Told' /\ [Answers!Next]_(Answers!vars)
<1>1. TypeOK /\ Talk(r) /\ Alone(r) /\ over' \in [Request -> BOOLEAN]
  BY AloneStep DEF Told, TypeOK
<1>2. Talk(r)' /\ Moves(r)
  BY <1>1, SilentStep, SilentMoves, StartStep, EndStep DEF Act
<1>3. \A v \in Request \ {r} : Talk(v)'
  BY <1>1 DEF Told, Talk, Alone
<1>4. QED
  BY <1>1, <1>2, <1>3, MovesMap DEF Told

(* One response, complete only when the upstream's is, for any number of    *)
(* requests: the proxy implements ProxyAnswer, timeouts, failing transports *)
(* and vanishing clients included.                                          *)
THEOREM ProxyAnswers == Spec => ImplementsProxyAnswer
<1>1. Init => Answers!Init /\ \A r \in Request : Talk(r)
  <2>1. ASSUME Init PROVE \A r \in Request : Answered(r) = "none"
    BY <2>1, Meanings DEF Init, Answered
  <2>2. ASSUME Init PROVE Answers!Init
    BY <2>1, <2>2 DEF Init, Answers!Init
  <2>3. ASSUME Init PROVE \A r \in Request : Talk(r)
    BY <2>3 DEF Init, Talk
  <2>4. QED
    BY <2>2, <2>3
<1>2. /\ TypeOK /\ TypeOK' /\ (\A r \in Request : Talk(r)) /\ [Next]_vars
      => [Answers!Next]_(Answers!vars) /\ (\A r \in Request : Talk(r))'
  <2>1. ASSUME Told, TypeOK', Next PROVE [Answers!Next]_(Answers!vars) /\ Told'
    BY <2>1, ToldStep DEF Next, Act
  <2>2. ASSUME Told, UNCHANGED vars PROVE [Answers!Next]_(Answers!vars) /\ Told'
    BY <2>2 DEF vars, Told, TypeOK, Talk, Repo, Answers!vars, Answered
  <2>3. QED
    BY <2>1, <2>2 DEF Told
<1>3. Ordered => TypeOK
  BY DEF Ordered
<1>4. QED
  BY <1>1, <1>2, <1>3, OrderedInvariant, PTL
     DEF Spec, ImplementsProxyAnswer, Answers!Spec

=============================================================================
