-------------------------- MODULE BoardOrderProofs --------------------------
(* Theorems about BoardOrder, for any number of tasks: what renumbering      *)
(* keeps, where a dropped card comes to lie, and who may overtake whom.      *)
(* They rest on one fact about Rank: within a column it numbers the cards    *)
(* from 0 without gaps and in their order.                                   *)
EXTENDS BoardOrder, FiniteSetTheorems, TLAPS

-----------------------------------------------------------------------------
(* The order of the cards and their ranks. *)

LEMMA SomeTasksFinite ==
    ASSUME NEW S \in SUBSET Task
    PROVE  IsFiniteSet(S) /\ Cardinality(S) \in Nat /\ Cardinality(S) <= MaxTask
<1>1. IsFiniteSet(Task) /\ Cardinality(Task) = MaxTask
  BY BoundsAssumption, FS_Interval DEF Task
<1>2. IsFiniteSet(S) /\ Cardinality(S) <= Cardinality(Task)
  BY <1>1, FS_Subset
<1>3. Cardinality(S) \in Nat
  BY <1>2, FS_CardinalityType
<1>4. QED
  BY <1>1, <1>2, <1>3

\* ORDER BY sort_order, id is a strict total order.
LEMMA BeforeIsTotalOrder ==
    ASSUME order \in [Task -> Nat], NEW t \in Task, NEW u \in Task
    PROVE  /\ Before(t, u) => ~Before(u, t)
           /\ t # u => Before(t, u) \/ Before(u, t)
           /\ \A v \in Task : Before(t, u) /\ Before(u, v) => Before(t, v)
BY DEF Before, Task

LEMMA RankType ==
    ASSUME NEW S \in SUBSET Task, NEW t
    PROVE  Rank(t, S) \in Nat
<1>1. {u \in S : Before(u, t)} \in SUBSET Task
  OBVIOUS
<1>2. QED
  BY <1>1, SomeTasksFinite DEF Rank

LEMMA RankIncreases ==
    ASSUME order \in [Task -> Nat], NEW S \in SUBSET Task,
           NEW t \in S, NEW u \in Task, Before(t, u)
    PROVE  Rank(t, S) < Rank(u, S)
<1> DEFINE A == {v \in S : Before(v, t)}
           B == {v \in S : Before(v, u)}
<1>1. A \in SUBSET B /\ A \in SUBSET Task /\ B \in SUBSET Task
  BY BeforeIsTotalOrder
<1>2. t \in B /\ t \notin A
  BY BeforeIsTotalOrder
<1>3. IsFiniteSet(B) /\ Cardinality(B) \in Nat /\ Cardinality(A) \in Nat
  BY <1>1, SomeTasksFinite
<1>4. Cardinality(A) <= Cardinality(B) /\ (Cardinality(B) = Cardinality(A) => B = A)
  BY <1>1, <1>3, FS_Subset
<1>5. Rank(t, S) = Cardinality(A) /\ Rank(u, S) = Cardinality(B)
  BY DEF Rank
<1> HIDE DEF A, B
<1>6. QED
  BY <1>2, <1>3, <1>4, <1>5

LEMMA RankBelowSize ==
    ASSUME order \in [Task -> Nat], NEW S \in SUBSET Task, NEW t \in S
    PROVE  Rank(t, S) \in 0..Cardinality(S) - 1
<1> DEFINE A == {v \in S : Before(v, t)}
<1>1. A \in SUBSET S /\ A \in SUBSET Task
  OBVIOUS
<1>2. t \notin A
  BY BeforeIsTotalOrder
<1>3. IsFiniteSet(S) /\ Cardinality(S) \in Nat /\ Cardinality(A) \in Nat
  BY <1>1, SomeTasksFinite
<1>4. Cardinality(A) <= Cardinality(S) /\ (Cardinality(S) = Cardinality(A) => S = A)
  BY <1>1, <1>3, FS_Subset
<1>5. Rank(t, S) = Cardinality(A)
  BY DEF Rank
<1> HIDE DEF A
<1>6. QED
  BY <1>2, <1>3, <1>4, <1>5

\* Ranks leave no gaps.
LEMMA RankIsOnto ==
    ASSUME order \in [Task -> Nat], NEW S \in SUBSET Task,
           NEW n \in 0..Cardinality(S) - 1
    PROVE  \E t \in S : Rank(t, S) = n
<1> DEFINE Ranks == 0..Cardinality(S) - 1
           f == [t \in S |-> Rank(t, S)]
<1>1. Cardinality(S) \in Nat
  BY SomeTasksFinite
<1>2. IsFiniteSet(Ranks) /\ Cardinality(Ranks) = Cardinality(S)
  BY <1>1, FS_Interval
<1>3. f \in [S -> Ranks]
  BY RankBelowSize
<1>4. \A t, u \in S : f[t] = f[u] => t = u
  <2> SUFFICES ASSUME NEW t \in S, NEW u \in S, t # u
               PROVE  Rank(t, S) # Rank(u, S)
    OBVIOUS
  <2>1. Rank(t, S) \in Nat /\ Rank(u, S) \in Nat
    BY RankType
  <2>2. Before(t, u) \/ Before(u, t)
    BY BeforeIsTotalOrder
  <2>3. QED
    BY <2>1, <2>2, RankIncreases
<1>5. f \in Injection(S, Ranks)
  BY <1>3, <1>4 DEF Injection, IsInjective
<1>6. f \in Surjection(S, Ranks)
  BY <1>2, <1>5, FS_Injection
<1>7. \E t \in S : f[t] = n
  BY <1>6 DEF Surjection
<1>8. QED
  BY <1>7

\* Below each place of a column there are as many cards as its number says.
LEMMA RanksCount ==
    ASSUME order \in [Task -> Nat], NEW S \in SUBSET Task, NEW k \in 0..Cardinality(S)
    PROVE  Cardinality({t \in S : Rank(t, S) < k}) = k
<1> DEFINE Low == {t \in S : Rank(t, S) < k}
           f == [t \in Low |-> Rank(t, S)]
<1>1. Low \in SUBSET Task /\ Cardinality(S) \in Nat
  BY SomeTasksFinite
<1>2. k \in Nat /\ \A t \in S : Rank(t, S) \in Nat
  BY <1>1, RankType
<1>3. f \in [Low -> 0..k - 1]
  BY <1>2
<1>4. \A t, u \in Low : f[t] = f[u] => t = u
  <2> SUFFICES ASSUME NEW t \in Low, NEW u \in Low, t # u
               PROVE  Rank(t, S) # Rank(u, S)
    OBVIOUS
  <2>1. Before(t, u) \/ Before(u, t)
    BY BeforeIsTotalOrder
  <2>2. QED
    BY <1>2, <2>1, RankIncreases
<1>5. \A n \in 0..k - 1 : \E t \in Low : f[t] = n
  <2> SUFFICES ASSUME NEW n \in 0..k - 1 PROVE \E t \in Low : Rank(t, S) = n
    OBVIOUS
  <2>1. PICK t \in S : Rank(t, S) = n
    BY <1>1, <1>2, RankIsOnto
  <2>2. t \in Low
    BY <1>2, <2>1
  <2>3. QED
    BY <2>1, <2>2
<1>6. f \in Bijection(Low, 0..k - 1)
  BY <1>3, <1>4, <1>5 DEF Bijection, Injection, Surjection, IsInjective
<1>7. ExistsBijection(Low, 0..k - 1)
  BY <1>6 DEF ExistsBijection
<1>8. Cardinality(0..k - 1) = Cardinality(Low)
  BY <1>1, <1>7, SomeTasksFinite, FS_Bijection
<1>9. Cardinality(0..k - 1) = k
  BY <1>2, FS_Interval
<1>10. QED
  BY <1>8, <1>9

-----------------------------------------------------------------------------
(* New positions: behind the last card, or by renumbering. *)

\* LastOrder is behind every card of the column.
LEMMA LastOrderIsLast ==
    ASSUME order \in [Task -> 0..MaxOrder], NEW s
    PROVE  /\ LastOrder(s) \in 0..MaxOrder + 1
           /\ \A t \in In(s) : order[t] < LastOrder(s)
<1> DEFINE Behind(n) == /\ \A t \in In(s) : order[t] < n
                        /\ n = 0 \/ \E t \in In(s) : order[t] = n - 1
<1>1. \E n \in 0..MaxOrder + 1 : Behind(n)
  <2>1. CASE In(s) = {}
    BY <2>1, BoundsAssumption
  <2>2. CASE In(s) # {}
    <3>1. In(s) \in SUBSET Task /\ order \in [Task -> Nat]
      BY DEF In
    <3>2. IsFiniteSet(In(s)) /\ Cardinality(In(s)) \in Nat
      BY <3>1, SomeTasksFinite
    <3>3. Cardinality(In(s)) # 0
      BY <2>2, <3>2, FS_EmptySet
    <3>4. Cardinality(In(s)) - 1 \in 0..Cardinality(In(s)) - 1
      BY <3>2, <3>3
    <3>5. PICK t \in In(s) : Rank(t, In(s)) = Cardinality(In(s)) - 1
      BY <3>1, <3>4, RankIsOnto
    <3>6. \A u \in In(s) : ~Before(t, u)
      <4> SUFFICES ASSUME NEW u \in In(s), Before(t, u) PROVE FALSE
        OBVIOUS
      <4>1. Rank(t, In(s)) < Rank(u, In(s))
        BY <3>1, RankIncreases
      <4>2. Rank(u, In(s)) \in 0..Cardinality(In(s)) - 1
        BY <3>1, RankBelowSize
      <4>3. QED
        BY <3>2, <3>5, <4>1, <4>2
    <3>7. \A u \in In(s) : order[u] <= order[t]
      BY <3>1, <3>6 DEF Before
    <3>8. Behind(order[t] + 1) /\ order[t] + 1 \in 0..MaxOrder + 1
      BY <3>1, <3>7, BoundsAssumption
    <3>9. QED
      BY <3>8
  <2>3. QED
    BY <2>1, <2>2
<1>2. LastOrder(s) = CHOOSE n \in 0..MaxOrder + 1 : Behind(n)
  BY DEF LastOrder
<1> HIDE DEF Behind
<1>3. LastOrder(s) \in 0..MaxOrder + 1 /\ Behind(LastOrder(s))
  BY <1>1, <1>2
<1>4. QED
  BY <1>3 DEF Behind

\* The card that is claimed exists: the queue has a first one.
LEMMA FirstIsClaimable ==
    ASSUME order \in [Task -> Nat], Claimable # {}
    PROVE  First \in Claimable
<1>1. Claimable \in SUBSET Task
  BY DEF Claimable, In
<1>2. Cardinality(Claimable) \in Nat /\ Cardinality(Claimable) # 0
  BY <1>1, SomeTasksFinite, FS_EmptySet
<1>3. \E t \in Claimable : Rank(t, Claimable) = 0
  BY <1>1, <1>2, RankIsOnto
<1>4. QED
  BY <1>3 DEF First

\* The other cards of a column, and the place among them at which a card is
\* inserted: the position, or behind the last one.
Others(t, s) == In(s) \ {t}
At(t, s, p) ==
    LET size == Cardinality(Others(t, s)) IN IF p < size THEN p ELSE size

LEMMA OthersType ==
    ASSUME NEW t \in Task, NEW s
    PROVE  /\ Others(t, s) \in SUBSET Task
           /\ Cardinality(Others(t, s)) \in Nat /\ Cardinality(Others(t, s)) < MaxTask
           /\ \A p \in Nat : At(t, s, p) \in 0..Cardinality(Others(t, s))
<1>1. Others(t, s) \in SUBSET Task /\ t \notin Others(t, s)
  BY DEF Others, In
<1>2. IsFiniteSet(Task) /\ Cardinality(Task) \in Nat /\ Cardinality(Task) <= MaxTask
  BY SomeTasksFinite
<1>3. Cardinality(Others(t, s)) \in Nat /\ Cardinality(Others(t, s)) <= Cardinality(Task)
  BY <1>1, <1>2, SomeTasksFinite, FS_Subset
<1>4. Cardinality(Task) = Cardinality(Others(t, s)) => Task = Others(t, s)
  BY <1>1, <1>2, FS_Subset
<1>5. Cardinality(Others(t, s)) < MaxTask
  BY <1>1, <1>2, <1>3, <1>4, BoundsAssumption
<1>6. \A p \in Nat : At(t, s, p) \in 0..Cardinality(Others(t, s))
  BY <1>3 DEF At
<1>7. QED
  BY <1>1, <1>3, <1>5, <1>6

\* What move_task writes as sort_order of each card.
LEMMA RenumberedCases ==
    ASSUME NEW t \in Task, NEW s, NEW p \in Nat, NEW u \in Task
    PROVE  LET new == Renumbered(t, s, p)[u]
               rank == Rank(u, Others(t, s))
           IN /\ u = t => new = At(t, s, p)
              /\ u \in Others(t, s) => new = IF rank < At(t, s, p) THEN rank ELSE rank + 1
              /\ u # t /\ u \notin Others(t, s) =>
                   new = IF column[u] = column[t] /\ s # column[t]
                         THEN Rank(u, Others(t, column[t])) ELSE order[u]
<1> DEFINE rank == Rank(u, Others(t, s))
<1>1. u \in Others(t, s) => u # t
  BY DEF Others
<1>2. Renumbered(t, s, p)[u] =
        CASE u = t -> At(t, s, p)
          [] u \in Others(t, s) -> IF rank < At(t, s, p) THEN rank ELSE rank + 1
          [] column[u] = column[t] /\ s # column[t] /\ u # t -> Rank(u, Others(t, column[t]))
          [] OTHER -> order[u]
  BY DEF Renumbered, At, Others
<1>3. s # column[t] /\ column[u] = column[t] => u \notin Others(t, s)
  BY DEF Others, In
<1> HIDE DEF rank
<1>4. QED
  BY <1>1, <1>2, <1>3 DEF rank

LEMMA RenumberedType ==
    ASSUME order \in [Task -> 0..MaxOrder], NEW t \in Task, NEW s, NEW p \in Nat
    PROVE  Renumbered(t, s, p) \in [Task -> 0..MaxOrder]
<1>1. order \in [Task -> Nat]
  OBVIOUS
<1>2. \A c : \A u \in Others(t, c) : /\ Rank(u, Others(t, c)) \in 0..MaxOrder
                                  /\ Rank(u, Others(t, c)) + 1 \in 0..MaxOrder
  <2> SUFFICES ASSUME NEW c, NEW u \in Others(t, c)
               PROVE  /\ Rank(u, Others(t, c)) \in 0..MaxOrder
                      /\ Rank(u, Others(t, c)) + 1 \in 0..MaxOrder
    OBVIOUS
  <2>1. Rank(u, Others(t, c)) \in 0..Cardinality(Others(t, c)) - 1
    BY <1>1, OthersType, RankBelowSize
  <2>2. QED
    BY <2>1, OthersType, BoundsAssumption
<1>3. At(t, s, p) \in 0..MaxOrder
  <2>1. /\ At(t, s, p) \in 0..Cardinality(Others(t, s))
        /\ Cardinality(Others(t, s)) \in Nat /\ Cardinality(Others(t, s)) < MaxTask
    BY OthersType
  <2>2. QED
    BY <2>1, BoundsAssumption
<1>4. \A u \in Task : column[u] = column[t] /\ u # t => u \in Others(t, column[t])
  BY DEF Others, In
<1>5. \A u \in Task : Renumbered(t, s, p)[u] \in 0..MaxOrder
  <2> TAKE u \in Task
  <2>1. CASE u = t
    BY <1>3, <2>1, RenumberedCases
  <2>2. CASE u \in Others(t, s)
    BY <1>2, <2>2, RenumberedCases
  <2>3. CASE u # t /\ u \notin Others(t, s)
    BY <1>2, <1>4, <2>3, RenumberedCases
  <2>4. QED
    BY <2>1, <2>2, <2>3
<1>6. QED
  BY <1>5 DEF Renumbered

\* Renumbering keeps the order of all other cards, column by column.
LEMMA RenumberedKeepsOrder ==
    ASSUME order \in [Task -> Nat], NEW t \in Task, NEW s, NEW p \in Nat,
           NEW u \in Task \ {t}, NEW v \in Task \ {t},
           column[u] = column[v], Before(u, v)
    PROVE  LET new == Renumbered(t, s, p)
           IN new[u] < new[v] \/ (new[u] = new[v] /\ u < v)
<1> DEFINE new == Renumbered(t, s, p)
<1>1. \A c : u \in Others(t, c) /\ v \in Others(t, c) =>
            /\ Rank(u, Others(t, c)) \in Nat /\ Rank(v, Others(t, c)) \in Nat
            /\ Rank(u, Others(t, c)) < Rank(v, Others(t, c))
  BY OthersType, RankType, RankIncreases
<1>2. At(t, s, p) \in 0..Cardinality(Others(t, s)) /\ Cardinality(Others(t, s)) \in Nat
  BY OthersType
<1>3. u \in Others(t, s) <=> v \in Others(t, s)
  BY DEF Others, In
<1>4. CASE u \in Others(t, s)
  BY <1>1, <1>2, <1>3, <1>4, RenumberedCases
<1>5. CASE u \notin Others(t, s) /\ column[u] = column[t] /\ s # column[t]
  <2>1. u \in Others(t, column[t]) /\ v \in Others(t, column[t])
    BY <1>5 DEF Others, In
  <2>2. /\ new[u] = Rank(u, Others(t, column[t]))
        /\ new[v] = Rank(v, Others(t, column[t]))
    BY <1>3, <1>5, u # t, v # t, column[v] = column[t], RenumberedCases
  <2>3. QED
    BY <1>1, <2>1, <2>2
<1>6. CASE u \notin Others(t, s) /\ ~(column[u] = column[t] /\ s # column[t])
  <2>1. new[u] = order[u] /\ new[v] = order[v]
    BY <1>3, <1>6, RenumberedCases
  <2>2. QED
    BY <2>1 DEF Before
<1>7. QED
  BY <1>4, <1>5, <1>6

-----------------------------------------------------------------------------
(* The invariant. *)

\* A primary key that was not handed out yet has no row.
Numbered == \A t \in Task : t > created => column[t] = "ABSENT"

\* A task stays IN PROGRESS until its run ends or loses it.
Running == run # None /\ run.owned => column[run.task] = "IN PROGRESS"

IInv == TypeOK /\ Numbered /\ Running

LEMMA CountedType ==
    ASSUME TypeOK, cli # None
    PROVE  /\ cli.status \in Statuses /\ cli.counted \in SUBSET Task
           /\ Cardinality(cli.counted) \in Nat
<1>1. cli.status \in Statuses /\ cli.counted \in SUBSET Task
  BY DEF TypeOK
<1>2. QED
  BY <1>1, SomeTasksFinite

LEMMA PlaceKeeps ==
    ASSUME TypeOK, Running, NEW t \in Task, NEW s \in Statuses, NEW p \in Nat,
           Place(t, s, p)
    PROVE  /\ column' \in [Task -> Statuses \cup {"ABSENT"}]
           /\ order' \in [Task -> 0..MaxOrder]
           /\ run' \in [task : Task, owned : BOOLEAN] \cup {None}
           /\ Running'
<1>1. order' \in [Task -> 0..MaxOrder]
  BY RenumberedType DEF TypeOK, Place
<1>2. column' \in [Task -> Statuses \cup {"ABSENT"}]
  BY DEF TypeOK, Place
<1>3. run' \in [task : Task, owned : BOOLEAN] \cup {None}
  BY DEF TypeOK, Place, Disown
<1>4. run = None \/ run = [task |-> run.task, owned |-> run.owned]
  BY DEF TypeOK
<1>5. Running'
  <2>1. CASE Owned(t)
    BY <2>1 DEF TypeOK, Running, Place, Disown, Owned
  <2>2. CASE ~Owned(t)
    BY <1>4, <2>2 DEF TypeOK, Running, Place, Disown, Owned
  <2>3. QED
    BY <2>1, <2>2
<1>6. QED
  BY <1>1, <1>2, <1>3, <1>5

LEMMA Invariant == IInv /\ [Next]_vars => IInv'
<1> SUFFICES ASSUME IInv, [Next]_vars PROVE IInv'
  OBVIOUS
<1> USE DEF IInv
<1>t. order \in [Task -> Nat] /\ order \in [Task -> 0..MaxOrder]
  BY DEF TypeOK
<1>1. CASE CreateTask
  <2>1. created + 1 \in Task
    BY <1>1, BoundsAssumption DEF CreateTask, TypeOK, Task
  <2>2. created' \in 0..MaxTask
    BY <1>1, BoundsAssumption DEF CreateTask, TypeOK
  <2>3. LastOrder("BACKLOG") \in 0..MaxOrder
    BY <1>1, <1>t, LastOrderIsLast, BoundsAssumption DEF CreateTask
  <2>4. TypeOK'
    BY <1>1, <2>2, <2>3 DEF CreateTask, TypeOK, Statuses
  <2>5. Numbered'
    BY <1>1 DEF CreateTask, TypeOK, Numbered, Task
  <2>6. column[created + 1] = "ABSENT"
    BY <2>1 DEF TypeOK, Numbered
  <2>7. Running'
    BY <1>1, <2>6 DEF CreateTask, TypeOK, Running
  <2>8. QED
    BY <2>4, <2>5, <2>7
<1>2. CASE Claim
  <2>1. First \in Task /\ column[First] = "OPEN"
    BY <1>2, <1>t, FirstIsClaimable DEF Claim, Claimable, In
  <2>2. TypeOK'
    BY <1>2, <2>1 DEF Claim, TypeOK, Statuses
  <2>3. Numbered' /\ Running'
    BY <1>2, <2>1 DEF Claim, TypeOK, Numbered, Running
  <2>4. QED
    BY <2>2, <2>3
<1>3. CASE Finish
  <2>1. TypeOK'
    BY <1>3 DEF Finish, TypeOK, Statuses
  <2>2. Numbered' /\ Running'
    BY <1>3 DEF Finish, TypeOK, Numbered, Running
  <2>3. QED
    BY <2>1, <2>2
<1>4. ASSUME NEW t \in Task, AddUserComment(t) PROVE IInv'
  <2>1. TypeOK'
    BY <1>4 DEF AddUserComment, TypeOK, Statuses
  <2>2. Numbered' /\ Running'
    BY <1>4 DEF AddUserComment, TypeOK, Numbered, Running
  <2>3. QED
    BY <2>1, <2>2
<1>5. ASSUME NEW t \in Task, DeleteTask(t) PROVE IInv'
  <2>1. TypeOK'
    BY <1>5, BoundsAssumption DEF DeleteTask, TypeOK
  <2>2. Numbered' /\ Running'
    BY <1>5 DEF DeleteTask, TypeOK, Numbered, Running
  <2>3. QED
    BY <2>1, <2>2
<1>6. ASSUME NEW t \in Task, CliMove(t) PROVE IInv'
  <2>1. CASE column[t] = "ABSENT"
    BY <1>6, <2>1 DEF CliMove, TypeOK, Numbered, Running
  <2>2. CASE column[t] # "ABSENT"
    <3>1. /\ cli.status \in Statuses /\ Cardinality(cli.counted) \in Nat
          /\ Place(t, cli.status, Cardinality(cli.counted))
      BY <1>6, <2>2, CountedType DEF CliMove
    <3>2. TypeOK' /\ Running'
      BY <1>6, <3>1, PlaceKeeps DEF CliMove, TypeOK
    <3>3. Numbered'
      BY <1>6, <2>2 DEF CliMove, Place, TypeOK, Numbered
    <3>4. QED
      BY <3>2, <3>3
  <2>3. QED
    BY <2>1, <2>2
<1>7. ASSUME NEW t \in Task, NEW s \in Columns \cup {column[t]}, Save(t, s) PROVE IInv'
  <2>1. s \in Statuses
    BY <1>7, ColumnsAssumption DEF Save, UpdateTask, TypeOK
  <2>2. LastOrder(s) \in 0..MaxOrder \/ s = column[t]
    BY <1>7, <1>t, LastOrderIsLast, BoundsAssumption DEF Save, UpdateTask
  <2>3. TypeOK'
    BY <1>7, <2>1, <2>2 DEF Save, UpdateTask, TypeOK, Disown
  <2>4. Numbered'
    BY <1>7, <2>1 DEF Save, UpdateTask, TypeOK, Numbered
  <2>5. Running'
    <3>1. run = None \/ run = [task |-> run.task, owned |-> run.owned]
      BY DEF TypeOK
    <3>2. CASE s = column[t]
      BY <1>7, <3>2 DEF Save, UpdateTask, Disown, Running
    <3>3. CASE s # column[t] /\ Owned(t)
      BY <1>7, <3>3 DEF Save, UpdateTask, TypeOK, Disown, Running
    <3>4. CASE s # column[t] /\ ~Owned(t)
      BY <1>7, <3>1, <3>4 DEF Save, UpdateTask, TypeOK, Disown, Running, Owned
    <3>5. QED
      BY <3>2, <3>3, <3>4
  <2>6. QED
    BY <2>3, <2>4, <2>5
<1>8. ASSUME NEW t \in Task, NEW s \in Columns \cup {column[t]},
             NEW p \in Position, MoveTask(t, s, p)
      PROVE  IInv'
  <2>1. s \in Statuses /\ p \in Nat /\ Place(t, s, p) /\ column[t] # "ABSENT"
    BY <1>8, ColumnsAssumption, BoundsAssumption DEF MoveTask, TypeOK, Position
  <2>2. TypeOK' /\ Running'
    BY <1>8, <2>1, PlaceKeeps DEF MoveTask, TypeOK
  <2>3. Numbered'
    BY <1>8, <2>1 DEF MoveTask, Place, TypeOK, Numbered
  <2>4. QED
    BY <2>2, <2>3
<1>9. ASSUME NEW s \in Cli, CliCount(s) PROVE IInv'
  <2>1. cli' \in [status : Statuses, counted : SUBSET Task] \cup {None}
    BY <1>9, CliAssumption DEF CliCount, In
  <2>2. QED
    BY <1>9, <2>1 DEF CliCount, TypeOK, Numbered, Running
<1>10. CASE ConfirmRemoteStop
  BY <1>10 DEF ConfirmRemoteStop, TypeOK, Numbered, Running
<1>11. CASE UNCHANGED vars
  BY <1>11 DEF vars, TypeOK, Numbered, Running
<1>12. QED
  BY <1>1, <1>2, <1>3, <1>4, <1>5, <1>6, <1>7, <1>8, <1>9, <1>10, <1>11 DEF Next

LEMMA Initially == Init => IInv
<1>1. Init => TypeOK
  <2>1. 0 \in 0..MaxTask /\ 0 \in 0..MaxOrder
    BY BoundsAssumption
  <2>2. QED
    BY <2>1 DEF Init, TypeOK
<1>2. Init => Numbered /\ Running
  BY DEF Init, Numbered, Running
<1>3. QED
  BY <1>1, <1>2 DEF IInv

LEMMA Always == Spec => []IInv
BY Initially, Invariant, PTL DEF Spec

(* Every reachable board is well typed; in particular renumbering and       *)
(* LastOrder never leave the range of sort_order.                           *)
THEOREM TypeCorrect == Spec => []TypeOK
<1>1. IInv => TypeOK
  BY DEF IInv
<1>2. QED
  BY <1>1, Always, PTL

-----------------------------------------------------------------------------
(* What a step may do to the order. *)

LEMMA PlaceKeepsOrder ==
    ASSUME TypeOK, NEW x \in Task, NEW s, NEW p \in Nat, Place(x, s, p),
           NEW t \in Task \ {x}, NEW u \in Task \ {x},
           column[t] = column[u], Before(t, u)
    PROVE  Before(t, u)'
<1>1. order \in [Task -> Nat]
  BY DEF TypeOK
<1>2. order' = Renumbered(x, s, p)
  BY DEF Place
<1>3. order'[t] < order'[u] \/ (order'[t] = order'[u] /\ t < u)
  BY <1>1, <1>2, RenumberedKeepsOrder
<1>4. QED
  BY <1>3 DEF Before

LEMMA KeepsOrderStep ==
    ASSUME IInv, [Next]_vars, NEW t \in Task, NEW u \in Task,
           column[t] = column[u], column'[t] = column[t], column'[u] = column[u],
           column[t] # "ABSENT", Before(t, u), ~Before(t, u)'
    PROVE  \/ CliMove(t) \/ CliMove(u)
           \/ \E x \in {t, u}, p \in Position : MoveTask(x, column[t], p)
<1> DEFINE Goal == \/ CliMove(t) \/ CliMove(u)
                   \/ \E x \in {t, u}, p \in Position : MoveTask(x, column[t], p)
<1> SUFFICES Goal
  OBVIOUS
<1> USE DEF IInv
<1>k. ~(order'[t] = order[t] /\ order'[u] = order[u])
  BY DEF Before
<1>1. CASE CreateTask
  <2>1. column[created + 1] = "ABSENT" \/ created + 1 \notin Task
    BY <1>1 DEF CreateTask, TypeOK, Numbered, Task
  <2>2. t # created + 1 /\ u # created + 1
    BY <2>1
  <2>3. QED
    BY <1>1, <1>k, <2>2 DEF CreateTask, TypeOK
<1>2. CASE Claim \/ Finish \/ ConfirmRemoteStop \/ UNCHANGED vars
  BY <1>2, <1>k DEF Claim, Finish, ConfirmRemoteStop, vars
<1>3. ASSUME NEW x \in Task, AddUserComment(x) PROVE Goal
  BY <1>3, <1>k DEF AddUserComment
<1>4. ASSUME NEW x \in Task, DeleteTask(x) PROVE Goal
  BY <1>4, <1>k DEF DeleteTask, TypeOK
<1>5. ASSUME NEW x \in Task, CliMove(x) PROVE Goal
  <2>1. CASE column[x] = "ABSENT"
    BY <1>5, <1>k, <2>1 DEF CliMove
  <2>2. CASE column[x] # "ABSENT" /\ x \notin {t, u}
    <3>1. /\ Cardinality(cli.counted) \in Nat
          /\ Place(x, cli.status, Cardinality(cli.counted))
      BY <1>5, <2>2, CountedType DEF CliMove
    <3>2. QED
      BY <2>2, <3>1, PlaceKeepsOrder
  <2>3. QED
    BY <1>5, <2>1, <2>2
<1>6. ASSUME NEW x \in Task, NEW s \in Columns \cup {column[x]}, Save(x, s) PROVE Goal
  BY <1>6, <1>k DEF Save, UpdateTask, TypeOK
<1>7. ASSUME NEW x \in Task, NEW s \in Columns \cup {column[x]},
             NEW p \in Position, MoveTask(x, s, p)
      PROVE  Goal
  <2>1. Place(x, s, p) /\ p \in Nat
    BY <1>7, BoundsAssumption DEF MoveTask, Position
  <2>2. x \in {t, u}
    BY <2>1, PlaceKeepsOrder
  <2>3. s = column[t]
    BY <2>1, <2>2 DEF Place, TypeOK
  <2>4. QED
    BY <1>7, <2>2, <2>3
<1>8. ASSUME NEW s \in Cli, CliCount(s) PROVE Goal
  BY <1>8, <1>k DEF CliCount
<1> HIDE DEF Goal
<1>9. QED
  BY <1>1, <1>2, <1>3, <1>4, <1>5, <1>6, <1>7, <1>8 DEF Next

(* Two cards that stay in a column keep their order, unless one of them is  *)
(* dragged or moved (move_task, update_task, move_task.py).                 *)
THEOREM OthersStay == Spec => OthersKeepOrder
<1>1. IInv /\ [Next]_vars =>
        [\A t, u \in Task :
          /\ column[t] = column[u] /\ column'[t] = column[t] /\ column'[u] = column[u]
          /\ column[t] # "ABSENT" /\ Before(t, u) /\ ~Before(t, u)'
          => \/ CliMove(t) \/ CliMove(u)
             \/ \E x \in {t, u}, p \in Position : MoveTask(x, column[t], p)]_vars
  BY KeepsOrderStep
<1>2. QED
  BY <1>1, Always, PTL DEF Spec, OthersKeepOrder

LEMMA OvertakenStep ==
    ASSUME IInv, IInv', [Next]_vars, NEW t \in Task, Overtaken(t)
    PROVE  \/ \E u \in Task : AddUserComment(u) \/ CliMove(u)
           \/ \E u \in Task, p \in Position : MoveTask(u, "OPEN", p)
<1> DEFINE Goal == \/ \E u \in Task : AddUserComment(u) \/ CliMove(u)
                   \/ \E u \in Task, p \in Position : MoveTask(u, "OPEN", p)
<1> SUFFICES Goal
  OBVIOUS
<1> USE DEF IInv
<1>o. order \in [Task -> Nat] /\ order' \in [Task -> Nat]
  BY DEF TypeOK
<1>a. column[t] = "OPEN" /\ column'[t] = "OPEN"
  BY DEF Overtaken
<1>b. PICK u \in Task : column'[u] = "OPEN" /\ Before(u, t)' /\ ~(column[u] = "OPEN" /\ Before(u, t))
  BY <1>a DEF Overtaken, Ahead, In
<1>c. u # t
  BY <1>b, <1>o DEF Before, Task
<1>k. ~(column'[u] = column[u] /\ order'[u] = order[u] /\ order'[t] = order[t])
  BY <1>b DEF Before
<1>1. CASE CreateTask
  BY <1>1, <1>a, <1>b, <1>k DEF CreateTask, TypeOK
<1>2. CASE Claim
  BY <1>2, <1>b, <1>k DEF Claim, TypeOK
<1>3. CASE Finish
  BY <1>3, <1>b, <1>k DEF Finish, TypeOK
<1>4. ASSUME NEW x \in Task, AddUserComment(x) PROVE Goal
  BY <1>4
<1>5. ASSUME NEW x \in Task, DeleteTask(x) PROVE Goal
  BY <1>5, <1>a, <1>b, <1>k DEF DeleteTask, TypeOK
<1>6. ASSUME NEW x \in Task, CliMove(x) PROVE Goal
  BY <1>6
<1>7. ASSUME NEW x \in Task, NEW s \in Columns \cup {column[x]}, Save(x, s) PROVE Goal
  <2>1. s # column[x] /\ column' = [column EXCEPT ![x] = s]
        /\ order' = [order EXCEPT ![x] = LastOrder(s)]
    BY <1>7, <1>k DEF Save, UpdateTask
  <2>2. x # t
    BY <1>a, <2>1 DEF TypeOK
  <2>3. u = x /\ s = "OPEN"
    BY <1>b, <1>k, <2>1, <2>2 DEF TypeOK
  <2>4. t \in In("OPEN") /\ order \in [Task -> 0..MaxOrder]
    BY <1>a DEF In, TypeOK
  <2>5. order[t] < LastOrder("OPEN") /\ LastOrder("OPEN") \in Nat
    BY <2>4, LastOrderIsLast, BoundsAssumption
  <2>6. order'[u] = LastOrder("OPEN") /\ order'[t] = order[t]
    BY <1>c, <2>1, <2>3 DEF TypeOK
  <2>7. QED
    BY <1>b, <1>o, <2>5, <2>6 DEF Before
<1>8. ASSUME NEW x \in Task, NEW s \in Columns \cup {column[x]},
             NEW p \in Position, MoveTask(x, s, p)
      PROVE  Goal
  <2>1. CASE s = "OPEN"
    BY <1>8, <2>1
  <2>2. CASE s # "OPEN"
    <3>1. Place(x, s, p) /\ p \in Nat
      BY <1>8, BoundsAssumption DEF MoveTask, Position
    <3>2. x # t /\ x # u
      BY <1>a, <1>b, <2>2, <3>1 DEF Place, TypeOK
    <3>3. column[u] = "OPEN"
      BY <1>b, <3>1, <3>2 DEF Place, TypeOK
    <3>4. Before(t, u)
      BY <1>b, <1>c, <1>o, <3>3, BeforeIsTotalOrder
    <3>5. Before(t, u)'
      BY <1>a, <3>1, <3>2, <3>3, <3>4, PlaceKeepsOrder
    <3>6. QED
      BY <1>b, <1>o, <3>5 DEF Before, Task
  <2>3. QED
    BY <2>1, <2>2
<1>9. ASSUME NEW s \in Cli, CliCount(s) PROVE Goal
  BY <1>9, <1>k DEF CliCount
<1>10. CASE ConfirmRemoteStop \/ UNCHANGED vars
  BY <1>10, <1>k DEF ConfirmRemoteStop, vars
<1> HIDE DEF Goal
<1>11. QED
  BY <1>1, <1>2, <1>3, <1>4, <1>5, <1>6, <1>7, <1>8, <1>9, <1>10 DEF Next

(* A waiting task is overtaken only by a card that somebody dragged, moved   *)
(* from the command line or commented on: creating a task or saving a form   *)
(* puts no card ahead of it (next_order), whatever gaps and ties there are.  *)
THEOREM OvertakenOnlyByHand == Spec => OvertakenByHand
<1>1. IInv /\ IInv' /\ [Next]_vars =>
        [\A t \in Task : Overtaken(t) =>
          \/ \E u \in Task : AddUserComment(u) \/ CliMove(u)
          \/ \E u \in Task, p \in Position : MoveTask(u, "OPEN", p)]_vars
  BY OvertakenStep
<1>2. QED
  BY <1>1, Always, PTL DEF Spec, OvertakenByHand

(* Where a moved card comes to lie: behind as many cards as were asked for. *)
LEMMA PlaceLands ==
    ASSUME TypeOK, NEW t \in Task, NEW s, NEW p \in Nat, Place(t, s, p)
    PROVE  /\ Ahead(t)' \subseteq Others(t, s)
           /\ Cardinality(Ahead(t)') = At(t, s, p)
<1> DEFINE others == Others(t, s)
           at == At(t, s, p)
<1>1. /\ order' = Renumbered(t, s, p) /\ column' = [column EXCEPT ![t] = s]
      /\ order \in [Task -> Nat]
  BY DEF Place, TypeOK
<1>2. /\ others \in SUBSET Task /\ Cardinality(others) \in Nat
      /\ at \in 0..Cardinality(others)
  BY <1>1, OthersType
<1>3. order'[t] = at
  BY <1>1, RenumberedCases
<1>4. column'[t] = s /\ \A u \in Task : u \in others <=> u # t /\ column'[u] = s
  BY <1>1 DEF Others, In, TypeOK
<1>5. \A u \in others : /\ Rank(u, others) \in Nat
                       /\ order'[u] = IF Rank(u, others) < at THEN Rank(u, others)
                                      ELSE Rank(u, others) + 1
  BY <1>1, <1>2, RankType, RenumberedCases
<1> HIDE DEF others, at
<1>6. \A u \in others : Before(u, t)' <=> Rank(u, others) < at
  BY <1>2, <1>3, <1>5 DEF Before
<1>7. ~Before(t, t)'
  BY <1>2, <1>3 DEF Before, Task
<1>8. Ahead(t)' = {u \in others : Rank(u, others) < at}
  <2>1. \A u \in Task : u \in Ahead(t)' <=> column'[u] = s /\ Before(u, t)'
    BY <1>4 DEF Ahead, In
  <2>2. Ahead(t)' \subseteq Task
    BY DEF Ahead, In
  <2>3. QED
    BY <1>2, <1>4, <1>6, <1>7, <2>1, <2>2
<1>9. Cardinality({u \in others : Rank(u, others) < at}) = at
  BY <1>1, <1>2, RanksCount
<1>10. QED
  BY <1>8, <1>9 DEF others, at

(* A card dragged to a position of an outdated board has as many cards      *)
(* before it as the browser asked for, or all others if the column is       *)
(* shorter by now (move_task).                                              *)
LandsWhereDropped ==
    [][\A t \in Task, s \in Statuses, p \in Position :
        MoveTask(t, s, p) =>
          LET others == In(s) \ {t}
          IN Cardinality(Ahead(t)') = IF p < Cardinality(others) THEN p
                                      ELSE Cardinality(others)]_vars

(* The numbers that move_task writes put a dragged card where it was dropped. *)
THEOREM DropLands == Spec => LandsWhereDropped
<1>1. ASSUME IInv, NEW t \in Task, NEW s \in Statuses, NEW p \in Position, MoveTask(t, s, p)
      PROVE  Cardinality(Ahead(t)') = At(t, s, p)
  <2>1. Place(t, s, p) /\ p \in Nat
    BY <1>1, BoundsAssumption DEF MoveTask, Position
  <2>2. QED
    BY <1>1, <2>1, PlaceLands DEF IInv
<1>2. IInv /\ [Next]_vars =>
        [\A t \in Task, s \in Statuses, p \in Position :
          MoveTask(t, s, p) =>
            LET others == In(s) \ {t}
            IN Cardinality(Ahead(t)') = IF p < Cardinality(others) THEN p
                                        ELSE Cardinality(others)]_vars
  BY <1>1 DEF At, Others
<1>3. QED
  BY <1>2, Always, PTL DEF Spec, LandsWhereDropped

LEMMA CliLandsStep ==
    ASSUME TypeOK, NEW t \in Task, CliMove(t), column[t] # "ABSENT",
           Others(t, cli.status) \subseteq cli.counted
    PROVE  Ahead(t)' = Others(t, cli.status)
<1> DEFINE others == Others(t, cli.status)
           size == Cardinality(cli.counted)
<1>1. /\ cli # None /\ Place(t, cli.status, size)
  BY DEF CliMove
<1>2. cli.counted \in SUBSET Task /\ size \in Nat
  BY <1>1, CountedType
<1>3. IsFiniteSet(cli.counted) /\ IsFiniteSet(others) /\ Cardinality(others) \in Nat
  BY <1>2, SomeTasksFinite, OthersType
<1>4. Cardinality(others) <= size
  BY <1>2, <1>3, FS_Subset
<1>5. Ahead(t)' \subseteq others /\ Cardinality(Ahead(t)') = At(t, cli.status, size)
  BY <1>1, <1>2, PlaceLands
<1>6. At(t, cli.status, size) = Cardinality(others)
  BY <1>2, <1>3, <1>4 DEF At
<1> HIDE DEF others, size
<1>7. Ahead(t)' = others
  BY <1>3, <1>5, <1>6, FS_Subset
<1>8. QED
  BY <1>7 DEF others

(* move_task.py counts the cards of a column in one transaction and appends *)
(* its card in the next: the card is the last one, whatever left the column *)
(* or was rearranged in between, unless another card came into it.          *)
THEOREM CliAppends == Spec => CliMovesLast
<1>1. IInv /\ [Next]_vars =>
        [\A t \in Task :
          LET others == In(cli.status) \ {t}
          IN CliMove(t) /\ column[t] # "ABSENT" /\ others \subseteq cli.counted
             => Ahead(t)' = others]_vars
  BY CliLandsStep DEF Others, IInv
<1>2. QED
  BY <1>1, Always, PTL DEF Spec, CliMovesLast

=============================================================================
