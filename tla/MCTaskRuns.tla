----------------------------- MODULE MCTaskRuns -----------------------------
(* Instances of TaskRuns for TLC. *)
EXTENDS TaskRuns, TLC

CONSTANTS t1, t2, w1, w2

\* All processes on one host.
OneScope == [p \in Process |-> "here"]

\* The consumer runs elsewhere: recovery is left to the executors.
NoConsumer == [p \in Process |-> IF p = Consumer THEN "there" ELSE "here"]

\* Executors of one scope are interchangeable, and so are tasks.
Symmetry == Permutations(Worker) \cup Permutations(Task)
=============================================================================
