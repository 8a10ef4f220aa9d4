------------------------ MODULE TaskMaterialsProofs ------------------------
(***************************************************************************)
(* Proofs about TaskMaterials: rows and files of the attachments agree, a   *)
(* run starts its agent only in its own task's directory with exactly its   *)
(* attachments, and a deleted task's directory stays empty.                 *)
(***************************************************************************)
EXTENDS TaskMaterials, TLAPS

-----------------------------------------------------------------------------
(* The inductive invariant. *)

Run == [pc : {"off", "read", "cwd", "ctx", "check", "transfer", "prepared",
              "work", "finish"},
        no : 0..MaxBorn, reuse : BOOLEAN, want : SUBSET File, todo : SUBSET File,
        seen : SUBSET (File \cup {TaskMd}), file : File \cup {TaskMd}]

TaskRow ==
    [no : 0..MaxBorn, status : {"BACKLOG", "OPEN", "IN PROGRESS", "WAIT"},
     ready : BOOLEAN, owned : BOOLEAN]

Types == TypeOK /\ run \in Run

\* What a transaction relies on, nobody else changes while it lasts.
Transactions ==
    /\ task.no <= born /\ gone \subseteq 1..born /\ task.no \notin gone
    /\ task.no = 0 => rows = {}
    /\ op # None =>
        /\ op.kind = "create" => task.no = 0 /\ born < MaxBorn
        /\ op.kind = "update" => task.no # 0 /\ op.drop \subseteq rows
        /\ op.kind = "delete" => task.no # 0 /\ task.status = "BACKLOG"
        /\ op.kind \in {"delete", "clear"} => op.new = {}

New == IF op = None THEN {} ELSE op.new

\* Each stored file has one owner: a row, the transaction that wrote it, or
\* those that are about to be unlinked.
Files ==
    /\ op = None \/ op.kind # "clear" => staged \subseteq lost
    /\ New \cup rows \cup tails \subseteq used
    /\ New \cap rows = {} /\ New \cap tails = {} /\ rows \cap tails = {}
    /\ New \subseteq disk /\ rows \subseteq disk \cup staged \cup lost
    /\ disk \subseteq rows \cup strays \cup tails \cup New

\* context_ready and a run that relies on it vouch for the maker.
Makers ==
    /\ dir # "full" => ctx = {}
    /\ task.ready => maker = task.no
    /\ run.reuse => maker = run.no
    /\ run.pc \in {"ctx", "check", "transfer", "prepared", "work"} => maker = run.no
    /\ run.pc \in {"read", "cwd", "ctx", "check", "transfer", "prepared"} /\ task.ready =>
          run.reuse

\* As long as the run owns its task nobody deletes, and what it has copied
\* and removed so far adds up.
Mirror ==
    /\ run.pc \in {"read", "cwd", "ctx"} => run.seen = {}
    /\ run.pc \in {"cwd", "ctx"} => run.todo = run.want
    /\ Owns /\ run.pc \in {"check", "transfer"} =>
          /\ dir = "full" /\ run.todo \subseteq run.want /\ run.seen \subseteq ctx
          /\ run.want \ run.todo \subseteq ctx
          /\ ctx \subseteq run.seen \cup (run.want \ run.todo)
    /\ run.pc = "transfer" => run.file \in NextFiles
    /\ Owns /\ run.pc \in {"prepared", "work"} =>
          dir = "full" /\ ctx = run.want \cup {TaskMd}

\* The tasks whose directory was seen gone, before or after the commit.
Erased ==
    gone \cup (IF op # None /\ op.kind = "delete" /\ op.sure THEN {task.no} ELSE {})

Empty ==
    maker \in Erased => ctx = {} /\ (run.pc = "transfer" => dir # "full")

IInv == Types /\ Transactions /\ Files /\ Makers /\ Mirror /\ Empty

-----------------------------------------------------------------------------
(* Types. *)

\* The types of one field after another.
LEMMA Fields ==
    ASSUME Types
    PROVE  /\ task.no \in 0..MaxBorn /\ task.ready \in BOOLEAN /\ task.owned \in BOOLEAN
           /\ task.status \in {"BACKLOG", "OPEN", "IN PROGRESS", "WAIT"}
           /\ run.no \in 0..MaxBorn /\ run.reuse \in BOOLEAN
           /\ run.pc \in {"off", "read", "cwd", "ctx", "check", "transfer", "prepared",
                          "work", "finish"}
           /\ run.want \subseteq File /\ run.todo \subseteq File
           /\ run.seen \subseteq File \cup {TaskMd} /\ run.file \in File \cup {TaskMd}
           /\ op # None =>
                /\ op \in Transaction
                /\ op.kind \in {"create", "update", "delete", "clear"}
                /\ op.step \in {"open", "connect", "walk", "top", "confirm", "commit"}
                /\ op.new \subseteq File /\ op.drop \subseteq File \cup {TaskMd}
                /\ op.sure \in BOOLEAN
BY DEF Types, TypeOK, Run, Transaction

\* The start and the steps of a transaction.
LEMMA BeginType ==
    ASSUME Types, NEW kind \in {"create", "update", "delete", "clear"},
           NEW step \in {"open", "connect"}, NEW drop \in SUBSET File,
           Begin(kind, step, drop)
    PROVE  Types'
<1>1. op' \in Transaction
  BY DEF Begin, Transaction
<1>2. QED
  BY <1>1 DEF Begin, Types, TypeOK, board, files, remote

LEMMA RunPlaces ==
    \A r \in Run : r.pc \in {"off", "read", "cwd", "ctx", "check", "transfer", "prepared",
                            "work", "finish"}
BY DEF Run

LEMMA TypesStep == ASSUME Types, Transactions, [Next]_vars PROVE Types'
<1>a. /\ task \in TaskRow /\ run \in Run /\ op \in Transaction \cup {None}
      /\ rows \subseteq File /\ ctx \subseteq File \cup {TaskMd} /\ born \in 0..MaxBorn
      /\ task.owned => task.status = "IN PROGRESS" /\ run.pc # "off" /\ run.no = task.no
  BY DEF Types, TypeOK, TaskRow
<1>b. MaxBorn \in Nat
  BY MaterialsAssumption
<1> USE DEF board, files, remote, vars, Alone, Quietly, Goto
<1>1. CASE CreateTask \/ UpdateTask \/ DeleteTask \/ ClearDatabase
  <2>1. ASSUME UpdateTask PROVE Types'
    <3>1. PICK drop \in SUBSET rows : Begin("update", "open", drop)
      BY <2>1 DEF UpdateTask
    <3>2. drop \in SUBSET File
      BY <1>a
    <3>3. QED
      BY <3>1, <3>2, BeginType
  <2>2. CASE CreateTask \/ DeleteTask \/ ClearDatabase
    <3>1. {} \in SUBSET File
      OBVIOUS
    <3>2. QED
      BY <2>2, <3>1, BeginType, Zenon DEF CreateTask, DeleteTask, ClearDatabase
  <2>3. QED
    BY <1>1, <2>1, <2>2
<1>2. CASE Commit
  <2>1. op # None /\ op' = None /\ run' = run
    BY <1>2 DEF Commit
  <2>2. NoTask \in TaskRow /\ ~NoTask.owned
    BY <1>b DEF NoTask, TaskRow
  <2>3. CASE op.kind = "create"
    <3>1. born + 1 \in 0..MaxBorn
      <4>1. born < MaxBorn
        BY <2>1, <2>3 DEF Transactions
      <4>2. born \in 0..MaxBorn
        BY <1>a
      <4>3. QED
        BY <1>b, <4>1, <4>2
    <3>2. task' \in TaskRow /\ ~task'.owned /\ born' \in 0..MaxBorn
      BY <1>2, <2>1, <2>2, <2>3, <3>1 DEF Commit, NoTask, TaskRow
    <3>3. rows' \subseteq File
      BY <1>2, <1>a, <2>1, <2>3 DEF Commit, Transaction
    <3>4. QED
      BY <1>2, <2>1, <2>3, <3>2, <3>3 DEF Commit, Types, TypeOK, TaskRow
  <2>4. CASE op.kind = "update"
    <3>1. rows' \subseteq File /\ tails' \subseteq File
      BY <1>2, <1>a, <2>1, <2>4 DEF Commit, Transaction, Transactions, Types, TypeOK
    <3>2. QED
      BY <1>2, <2>1, <2>4, <3>1 DEF Commit, Types, TypeOK
  <2>5. CASE op.kind = "delete"
    <3>1. task.no \in Born
      <4>1. task.no # 0 /\ task.no \in 0..MaxBorn
        BY <1>a, <2>1, <2>5 DEF Transactions, TaskRow
      <4>2. QED
        BY <4>1, <1>b DEF Born
    <3>2. task' = NoTask /\ rows' = {} /\ tails' = tails \cup rows /\ gone' \subseteq gone \cup {task.no}
      BY <1>2, <2>1, <2>5 DEF Commit
    <3>3. QED
      BY <1>2, <1>a, <2>1, <2>2, <2>5, <3>1, <3>2 DEF Commit, Types, TypeOK, TaskRow
  <2>6. CASE op.kind = "clear"
    BY <1>2, <2>1, <2>2, <2>6 DEF Commit, Types, TypeOK, TaskRow
  <2>7. QED
    BY <1>2, <2>1, <2>3, <2>4, <2>5, <2>6 DEF Commit
<1>3. CASE Rollback \/ WebCrash
  <2>1. CASE Rollback
    <3>1. /\ disk' \subseteq File /\ staged' \subseteq File
          /\ strays' \subseteq File /\ lost' \subseteq File
      BY <2>1 DEF Rollback, MoveBack, Types, TypeOK
    <3>2. tails' \subseteq File /\ op' = None
      BY <2>1, Fields DEF Rollback, Types, TypeOK
    <3>3. QED
      BY <2>1, <3>1, <3>2 DEF Rollback, Types, TypeOK
  <2>2. CASE WebCrash
    BY <2>2, Fields DEF WebCrash, Types, TypeOK
  <2>3. QED
    BY <1>3, <2>1, <2>2
<1>4. ASSUME NEW f \in File, SaveFile(f) \/ SaveFails(f) PROVE Types'
  <2>1. op # None => [op EXCEPT !.new = @ \cup {f}] \in Transaction
    BY <1>a DEF Transaction
  <2>2. op' \in Transaction \cup {None}
    BY <1>4, <2>1 DEF SaveFile, SaveFails
  <2>3. QED
    BY <1>4, <2>2, Fields DEF SaveFile, SaveFails, Types, TypeOK
<1>5. ASSUME NEW f \in File, StageFile(f) \/ Unlink(f) PROVE Types'
  BY <1>5 DEF StageFile, Unlink, Types, TypeOK
<1>6. CASE Connect \/ Confirm \/ RemoveDirectory
  <2>1. op \in Transaction
    BY <1>6, <1>a DEF Connect, Confirm, RemoveDirectory, Deleting
  <2>2. CASE Connect
    <3>1. op' \in Transaction
      BY <2>1, <2>2, <1>a DEF Connect, Transaction
    <3>2. QED
      BY <2>2, <3>1 DEF Connect, Types, TypeOK
  <2>3. CASE Confirm
    BY <2>1, <2>3 DEF Confirm, Transaction, Types, TypeOK
  <2>4. CASE RemoveDirectory
    <3>1. op' \in Transaction
      BY <2>1, <2>4 DEF RemoveDirectory, Transaction
    <3>2. QED
      BY <2>4, <3>1 DEF RemoveDirectory, Types, TypeOK
  <2>5. QED
    BY <1>6, <2>2, <2>3, <2>4
<1>7. ASSUME NEW f \in File \cup {TaskMd}, RemoveFile(f) PROVE Types'
  BY <1>7, <1>a DEF RemoveFile, Deleting, Types, TypeOK, Transaction
<1>8. CASE Requeue \/ Cancel
  BY <1>8 DEF Requeue, Cancel, Types, TypeOK
<1>9. CASE Claim
  BY <1>9 DEF Claim, NoRun, Types, TypeOK, Run
<1>10. CASE ReadRows \/ MakeDirectory \/ MakeRequirements \/ ReuseDirectory \/ Transfer
  <2>1. run' \in Run /\ run'.pc # "off" /\ run'.no = run.no
    <3>1. CASE ReadRows
      BY <1>a, <3>1 DEF ReadRows, Run
    <3>2. CASE MakeDirectory \/ MakeRequirements
      BY <1>a, <3>2 DEF MakeDirectory, MakeRequirements, Run
    <3>3. CASE ReuseDirectory
      BY <1>a, <3>3 DEF ReuseDirectory, Run
    <3>4. CASE Transfer
      BY <1>a, <3>4 DEF Transfer, Run
    <3>5. QED
      BY <1>10, <3>1, <3>2, <3>3, <3>4
  <2>2. dir' \in {"absent", "bare", "full"} /\ maker' \in 0..MaxBorn
    BY <1>10, Fields DEF ReadRows, MakeDirectory, MakeRequirements, ReuseDirectory, Transfer,
       Types, TypeOK
  <2>3. ctx' \subseteq File \cup {TaskMd}
    <3>1. CASE Transfer
      <4>1. run.file \in File \cup {TaskMd}
        BY <1>a DEF Run
      <4>2. QED
        BY <3>1, <4>1, <1>a DEF Transfer
    <3>2. CASE ~Transfer
      BY <1>10, <3>2, <1>a DEF ReadRows, MakeDirectory, MakeRequirements, ReuseDirectory
    <3>3. QED
      BY <3>1, <3>2
  <2>4. UNCHANGED <<board, files, op, gone>>
    BY <1>10 DEF ReadRows, MakeDirectory, MakeRequirements, ReuseDirectory, Transfer
  <2>5. QED
    BY <2>1, <2>2, <2>3, <2>4, RunPlaces DEF Types, TypeOK
<1>11. ASSUME NEW f \in File \cup {TaskMd}, Check(f) PROVE Types'
  BY <1>11 DEF Check, Types, TypeOK, Run
<1>12. CASE Prepared
  <2>1. run' \in Run /\ run'.pc # "off" /\ run'.no = run.no
    BY <1>12, <1>a DEF Prepared, Run
  <2>2. task' \in TaskRow /\ (task'.owned => task'.status = "IN PROGRESS" /\ run.no = task'.no)
    BY <1>12, <1>a DEF Prepared, TaskRow, Owns
  <2>3. QED
    BY <1>12, <2>1, <2>2, RunPlaces DEF Prepared, Types, TypeOK, TaskRow
<1>13. CASE Finish
  <2>1. NoRun \in Run
    BY <1>b DEF NoRun, Run
  <2>2. task' \in TaskRow /\ ~task'.owned
    BY <1>13, <1>a DEF Finish, TaskRow, Owns
  <2>3. QED
    BY <1>13, <2>1, <2>2, RunPlaces DEF Finish, Types, TypeOK, TaskRow
<1>14. CASE RunEnds
  BY <1>14 DEF RunEnds, Types, TypeOK, Run
<1>15. CASE UNCHANGED vars
  BY <1>15 DEF Types, TypeOK
<1>16. QED
  BY <1>1, <1>2, <1>3, <1>4, <1>5, <1>6, <1>7, <1>8, <1>9, <1>10, <1>11, <1>12, <1>13,
     <1>14, <1>15 DEF Next

-----------------------------------------------------------------------------
(* The parts of the invariant. *)

\* Who changes the operation in progress, the task and the run.
Web == CreateTask \/ UpdateTask \/ DeleteTask \/ ClearDatabase \/ Commit \/ Rollback
       \/ WebCrash \/ \E f \in File : SaveFile(f) \/ SaveFails(f) \/ StageFile(f) \/ Unlink(f)
Deletion == Connect \/ RemoveDirectory \/ Confirm \/ \E f \in File \cup {TaskMd} : RemoveFile(f)
Preparation ==
    ReadRows \/ MakeDirectory \/ MakeRequirements \/ ReuseDirectory \/ Transfer \/ RunEnds
    \/ \E f \in File \cup {TaskMd} : Check(f)
Status == Requeue \/ Cancel \/ Claim \/ Prepared \/ Finish

LEMMA Groups == [Next]_vars => Web \/ Deletion \/ Preparation \/ Status \/ UNCHANGED vars
BY Zenon DEF Next, Web, Deletion, Preparation, Status

LEMMA PreparationKeeps == Preparation => UNCHANGED <<board, files, op, gone>>
BY DEF Preparation, ReadRows, MakeDirectory, MakeRequirements, ReuseDirectory, Transfer,
   RunEnds, Check, Alone

LEMMA StatusKeeps ==
    ASSUME Types, Status
    PROVE  /\ op = None /\ UNCHANGED <<born, rows, files, op, remote, gone>>
           /\ task'.no = task.no /\ (task'.ready = task.ready \/ Prepared)
BY DEF Types, TypeOK, Status, Requeue, Cancel, Claim, Prepared, Finish

LEMMA WebKeeps ==
    ASSUME Types, Web PROVE UNCHANGED <<run, remote>> /\ (task' = task \/ Commit)
BY DEF Web, CreateTask, UpdateTask, DeleteTask, ClearDatabase, Begin, Commit, Rollback,
   WebCrash, SaveFile, SaveFails, StageFile, Unlink, board

LEMMA DeletionKeeps ==
    ASSUME Types, Deletion
    PROVE  /\ UNCHANGED <<board, files, run, gone, maker>>
           /\ op # None /\ op.kind = "delete" /\ op' # None
           /\ op'.kind = "delete" /\ op'.new = op.new
<1> DEFINE Goal == /\ UNCHANGED <<board, files, run, gone, maker>>
                   /\ op # None /\ op.kind = "delete"
                   /\ op'.kind = "delete" /\ op'.new = op.new
<1>1. op \in Transaction
  BY DEF Types, TypeOK, Deletion, Connect, RemoveDirectory, Confirm, RemoveFile, Deleting
<1>2. ASSUME Connect PROVE Goal
  BY <1>1, <1>2 DEF Connect, Deleting, Quietly, Transaction, remote
<1>3. ASSUME RemoveDirectory \/ Confirm PROVE Goal
  BY <1>1, <1>3 DEF RemoveDirectory, Confirm, Deleting, Quietly, Transaction, remote
<1>4. ASSUME NEW f \in File \cup {TaskMd}, RemoveFile(f) PROVE Goal
  BY <1>1, <1>4 DEF RemoveFile, Deleting, Quietly, Transaction, remote
<1>5. Goal
  BY <1>2, <1>3, <1>4 DEF Deletion
<1>6. op' \in Transaction
  <2>1. ctx \subseteq File \cup {TaskMd}
    BY DEF Types, TypeOK
  <2>2. CASE Connect
    BY <1>1, <2>1, <2>2 DEF Connect, Transaction
  <2>3. CASE RemoveDirectory \/ Confirm
    BY <1>1, <2>3 DEF RemoveDirectory, Confirm, Transaction
  <2>4. CASE \E f \in File \cup {TaskMd} : RemoveFile(f)
    BY <1>1, <2>4 DEF RemoveFile, Transaction
  <2>5. QED
    BY <2>2, <2>3, <2>4 DEF Deletion
<1>7. QED
  BY <1>5, <1>6, MaterialsAssumption

\* A transaction has a kind of its own from its start on.
LEMMA BeginOp ==
    ASSUME NEW kind \in {"create", "update", "delete", "clear"},
           NEW step \in {"open", "connect"}, NEW drop \in SUBSET File,
           Begin(kind, step, drop)
    PROVE  /\ op = None /\ op' # None /\ op'.kind = kind /\ op'.new = {} /\ op'.drop = drop
           /\ ~op'.sure /\ UNCHANGED <<board, files, run, remote, gone>>
<1>1. op' \in Transaction
  BY DEF Begin, Transaction
<1>2. QED
  BY <1>1, MaterialsAssumption DEF Begin

LEMMA Begins ==
    ASSUME Types, CreateTask \/ UpdateTask \/ DeleteTask \/ ClearDatabase
    PROVE  /\ op = None /\ op' # None /\ op'.new = {} /\ ~op'.sure
           /\ UNCHANGED <<board, files, run, remote, gone>>
           /\ \/ op'.kind = "create" /\ task.no = 0 /\ born < MaxBorn
              \/ op'.kind = "update" /\ task.no # 0 /\ op'.drop \subseteq rows
              \/ op'.kind = "delete" /\ task.no # 0 /\ task.status = "BACKLOG"
              \/ op'.kind = "clear"
<1>1. {} \in SUBSET File /\ rows \subseteq File
  BY DEF Types, TypeOK
<1>2. CASE CreateTask \/ DeleteTask \/ ClearDatabase
  BY <1>1, <1>2, BeginOp DEF CreateTask, DeleteTask, ClearDatabase
<1>3. CASE UpdateTask
  <2>1. PICK drop \in SUBSET rows : Begin("update", "open", drop)
    BY <1>3 DEF UpdateTask
  <2>2. drop \in SUBSET File
    BY <1>1
  <2>3. QED
    BY <1>3, <2>1, <2>2, BeginOp DEF UpdateTask
<1>4. QED
  BY <1>2, <1>3

\* The file that a request writes.
LEMMA Saves ==
    ASSUME Types, NEW f \in File, SaveFile(f)
    PROVE  /\ op # None /\ op' # None /\ op.kind \in {"create", "update"} /\ f \notin used
           /\ op'.kind = op.kind /\ op'.drop = op.drop /\ op'.new = op.new \cup {f}
           /\ op'.sure = op.sure
           /\ used' = used \cup {f} /\ disk' = disk \cup {f}
           /\ UNCHANGED <<board, staged, tails, strays, lost, run, remote, gone>>
<1>1. op \in Transaction
  BY DEF SaveFile, Types, TypeOK
<1>2. op' \in Transaction
  BY <1>1 DEF SaveFile, Transaction
<1>3. QED
  BY <1>1, <1>2, MaterialsAssumption DEF SaveFile, Transaction

LEMMA TransactionsStep == ASSUME Types, Transactions, [Next]_vars PROVE Transactions'
<1> USE DEF board, files, remote, vars
<1>1. CASE Preparation \/ UNCHANGED vars
  BY <1>1, PreparationKeeps DEF Transactions
<1>2. CASE Status
  BY <1>2, StatusKeeps DEF Transactions
<1>3. CASE Deletion
  BY <1>3, DeletionKeeps DEF Transactions
<1>4. CASE CreateTask \/ UpdateTask \/ DeleteTask \/ ClearDatabase
  BY <1>4, Begins DEF Transactions
<1>5. CASE Commit
  <2>1. op # None /\ op' = None /\ NoTask.no = 0 /\ born \in Nat /\ task.no \in Nat
    <3>1. born \in 0..MaxBorn /\ task.no \in 0..MaxBorn
      BY DEF Types, TypeOK
    <3>2. QED
      BY <1>5, <3>1, MaterialsAssumption DEF Commit, NoTask
  <2>2. CASE op.kind = "create"
    <3>1. task'.no = born + 1 /\ born' = born + 1 /\ gone' = gone
      BY <1>5, <2>1, <2>2 DEF Commit, NoTask
    <3>2. QED
      BY <2>1, <3>1 DEF Transactions
  <2>3. CASE op.kind = "update"
    <3>1. UNCHANGED <<task, born, gone>> /\ task.no # 0
      BY <1>5, <2>1, <2>3 DEF Commit, Transactions
    <3>2. QED
      BY <2>1, <3>1 DEF Transactions
  <2>4. CASE op.kind = "delete"
    <3>1. task' = NoTask /\ rows' = {} /\ gone' \subseteq gone \cup {task.no} /\ born' = born
      BY <1>5, <2>1, <2>4 DEF Commit
    <3>2. task.no \in 1..born
      BY <2>1, <2>4 DEF Transactions
    <3>3. QED
      BY <2>1, <3>1, <3>2 DEF Transactions
  <2>5. CASE op.kind = "clear"
    <3>1. task' = NoTask /\ rows' = {} /\ gone' = gone /\ born' = born
      BY <1>5, <2>1, <2>5 DEF Commit
    <3>2. QED
      BY <2>1, <3>1 DEF Transactions
  <2>6. QED
    BY <1>5, <2>2, <2>3, <2>4, <2>5 DEF Commit
<1>6. CASE Rollback \/ WebCrash \/ \E f \in File : SaveFails(f)
  BY <1>6 DEF Rollback, WebCrash, SaveFails, Transactions
<1>7. ASSUME NEW f \in File, SaveFile(f) PROVE Transactions'
  BY <1>7, Saves DEF Transactions
<1>8. ASSUME NEW f \in File, StageFile(f) \/ Unlink(f) PROVE Transactions'
  BY <1>8 DEF StageFile, Unlink, Transactions
<1>9. QED
  BY <1>1, <1>2, <1>3, <1>4, <1>5, <1>6, <1>7, <1>8, Groups DEF Web

LEMMA FilesStep ==
    ASSUME Types, Transactions, Files, [Next]_vars PROVE Files'
<1> USE DEF board, files, remote, vars, New
<1>1. CASE Preparation \/ UNCHANGED vars
  BY <1>1, PreparationKeeps DEF Files
<1>2. CASE Status
  BY <1>2, StatusKeeps DEF Files
<1>3. CASE Deletion
  BY <1>3, DeletionKeeps DEF Files
<1>4. CASE CreateTask \/ UpdateTask \/ DeleteTask \/ ClearDatabase
  BY <1>4, Begins DEF Files
<1>5. CASE Commit
  <2>1. op # None /\ op' = None
    BY <1>5 DEF Commit
  <2>2. CASE op.kind = "create"
    BY <1>5, <2>1, <2>2 DEF Commit, Files, Transactions
  <2>3. CASE op.kind = "update"
    BY <1>5, <2>1, <2>3 DEF Commit, Files, Transactions
  <2>4. CASE op.kind = "delete"
    BY <1>5, <2>1, <2>4 DEF Commit, Files, Transactions
  <2>5. CASE op.kind = "clear"
    BY <1>5, <2>1, <2>5 DEF Commit, Files, Transactions
  <2>6. QED
    BY <1>5, <2>2, <2>3, <2>4, <2>5 DEF Commit
<1>6. CASE Rollback
  <2>1. op # None /\ op' = None /\ tails' = tails \cup op.new /\ UNCHANGED <<rows, used>>
    BY <1>6 DEF Rollback
  <2>2. PICK back \in SUBSET (staged \ lost) :
          /\ disk' = disk \cup back /\ staged' = staged \cap lost
          /\ strays' = strays \cup (back \ rows)
          /\ lost' = lost \cup ((staged \ lost) \ back)
    BY <1>6 DEF Rollback, MoveBack
  <2>3. rows' \subseteq disk' \cup staged' \cup lost'
    BY <2>1, <2>2 DEF Files
  <2>4. disk' \subseteq rows' \cup strays' \cup tails' \cup New'
    BY <2>1, <2>2 DEF Files
  <2>5. QED
    BY <2>1, <2>2, <2>3, <2>4 DEF Files
<1>7. CASE WebCrash
  BY <1>7 DEF WebCrash, Files
<1>8. ASSUME NEW f \in File, SaveFails(f) PROVE Files'
  BY <1>8 DEF SaveFails, Files
<1>9. ASSUME NEW f \in File, SaveFile(f) PROVE Files'
  BY <1>9, Saves DEF Files
<1>10. ASSUME NEW f \in File, StageFile(f) PROVE Files'
  BY <1>10 DEF StageFile, Files, Transactions
<1>11. ASSUME NEW f \in File, Unlink(f) PROVE Files'
  BY <1>11 DEF Unlink, Files
<1>12. QED
  BY <1>1, <1>2, <1>3, <1>4, <1>5, <1>6, <1>7, <1>8, <1>9, <1>10, <1>11, Groups DEF Web

\* A commit leaves the task alone, or nobody bears its number any more.
LEMMA CommitTask ==
    ASSUME Types, Commit
    PROVE  /\ task' = task \/ (task'.ready = FALSE /\ task'.owned = FALSE)
           /\ UNCHANGED <<run, remote>>
BY DEF Commit, NoTask

LEMMA RemoteSteps ==
    ASSUME Types, Deletion, dir # "full" => ctx = {}
    PROVE  ctx' \subseteq ctx /\ (dir' # "full" => ctx' = {}) /\ (dir' = "full" => dir = "full")
BY DEF Deletion, Connect, RemoveDirectory, Confirm, RemoveFile, remote

LEMMA MakersStep == ASSUME Types, Makers, [Next]_vars PROVE Makers'
<1> USE DEF board, files, remote, vars
<1>1. CASE UNCHANGED vars
  BY <1>1 DEF Makers
<1>2. CASE Web
  BY <1>2, WebKeeps, CommitTask DEF Makers
<1>3. CASE Deletion
  BY <1>3, DeletionKeeps, RemoteSteps DEF Makers
<1> USE DEF Types, TypeOK, Run, Goto, Alone
<1>4. CASE Status
  <2>1. UNCHANGED remote /\ task'.no = task.no /\ (task'.ready = task.ready \/ Prepared)
    BY <1>4, StatusKeeps
  <2>2. CASE Requeue \/ Cancel
    BY <2>1, <2>2 DEF Requeue, Cancel, Prepared, Makers
  <2>3. CASE Claim
    BY <2>3 DEF Claim, NoRun, Makers
  <2>4. CASE Prepared
    BY <2>4 DEF Prepared, Owns, Makers
  <2>5. CASE Finish
    BY <2>5 DEF Finish, NoRun, Makers
  <2>6. QED
    BY <1>4, <2>2, <2>3, <2>4, <2>5 DEF Status
<1>5. CASE Preparation
  <2>1. UNCHANGED <<board, files, op, gone>>
    BY <1>5, PreparationKeeps
  <2>2. CASE ReadRows
    BY <2>1, <2>2 DEF ReadRows, Makers
  <2>3. CASE MakeDirectory
    BY <2>1, <2>3 DEF MakeDirectory, Makers
  <2>4. CASE MakeRequirements
    BY <2>1, <2>4 DEF MakeRequirements, Makers
  <2>5. CASE ReuseDirectory
    BY <2>1, <2>5 DEF ReuseDirectory, Makers
  <2>6. CASE Transfer
    BY <2>1, <2>6 DEF Transfer, Makers
  <2>7. CASE RunEnds
    BY <2>1, <2>7 DEF RunEnds, Makers
  <2>8. ASSUME NEW f \in File \cup {TaskMd}, Check(f) PROVE Makers'
    BY <2>1, <2>8 DEF Check, Makers
  <2>9. QED
    BY <1>5, <2>2, <2>3, <2>4, <2>5, <2>6, <2>7, <2>8 DEF Preparation
<1>6. QED
  BY <1>1, <1>2, <1>3, <1>4, <1>5, Groups

\* The next files to transfer: attachments first, TASK.md last.
LEMMA Transferred ==
    ASSUME Types, run.pc = "transfer", run.file \in NextFiles,
           run.todo \subseteq run.want
    PROVE  \/ run.file \in run.todo /\ run.file \in run.want /\ run.file # TaskMd
           \/ /\ run.todo = {} /\ run.file # TaskMd
              /\ run.file \in run.seen /\ run.file \notin run.want
           \/ /\ run.todo = {} /\ run.file = TaskMd
              /\ run.seen \subseteq run.want \cup {TaskMd}
BY MaterialsAssumption, Fields DEF NextFiles

LEMMA MirrorStep ==
    ASSUME Types, Transactions, Makers, Mirror, [Next]_vars PROVE Mirror'
<1> USE DEF board, files, remote, vars, Owns, NextFiles
<1>1. CASE UNCHANGED vars
  BY <1>1 DEF Mirror
<1>2. CASE Web
  BY <1>2, WebKeeps, CommitTask DEF Mirror
<1>3. CASE Deletion
  <2>1. ~task.owned /\ UNCHANGED <<board, run>>
    BY <1>3, DeletionKeeps DEF Types, TypeOK, Transactions
  <2>2. QED
    BY <2>1 DEF Mirror
<1> USE DEF Types, TypeOK, Run, Goto, Alone
<1>4. CASE Status
  <2>1. CASE Requeue \/ Cancel
    BY <2>1 DEF Requeue, Cancel, Mirror
  <2>2. CASE Claim
    BY <2>2 DEF Claim, NoRun, Mirror
  <2>3. CASE Prepared
    BY <2>3 DEF Prepared, Mirror
  <2>4. CASE Finish
    BY <2>4 DEF Finish, NoRun, Mirror
  <2>5. QED
    BY <1>4, <2>1, <2>2, <2>3, <2>4 DEF Status
<1>5. CASE Preparation
  <2>1. UNCHANGED <<board, files, op, gone>>
    BY <1>5, PreparationKeeps
  <2>2. CASE ReadRows
    BY <2>1, <2>2 DEF ReadRows, Mirror
  <2>3. CASE MakeDirectory
    BY <2>1, <2>3 DEF MakeDirectory, Mirror
  <2>4. CASE MakeRequirements
    BY <2>1, <2>4 DEF MakeRequirements, Mirror, Makers
  <2>5. CASE ReuseDirectory
    BY <2>1, <2>5 DEF ReuseDirectory, Mirror
  <2>6. CASE Transfer
    <3>1. run'.want = run.want /\ run'.todo = run.todo \ {run.file}
          /\ run'.seen = run.seen \ {run.file}
          /\ run'.pc = (IF run.file = TaskMd THEN "prepared" ELSE "check") /\ run'.no = run.no
          /\ dir = "full" /\ dir' = dir /\ task' = task /\ run.pc = "transfer"
      BY <2>1, <2>6 DEF Transfer
    <3>2. ctx' = IF run.file \in run.want \cup {TaskMd} THEN ctx \cup {run.file}
                 ELSE ctx \ {run.file}
      BY <2>6 DEF Transfer
    <3>3. ASSUME Owns'
          PROVE  /\ run.todo \subseteq run.want /\ run.seen \subseteq ctx
                 /\ run.want \ run.todo \subseteq ctx
                 /\ ctx \subseteq run.seen \cup (run.want \ run.todo)
      BY <3>1, <3>3 DEF Mirror
    <3>4. run.file \in NextFiles
      BY <3>1 DEF Mirror
    <3>5. ASSUME Owns', run.file # TaskMd
          PROVE  /\ run'.todo \subseteq run'.want /\ run'.seen \subseteq ctx'
                 /\ run'.want \ run'.todo \subseteq ctx'
                 /\ ctx' \subseteq run'.seen \cup (run'.want \ run'.todo)
      <4>1. \/ run.file \in run.todo /\ run.file \in run.want
            \/ run.todo = {} /\ run.file \notin run.want
        BY <3>1, <3>3, <3>4, <3>5, Transferred
      <4>2. CASE run.file \in run.want
        BY <3>1, <3>2, <3>3, <3>5, <4>1, <4>2
      <4>3. CASE run.file \notin run.want
        BY <3>1, <3>2, <3>3, <3>5, <4>1, <4>3
      <4>4. QED
        BY <4>2, <4>3
    <3>6. ASSUME Owns', run.file = TaskMd PROVE ctx' = run'.want \cup {TaskMd}
      <4>1. run.todo = {} /\ run.seen \subseteq run.want \cup {TaskMd}
        BY <3>1, <3>3, <3>4, <3>6, Transferred
      <4>2. QED
        BY <3>1, <3>2, <3>3, <3>6, <4>1
    <3>7. QED
      BY <3>1, <3>5, <3>6 DEF Mirror
  <2>7. CASE RunEnds
    BY <2>1, <2>7 DEF RunEnds, Mirror
  <2>8. ASSUME NEW f \in File \cup {TaskMd}, Check(f) PROVE Mirror'
    BY <2>1, <2>8 DEF Check, Mirror
  <2>9. QED
    BY <1>5, <2>2, <2>3, <2>4, <2>5, <2>6, <2>7, <2>8 DEF Preparation
<1>6. QED
  BY <1>1, <1>2, <1>3, <1>4, <1>5, Groups

\* A directory that was seen gone is empty.
LEMMA ErasedGrows ==
    ASSUME Types, Web \/ Deletion \/ Status
    PROVE  /\ Web \/ Status => Erased' \subseteq Erased
           /\ Deletion => Erased' \subseteq Erased \/ dir' = "absent"
<1> USE DEF Erased, board, files, remote
<1>1. ASSUME Status PROVE Erased' \subseteq Erased
  BY <1>1, StatusKeeps
<1>2. ASSUME CreateTask \/ UpdateTask \/ DeleteTask \/ ClearDatabase
      PROVE  Erased' \subseteq Erased
  BY <1>2, Begins
<1>3. ASSUME Commit PROVE Erased' \subseteq Erased
  BY <1>3 DEF Commit
<1>4. ASSUME Rollback \/ WebCrash \/ \E f \in File : SaveFails(f)
      PROVE  Erased' \subseteq Erased
  BY <1>4 DEF Rollback, WebCrash, SaveFails
<1>5. ASSUME NEW f \in File, SaveFile(f) PROVE Erased' \subseteq Erased
  BY <1>5, Saves
<1>6. ASSUME NEW f \in File, StageFile(f) \/ Unlink(f) PROVE Erased' \subseteq Erased
  BY <1>6 DEF StageFile, Unlink
<1>7. ASSUME Deletion PROVE Erased' \subseteq Erased \/ dir' = "absent"
  <2>1. op # None /\ op \in Transaction /\ UNCHANGED <<task, gone>>
    BY <1>7, DeletionKeeps DEF Types, TypeOK
  <2>2. CASE Connect \/ Confirm
    BY <1>7, <2>1, <2>2 DEF Connect, Confirm, Transaction
  <2>3. CASE RemoveDirectory \/ \E f \in File \cup {TaskMd} : RemoveFile(f)
    BY <2>1, <2>3 DEF RemoveDirectory, RemoveFile, Deleting, Transaction
  <2>4. QED
    BY <1>7, <2>2, <2>3 DEF Deletion
<1>8. QED
  BY <1>1, <1>2, <1>3, <1>4, <1>5, <1>6, <1>7 DEF Web

LEMMA EmptyStep ==
    ASSUME Types, Transactions, Makers, Empty, [Next]_vars PROVE Empty'
<1> USE DEF board, files, remote, vars
<1>1. CASE UNCHANGED vars
  BY <1>1 DEF Empty, Erased
<1>2. CASE Web
  BY <1>2, WebKeeps, ErasedGrows DEF Empty
<1>3. CASE Deletion
  BY <1>3, DeletionKeeps, RemoteSteps, ErasedGrows DEF Empty, Makers
<1> USE DEF Types, TypeOK, Run, Goto, Alone
<1>4. CASE Status
  <2>1. run'.pc = "transfer" => run.pc = "transfer"
    <3>1. CASE Requeue \/ Cancel
      BY <3>1 DEF Requeue, Cancel
    <3>2. CASE Claim
      BY <3>2 DEF Claim, NoRun
    <3>3. CASE Prepared
      BY <3>3 DEF Prepared
    <3>4. CASE Finish
      BY <3>4 DEF Finish, NoRun
    <3>5. QED
      BY <1>4, <3>1, <3>2, <3>3, <3>4 DEF Status
  <2>2. Erased' \subseteq Erased
    BY <1>4, StatusKeeps DEF Erased
  <2>3. QED
    BY <1>4, <2>1, <2>2, StatusKeeps DEF Empty
<1>5. CASE Preparation
  <2>1. UNCHANGED <<board, files, op, gone>> /\ Erased' = Erased
    BY <1>5, PreparationKeeps DEF Erased
  <2>2. CASE ReadRows
    BY <2>1, <2>2 DEF ReadRows, Empty
  <2>3. CASE MakeDirectory
    BY <2>1, <2>3 DEF MakeDirectory, Empty, Makers
  <2>4. CASE MakeRequirements
    BY <2>1, <2>4 DEF MakeRequirements, Empty
  <2>5. CASE ReuseDirectory
    BY <2>1, <2>5 DEF ReuseDirectory, Empty
  <2>6. CASE Transfer
    BY <2>1, <2>6 DEF Transfer, Empty
  <2>7. CASE RunEnds
    BY <2>1, <2>7 DEF RunEnds, Empty
  <2>8. ASSUME NEW f \in File \cup {TaskMd}, Check(f) PROVE Empty'
    <3>1. maker = task.no /\ task.owned
      BY <2>8 DEF Check, Owns, Makers
    <3>2. maker \notin Erased
      BY <3>1 DEF Erased, Transactions
    <3>3. QED
      BY <2>1, <2>8, <3>2 DEF Check, Empty
  <2>9. QED
    BY <1>5, <2>2, <2>3, <2>4, <2>5, <2>6, <2>7, <2>8 DEF Preparation
<1>6. QED
  BY <1>1, <1>2, <1>3, <1>4, <1>5, Groups

-----------------------------------------------------------------------------
(* The theorems. *)

LEMMA InitInv == Init => IInv
<1> SUFFICES ASSUME Init PROVE IInv
  OBVIOUS
<1>1. NoRun \in Run /\ NoTask \in TaskRow /\ MaxBorn \in Nat
  BY MaterialsAssumption DEF NoRun, Run, NoTask, TaskRow
<1>2. Types
  BY <1>1 DEF Init, NoTask, NoRun, Types, TypeOK, TaskRow, Born
<1>3. Transactions /\ Files
  BY DEF Init, NoTask, Transactions, Files, New
<1>4. Makers /\ Mirror /\ Empty
  BY DEF Init, NoTask, NoRun, Makers, Mirror, Empty, Erased, Owns, NextFiles
<1>5. QED
  BY <1>2, <1>3, <1>4 DEF IInv

LEMMA StepInv == IInv /\ [Next]_vars => IInv'
BY TypesStep, TransactionsStep, FilesStep, MakersStep, MirrorStep, EmptyStep DEF IInv

LEMMA IInvariant == Spec => []IInv
BY InitInv, StepInv, PTL DEF Spec

(* Rows, files, the run and the remote directory keep their types, for any   *)
(* number of attachments and of tasks with the same identifier.             *)
THEOREM TypeCorrect == Spec => []TypeOK
<1>1. IInv => TypeOK
  BY DEF IInv, Types
<1>2. QED
  BY <1>1, IInvariant, PTL

(* No attachment of a task loses its file to a failed or crashed request,    *)
(* whatever other requests unlink meanwhile, but for what a clear had moved  *)
(* aside when it crashed or could not move back when it failed (`lost`).     *)
THEOREM RowsKeepFiles == Spec => []RowsHaveFiles
<1>1. IInv => RowsHaveFiles
  BY DEF IInv, Files, RowsHaveFiles
<1>2. QED
  BY <1>1, IInvariant, PTL

(* Between requests the files are those of the task, but for what a failed   *)
(* write, unlink or clear, or a crash, left.                                *)
THEOREM FilesAreAccounted == Spec => []NoFileLeftOver
<1>1. IInv => NoFileLeftOver
  BY DEF IInv, Files, New, NoFileLeftOver
<1>2. QED
  BY <1>1, IInvariant, PTL

(* An agent never starts in the directory of another task, however often     *)
(* the identifier was deleted and given out again.                          *)
THEOREM WorksInOwnDirectory == Spec => []OwnDirectory
<1>1. IInv => OwnDirectory
  BY DEF IInv, Makers, OwnDirectory
<1>2. QED
  BY <1>1, IInvariant, PTL

(* An agent starts with exactly the attachments its run read.                *)
THEOREM StartsWithMirror == Spec => []MirrorIsExact
<1>1. IInv => MirrorIsExact
  BY DEF IInv, Mirror, MirrorIsExact
<1>2. QED
  BY <1>1, IInvariant, PTL

(* A run that outlives the deletion of its task leaves no file behind.       *)
THEOREM DeletedStayEmpty == Spec => []DeletedLeavesNoFiles
<1>1. IInv => DeletedLeavesNoFiles
  BY DEF IInv, Empty, Erased, DeletedLeavesNoFiles
<1>2. QED
  BY <1>1, IInvariant, PTL

=============================================================================
