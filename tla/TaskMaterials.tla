---------------------------- MODULE TaskMaterials ----------------------------
(***************************************************************************)
(* What a task is worked on with: its attachments, as rows of the database  *)
(* and files of the Board (board_store.py), the copy of them in the task's  *)
(* directory on the remote host, which an executor prepares before it       *)
(* starts anything (task_context.py), and the deletion of both              *)
(* (task_remote.py, database_store.py).                                     *)
(*                                                                         *)
(* One task identifier is followed through the tasks that bear it one after *)
(* another.  A database transaction that changes rows holds SQLite's write  *)
(* lock, so at most one is under way; files and the remote directory are    *)
(* changed step by step while it is, and files also after it.  A stored     *)
(* file, its content and its name in the remote directory are one value.    *)
(***************************************************************************)
EXTENDS Naturals

CONSTANTS
    File,     \* bound: stored attachments, each name used once (uuid4)
    MaxBorn,  \* bound: tasks that ever bear the identifier
    TaskMd,   \* TASK.md in the remote directory
    None      \* no transaction under way

Transaction ==
    [kind : {"create", "update", "delete", "clear"},
     step : {"open", "connect", "walk", "top", "confirm", "commit"},
     new : SUBSET File, drop : SUBSET (File \cup {TaskMd}), sure : BOOLEAN]

ASSUME MaterialsAssumption ==
    TaskMd \notin File /\ MaxBorn \in Nat /\ None \notin Transaction

VARIABLES
    task,    \* the task that bears the identifier: which one (0: none), its
             \* status, context_ready, and whether the run owns it
    born,    \* how many tasks bore it so far
    rows,    \* its attachments, as committed
    disk,    \* the files in FILES_DIR
    staged,  \* the files in the hidden directory of a clear
    used,    \* the stored names given out
    op,      \* the transaction that holds the write lock
    tails,   \* files to unlink after a transaction ended
    run,     \* the executor's run
    dir,     \* the remote directory: absent, without or with requirements
    maker,   \* the task whose run made it, 0 if somebody else did
    ctx,     \* the content of the requirements directory
    strays,  \* files that a crash, a failed write, unlink or clear leaves
    lost,    \* files whose clear crashed or could not move them back
    gone     \* the tasks whose deletion saw the directory gone

board == <<task, born, rows>>
files == <<disk, staged, used, tails, strays, lost>>
remote == <<dir, maker, ctx>>
vars == <<board, files, op, run, remote, gone>>

Born == 1..MaxBorn
NoTask == [no |-> 0, status |-> "BACKLOG", ready |-> FALSE, owned |-> FALSE]
NoRun == [pc |-> "off", no |-> 0, reuse |-> FALSE, want |-> {}, todo |-> {},
          seen |-> {}, file |-> TaskMd]

TypeOK ==
    /\ task \in [no : 0..MaxBorn, status : {"BACKLOG", "OPEN", "IN PROGRESS", "WAIT"},
                 ready : BOOLEAN, owned : BOOLEAN]
    /\ born \in 0..MaxBorn
    /\ rows \subseteq File /\ disk \subseteq File /\ staged \subseteq File
    /\ used \subseteq File /\ tails \subseteq File
    /\ strays \subseteq File /\ lost \subseteq File
    /\ op \in Transaction \cup {None}
    /\ run.pc \in {"off", "read", "cwd", "ctx", "check", "transfer", "prepared",
                   "work", "finish"}
    /\ dir \in {"absent", "bare", "full"} /\ maker \in 0..MaxBorn
    /\ ctx \subseteq File \cup {TaskMd}
    /\ gone \subseteq Born
    /\ task.owned => task.status = "IN PROGRESS" /\ run.pc # "off" /\ run.no = task.no

\* The remote directory may be there before any task.
Init ==
    /\ task = NoTask /\ born = 0 /\ rows = {}
    /\ disk = {} /\ staged = {} /\ used = {} /\ tails = {}
    /\ strays = {} /\ lost = {}
    /\ op = None /\ run = NoRun
    /\ dir \in {"absent", "bare", "full"} /\ maker = 0 /\ ctx = {}
    /\ gone = {}

-----------------------------------------------------------------------------
(* Transactions of the web server. *)

Begin_UnlinksEarly(kind, step, drop) ==
    /\ op = None
    /\ op' = [kind |-> kind, step |-> step, new |-> {}, drop |-> drop, sure |-> FALSE]
    /\ tails' = tails \cup drop
    /\ UNCHANGED <<board, disk, staged, used, strays, lost, run, remote, gone>>
Begin(kind, step, drop) ==
    /\ op = None
    /\ op' = [kind |-> kind, step |-> step, new |-> {}, drop |-> drop, sure |-> FALSE]
    /\ UNCHANGED <<board, files, run, remote, gone>>

CreateTask == task.no = 0 /\ born < MaxBorn /\ Begin("create", "open", {})

UpdateTask == task.no # 0 /\ \E drop \in SUBSET rows : Begin("update", "open", drop)

\* A deletion from Archive differs in that it fails when SSH is unavailable.
DeleteTask ==
    task.no # 0 /\ task.status = "BACKLOG" /\ Begin("delete", "connect", {})

\* clear_database is refused while a run is active.
ClearDatabase == run.pc = "off" /\ Begin("clear", "open", {})

\* _save_files writes the file, then notes it, then inserts its row.
SaveFile(f) ==
    /\ op # None /\ op.kind \in {"create", "update"} /\ f \notin used
    /\ used' = used \cup {f} /\ disk' = disk \cup {f}
    /\ op' = [op EXCEPT !.new = @ \cup {f}]
    /\ UNCHANGED <<board, staged, tails, strays, lost, run, remote, gone>>

\* clear_database moves every file aside.  What it moved is removed after the
\* commit; nothing looks at it any more then.
StageFile(f) ==
    /\ op # None /\ op.kind = "clear" /\ f \in disk
    /\ disk' = disk \ {f} /\ staged' = staged \cup {f}
    /\ UNCHANGED <<board, used, tails, strays, lost, op, run, remote, gone>>

Commit ==
    /\ op # None /\ op' = None
    /\ \/ /\ op.kind = "create"
          /\ born' = born + 1
          /\ task' = [NoTask EXCEPT !.no = born + 1]
          /\ rows' = op.new
          /\ UNCHANGED <<disk, staged, tails, strays, gone>>
       \/ /\ op.kind = "update"
          /\ rows' = (rows \ op.drop) \cup op.new
          /\ tails' = tails \cup op.drop
          /\ UNCHANGED <<task, born, disk, staged, strays, gone>>
       \/ /\ op.kind = "delete" /\ op.step = "commit"
          /\ gone' = IF op.sure THEN gone \cup {task.no} ELSE gone
          /\ task' = NoTask /\ rows' = {}
          /\ tails' = tails \cup rows
          /\ UNCHANGED <<born, disk, staged, strays>>
       \/ /\ op.kind = "clear" /\ disk = {}
          /\ task' = NoTask /\ rows' = {}
          /\ staged' = staged \cap lost
          /\ UNCHANGED <<born, disk, tails, strays, gone>>
    /\ UNCHANGED <<used, lost, run, remote>>

\* What a clear moved aside goes back file by file.  When that fails, the rest
\* is removed with the hidden directory.
MoveBack ==
    \E back \in SUBSET (staged \ lost) :
        /\ disk' = disk \cup back /\ staged' = staged \cap lost
        /\ strays' = strays \cup (back \ rows)
        /\ lost' = lost \cup ((staged \ lost) \ back)

\* An exception rolls back: new files are unlinked, staged ones moved back.  A
\* deletion ends so when the host fails it (a file that arrived or went since
\* the listing, too).
Rollback_KeepsFiles ==
    /\ op # None /\ op' = None
    /\ MoveBack
    /\ UNCHANGED <<board, used, tails, run, remote, gone>>
Rollback ==
    /\ op # None /\ op' = None
    /\ tails' = tails \cup op.new
    /\ MoveBack
    /\ UNCHANGED <<board, used, run, remote, gone>>

\* The disk is full: the file exists, but is not among those to unlink.
SaveFails(f) ==
    /\ op # None /\ op.kind \in {"create", "update"} /\ f \notin used
    /\ used' = used \cup {f} /\ disk' = disk \cup {f} /\ strays' = strays \cup {f}
    /\ op' = None /\ tails' = tails \cup op.new
    /\ UNCHANGED <<board, staged, lost, run, remote, gone>>

\* An error in it leaves the file, and changes nothing else.
Unlink(f) ==
    /\ f \in tails /\ tails' = tails \ {f}
    /\ \/ disk' = disk \ {f} /\ UNCHANGED strays
       \/ strays' = strays \cup {f} /\ UNCHANGED disk
    /\ UNCHANGED <<board, staged, used, lost, op, run, remote, gone>>

\* SQLite rolls back when it is opened again; nobody looks after the files.
WebCrash ==
    /\ op # None \/ tails # {}
    /\ op' = None /\ tails' = {}
    /\ strays' = strays \cup tails \cup (IF op = None THEN {} ELSE op.new)
    /\ lost' = lost \cup staged
    /\ UNCHANGED <<board, disk, staged, used, run, remote, gone>>

-----------------------------------------------------------------------------
(* delete_task_directory, inside the transaction that deletes the task. *)

Deleting(step) == op # None /\ op.kind = "delete" /\ op.step = step
Quietly == UNCHANGED <<board, files, run, gone>>

Connect ==
    /\ Deleting("connect")
    /\ \/ op' = [op EXCEPT !.step = "commit"]          \* SSH is unavailable
       \/ dir = "absent" /\ op' = [op EXCEPT !.step = "commit", !.sure = TRUE]
       \/ dir # "absent" /\ op' = [op EXCEPT !.step = IF dir = "full" THEN "walk" ELSE "top",
                                             !.drop = ctx]
    /\ Quietly /\ UNCHANGED remote

RemoveFile(f) ==
    /\ Deleting("walk") /\ f \in op.drop /\ f \in ctx
    /\ op' = [op EXCEPT !.drop = @ \ {f}] /\ ctx' = ctx \ {f}
    /\ Quietly /\ UNCHANGED <<dir, maker>>

\* rmdir fails on what arrived since the listing: then Rollback.
RemoveDirectory ==
    /\ \/ /\ Deleting("walk") /\ op.drop = {} /\ dir = "full" /\ ctx = {}
          /\ op' = [op EXCEPT !.step = "top"] /\ dir' = "bare"
       \/ /\ Deleting("top") /\ dir = "bare"
          /\ op' = [op EXCEPT !.step = "confirm"] /\ dir' = "absent"
    /\ Quietly /\ UNCHANGED <<maker, ctx>>

Confirm ==
    /\ Deleting("confirm") /\ dir = "absent"
    /\ op' = [op EXCEPT !.step = "commit", !.sure = TRUE]
    /\ Quietly /\ UNCHANGED remote

-----------------------------------------------------------------------------
(* The executor: claim, the preparation of the directory, and the end.  Its  *)
(* own transactions wait for the write lock.                                *)

Owns == task.owned /\ task.no = run.no
Goto(pc) == run' = [run EXCEPT !.pc = pc]
Alone == UNCHANGED <<board, files, op, gone>>

Requeue ==
    /\ op = None /\ task.no # 0 /\ task.status \in {"BACKLOG", "WAIT"}
    /\ task' = [task EXCEPT !.status = "OPEN"]
    /\ UNCHANGED <<born, rows, files, op, run, remote, gone>>

\* Stop: the task goes to BACKLOG and is taken from the run, which goes on.
Cancel ==
    /\ op = None /\ task.status \in {"OPEN", "IN PROGRESS"}
    /\ task' = [task EXCEPT !.status = "BACKLOG", !.owned = FALSE]
    /\ UNCHANGED <<born, rows, files, op, run, remote, gone>>

Claim ==
    /\ op = None /\ run.pc = "off" /\ task.no # 0 /\ task.status = "OPEN"
    /\ task' = [task EXCEPT !.status = "IN PROGRESS", !.owned = TRUE]
    /\ run' = [NoRun EXCEPT !.pc = "read", !.no = task.no, !.reuse = task.ready]
    /\ UNCHANGED <<born, rows, files, op, remote, gone>>

\* The paths of the attachments are read once, by the identifier; the files
\* later.
ReadRows ==
    /\ run.pc = "read" /\ task.no # 0
    /\ run' = [run EXCEPT !.pc = "cwd", !.want = rows, !.todo = rows]
    /\ Alone /\ UNCHANGED remote

\* prepare_directory.  The cancellation is not looked at before the files.
MakeDirectory_Adopts ==
    /\ run.pc = "cwd" /\ ~run.reuse
    /\ dir' = IF dir = "absent" THEN "bare" ELSE dir
    /\ maker' = IF dir = "absent" THEN run.no ELSE maker
    /\ Goto(IF dir = "full" THEN "check" ELSE "ctx")
    /\ Alone /\ UNCHANGED ctx
MakeDirectory ==
    /\ run.pc = "cwd" /\ ~run.reuse
    /\ dir = "absent" /\ dir' = "bare" /\ maker' = run.no
    /\ Goto("ctx")
    /\ Alone /\ UNCHANGED ctx

MakeRequirements ==
    /\ run.pc = "ctx" /\ dir = "bare" /\ dir' = "full"
    /\ Goto("check")
    /\ Alone /\ UNCHANGED <<maker, ctx>>

ReuseDirectory ==
    /\ run.pc = "cwd" /\ run.reuse /\ dir = "full"
    /\ run' = [run EXCEPT !.pc = "check", !.seen = ctx]
    /\ Alone /\ UNCHANGED remote

\* sync_context: all attachments, then what is no longer wanted, TASK.md last.
NextFiles ==
    LET obsolete == run.seen \ (run.want \cup {TaskMd})
    IN IF run.todo # {} THEN run.todo
       ELSE IF obsolete # {} THEN obsolete ELSE {TaskMd}

Check_Never(f) ==
    /\ run.pc = "check" /\ f \in NextFiles
    /\ run' = [run EXCEPT !.pc = "transfer", !.file = f]
    /\ Alone /\ UNCHANGED remote
Check(f) ==
    /\ run.pc = "check" /\ Owns /\ f \in NextFiles
    /\ run' = [run EXCEPT !.pc = "transfer", !.file = f]
    /\ Alone /\ UNCHANGED remote

Transfer_KeepsObsolete ==
    LET f == run.file
        wanted == f \in run.want \cup {TaskMd}
    IN /\ run.pc = "transfer" /\ dir = "full" /\ (wanted => f \in disk \cup {TaskMd})
       /\ ctx' = IF wanted THEN ctx \cup {f} ELSE ctx
       /\ run' = [run EXCEPT !.pc = IF f = TaskMd THEN "prepared" ELSE "check",
                             !.todo = @ \ {f}, !.seen = @ \ {f}]
       /\ Alone /\ UNCHANGED <<dir, maker>>
Transfer ==
    LET f == run.file
        wanted == f \in run.want \cup {TaskMd}
    IN /\ run.pc = "transfer" /\ dir = "full"
       /\ f \in run.seen => f \in ctx
       /\ wanted => f \in disk \cup {TaskMd}
       /\ ctx' = IF wanted THEN ctx \cup {f} ELSE ctx \ {f}
       /\ run' = [run EXCEPT !.pc = IF f = TaskMd THEN "prepared" ELSE "check",
                             !.todo = @ \ {f}, !.seen = @ \ {f}]
       /\ Alone /\ UNCHANGED <<dir, maker>>

\* TaskCycle.prepared
Prepared ==
    /\ run.pc = "prepared" /\ op = None
    /\ task' = [task EXCEPT !.ready = @ \/ Owns]
    /\ Goto(IF Owns THEN "work" ELSE "finish")
    /\ UNCHANGED <<born, rows, files, op, remote, gone>>

\* Any step may fail: a lost connection, a directory or file that is (not)
\* there, a cancellation, a crash.  An upload first unlinks the old copy and
\* then writes the new one.
RunEnds ==
    /\ run.pc \notin {"off", "finish"} /\ Goto("finish")
    /\ \/ UNCHANGED ctx
       \/ /\ run.pc = "transfer" /\ dir = "full"
          /\ ctx' \in {ctx \ {run.file}} \cup (IF run.file \in run.want \cup {TaskMd}
                                               THEN {ctx \cup {run.file}} ELSE {})
    /\ Alone /\ UNCHANGED <<dir, maker>>

Finish ==
    /\ run.pc = "finish" /\ op = None
    /\ run' = NoRun
    /\ task' = IF Owns THEN [task EXCEPT !.status = "WAIT", !.owned = FALSE] ELSE task
    /\ UNCHANGED <<born, rows, files, op, remote, gone>>

-----------------------------------------------------------------------------

Next ==
    \/ CreateTask \/ UpdateTask \/ DeleteTask \/ ClearDatabase
    \/ Commit \/ Rollback \/ WebCrash
    \/ Connect \/ RemoveDirectory \/ Confirm
    \/ Requeue \/ Cancel \/ Claim \/ ReadRows \/ MakeDirectory
    \/ MakeRequirements \/ ReuseDirectory \/ Transfer \/ Prepared \/ RunEnds
    \/ Finish
    \/ \E f \in File : SaveFile(f) \/ SaveFails(f) \/ StageFile(f) \/ Unlink(f)
    \/ \E f \in File \cup {TaskMd} : RemoveFile(f) \/ Check(f)

Spec == Init /\ [][Next]_vars

-----------------------------------------------------------------------------
(* Properties. *)

(* Every attachment that the database lists has its file, whatever fails in  *)
(* create_task, update_task, _delete_task and clear_database.  Excepted are  *)
(* the files that a clear had moved aside when it crashed, and those that it *)
(* could not move back when it failed: the hidden directory goes with them.  *)
RowsHaveFiles ==
    LET aside == IF op # None /\ op.kind = "clear" THEN staged ELSE {}
    IN rows \subseteq disk \cup aside \cup lost

(* When no request is in progress, no file is left that no task has, but for *)
(* the known ones: a crash, a write or an unlink that failed, and a clear    *)
(* that moved a file back after another request unlinked it.                *)
NoFileLeftOver ==
    op = None /\ tails = {} => disk \subseteq rows \cup strays

(* Init and the agent start only in a directory that a run of this very task *)
(* made: not in one that was there, and not in the one of a deleted task     *)
(* that had the same identifier (specs/agent.md, prepare_directory).        *)
OwnDirectory == run.pc = "work" => maker = run.no

(* When they start, requirements holds TASK.md and exactly the attachments   *)
(* that the run read, whatever earlier runs of the task left there and       *)
(* whatever deletions were tried in between (sync_context).                 *)
MirrorIsExact ==
    run.pc = "work" /\ Owns => dir = "full" /\ ctx = run.want \cup {TaskMd}

(* Once the deletion of a task saw its directory gone, a run of that task    *)
(* that has not ended yet puts no file there again: it may at most make the  *)
(* empty directories, before it first asks whether it is still active.      *)
DeletedLeavesNoFiles == maker \in gone => ctx = {}

=============================================================================
