------------------------ MODULE FileOperationsWorker ------------------------
(***************************************************************************)
(* One background operation: a paste (copy, or move across file systems)   *)
(* or a deletion, run by the thread FileOperationsWorker::RunBackground,   *)
(* while the UI thread may call Cancel() between any two of its steps.     *)
(*                                                                         *)
(* The disk is a function from the paths that exist to what is there.  A   *)
(* path is a sequence of names.  Each call that changes the disk is a step *)
(* of its own, so that "in every state" also means "whenever the process   *)
(* is killed".  A call fails when its precondition does not hold, or       *)
(* because the environment lets it: those in Faulty, MaxFaults times.      *)
(*                                                                         *)
(* mutex_ is held across steps only while the worker rolls back or removes *)
(* the sources of a move; every other locked section is one action.        *)
(*                                                                         *)
(* The transfer of the bytes is CopyPipeline; here it is the one step      *)
(* FileCopy makes of it.                                                   *)
(***************************************************************************)
EXTENDS Naturals, Sequences

CONSTANTS Operations,     \* the operations to explore, see OperationRecord
          Disk0,          \* the disk when the operation starts
          Dir, Partial,   \* a directory; a file that is not written to its end
          Irregular,      \* what is neither a regular file nor a directory
          TempName(_),    \* name + ".kylin-copy.tmp"
          Faulty(_),      \* the calls that may fail, in an operation, without a
                          \* reason seen here
          MaxFaults       \* how often that happens in a run

Kinds == {"Copy", "Move", "Delete"}

\* kind, the roots (clipboardEntries_), destinationDirectory_ and
\* replacingTopLevelFile_ (a single regular file may replace its target).
OperationRecord(o) ==
    /\ DOMAIN o = {"kind", "roots", "dest", "replace"}
    /\ o.kind \in Kinds
    /\ o.roots \in Seq(Seq(STRING)) \ {<<>>}
    /\ o.replace => o.kind # "Delete" /\ Len(o.roots) = 1

ASSUME WorkerAssumption ==
    /\ \A o \in Operations : OperationRecord(o)
    /\ \A p \in DOMAIN Disk0 : Disk0[p] # Partial
    /\ Dir # Partial
    /\ MaxFaults \in Nat

VARIABLES
    fs,                    \* the disk
    op,                    \* the operation, fixed when it starts
    state, phase,          \* state_, phase_
    cancelRequested, threadFinished,
    pc,                    \* where the worker thread is
    after,                 \* [state, pc] to take up when the rollback is over
    planStack,             \* copyPlanStack_ or deletePlanStack_
    jobs, jobIndex,
    deletePaths, deleteIndex,
    createdFiles, createdDirectories, temporaryPath,
    hasError,              \* the transfer of the current job failed
    removeStack, removeIndex,   \* RemovePathRecursive, and the root it is at
    faults

public  == <<state, phase, threadFinished>>
plan    == <<planStack, jobs, deletePaths>>
made    == <<createdFiles, createdDirectories, temporaryPath>>
cursors == <<jobIndex, deleteIndex, hasError>>
removal == <<removeStack, removeIndex>>
vars    == <<fs, op, public, cancelRequested, pc, after, plan, made, cursors,
             removal, faults>>

NoPath == <<>>

(***************************************************************************)
(* Paths and the disk.                                                     *)
(***************************************************************************)
JoinPath(dir, name) == Append(dir, name)
BaseName(p) == p[Len(p)]
ParentPath(p) == SubSeq(p, 1, Len(p) - 1)

TempPath(p) == JoinPath(ParentPath(p), TempName(BaseName(p)))

IsUnder(p, root) == Len(root) <= Len(p) /\ SubSeq(p, 1, Len(root)) = root

\* What lies above a path that exists is a directory.
ASSUME DiskAssumption ==
    \A p \in DOMAIN Disk0 :
        /\ p \in Seq(STRING)
        /\ \A n \in 0..(Len(p) - 1) : /\ SubSeq(p, 1, n) \in DOMAIN Disk0
                                      /\ Disk0[SubSeq(p, 1, n)] = Dir

\* No root is below another (NormalizeEntryRoots).
ASSUME RootsAssumption ==
    \A o \in Operations : \A i, j \in 1..Len(o.roots) :
        i # j => ~IsUnder(o.roots[i], o.roots[j])

\* The roots of a paste come from one listing, so that no two have one name.
\* StartPaste refuses a target that is below a root or a folder above one; only a
\* single file may be its own target.
ASSUME PasteAssumption ==
    \A o \in Operations : o.kind # "Delete" =>
        /\ o.dest \in Seq(STRING)
        /\ \A i, j \in 1..Len(o.roots) :
              LET target == JoinPath(o.dest, BaseName(o.roots[i]))
                  root   == o.roots[j]
              IN  /\ o.roots[i] # <<>>
                  /\ i # j => BaseName(o.roots[i]) # BaseName(root)
                  /\ IsUnder(target, root) \/ IsUnder(root, target) =>
                        o.kind = "Copy" /\ o.replace /\ target = root

Exists(p) == p \in DOMAIN fs
IsDir(p)  == Exists(p) /\ fs[p] = Dir
IsRegular(p) == Exists(p) /\ fs[p] \notin {Dir, Irregular}
NamesIn(p) == {BaseName(q) : q \in {r \in DOMAIN fs : r # <<>> /\ ParentPath(r) = p}}

Put(p, node) == [q \in DOMAIN fs \cup {p} |-> IF q = p THEN node ELSE fs[q]]
Drop(p) == [q \in DOMAIN fs \ {p} |-> fs[q]]

CanUnlink(p) == Exists(p) /\ ~IsDir(p)
CanRmdir(p)  == IsDir(p) /\ NamesIn(p) = {}
CanCreate(p) == ~Exists(p) /\ IsDir(ParentPath(p))

\* faults lists the calls that broke so far.
NoFault == UNCHANGED faults
Fault(call) == /\ call \in Faulty(op)
               /\ Len(faults) < MaxFaults
               /\ faults' = Append(faults, call)

\* A call that may fail: it works when ok holds and no fault strikes.
Works(ok) == ok /\ NoFault
Breaks(call, ok) == (~ok /\ NoFault) \/ Fault(call)

(***************************************************************************)
(* Init and Start().                                                       *)
(***************************************************************************)
Init ==
    /\ fs = Disk0
    /\ op \in Operations
    /\ state = "Idle" /\ phase = "Idle"
    /\ cancelRequested = FALSE /\ threadFinished = FALSE
    /\ pc = "idle"
    /\ after = [state |-> "Idle", pc |-> "idle"]
    /\ planStack = <<>> /\ jobs = <<>> /\ deletePaths = <<>>
    /\ jobIndex = 1 /\ deleteIndex = 1 /\ hasError = FALSE
    /\ createdFiles = <<>> /\ createdDirectories = <<>> /\ temporaryPath = NoPath
    /\ removeStack = <<>> /\ removeIndex = 1
    /\ faults = <<>>

Frame(src, dst) == [src |-> src, dst |-> dst, opened |-> FALSE, todo |-> {}]

TargetOf(root) == JoinPath(op.dest, BaseName(root))

\* The roots are pushed last to first; a deletion has no targets.
RootFrames ==
    [i \in 1..Len(op.roots) |->
        LET root == op.roots[Len(op.roots) + 1 - i]
        IN  Frame(root, IF op.kind = "Delete" THEN NoPath ELSE TargetOf(root))]

Start ==
    /\ pc = "idle"
    /\ planStack' = RootFrames
    /\ \/ /\ NoFault
          /\ state' = "Copying" /\ phase' = "Planning"
          /\ pc' = "planTop"
       \/ /\ Fault("thread")
          /\ state' = "Failed" /\ phase' = "Idle"
          /\ pc' = "none"
    /\ UNCHANGED <<fs, op, threadFinished, cancelRequested, after, jobs,
                   deletePaths, made, cursors, removal>>

(***************************************************************************)
(* Cancel(), called by the UI thread or by the destructor.  It waits while *)
(* the worker holds mutex_; a second call changes nothing.                 *)
(***************************************************************************)
Locked == pc \in {"undoTemp", "undo", "remove"}

Cancel ==
    /\ pc \notin {"idle", "none"}
    /\ ~Locked
    /\ ~cancelRequested
    /\ cancelRequested' = TRUE
    /\ IF state = "Copying"
       THEN state' = "Canceled" /\ phase' = "Idle"
       ELSE UNCHANGED <<state, phase>>
    /\ UNCHANGED <<fs, op, threadFinished, pc, after, plan, made, cursors,
                   removal, faults>>

(***************************************************************************)
(* Rollback(), then the state the caller sets under the same lock.         *)
(***************************************************************************)
Undo(result, next) ==
    /\ pc' = "undoTemp"
    /\ after' = [state |-> result, pc |-> next]

Fail(next) == Undo("Failed", next)

TryUnlink(p) == \/ NoFault /\ fs' = IF CanUnlink(p) THEN Drop(p) ELSE fs
                \/ Fault("unlink") /\ UNCHANGED fs

\* Mutant: the rollback removes what is in the folder as well.
MutTryRmdir(p) ==
    \/ NoFault /\ fs' = [q \in {r \in DOMAIN fs : Len(r) < Len(p) \/ SubSeq(r, 1, Len(p)) # p} |-> fs[q]]
    \/ Fault("rmdir") /\ UNCHANGED fs
TryRmdir(p) == \/ NoFault /\ fs' = IF CanRmdir(p) THEN Drop(p) ELSE fs
               \/ Fault("rmdir") /\ UNCHANGED fs

ButLast(s) == SubSeq(s, 1, Len(s) - 1)
Top(s) == s[Len(s)]

UndoTemp ==
    /\ pc = "undoTemp"
    /\ IF temporaryPath = NoPath THEN UNCHANGED <<fs, faults>>
                                 ELSE TryUnlink(temporaryPath)
    /\ pc' = "undo"
    /\ UNCHANGED <<op, public, cancelRequested, after, plan, made, cursors, removal>>

UndoFile ==
    /\ pc = "undo"
    /\ createdFiles # <<>>
    /\ TryUnlink(Top(createdFiles))
    /\ createdFiles' = ButLast(createdFiles)
    /\ UNCHANGED <<op, public, cancelRequested, pc, after, plan,
                   createdDirectories, temporaryPath, cursors, removal>>

UndoDirectory ==
    /\ pc = "undo"
    /\ createdFiles = <<>>
    /\ createdDirectories # <<>>
    /\ TryRmdir(Top(createdDirectories))
    /\ createdDirectories' = ButLast(createdDirectories)
    /\ UNCHANGED <<op, public, cancelRequested, pc, after, plan, createdFiles,
                   temporaryPath, cursors, removal>>

\* RunBackground returns at once when planning was canceled.
EndsThread(next) == next = "done"

UndoEnd ==
    /\ pc = "undo"
    /\ createdFiles = <<>> /\ createdDirectories = <<>>
    /\ state' = after.state /\ phase' = "Idle"
    /\ pc' = after.pc
    /\ threadFinished' = EndsThread(after.pc)
    /\ UNCHANGED <<fs, op, cancelRequested, after, plan, made, cursors,
                   removal, faults>>

UndoStep == UndoTemp \/ UndoFile \/ UndoDirectory \/ UndoEnd

(***************************************************************************)
(* CompleteOperation() and RemovePathRecursive(), under mutex_.            *)
(***************************************************************************)
CompleteOperation(next) ==
    IF op.kind = "Move"
    THEN /\ pc' = "remove"
         /\ after' = [state |-> "Completed", pc |-> next]
         /\ removeStack' = <<Frame(op.roots[1], NoPath)>>
         /\ removeIndex' = 1
         /\ UNCHANGED <<state, phase>>
    ELSE /\ pc' = next
         /\ state' = "Completed" /\ phase' = "Idle"
         /\ UNCHANGED <<after, removal>>

Pop(stack) == ButLast(stack)
Push(stack, frame) == Append(stack, frame)
SetTop(stack, frame) == [stack EXCEPT ![Len(stack)] = frame]
OpenFrame(frame, names) == [frame EXCEPT !.opened = TRUE, !.todo = names]

\* readdir returns one more name; the order is the file system's.
NextChild(stack, child(_, _)) ==
    LET frame == Top(stack)
    IN  {Push(SetTop(stack, [frame EXCEPT !.todo = @ \ {name}]), child(frame, name)) :
            name \in frame.todo}

SourceChild(frame, name) == Frame(JoinPath(frame.src, name), NoPath)

Removing == pc = "remove" /\ removeStack # <<>>

\* lstat fails: the item counts as removed.
RemoveMissing ==
    /\ Removing
    /\ ~Top(removeStack).opened
    /\ Breaks("lstat_removed", Exists(Top(removeStack).src))
    /\ removeStack' = Pop(removeStack)
    /\ UNCHANGED <<fs, op, public, cancelRequested, pc, after, plan, made,
                   cursors, removeIndex>>

\* When opendir fails the loop is skipped and rmdir is left to complain.
RemoveOpen ==
    /\ Removing
    /\ LET frame == Top(removeStack)
       IN  /\ ~frame.opened
           /\ IsDir(frame.src)
           /\ \/ /\ NoFault
                 /\ removeStack' = SetTop(removeStack, OpenFrame(frame, NamesIn(frame.src)))
              \/ /\ Fault("opendir")
                 /\ removeStack' = SetTop(removeStack, OpenFrame(frame, {}))
    /\ UNCHANGED <<fs, op, public, cancelRequested, pc, after, plan, made,
                   cursors, removeIndex>>

RemoveDescend ==
    /\ Removing
    /\ removeStack' \in NextChild(removeStack, SourceChild)
    /\ UNCHANGED <<fs, op, public, cancelRequested, pc, after, plan, made,
                   cursors, removeIndex, faults>>

\* unlink of a leaf, or rmdir of a directory that has been walked through.
RemoveItem ==
    /\ Removing
    /\ LET frame == Top(removeStack)
           walked == frame.opened /\ frame.todo = {}
           leaf   == ~frame.opened /\ CanUnlink(frame.src)
           ok     == IF walked THEN CanRmdir(frame.src) ELSE leaf
       IN  /\ walked \/ leaf
           /\ \/ /\ Works(ok)
                 /\ fs' = Drop(frame.src)
                 /\ removeStack' = Pop(removeStack)
                 /\ UNCHANGED <<state, phase, pc>>
              \/ /\ Breaks(IF walked THEN "rmdir" ELSE "unlink", ok)
                 /\ removeStack' = <<>>
                 /\ state' = "Failed" /\ phase' = "Idle"
                 /\ pc' = after.pc
                 /\ UNCHANGED fs
    /\ UNCHANGED <<op, threadFinished, cancelRequested, after, plan, made,
                   cursors, removeIndex>>

\* Mutant: only clipboard_, the first entry, is removed.
MutLastRoot == TRUE
LastRoot == removeIndex = Len(op.roots)

RemoveNextRoot ==
    /\ pc = "remove"
    /\ removeStack = <<>>
    /\ IF LastRoot
       THEN /\ state' = "Completed" /\ phase' = "Idle"
            /\ pc' = after.pc
            /\ UNCHANGED removal
       ELSE /\ removeIndex' = removeIndex + 1
            /\ removeStack' = <<Frame(op.roots[removeIndex + 1], NoPath)>>
            /\ UNCHANGED <<state, phase, pc>>
    /\ UNCHANGED <<fs, op, threadFinished, cancelRequested, after, plan, made,
                   cursors, faults>>

RemoveStep == \/ RemoveMissing \/ RemoveOpen \/ RemoveDescend
              \/ RemoveItem \/ RemoveNextRoot

(***************************************************************************)
(* Planning: a depth-first walk over the roots.                            *)
(***************************************************************************)
\* The head of the planning loops, and what they do when the walk is over.
PlanTop ==
    /\ pc = "planTop"
    /\ IF cancelRequested \/ state = "Failed"
       THEN /\ pc' = "planned"
            /\ NoFault
            /\ UNCHANGED <<state, phase, after, removal>>
       ELSE IF planStack # <<>>
       THEN /\ pc' = "frame"
            /\ NoFault
            /\ UNCHANGED <<state, phase, after, removal>>
       ELSE \/ /\ NoFault
               /\ IF op.kind # "Delete" /\ jobs = <<>>
                  THEN CompleteOperation("planned")
                  ELSE /\ pc' = "planned"
                       /\ phase' = "Running"
                       /\ UNCHANGED <<state, after, removal>>
            \/ /\ jobs # <<>>
               /\ Fault("statvfs")           \* pre-flight ENOSPC
               /\ Fail("planned")
               /\ UNCHANGED <<state, phase, removal>>
    /\ UNCHANGED <<fs, op, threadFinished, cancelRequested, plan, made, cursors>>

TopFrame == Top(planStack)
Walking(kinds) == pc = "frame" /\ op.kind \in kinds
Pastes == {"Copy", "Move"}

\* lstat fails, or the item is neither a directory nor a regular file.
PlanRefused ==
    /\ pc = "frame"
    /\ ~TopFrame.opened
    /\ Breaks("lstat", IF op.kind = "Delete" THEN Exists(TopFrame.src)
                       ELSE IsDir(TopFrame.src) \/ IsRegular(TopFrame.src))
    /\ Fail("planned")
    /\ UNCHANGED <<fs, op, public, cancelRequested, plan, made, cursors, removal>>

PlanMakeDirectory ==
    /\ Walking(Pastes)
    /\ ~TopFrame.opened
    /\ IsDir(TopFrame.src)
    /\ \/ /\ Works(CanCreate(TopFrame.dst))
          /\ fs' = Put(TopFrame.dst, Dir)
          /\ createdDirectories' = Append(createdDirectories, TopFrame.dst)
          /\ pc' = "opendir"
          /\ UNCHANGED after
       \/ /\ Breaks("mkdir", CanCreate(TopFrame.dst))
          /\ Fail("planned")
          /\ UNCHANGED <<fs, createdDirectories>>
    /\ UNCHANGED <<op, public, cancelRequested, plan, createdFiles,
                   temporaryPath, cursors, removal>>

PlanOpenDirectory ==
    /\ \/ pc = "opendir"
       \/ Walking({"Delete"}) /\ ~TopFrame.opened /\ IsDir(TopFrame.src)
    /\ \/ /\ Works(IsDir(TopFrame.src))
          /\ planStack' = SetTop(planStack, OpenFrame(TopFrame, NamesIn(TopFrame.src)))
          /\ pc' = "planTop"
          /\ UNCHANGED after
       \/ /\ Breaks("opendir", IsDir(TopFrame.src))
          /\ Fail("planned")
          /\ UNCHANGED planStack
    /\ UNCHANGED <<fs, op, public, cancelRequested, jobs, deletePaths, made,
                   cursors, removal>>

PasteChild(frame, name) == Frame(JoinPath(frame.src, name), JoinPath(frame.dst, name))

PlanDescend ==
    /\ pc = "frame"
    /\ planStack' \in IF op.kind = "Delete" THEN NextChild(planStack, SourceChild)
                                             ELSE NextChild(planStack, PasteChild)
    /\ pc' = "planTop"
    /\ UNCHANGED <<fs, op, public, cancelRequested, after, jobs, deletePaths,
                   made, cursors, removal, faults>>

Walked == TopFrame.opened /\ TopFrame.todo = {}

\* Mutant: a directory is deleted before its contents.
MutAfterContents(dir) == <<dir>> \o deletePaths
AfterContents(dir) == Append(deletePaths, dir)

PlanLeaveDirectory ==
    /\ pc = "frame"
    /\ Walked
    /\ planStack' = Pop(planStack)
    /\ deletePaths' = IF op.kind = "Delete" THEN AfterContents(TopFrame.src)
                                            ELSE deletePaths
    /\ pc' = "planTop"
    /\ UNCHANGED <<fs, op, public, cancelRequested, after, jobs, made, cursors,
                   removal, faults>>

\* AddFileJob's test.  Mutant: an existing target is no obstacle.
MutTargetTaken(src, dst) == Exists(TempPath(dst))
TargetTaken(src, dst) ==
    \/ Exists(dst) /\ ~(op.replace /\ src = op.roots[1] /\ IsRegular(dst))
    \/ Exists(TempPath(dst))

PlanFile ==
    /\ Walking(Pastes)
    /\ ~TopFrame.opened
    /\ IsRegular(TopFrame.src)
    /\ LET src == TopFrame.src
           dst == TopFrame.dst
       IN  IF TargetTaken(src, dst)
           THEN /\ NoFault
                /\ Fail("planned")
                /\ UNCHANGED <<jobs, planStack>>
           ELSE /\ NoFault
                /\ jobs' = Append(jobs, [src |-> src, dst |-> dst])
                /\ planStack' = Pop(planStack)
                /\ pc' = "planTop"
                /\ UNCHANGED after
    /\ UNCHANGED <<fs, op, public, cancelRequested, deletePaths, made, cursors,
                   removal>>

PlanDeleteLeaf ==
    /\ Walking({"Delete"})
    /\ ~TopFrame.opened
    /\ CanUnlink(TopFrame.src)
    /\ deletePaths' = Append(deletePaths, TopFrame.src)
    /\ planStack' = Pop(planStack)
    /\ pc' = "planTop"
    /\ UNCHANGED <<fs, op, public, cancelRequested, after, jobs, made, cursors,
                   removal, faults>>

\* RunBackground between planning and execution.
Planned ==
    /\ pc = "planned"
    /\ IF cancelRequested
       THEN Undo("Canceled", "done")
       ELSE /\ pc' = IF state = "Failed" THEN "end"
                     ELSE IF op.kind = "Delete" THEN "deleteTop" ELSE "jobTop"
            /\ UNCHANGED after
    /\ UNCHANGED <<fs, op, public, cancelRequested, plan, made, cursors,
                   removal, faults>>

PlanStep == \/ PlanTop \/ PlanRefused \/ PlanMakeDirectory \/ PlanOpenDirectory
            \/ PlanDescend \/ PlanLeaveDirectory \/ PlanFile \/ PlanDeleteLeaf
            \/ Planned
(***************************************************************************)
(* RunCopying() and ExecuteCopyJob().                                      *)
(***************************************************************************)
\* Mutant: the last job is never run.
MutAllJobsDone == jobIndex >= Len(jobs)
AllJobsDone == jobIndex > Len(jobs)

Job == jobs[jobIndex]

\* Mutant: the copy is written under its final name.
MutTemp == Job.dst
Temp == TempPath(Job.dst)

\* Mutant: when the last job is done, the cancellation is not looked at.
MutStopCopying == cancelRequested /\ ~AllJobsDone
StopCopying == cancelRequested

JobTop ==
    /\ pc = "jobTop"
    /\ IF StopCopying
       THEN /\ Undo("Canceled", "end")
            /\ UNCHANGED <<state, phase, removal>>
       ELSE IF AllJobsDone
       THEN CompleteOperation("end")
       ELSE /\ pc' = "jobPrepare"
            /\ UNCHANGED <<state, phase, after, removal>>
    /\ UNCHANGED <<fs, op, threadFinished, cancelRequested, plan, made,
                   cursors, faults>>

\* temporaryPath_ is set before the file exists; then open and fstat of the
\* source.
JobOpenSource ==
    /\ pc = "jobPrepare"
    /\ temporaryPath' = Temp
    /\ \/ /\ Works(IsRegular(Job.src))
          /\ pc' = "jobOpenTarget"
          /\ UNCHANGED after
       \/ /\ Breaks("open", IsRegular(Job.src))
          /\ Fail("end")
    /\ UNCHANGED <<fs, op, public, cancelRequested, plan, createdFiles,
                   createdDirectories, cursors, removal>>

\* open(O_CREAT | O_EXCL) of the temporary file.
JobOpenTarget ==
    /\ pc = "jobOpenTarget"
    /\ \/ /\ Works(CanCreate(Temp))
          /\ fs' = Put(Temp, Partial)
          /\ pc' = "jobTransfer"
          /\ UNCHANGED after
       \/ /\ Breaks("open", CanCreate(Temp))
          /\ Fail("end")
          /\ UNCHANGED fs
    /\ UNCHANGED <<op, public, cancelRequested, plan, made, cursors, removal>>

\* No memory for the buffers, or no reader thread.
JobNoResources ==
    /\ pc = "jobTransfer"
    /\ Fault("resources")
    /\ pc' = "jobDiscard"
    /\ after' = [state |-> "Failed", pc |-> "end"]
    /\ UNCHANGED <<fs, op, public, cancelRequested, plan, made, cursors, removal>>

\* The two threads of CopyPipeline: a whole copy, an error, or a transfer
\* broken off because of the cancellation.
JobTransfer ==
    /\ pc = "jobTransfer"
    /\ pc' = "jobTransferred"
    /\ \/ NoFault /\ fs' = Put(Temp, fs[Job.src]) /\ hasError' = FALSE
       \/ Fault("io") /\ UNCHANGED fs /\ hasError' = TRUE
       \/ cancelRequested /\ NoFault /\ UNCHANGED fs /\ hasError' = FALSE
    /\ UNCHANGED <<op, public, cancelRequested, after, plan, made, jobIndex,
                   deleteIndex, removal>>

\* Mutant: only an error is looked at when the reader thread has been joined.
MutTransferEnd == IF hasError THEN "Failed" ELSE "Running"
TransferEnd == IF cancelRequested THEN "Canceled"
               ELSE IF hasError THEN "Failed" ELSE "Running"

JobTransferred ==
    /\ pc = "jobTransferred"
    /\ IF TransferEnd = "Running"
       THEN /\ pc' = "jobFinalize"
            /\ UNCHANGED after
       ELSE /\ pc' = "jobDiscard"
            /\ after' = [state |-> TransferEnd, pc |-> "end"]
    /\ UNCHANGED <<fs, op, public, cancelRequested, plan, made, cursors,
                   removal, faults>>

\* unlink(tempPath) on the ways out, before Rollback() or Fail().
JobDiscard ==
    /\ pc = "jobDiscard"
    /\ TryUnlink(Temp)
    /\ pc' = "undoTemp"
    /\ UNCHANGED <<op, public, cancelRequested, after, plan, made, cursors, removal>>

JobFinalize ==
    /\ pc = "jobFinalize"
    /\ phase' = "Finalizing"
    /\ pc' = "jobRename"
    /\ UNCHANGED <<fs, op, state, threadFinished, cancelRequested, after, plan,
                   made, cursors, removal, faults>>

CanRename(from, to) == Exists(from) /\ ~IsDir(to) /\ IsDir(ParentPath(to))

Renamed(from, to) == [q \in (DOMAIN fs \ {from}) \cup {to} |->
                         IF q = to THEN fs[from] ELSE fs[q]]

JobRename ==
    /\ pc = "jobRename"
    /\ \/ /\ Works(CanRename(Temp, Job.dst))
          /\ fs' = Renamed(Temp, Job.dst)
          /\ pc' = "jobRecord"
          /\ UNCHANGED after
       \/ /\ Breaks("rename", CanRename(Temp, Job.dst))
          /\ pc' = "jobDiscard"
          /\ after' = [state |-> "Failed", pc |-> "end"]
          /\ UNCHANGED fs
    /\ UNCHANGED <<op, public, cancelRequested, plan, made, cursors, removal>>

\* Mutant: the file is not remembered for a rollback.
MutRecorded(dst) == createdFiles
Recorded(dst) == Append(createdFiles, dst)

JobRecord ==
    /\ pc = "jobRecord"
    /\ createdFiles' = Recorded(Job.dst)
    /\ temporaryPath' = NoPath
    /\ jobIndex' = jobIndex + 1
    /\ phase' = "Running"
    /\ pc' = "jobTop"
    /\ UNCHANGED <<fs, op, state, threadFinished, cancelRequested, after, plan,
                   createdDirectories, deleteIndex, hasError, removal, faults>>

JobStep == \/ JobTop \/ JobOpenSource \/ JobOpenTarget \/ JobNoResources
           \/ JobTransfer \/ JobTransferred \/ JobDiscard \/ JobFinalize
           \/ JobRename \/ JobRecord

(***************************************************************************)
(* RunDeletion(), and the end of RunBackground().                          *)
(***************************************************************************)
DeleteTop ==
    /\ pc = "deleteTop"
    /\ IF cancelRequested
       THEN state' = "Canceled" /\ phase' = "Idle" /\ pc' = "end"
       ELSE IF deleteIndex > Len(deletePaths)
       THEN state' = "Completed" /\ phase' = "Idle" /\ pc' = "end"
       ELSE pc' = "delete" /\ UNCHANGED <<state, phase>>
    /\ UNCHANGED <<fs, op, threadFinished, cancelRequested, after, plan, made,
                   cursors, removal, faults>>

DeleteItem ==
    /\ pc = "delete"
    /\ LET path == deletePaths[deleteIndex]
           ok   == IF IsDir(path) THEN CanRmdir(path) ELSE CanUnlink(path)
       IN  \/ /\ Works(ok)
              /\ fs' = Drop(path)
              /\ deleteIndex' = deleteIndex + 1
              /\ pc' = "deleteTop"
              /\ UNCHANGED after
           \/ /\ Breaks("unlink", ok)
              /\ Fail("end")
              /\ UNCHANGED <<fs, deleteIndex>>
    /\ UNCHANGED <<op, public, cancelRequested, plan, made, jobIndex, hasError,
                   removal>>

End ==
    /\ pc = "end"
    /\ threadFinished' = TRUE
    /\ pc' = "done"
    /\ UNCHANGED <<fs, op, state, phase, cancelRequested, after, plan, made,
                   cursors, removal, faults>>

\* The thread is gone, or never was; the worker waits to be destroyed.
Gone ==
    /\ pc \in {"done", "none"}
    /\ UNCHANGED vars

WorkerStep == \/ PlanStep \/ JobStep \/ DeleteTop \/ DeleteItem
              \/ UndoStep \/ RemoveStep \/ End

Next == Start \/ WorkerStep \/ Cancel \/ Gone

\* The thread is scheduled and every system call returns.
Fairness == WF_vars(WorkerStep)

Spec     == Init /\ [][Next]_vars
FairSpec == Spec /\ Fairness

-----------------------------------------------------------------------------
(***************************************************************************)
(* Properties.                                                             *)
(***************************************************************************)
Roots == {op.roots[i] : i \in 1..Len(op.roots)}
Sources == {p \in DOMAIN Disk0 : \E root \in Roots : IsUnder(p, root)}

\* Where the item p of the clipboard belongs in the destination.
Image(p) == LET root == CHOOSE r \in Roots : IsUnder(p, r)
            IN  TargetOf(root) \o SubSeq(p, Len(root) + 1, Len(p))

Intact(p) == Exists(p) /\ fs[p] = Disk0[p]
Arrived(p) == Exists(Image(p)) /\ fs[Image(p)] = Disk0[p]
AllArrived == \A p \in Sources : Arrived(p)

Pasting == op.kind \in Pastes
Broke(calls) == \E i \in 1..Len(faults) : faults[i] \in calls

\* The two cases in which a cancellation that comes after the outcome undoes
\* what cannot be undone: a move without a regular file in it has removed its
\* sources, and a file has been replaced by itself.
BeyondUndoing ==
    /\ cancelRequested
    /\ \/ op.kind = "Move" /\ \A p \in Sources : Disk0[p] = Dir
       \/ op.replace /\ TargetOf(op.roots[1]) = op.roots[1]

\* A paste loses nothing: whatever fails, is canceled or is interrupted by a
\* crash, every item of the clipboard exists whole at its old place or at its
\* new one; the sources of a copy never leave theirs.
NothingLost ==
    Pasting /\ ~BeyondUndoing =>
        /\ \A p \in Sources : Intact(p) \/ Arrived(p)
        /\ op.kind = "Copy" => \A p \in Sources : Intact(p)

\* README.md:53 promises "cancel & rollback where safe": whatever the user
\* does, what was to be moved exists in one of the two places.
MoveKeepsItsSources ==
    op.kind = "Move" => \A p \in Sources : Intact(p) \/ Arrived(p)

\* An unfinished copy is only ever visible under the temporary name.
PartialOnlyTemporary ==
    \A p \in DOMAIN fs : fs[p] = Partial => jobs # <<>> /\ jobIndex <= Len(jobs)
                                       /\ p = TempPath(Job.dst)

\* What is not a source of a move or a deletion stays what and where it was,
\* also what happens to bear the name of a target or of a temporary file,
\* except the one file the user agreed to overwrite.
BystandersUntouched ==
    \A p \in DOMAIN Disk0 :
        \/ op.kind # "Copy" /\ p \in Sources
        \/ op.replace /\ p = TargetOf(op.roots[1])
        \/ Intact(p)

\* A paste that ends canceled or failed has left no trace, unless it is a move
\* that had copied everything and could not remove its sources, or the cleaning
\* up failed itself.  (The replaced file is the subject of ReplaceIsAtomic.)
AllOrNothing ==
    LET replaced == IF op.replace THEN {TargetOf(op.roots[1])} ELSE {}
        noTrace  == /\ DOMAIN fs \ replaced = DOMAIN Disk0 \ replaced
                    /\ \A p \in DOMAIN fs \ replaced : fs[p] = Disk0[p]
    IN  Pasting /\ pc = "done" /\ state \in {"Canceled", "Failed"}
            /\ ~BeyondUndoing /\ ~Broke({"unlink", "rmdir"}) =>
                noTrace \/ (op.kind = "Move" /\ state = "Failed" /\ AllArrived)

\* "Completed" is only shown when all of it has been done, but for a source
\* that RemovePathRecursive() could not look at.  State() waits for mutex_, and so
\* for a rollback that takes the outcome back.
CompletedIsComplete ==
    state = "Completed" /\ ~Locked /\ ~BeyondUndoing /\ ~Broke({"lstat_removed"}) =>
        /\ Pasting => AllArrived
        /\ op.kind # "Copy" => \A p \in Sources : ~Exists(p)
        /\ Pasting => \A p \in DOMAIN fs : p \notin DOMAIN Disk0 => \E q \in Sources : p = Image(q)

\* The file the user agreed to overwrite, and that may be overwritten.
Replaced(p) == /\ op.replace /\ p = op.roots[1] /\ Disk0[p] # Dir
               /\ Disk0[Image(p)] \notin {Dir, Irregular}

\* What may keep an operation from going through on the disk it finds: an item or
\* the destination is gone, an item cannot be copied, a target is taken, or the
\* name of a temporary file is, be it by another of the copies.
Obstacle ==
    \/ \E root \in Roots : root \notin DOMAIN Disk0
    \/ /\ Pasting
       /\ \/ op.dest \notin DOMAIN Disk0 \/ Disk0[op.dest] # Dir
          \/ \E p \in Sources :
                \/ Disk0[p] = Irregular
                \/ Image(p) \in DOMAIN Disk0 /\ ~Replaced(p)
                \/ /\ Disk0[p] # Dir
                   /\ TempPath(Image(p)) \in DOMAIN Disk0 \cup {Image(q) : q \in Sources}

\* The order of the walks is right: a deletion never meets a directory that is
\* not empty, a copy never a directory that is not there yet, and so an
\* operation only fails for a reason: a call that broke, or an obstacle that was
\* there when it started.
FailsForAReason == state = "Failed" /\ faults = <<>> => Obstacle

\* The target a confirmed overwrite replaces is never half written and never
\* missing, unless the user cancels when it has been replaced already.
ReplaceIsAtomic ==
    LET dst == TargetOf(op.roots[1])
        replaced == jobs # <<>> /\ jobIndex > Len(jobs)
    IN  op.replace /\ dst \in DOMAIN Disk0 /\ ~(cancelRequested /\ replaced) =>
            Exists(dst) /\ fs[dst] \in {Disk0[dst], Disk0[op.roots[1]]}

\* README.md:53 promises "cancel & rollback where safe": whatever the user
\* does, the file that was to be replaced is there in its old or new version.
ReplaceKeepsAVersion ==
    LET dst == TargetOf(op.roots[1])
    IN  op.replace /\ dst \in DOMAIN Disk0 =>
            Exists(dst) /\ fs[dst] \in {Disk0[dst], Disk0[op.roots[1]]}

\* The detailed worker keeps the promise the UI thread relies on: an answered
\* cancellation is not taken back by a late success, nor a success by an error,
\* and once started the thread ends, however its calls fail and whenever it is
\* canceled, as Acknowledge() and the destructor need, which wait in Join().
BO == INSTANCE BackgroundOperation WITH
          thread <- CASE pc = "idle" -> "idle"
                      [] pc = "none" -> "none"
                      [] threadFinished -> "gone"
                      [] OTHER -> "running"
ImplementsBackgroundOperation == BO!Spec
=============================================================================
