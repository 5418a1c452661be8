--------------------- MODULE FileOperationsWorkerProofs ----------------------
(***************************************************************************)
(* Proofs about FileOperationsWorker, for every disk, every operation and  *)
(* any number and kind of failing calls. First: what the operation has no  *)
(* right to is never touched, a half-written file has the temporary name,  *)
(* and the worker keeps the promise of BackgroundOperation. Then what an   *)
(* operation leaves on the disk: what was copied or moved exists whole in  *)
(* one of its two places, a file that is replaced is there in its old or   *)
(* its new version, an operation that fails leaves nothing of its own      *)
(* behind, one that completes is complete, and one only fails for a        *)
(* reason: a call that broke, or an obstacle on the disk it found. Much of *)
(* this also holds beside the other program of OtherWriters.               *)
(***************************************************************************)
EXTENDS OtherWriters, SequenceTheorems, TLAPS

USE DEF public, plan, made, cursors, removal

(***************************************************************************)
(* Sequences of whatever kind.                                             *)
(***************************************************************************)
IsSeq(s) == \E S : s \in Seq(S)

\* The lengths of sequences are numbers.
LEMMA LenIsNat == ASSUME NEW s, IsSeq(s) PROVE Len(s) \in Nat /\ (s # <<>> <=> Len(s) # 0)
BY DEF IsSeq

\* One more at the end: Push, and the lists of what has been planned or made.
LEMMA AppendFacts ==
    ASSUME NEW s, IsSeq(s), NEW x
    PROVE  /\ IsSeq(Append(s, x))
           /\ Len(Append(s, x)) = Len(s) + 1
           /\ \A i \in 1 .. Len(s) : Append(s, x)[i] = s[i]
           /\ Append(s, x)[Len(s) + 1] = x
<1>1. PICK S : s \in Seq(S)
  BY DEF IsSeq
<1>. DEFINE T == S \cup {x}
<1>2. s \in Seq(T) /\ x \in T
  BY <1>1
<1>. HIDE DEF T
<1>. QED BY <1>2, AppendProperties DEF IsSeq

\* One less: Pop, and the lists that a rollback works off.
LEMMA ButLastFacts ==
    ASSUME NEW s, IsSeq(s), s # <<>>
    PROVE  /\ IsSeq(ButLast(s))
           /\ Len(ButLast(s)) = Len(s) - 1
           /\ \A i \in 1 .. Len(s) - 1 : ButLast(s)[i] = s[i]
           /\ Len(s) \in Nat \ {0}
<1>1. PICK S : s \in Seq(S)
  BY DEF IsSeq
<1>. DEFINE n == Len(s) - 1
<1>2. n \in Nat /\ (\A i \in 1 .. n : s[i] \in S) /\ Len(s) \in Nat \ {0}
  BY <1>1
<1>3. ButLast(s) = SubSeq(s, 1, n)
  BY DEF ButLast
<1>. HIDE DEF n
<1>4. SubSeq(s, 1, n) \in Seq(S)
  BY <1>2, SubSeqProperties
<1>5. Len(SubSeq(s, 1, n)) = n /\ \A i \in 1 .. n : SubSeq(s, 1, n)[i] = s[i]
  BY <1>2
<1>. QED BY <1>2, <1>3, <1>4, <1>5 DEF n, IsSeq

\* The top frame changed.
LEMMA SetTopFacts ==
    ASSUME NEW s, IsSeq(s), s # <<>>, NEW x
    PROVE  /\ IsSeq(SetTop(s, x))
           /\ Len(SetTop(s, x)) = Len(s)
           /\ \A i \in 1 .. Len(s) : SetTop(s, x)[i] = IF i = Len(s) THEN x ELSE s[i]
<1>1. PICK S : s \in Seq(S)
  BY DEF IsSeq
<1>. DEFINE T == S \cup {x}
<1>2. s \in Seq(T) /\ x \in T /\ Len(s) \in 1 .. Len(s)
  BY <1>1
<1>. HIDE DEF T
<1>3. SetTop(s, x) \in Seq(T)
  BY <1>2 DEF SetTop
<1>. QED BY <1>2, <1>3 DEF SetTop, IsSeq

(***************************************************************************)
(* What lies below the roots.                                              *)
(***************************************************************************)
BelowRoot(p) == IsSeq(p) /\ \E i \in 1 .. Len(op.roots) : IsUnder(p, op.roots[i])

\* An item of the folder p, which is below the root, is below it, too.
LEMMA UnderChild ==
    ASSUME NEW p, IsSeq(p), NEW root, IsSeq(root), IsUnder(p, root), NEW name
    PROVE  /\ IsSeq(JoinPath(p, name))
           /\ IsUnder(JoinPath(p, name), root)
           /\ JoinPath(p, name) # root
<1>. DEFINE q == JoinPath(p, name)
            n == Len(root)
<1>1. /\ IsSeq(q) /\ Len(q) = Len(p) + 1
      /\ \A i \in 1 .. Len(p) : q[i] = p[i]
  BY AppendFacts DEF JoinPath
<1>2. n \in Nat /\ Len(p) \in Nat /\ n <= Len(p) /\ SubSeq(p, 1, n) = root
  BY LenIsNat DEF IsUnder
<1>. HIDE DEF q, n
<1>3. SubSeq(q, 1, n) = SubSeq(p, 1, n)
  BY <1>1, <1>2 DEF IsSeq
<1>4. n = Len(root)
  BY DEF n
<1>. QED BY <1>1, <1>2, <1>3, <1>4 DEF IsUnder, q

\* A root is below itself.
LEMMA UnderSelf == ASSUME NEW root, IsSeq(root) PROVE IsUnder(root, root)
BY SubSeqFull DEF IsUnder, IsSeq

\* The roots of an operation are paths.
LEMMA RootsArePaths ==
    ASSUME op \in Operations
    PROVE  /\ Len(op.roots) \in Nat \ {0}
           /\ \A i \in 1 .. Len(op.roots) : IsSeq(op.roots[i]) /\ BelowRoot(op.roots[i])
           /\ op.replace => op.kind # "Delete" /\ Len(op.roots) = 1
           /\ op.kind \in Kinds
<1>1. OperationRecord(op)
  BY WorkerAssumption
<1>2. op.roots \in Seq(Seq(STRING)) /\ op.roots # <<>>
  BY <1>1 DEF OperationRecord
<1>3. Len(op.roots) \in Nat \ {0} /\ \A i \in 1 .. Len(op.roots) : op.roots[i] \in Seq(STRING)
  BY <1>2
<1>4. \A i \in 1 .. Len(op.roots) : IsSeq(op.roots[i])
  BY <1>3 DEF IsSeq
<1>. QED BY <1>1, <1>3, <1>4, UnderSelf DEF BelowRoot, OperationRecord

(***************************************************************************)
(* The stacks of the walks: a frame is below a root, and while planning    *)
(* the frame of the file that is replaced has the target the user agreed   *)
(* to.  (The frames of a removal have no targets.)                         *)
(***************************************************************************)
FrameOK(f, planning) ==
    /\ DOMAIN f = {"src", "dst", "opened", "todo"}
    /\ BelowRoot(f.src)
    /\ planning /\ op.replace /\ f.src = op.roots[1] => f.dst = TargetOf(op.roots[1])

Frames(stack, planning) ==
    IsSeq(stack) /\ \A i \in 1 .. Len(stack) : FrameOK(stack[i], planning)

\* A walk that leaves a folder, or takes an item off.
LEMMA PopFrames ==
    ASSUME NEW planning \in BOOLEAN, NEW stack, Frames(stack, planning), stack # <<>>
    PROVE  Frames(Pop(stack), planning) /\ FrameOK(Top(stack), planning)
BY ButLastFacts DEF Frames, Pop, Top

\* Changes of the top frame that keep what it stands for.
LEMMA SetTopFrames ==
    ASSUME NEW planning \in BOOLEAN, NEW stack, Frames(stack, planning), stack # <<>>,
           NEW f, FrameOK(f, planning)
    PROVE  Frames(SetTop(stack, f), planning)
BY SetTopFacts DEF Frames

\* opendir() and readdir() of the top frame.
LEMMA OpenedFrame ==
    ASSUME NEW planning \in BOOLEAN, NEW f, FrameOK(f, planning), NEW names, NEW name
    PROVE  FrameOK(OpenFrame(f, names), planning) /\ FrameOK([f EXCEPT !.todo = @ \ {name}], planning)
BY DEF FrameOK, OpenFrame

\* The frame of an item of the folder on top.
LEMMA ChildFrame ==
    ASSUME op \in Operations, NEW planning \in BOOLEAN, NEW f, FrameOK(f, planning),
           NEW name, NEW dst
    PROVE  FrameOK(Frame(JoinPath(f.src, name), dst), planning)
<1>1. PICK i \in 1 .. Len(op.roots) : IsUnder(f.src, op.roots[i])
  BY DEF FrameOK, BelowRoot
<1>. DEFINE src == JoinPath(f.src, name)
<1>2. IsSeq(src) /\ IsUnder(src, op.roots[i]) /\ src # op.roots[i]
  BY <1>1, UnderChild, RootsArePaths DEF FrameOK, BelowRoot
<1>. HIDE DEF src
<1>3. op.replace => i = 1
  BY RootsArePaths
<1>4. FrameOK(Frame(src, dst), planning)
  BY <1>2, <1>3 DEF FrameOK, BelowRoot, Frame
<1>. QED BY <1>4 DEF src

\* readdir() returns a name: its frame comes on top.
LEMMA DescendFrames ==
    ASSUME op \in Operations, NEW planning \in BOOLEAN, NEW stack, Frames(stack, planning),
           stack # <<>>, NEW name, NEW dst, NEW next,
           next = Push(SetTop(stack, [Top(stack) EXCEPT !.todo = @ \ {name}]),
                       Frame(JoinPath(Top(stack).src, name), dst))
    PROVE  Frames(next, planning)
<1>. DEFINE low == SetTop(stack, [Top(stack) EXCEPT !.todo = @ \ {name}])
            new == Frame(JoinPath(Top(stack).src, name), dst)
<1>1. FrameOK(Top(stack), planning)
  BY PopFrames
<1>2. Frames(low, planning) /\ FrameOK(new, planning)
  BY <1>1, OpenedFrame, SetTopFrames, ChildFrame
<1>. HIDE DEF low, new
<1>3. Frames(Append(low, new), planning)
  <2>1. Len(low) \in Nat
    BY <1>2, LenIsNat DEF Frames
  <2>. QED BY <1>2, <2>1, AppendFacts DEF Frames
<1>. QED BY <1>3 DEF Push, low, new

\* The walk over the roots begins.
LEMMA RootFramesOK == ASSUME op \in Operations PROVE Frames(RootFrames, TRUE)
<1>. DEFINE n == Len(op.roots)
            R == {RootFrames[i] : i \in 1 .. n}
<1>1. n \in Nat \ {0}
  BY RootsArePaths
<1>2. RootFrames \in Seq(R) /\ Len(RootFrames) = n
  BY <1>1 DEF RootFrames
<1>3. ASSUME NEW i \in 1 .. n PROVE FrameOK(RootFrames[i], TRUE)
  <2>. DEFINE root == op.roots[n + 1 - i]
              dst == IF op.kind = "Delete" THEN NoPath ELSE TargetOf(root)
  <2>1. n + 1 - i \in 1 .. n
    BY <1>1
  <2>2. RootFrames[i] = Frame(root, dst) /\ BelowRoot(root)
    BY <2>1, RootsArePaths DEF RootFrames
  <2>3. op.replace => op.kind # "Delete" /\ root = op.roots[1]
    BY RootsArePaths
  <2>. HIDE DEF n, R
  <2>. QED BY <2>2, <2>3 DEF FrameOK, Frame
<1>. QED BY <1>2, <1>3 DEF Frames, IsSeq

(***************************************************************************)
(* What the operation may write to or remove: what was not there when it   *)
(* started, the one file the user agreed to overwrite, and what is to be   *)
(* moved away or deleted.                                                  *)
(***************************************************************************)
Expendable(p) ==
    \/ p \notin DOMAIN Disk0
    \/ op.replace /\ p = TargetOf(op.roots[1])
    \/ op.kind # "Copy" /\ p \in Sources

AllExpendable(s) == IsSeq(s) /\ \A i \in 1 .. Len(s) : Expendable(s[i])

\* A job replaces its target and its temporary file.
JobsExpendable ==
    /\ IsSeq(jobs)
    /\ \A i \in 1 .. Len(jobs) : /\ Expendable(jobs[i].dst)
                                 /\ Expendable(TempPath(jobs[i].dst))

\* What a move or a deletion finds below the roots.
LEMMA BelowRootExpendable ==
    ASSUME op.kind # "Copy", NEW p, BelowRoot(p) PROVE Expendable(p)
BY DEF Expendable, BelowRoot, Sources, Roots

\* A path that is free is nobody's, or has lost what was there to the operation.
LEMMA FreeExpendable ==
    ASSUME BystandersUntouched, NEW p, ~Exists(p) PROVE Expendable(p)
BY DEF BystandersUntouched, Expendable, Intact

\* One more in a list of what may go, and one less.
LEMMA AppendExpendable ==
    ASSUME NEW s, AllExpendable(s), NEW p, Expendable(p) PROVE AllExpendable(Append(s, p))
<1>1. Len(s) \in Nat
  BY LenIsNat DEF AllExpendable
<1>. QED BY <1>1, AppendFacts DEF AllExpendable

\* The list that a rollback works off.
LEMMA ButLastExpendable ==
    ASSUME NEW s, AllExpendable(s), s # <<>>
    PROVE  AllExpendable(ButLast(s)) /\ Expendable(Top(s))
BY ButLastFacts DEF AllExpendable, Top

\* An unlink or a rmdir.
LEMMA DropKeeps ==
    ASSUME BystandersUntouched, op' = op, NEW p, Expendable(p), fs' = Drop(p)
    PROVE  BystandersUntouched'
BY DEF BystandersUntouched, Intact, Exists, Drop, Expendable, Sources, Roots, TargetOf

\* An open, a mkdir or a write.
LEMMA PutKeeps ==
    ASSUME BystandersUntouched, op' = op, NEW p, Expendable(p), NEW node, fs' = Put(p, node)
    PROVE  BystandersUntouched'
BY DEF BystandersUntouched, Intact, Exists, Put, Expendable, Sources, Roots, TargetOf

\* The rename of the temporary file.
LEMMA RenamedKeeps ==
    ASSUME BystandersUntouched, op' = op, NEW p, Expendable(p), NEW q, Expendable(q),
           fs' = Renamed(p, q)
    PROVE  BystandersUntouched'
BY DEF BystandersUntouched, Intact, Exists, Renamed, Expendable, Sources, Roots, TargetOf

\* A step that leaves the disk alone.
LEMMA SameDiskKeeps ==
    ASSUME BystandersUntouched, op' = op, fs' = fs PROVE BystandersUntouched'
BY DEF BystandersUntouched, Intact, Exists, Sources, Roots, TargetOf

(***************************************************************************)
(* The invariant.                                                          *)
(***************************************************************************)
InJob == {"jobPrepare", "jobOpenTarget", "jobTransfer", "jobTransferred", "jobDiscard",
          "jobFinalize", "jobRename", "jobRecord"}
Returning == {"jobDiscard", "undoTemp", "undo", "remove"}

\* The indices are within their lists wherever they are used, and what is
\* taken up after a rollback or a removal is one of three places.
PlaceInv ==
    /\ op \in Operations
    /\ pc \in Returning => after.pc \in {"planned", "end", "done"}
    /\ pc = "remove" => op.kind = "Move" /\ removeIndex \in 1 .. Len(op.roots)
    /\ pc \in {"frame", "opendir"} => planStack # <<>>
    /\ jobIndex \in Nat \ {0}
    /\ pc \in InJob => jobIndex \in 1 .. Len(jobs)
    /\ deleteIndex \in Nat \ {0}
    /\ pc = "delete" => deleteIndex \in 1 .. Len(deletePaths)

\* What the worker remembers for later.
MemoryInv ==
    /\ Frames(planStack, TRUE)
    /\ Frames(removeStack, FALSE)
    /\ JobsExpendable
    /\ AllExpendable(deletePaths)
    /\ AllExpendable(createdFiles)
    /\ AllExpendable(createdDirectories)
    /\ temporaryPath = NoPath \/ Expendable(temporaryPath)

SafeInv == PlaceInv /\ MemoryInv /\ BystandersUntouched

\* Nothing is planned and nothing changed when the thread is started.
LEMMA WorkerStarts == Init => SafeInv
<1>. SUFFICES ASSUME Init PROVE SafeInv
  OBVIOUS
<1>1. IsSeq(<<>>) /\ Len(<<>>) = 0
  BY EmptySeq DEF IsSeq
<1>2. PlaceInv
  BY DEF Init, PlaceInv, InJob, Returning
<1>3. MemoryInv
  BY <1>1 DEF Init, MemoryInv, Frames, JobsExpendable, AllExpendable
<1>4. BystandersUntouched
  BY DEF Init, BystandersUntouched, Intact, Exists
<1>. QED BY <1>2, <1>3, <1>4 DEF SafeInv

\* The operation is what it was.
LEMMA SameOperation == [Next]_vars => op' = op
<1>. SUFFICES ASSUME [Next]_vars PROVE op' = op
  OBVIOUS
<1>1. CASE Start \/ Cancel \/ Gone \/ UNCHANGED vars
  BY <1>1 DEF Start, Cancel, Gone, vars
<1>2. CASE PlanStep
  BY <1>2 DEF PlanStep, PlanTop, PlanRefused, PlanMakeDirectory, PlanOpenDirectory, PlanDescend,
     PlanLeaveDirectory, PlanFile, PlanDeleteLeaf, Planned
<1>3. CASE JobStep
  BY <1>3 DEF JobStep, JobTop, JobOpenSource, JobOpenTarget, JobNoResources, JobTransfer,
     JobTransferred, JobDiscard, JobFinalize, JobRename, JobRecord
<1>4. CASE DeleteTop \/ DeleteItem \/ UndoStep \/ RemoveStep \/ End
  BY <1>4 DEF DeleteTop, DeleteItem, UndoStep, UndoTemp, UndoFile, UndoDirectory, UndoEnd,
     RemoveStep, RemoveMissing, RemoveOpen, RemoveDescend, RemoveItem, RemoveNextRoot, End
<1>. QED BY <1>1, <1>2, <1>3, <1>4 DEF Next, WorkerStep

(***************************************************************************)
(* Which steps change what.                                                *)
(***************************************************************************)
\* The thread fills the stack of the planning, four steps of the walk change it.
LEMMA PlanStackChanges ==
    ASSUME [Next]_vars
    PROVE  \/ planStack' = planStack
           \/ Start \/ PlanOpenDirectory \/ PlanDescend \/ PlanLeaveDirectory \/ PlanFile
           \/ PlanDeleteLeaf
BY DEF Next, vars, WorkerStep, PlanStep, JobStep, UndoStep, RemoveStep, Cancel, Gone, PlanTop,
     PlanRefused, PlanMakeDirectory, Planned, JobTop, JobOpenSource, JobOpenTarget,
     JobNoResources, JobTransfer, JobTransferred, JobDiscard, JobFinalize, JobRename,
     JobRecord, DeleteTop, DeleteItem, UndoTemp, UndoFile, UndoDirectory, UndoEnd,
     RemoveMissing, RemoveOpen, RemoveDescend, RemoveItem, RemoveNextRoot, End

\* Only AddFileJob() adds a job.
LEMMA JobsChange ==
    ASSUME [Next]_vars
    PROVE  \/ jobs' = jobs
           \/ PlanFile
BY DEF Next, vars, WorkerStep, PlanStep, JobStep, UndoStep, RemoveStep, Start, Cancel, Gone,
     PlanTop, PlanRefused, PlanMakeDirectory, PlanOpenDirectory, PlanDescend,
     PlanLeaveDirectory, PlanDeleteLeaf, Planned, JobTop, JobOpenSource, JobOpenTarget,
     JobNoResources, JobTransfer, JobTransferred, JobDiscard, JobFinalize, JobRename,
     JobRecord, DeleteTop, DeleteItem, UndoTemp, UndoFile, UndoDirectory, UndoEnd,
     RemoveMissing, RemoveOpen, RemoveDescend, RemoveItem, RemoveNextRoot, End

\* The planning of a deletion lists what it finds.
LEMMA DeletePathsChange ==
    ASSUME [Next]_vars
    PROVE  \/ deletePaths' = deletePaths
           \/ PlanLeaveDirectory \/ PlanDeleteLeaf
BY DEF Next, vars, WorkerStep, PlanStep, JobStep, UndoStep, RemoveStep, Start, Cancel, Gone,
     PlanTop, PlanRefused, PlanMakeDirectory, PlanOpenDirectory, PlanDescend, PlanFile,
     Planned, JobTop, JobOpenSource, JobOpenTarget, JobNoResources, JobTransfer,
     JobTransferred, JobDiscard, JobFinalize, JobRename, JobRecord, DeleteTop, DeleteItem,
     UndoTemp, UndoFile, UndoDirectory, UndoEnd, RemoveMissing, RemoveOpen, RemoveDescend,
     RemoveItem, RemoveNextRoot, End

\* A job that is done is remembered, a rollback works the list off.
LEMMA CreatedFilesChange ==
    ASSUME [Next]_vars
    PROVE  \/ createdFiles' = createdFiles
           \/ JobRecord \/ UndoFile
BY DEF Next, vars, WorkerStep, PlanStep, JobStep, UndoStep, RemoveStep, Start, Cancel, Gone,
     PlanTop, PlanRefused, PlanMakeDirectory, PlanOpenDirectory, PlanDescend,
     PlanLeaveDirectory, PlanFile, PlanDeleteLeaf, Planned, JobTop, JobOpenSource,
     JobOpenTarget, JobNoResources, JobTransfer, JobTransferred, JobDiscard, JobFinalize,
     JobRename, DeleteTop, DeleteItem, UndoTemp, UndoDirectory, UndoEnd, RemoveMissing,
     RemoveOpen, RemoveDescend, RemoveItem, RemoveNextRoot, End

\* A directory that is made is remembered, a rollback works the list off.
LEMMA CreatedDirectoriesChange ==
    ASSUME [Next]_vars
    PROVE  \/ createdDirectories' = createdDirectories
           \/ PlanMakeDirectory \/ UndoDirectory
BY DEF Next, vars, WorkerStep, PlanStep, JobStep, UndoStep, RemoveStep, Start, Cancel, Gone,
     PlanTop, PlanRefused, PlanOpenDirectory, PlanDescend, PlanLeaveDirectory, PlanFile,
     PlanDeleteLeaf, Planned, JobTop, JobOpenSource, JobOpenTarget, JobNoResources,
     JobTransfer, JobTransferred, JobDiscard, JobFinalize, JobRename, JobRecord, DeleteTop,
     DeleteItem, UndoTemp, UndoFile, UndoEnd, RemoveMissing, RemoveOpen, RemoveDescend,
     RemoveItem, RemoveNextRoot, End

\* The name of the temporary file is set when a job begins and forgotten when it is done.
LEMMA TemporaryPathChanges ==
    ASSUME [Next]_vars
    PROVE  \/ temporaryPath' = temporaryPath
           \/ JobOpenSource \/ JobRecord
BY DEF Next, vars, WorkerStep, PlanStep, JobStep, UndoStep, RemoveStep, Start, Cancel, Gone,
     PlanTop, PlanRefused, PlanMakeDirectory, PlanOpenDirectory, PlanDescend,
     PlanLeaveDirectory, PlanFile, PlanDeleteLeaf, Planned, JobTop, JobOpenTarget,
     JobNoResources, JobTransfer, JobTransferred, JobDiscard, JobFinalize, JobRename,
     DeleteTop, DeleteItem, UndoTemp, UndoFile, UndoDirectory, UndoEnd, RemoveMissing,
     RemoveOpen, RemoveDescend, RemoveItem, RemoveNextRoot, End

\* The jobs are done one after the other.
LEMMA JobIndexChanges ==
    ASSUME [Next]_vars
    PROVE  \/ jobIndex' = jobIndex
           \/ JobRecord
BY DEF Next, vars, WorkerStep, PlanStep, JobStep, UndoStep, RemoveStep, Start, Cancel, Gone,
     PlanTop, PlanRefused, PlanMakeDirectory, PlanOpenDirectory, PlanDescend,
     PlanLeaveDirectory, PlanFile, PlanDeleteLeaf, Planned, JobTop, JobOpenSource,
     JobOpenTarget, JobNoResources, JobTransfer, JobTransferred, JobDiscard, JobFinalize,
     JobRename, DeleteTop, DeleteItem, UndoTemp, UndoFile, UndoDirectory, UndoEnd,
     RemoveMissing, RemoveOpen, RemoveDescend, RemoveItem, RemoveNextRoot, End

\* The calls that change the disk.
LEMMA DiskChanges ==
    ASSUME [Next]_vars
    PROVE  \/ fs' = fs
           \/ UndoTemp \/ UndoFile \/ UndoDirectory \/ RemoveItem \/ PlanMakeDirectory
           \/ JobOpenTarget \/ JobTransfer \/ JobDiscard \/ JobRename \/ DeleteItem
BY DEF Next, vars, WorkerStep, PlanStep, JobStep, UndoStep, RemoveStep, Start, Cancel, Gone,
     PlanTop, PlanRefused, PlanOpenDirectory, PlanDescend, PlanLeaveDirectory, PlanFile,
     PlanDeleteLeaf, Planned, JobTop, JobOpenSource, JobNoResources, JobTransferred,
     JobFinalize, JobRecord, DeleteTop, UndoEnd, RemoveMissing, RemoveOpen, RemoveDescend,
     RemoveNextRoot, End

(***************************************************************************)
(* Every step keeps the places right.                                      *)
(***************************************************************************)
\* One case for each group of steps that sets the same variables.
LEMMA PlaceSteps ==
    ASSUME PlaceInv, MemoryInv, [Next]_vars PROVE PlaceInv'
<1>. USE DEF PlaceInv, InJob, Returning
<1>1. op' = op
  BY SameOperation
<1>2. Len(jobs) \in Nat /\ Len(deletePaths) \in Nat /\ Len(op.roots) \in Nat \ {0}
  BY LenIsNat, RootsArePaths DEF MemoryInv, JobsExpendable, AllExpendable
<1>3. CASE Start
  BY <1>1, <1>3 DEF Start
<1>4. CASE Cancel \/ Gone \/ UNCHANGED vars
  BY <1>4 DEF Cancel, Gone, vars
<1>5. CASE PlanTop
  BY <1>1, <1>2, <1>5, RootsArePaths DEF PlanTop, CompleteOperation, Fail, Undo, Kinds
<1>6. CASE PlanRefused \/ PlanMakeDirectory \/ PlanOpenDirectory \/ Planned
  <2>1. planStack' # <<>> \/ planStack' = planStack \/ pc' \notin {"frame", "opendir"}
    BY <1>6 DEF PlanRefused, PlanMakeDirectory, PlanOpenDirectory, Planned, Undo, Fail
  <2>. QED BY <1>1, <1>2, <1>6, <2>1 DEF PlanRefused, PlanMakeDirectory, PlanOpenDirectory,
           Planned, Undo, Fail, Walking
<1>7. CASE PlanDescend \/ PlanLeaveDirectory \/ PlanFile \/ PlanDeleteLeaf
  BY <1>1, <1>2, <1>7 DEF PlanDescend, PlanLeaveDirectory, PlanFile, PlanDeleteLeaf, Walking,
     Undo, Fail
<1>8. CASE JobTop
  BY <1>1, <1>2, <1>8, RootsArePaths DEF JobTop, CompleteOperation, Undo, AllJobsDone
<1>9. CASE JobOpenSource \/ JobOpenTarget \/ JobNoResources \/ JobTransfer
  BY <1>1, <1>2, <1>9 DEF JobOpenSource, JobOpenTarget, JobNoResources, JobTransfer, Undo, Fail
<1>10. CASE JobTransferred \/ JobDiscard \/ JobFinalize \/ JobRename \/ JobRecord
  BY <1>1, <1>2, <1>10 DEF JobTransferred, JobDiscard, JobFinalize, JobRename, JobRecord
<1>11. CASE DeleteTop \/ DeleteItem \/ End
  BY <1>1, <1>2, <1>11 DEF DeleteTop, DeleteItem, End, Undo, Fail
<1>12. CASE UndoStep
  BY <1>1, <1>2, <1>12 DEF UndoStep, UndoTemp, UndoFile, UndoDirectory, UndoEnd
<1>13. CASE RemoveStep
  BY <1>1, <1>2, <1>13 DEF RemoveStep, RemoveMissing, RemoveOpen, RemoveDescend, RemoveItem,
     RemoveNextRoot, LastRoot, Removing
<1>. QED BY <1>3, <1>4, <1>5, <1>6, <1>7, <1>8, <1>9, <1>10, <1>11, <1>12, <1>13
         DEF Next, WorkerStep, PlanStep, JobStep

(***************************************************************************)
(* Every step keeps what the worker remembers.                             *)
(***************************************************************************)
\* The stack of the planning: it is filled when the thread starts, and changed
\* by four steps of the walk.
LEMMA PlanStackSteps ==
    ASSUME PlaceInv, Frames(planStack, TRUE), [Next]_vars
    PROVE  Frames(planStack', TRUE)
<1>1. op \in Operations
  BY DEF PlaceInv
<1>2. CASE planStack' = planStack
  BY <1>2
<1>3. CASE Start
  BY <1>1, <1>3, RootFramesOK DEF Start
<1>4. CASE PlanOpenDirectory
  <2>1. planStack # <<>>
    BY <1>4 DEF PlanOpenDirectory, PlaceInv, Walking
  <2>2. FrameOK(TopFrame, TRUE)
    BY <2>1, PopFrames DEF TopFrame
  <2>3. Frames(SetTop(planStack, OpenFrame(TopFrame, NamesIn(TopFrame.src))), TRUE)
    BY <2>1, <2>2, SetTopFrames, OpenedFrame
  <2>. QED BY <1>4, <2>3, <1>2 DEF PlanOpenDirectory
<1>5. CASE PlanDescend
  <2>1. planStack # <<>>
    BY <1>5 DEF PlanDescend, PlaceInv
  <2>2. PICK name, dst :
            planStack' = Push(SetTop(planStack, [Top(planStack) EXCEPT !.todo = @ \ {name}]),
                              Frame(JoinPath(Top(planStack).src, name), dst))
    BY <1>5 DEF PlanDescend, NextChild, SourceChild, PasteChild
  <2>. QED BY <1>1, <2>1, <2>2, DescendFrames
<1>6. CASE PlanLeaveDirectory \/ PlanFile \/ PlanDeleteLeaf
  <2>1. planStack # <<>> /\ (planStack' = planStack \/ planStack' = Pop(planStack))
    BY <1>6 DEF PlanLeaveDirectory, PlanFile, PlanDeleteLeaf, PlaceInv, Walking
  <2>. QED BY <2>1, PopFrames
<1>. QED BY <1>2, <1>3, <1>4, <1>5, <1>6, PlanStackChanges

\* The stack of the removal: filled for each root, changed by its walk.
LEMMA RemoveStackSteps ==
    ASSUME PlaceInv, Frames(removeStack, FALSE), [Next]_vars
    PROVE  Frames(removeStack', FALSE)
<1>1. op \in Operations
  BY DEF PlaceInv
<1>2. CASE removeStack' = removeStack
  BY <1>2
<1>3. ASSUME NEW i \in 1 .. Len(op.roots) PROVE Frames(<<Frame(op.roots[i], NoPath)>>, FALSE)
  <2>1. BelowRoot(op.roots[i])
    BY <1>1, RootsArePaths
  <2>. DEFINE f == Frame(op.roots[i], NoPath)
  <2>2. FrameOK(f, FALSE)
    BY <2>1 DEF FrameOK, Frame
  <2>. HIDE DEF f
  <2>. DEFINE stack == <<f>>
  <2>3. stack \in Seq({f}) /\ Len(stack) = 1 /\ stack[1] = f
    OBVIOUS
  <2>. HIDE DEF stack
  <2>4. IsSeq(stack)
    BY <2>3 DEF IsSeq
  <2>5. \A j \in 1 .. Len(stack) : stack[j] = f
    BY <2>3
  <2>6. Frames(stack, FALSE)
    BY <2>2, <2>4, <2>5 DEF Frames
  <2>. QED BY <2>6 DEF f, stack
<1>4. CASE removeStack' = <<Frame(op.roots[1], NoPath)>>
  <2>1. 1 \in 1 .. Len(op.roots)
    BY <1>1, RootsArePaths
  <2>2. Frames(<<Frame(op.roots[1], NoPath)>>, FALSE)
    BY <1>3, <2>1
  <2>. QED BY <1>4, <2>2
<1>5. CASE RemoveOpen
  <2>1. removeStack # <<>>
    BY <1>5 DEF RemoveOpen, Removing
  <2>2. FrameOK(Top(removeStack), FALSE)
    BY <2>1, PopFrames
  <2>3. \A names : Frames(SetTop(removeStack, OpenFrame(Top(removeStack), names)), FALSE)
    BY <2>1, <2>2, SetTopFrames, OpenedFrame
  <2>. QED BY <1>5, <2>3 DEF RemoveOpen
<1>6. CASE RemoveDescend
  <2>1. removeStack # <<>>
    BY <1>6 DEF RemoveDescend, Removing
  <2>2. PICK name :
            removeStack' = Push(SetTop(removeStack, [Top(removeStack) EXCEPT !.todo = @ \ {name}]),
                                Frame(JoinPath(Top(removeStack).src, name), NoPath))
    BY <1>6 DEF RemoveDescend, NextChild, SourceChild
  <2>. QED BY <1>1, <2>1, <2>2, DescendFrames
<1>7. CASE RemoveMissing \/ RemoveItem
  <2>1. removeStack # <<>> /\ removeStack' \in {Pop(removeStack), <<>>}
    BY <1>7 DEF RemoveMissing, RemoveItem, Removing
  <2>2. Frames(<<>>, FALSE)
    BY EmptySeq DEF Frames, IsSeq
  <2>. QED BY <2>1, <2>2, PopFrames
<1>8. CASE RemoveNextRoot
  <2>1. CASE UNCHANGED removal
    BY <2>1
  <2>2. CASE removeIndex # Len(op.roots) /\ removeStack' = <<Frame(op.roots[removeIndex + 1], NoPath)>>
    <3>1. removeIndex + 1 \in 1 .. Len(op.roots)
      BY <1>1, <1>8, <2>2, RootsArePaths DEF RemoveNextRoot, PlaceInv
    <3>. QED BY <1>3, <2>2, <3>1
  <2>. QED BY <1>8, <2>1, <2>2 DEF RemoveNextRoot, LastRoot
<1>9. \/ removeStack' = removeStack \/ removeStack' = <<Frame(op.roots[1], NoPath)>>
      \/ RemoveOpen \/ RemoveDescend \/ RemoveMissing \/ RemoveItem \/ RemoveNextRoot
  BY DEF Next, vars, Start, Cancel, Gone, WorkerStep, PlanStep, PlanTop, PlanRefused,
     PlanMakeDirectory, PlanOpenDirectory, PlanDescend, PlanLeaveDirectory, PlanFile,
     PlanDeleteLeaf, Planned, CompleteOperation, JobStep, JobTop, JobOpenSource, JobOpenTarget,
     JobNoResources, JobTransfer, JobTransferred, JobDiscard, JobFinalize, JobRename, JobRecord,
     DeleteTop, DeleteItem, UndoStep, UndoTemp, UndoFile, UndoDirectory, UndoEnd, RemoveStep, End
<1>. QED BY <1>2, <1>4, <1>5, <1>6, <1>7, <1>8, <1>9

\* A file is planned when neither its target nor its temporary name is taken,
\* unless the user agreed to that.
LEMMA JobsSteps ==
    ASSUME SafeInv, [Next]_vars
    PROVE  IsSeq(jobs') /\ \A i \in 1 .. Len(jobs') : /\ Expendable(jobs'[i].dst)
                                                      /\ Expendable(TempPath(jobs'[i].dst))
<1>1. CASE jobs' = jobs
  BY <1>1 DEF SafeInv, MemoryInv, JobsExpendable
<1>2. CASE PlanFile /\ jobs' # jobs
  <2>. DEFINE dst == TopFrame.dst
              job == [src |-> TopFrame.src, dst |-> dst]
  <2>1. ~TargetTaken(TopFrame.src, dst) /\ jobs' = Append(jobs, job) /\ planStack # <<>>
    BY <1>2 DEF PlanFile, SafeInv, PlaceInv, Walking
  <2>2. FrameOK(TopFrame, TRUE)
    BY <2>1, PopFrames DEF TopFrame, SafeInv, MemoryInv
  <2>3. Expendable(dst)
    BY <2>1, <2>2, FreeExpendable DEF TargetTaken, FrameOK, Expendable, SafeInv
  <2>4. Expendable(TempPath(dst))
    BY <2>1, FreeExpendable DEF TargetTaken, SafeInv
  <2>5. IsSeq(jobs) /\ Len(jobs) \in Nat
    BY LenIsNat DEF SafeInv, MemoryInv, JobsExpendable
  <2>6. job.dst = dst
    OBVIOUS
  <2>. HIDE DEF job, dst
  <2>. QED BY <2>1, <2>3, <2>4, <2>5, <2>6, AppendFacts DEF SafeInv, MemoryInv, JobsExpendable
<1>. QED BY <1>1, <1>2, JobsChange

\* What a deletion lists was found below the roots.
LEMMA DeleteSteps ==
    ASSUME SafeInv, [Next]_vars PROVE AllExpendable(deletePaths')
<1>1. CASE deletePaths' = deletePaths
  BY <1>1 DEF SafeInv, MemoryInv
<1>2. CASE (PlanLeaveDirectory \/ PlanDeleteLeaf) /\ deletePaths' # deletePaths
  <2>1. /\ planStack # <<>> /\ op.kind = "Delete"
        /\ deletePaths' = Append(deletePaths, TopFrame.src)
    BY <1>2 DEF PlanLeaveDirectory, PlanDeleteLeaf, AfterContents, SafeInv, PlaceInv, Walking
  <2>2. BelowRoot(TopFrame.src)
    BY <2>1, PopFrames DEF TopFrame, SafeInv, MemoryInv, FrameOK
  <2>3. Expendable(TopFrame.src)
    BY <2>1, <2>2, BelowRootExpendable
  <2>. QED BY <2>1, <2>3, AppendExpendable DEF SafeInv, MemoryInv
<1>. QED BY <1>1, <1>2, DeletePathsChange

\* A file is remembered for the rollback when it is the target of a job.
LEMMA CreatedFilesSteps ==
    ASSUME SafeInv, [Next]_vars PROVE AllExpendable(createdFiles')
<1>1. CASE createdFiles' = createdFiles
  BY <1>1 DEF SafeInv, MemoryInv
<1>2. CASE JobRecord
  <2>1. Expendable(Job.dst)
    BY <1>2 DEF JobRecord, Job, SafeInv, PlaceInv, InJob, MemoryInv, JobsExpendable
  <2>. QED BY <1>2, <2>1, AppendExpendable DEF JobRecord, Recorded, SafeInv, MemoryInv
<1>3. CASE UndoFile
  BY <1>3, ButLastExpendable DEF UndoFile, SafeInv, MemoryInv
<1>. QED BY <1>1, <1>2, <1>3, CreatedFilesChange

\* A directory is remembered for the rollback when nothing had its name.
LEMMA CreatedDirectoriesSteps ==
    ASSUME SafeInv, [Next]_vars PROVE AllExpendable(createdDirectories')
<1>1. CASE createdDirectories' = createdDirectories
  BY <1>1 DEF SafeInv, MemoryInv
<1>2. CASE PlanMakeDirectory /\ createdDirectories' # createdDirectories
  <2>1. /\ ~Exists(TopFrame.dst)
        /\ createdDirectories' = Append(createdDirectories, TopFrame.dst)
    BY <1>2 DEF PlanMakeDirectory, Works, CanCreate
  <2>2. Expendable(TopFrame.dst)
    BY <2>1, FreeExpendable DEF SafeInv
  <2>. QED BY <2>1, <2>2, AppendExpendable DEF SafeInv, MemoryInv
<1>3. CASE UndoDirectory
  BY <1>3, ButLastExpendable DEF UndoDirectory, SafeInv, MemoryInv
<1>. QED BY <1>1, <1>2, <1>3, CreatedDirectoriesChange

\* The temporary file is that of a job.
LEMMA TemporarySteps ==
    ASSUME SafeInv, [Next]_vars PROVE temporaryPath' = NoPath \/ Expendable(temporaryPath')
<1>1. CASE temporaryPath' = temporaryPath
  BY <1>1 DEF SafeInv, MemoryInv
<1>2. CASE JobOpenSource
  BY <1>2 DEF JobOpenSource, Temp, Job, SafeInv, PlaceInv, InJob, MemoryInv, JobsExpendable
<1>3. CASE JobRecord
  BY <1>3 DEF JobRecord
<1>. QED BY <1>1, <1>2, <1>3, TemporaryPathChanges

\* What may be touched only depends on the operation.
LEMMA SameClaims ==
    ASSUME op' = op
    PROVE  /\ \A p : Expendable(p)' <=> Expendable(p)
           /\ \A p : BelowRoot(p)' <=> BelowRoot(p)
<1>1. \A root : TargetOf(root)' = TargetOf(root)
  BY DEF TargetOf
<1>2. Sources' = Sources
  BY DEF Sources, Roots
<1>. QED BY <1>1, <1>2 DEF Expendable, BelowRoot

\* Together: what the worker remembers is right in the next state, too.
LEMMA MemorySteps == ASSUME SafeInv, [Next]_vars PROVE MemoryInv'
<1>1. op' = op /\ PlaceInv
  BY SameOperation DEF SafeInv
<1>2. Frames(planStack', TRUE) /\ Frames(removeStack', FALSE)
  BY PlanStackSteps, RemoveStackSteps DEF SafeInv, MemoryInv
<1>3. \A root : TargetOf(root)' = TargetOf(root)
  BY <1>1 DEF TargetOf
<1>4. Frames(planStack, TRUE)' /\ Frames(removeStack, FALSE)'
  BY <1>1, <1>2, <1>3, SameClaims DEF Frames, FrameOK
<1>5. JobsExpendable'
  BY <1>1, JobsSteps, SameClaims DEF JobsExpendable
<1>6. AllExpendable(deletePaths)'
  BY <1>1, DeleteSteps, SameClaims DEF AllExpendable
<1>7. AllExpendable(createdFiles)' /\ AllExpendable(createdDirectories)'
  BY <1>1, CreatedFilesSteps, CreatedDirectoriesSteps, SameClaims DEF AllExpendable
<1>8. temporaryPath' = NoPath \/ Expendable(temporaryPath)'
  BY <1>1, TemporarySteps, SameClaims DEF Expendable, Sources, Roots, TargetOf
<1>. QED BY <1>4, <1>5, <1>6, <1>7, <1>8 DEF MemoryInv, NoPath

(***************************************************************************)
(* Every step leaves alone what it has no right to.                        *)
(***************************************************************************)
\* A call that changes the disk has the right to what it changes.
LEMMA BystanderSteps == ASSUME SafeInv, [Next]_vars PROVE BystandersUntouched'
<1>. USE DEF SafeInv
<1>1. op' = op
  BY SameOperation
<1>2. ASSUME pc \in InJob PROVE Expendable(Job.dst) /\ Expendable(Temp)
  BY <1>2 DEF PlaceInv, MemoryInv, JobsExpendable, Job, Temp
<1>3. CASE fs' = fs
  BY <1>1, <1>3, SameDiskKeeps
<1>4. CASE UndoTemp
  BY <1>1, <1>3, <1>4, DropKeeps DEF UndoTemp, TryUnlink, MemoryInv
<1>5. CASE UndoFile
  BY <1>1, <1>3, <1>5, ButLastExpendable, DropKeeps DEF UndoFile, TryUnlink, MemoryInv
<1>6. CASE UndoDirectory
  BY <1>1, <1>3, <1>6, ButLastExpendable, DropKeeps DEF UndoDirectory, TryRmdir, MemoryInv
<1>7. CASE RemoveItem
  <2>1. Removing /\ op.kind = "Move"
    BY <1>7 DEF RemoveItem, Removing, PlaceInv
  <2>2. BelowRoot(Top(removeStack).src)
    BY <2>1, PopFrames DEF Removing, MemoryInv, FrameOK
  <2>3. Expendable(Top(removeStack).src)
    BY <2>1, <2>2, BelowRootExpendable
  <2>4. fs' = fs \/ fs' = Drop(Top(removeStack).src)
    BY <1>7 DEF RemoveItem
  <2>. QED BY <1>1, <1>3, <2>3, <2>4, DropKeeps
<1>8. CASE PlanMakeDirectory /\ fs' # fs
  <2>1. ~Exists(TopFrame.dst) /\ fs' = Put(TopFrame.dst, Dir)
    BY <1>8 DEF PlanMakeDirectory, Works, CanCreate
  <2>. QED BY <1>1, <2>1, FreeExpendable, PutKeeps
<1>9. CASE JobOpenTarget
  BY <1>1, <1>2, <1>3, <1>9, PutKeeps DEF JobOpenTarget, InJob
<1>10. CASE JobTransfer
  BY <1>1, <1>2, <1>3, <1>10, PutKeeps DEF JobTransfer, InJob
<1>11. CASE JobDiscard
  BY <1>1, <1>2, <1>3, <1>11, DropKeeps DEF JobDiscard, TryUnlink, InJob
<1>12. CASE JobRename
  BY <1>1, <1>2, <1>3, <1>12, RenamedKeeps DEF JobRename, InJob
<1>13. CASE DeleteItem
  <2>1. Expendable(deletePaths[deleteIndex])
    BY <1>13 DEF DeleteItem, PlaceInv, MemoryInv, AllExpendable
  <2>2. fs' = fs \/ fs' = Drop(deletePaths[deleteIndex])
    BY <1>13 DEF DeleteItem
  <2>. QED BY <1>1, <1>3, <2>1, <2>2, DropKeeps
<1>. QED BY <1>3, <1>4, <1>5, <1>6, <1>7, <1>8, <1>9, <1>10, <1>11, <1>12, <1>13,
            DiskChanges

\* The invariant is inductive.
LEMMA SafeSteps == SafeInv /\ [Next]_vars => SafeInv'
BY PlaceSteps, MemorySteps, BystanderSteps DEF SafeInv

\* Whatever fails, and whenever it is canceled: what is neither to be moved or
\* deleted nor the file the user agreed to overwrite stays what it was.
THEOREM Untouched == Spec => []BystandersUntouched
<1>1. SafeInv => BystandersUntouched
  BY DEF SafeInv
<1>. QED BY WorkerStarts, SafeSteps, <1>1, PTL DEF Spec

(***************************************************************************)
(* Half-written files.                                                     *)
(***************************************************************************)
\* Where the copy of the current job may lie about half-written.
Open == {"jobTransfer", "jobTransferred", "jobDiscard", "undoTemp", "undo", "end", "done"}

\* A half-written file is the temporary file of the current job, from the open
\* to the end of the transfer, and after an error until it has been cleaned up.
PartialInv ==
    /\ \A p \in DOMAIN fs : fs[p] = Partial =>
           /\ jobIndex \in 1 .. Len(jobs) /\ p = Temp
           /\ pc \in Open
           /\ pc \in {"jobDiscard", "undoTemp", "undo"} => after.pc = "end"
           /\ pc = "jobTransferred" => hasError \/ cancelRequested
    /\ pc = "jobOpenTarget" => Exists(Job.src)
    /\ pc = "jobTransfer" => Exists(Job.src) /\ Job.src # Temp

\* No step writes a half-written file elsewhere, or forgets about one.
LEMMA PartialSteps == ASSUME SafeInv, PartialInv, [Next]_vars PROVE PartialInv'
<1>. USE DEF PartialInv, Open
<1>1. Partial # Dir /\ PlaceInv /\ IsSeq(jobs) /\ Len(jobs) \in Nat
  BY WorkerAssumption, LenIsNat DEF SafeInv, MemoryInv, JobsExpendable
<1>2. CASE Start \/ Cancel \/ Gone \/ UNCHANGED vars
  BY <1>2 DEF Start, Cancel, Gone, vars, Exists, Job, Temp
<1>3. CASE PlanTop \/ PlanRefused \/ PlanOpenDirectory \/ PlanDescend \/ PlanLeaveDirectory
           \/ PlanFile \/ PlanDeleteLeaf \/ Planned
  <2>1. fs' = fs /\ pc \in {"planTop", "frame", "opendir", "planned"}
    BY <1>3 DEF PlanTop, PlanRefused, PlanOpenDirectory, PlanDescend, PlanLeaveDirectory,
       PlanFile, PlanDeleteLeaf, Planned, Walking
  <2>2. pc' \notin {"jobOpenTarget", "jobTransfer"}
    BY <1>3 DEF PlanTop, PlanRefused, PlanOpenDirectory, PlanDescend, PlanLeaveDirectory,
       PlanFile, PlanDeleteLeaf, Planned, CompleteOperation, Fail, Undo
  <2>. QED BY <2>1, <2>2
<1>4. CASE PlanMakeDirectory
  BY <1>1, <1>4 DEF PlanMakeDirectory, Walking, Put, Fail, Undo
<1>5. CASE JobTop \/ JobFinalize \/ JobRecord
  BY <1>5 DEF JobTop, JobFinalize, JobRecord, CompleteOperation, Undo
<1>6. CASE JobOpenSource
  BY <1>6 DEF JobOpenSource, Works, IsRegular, Exists, Job, Fail, Undo
<1>7. CASE JobOpenTarget
  BY <1>1, <1>7 DEF JobOpenTarget, PlaceInv, InJob, Works, CanCreate, Exists, Put, Job, Temp, Fail,
     Undo
<1>8. CASE JobNoResources \/ JobTransferred
  BY <1>8 DEF JobNoResources, JobTransferred, TransferEnd, Job, Temp
<1>9. CASE JobTransfer
  BY <1>9 DEF JobTransfer, Put, Exists, Job, Temp
<1>10. CASE JobDiscard
  BY <1>10 DEF JobDiscard, TryUnlink, Drop, Job, Temp
<1>11. CASE JobRename
  BY <1>11 DEF JobRename, Works, CanRename, Exists, Renamed
<1>12. CASE DeleteTop \/ DeleteItem
  BY <1>12 DEF DeleteTop, DeleteItem, Drop, Fail, Undo
<1>13. CASE UndoStep
  BY <1>1, <1>13 DEF PlaceInv, Returning, UndoStep, UndoTemp, UndoFile, UndoDirectory, UndoEnd,
     TryUnlink, TryRmdir, Drop, Job, Temp
<1>14. CASE RemoveStep
  BY <1>1, <1>14 DEF PlaceInv, Returning, RemoveStep, RemoveMissing, RemoveOpen, RemoveDescend,
     RemoveItem, RemoveNextRoot, Removing, Drop
<1>15. CASE End
  BY <1>15 DEF End, Job, Temp
<1>. QED BY <1>2, <1>3, <1>4, <1>5, <1>6, <1>7, <1>8, <1>9, <1>10, <1>11, <1>12, <1>13, <1>14,
            <1>15 DEF Next, WorkerStep, PlanStep, JobStep

\* Nothing is written before the first step.
LEMMA PartialStarts == Init => PartialInv
BY WorkerAssumption DEF Init, PartialInv

\* The current job is one of the list.
LEMMA PartialKept == SafeInv /\ PartialInv => PartialOnlyTemporary
<1>. SUFFICES ASSUME SafeInv, PartialInv PROVE PartialOnlyTemporary
  OBVIOUS
<1>1. jobs # <<>> <=> Len(jobs) # 0
  BY LenIsNat DEF SafeInv, MemoryInv, JobsExpendable
<1>. QED BY <1>1 DEF PartialInv, PartialOnlyTemporary, Temp

\* Nobody ever sees an unfinished copy under the name of the copy.
THEOREM Unfinished == Spec => []PartialOnlyTemporary
<1>1. SafeInv /\ PartialInv /\ [Next]_vars => PartialInv'
  BY PartialSteps
<1>. QED BY WorkerStarts, SafeSteps, PartialStarts, PartialKept, <1>1, PTL DEF Spec

(***************************************************************************)
(* The promise of BackgroundOperation.                                     *)
(***************************************************************************)
LiveStates == {"Copying", "Canceled"}

\* What the user sees at each place of the thread.  A cancellation is answered
\* at once, and an outcome stays unless a late cancellation takes it back.
StateInv ==
    /\ cancelRequested \in BOOLEAN
    /\ threadFinished \in BOOLEAN /\ (threadFinished <=> pc = "done")
    /\ pc = "idle" => state = "Idle" /\ ~cancelRequested
    /\ pc = "none" => state = "Failed"
    /\ pc # "idle" => state \in {"Copying", "Canceled", "Completed", "Failed"}
    /\ state = "Canceled" => cancelRequested
    /\ cancelRequested => state # "Copying"
    /\ pc \in {"planTop", "frame", "opendir", "deleteTop", "delete"} \cup InJob => state \in LiveStates
    /\ pc = "planned" /\ state = "Completed" => AllJobsDone /\ op.kind # "Delete"
    /\ pc = "jobTop" => state \in LiveStates \/ (state = "Completed" /\ AllJobsDone)
    /\ pc \in {"end", "done"} => state \in {"Canceled", "Completed", "Failed"}

\* What the thread takes up after a rollback or a removal.
AfterInv ==
    /\ pc \in {"jobDiscard", "undoTemp", "undo"} =>
          \/ after.state = "Failed" /\ after.pc \in {"planned", "end"} /\ state \in LiveStates
          \/ /\ after.state = "Canceled" /\ after.pc \in {"end", "done"} /\ cancelRequested
             /\ after.pc = "end" => state # "Failed"
    /\ pc = "remove" =>
          /\ ~cancelRequested /\ state \in {"Copying", "Completed"}
          /\ after.pc \in {"planned", "end"} /\ AllJobsDone

\* What has been removed stays removed: a second removal, after a planning that
\* has completed the move, finds nothing unless an lstat() broke in the first.
RemovedInv ==
    ~Broke({"lstat_removed"}) =>
        /\ pc = "remove" =>
              /\ removeStack # <<>> => removeStack[1].src = op.roots[removeIndex]
              /\ removeStack = <<>> => ~Exists(op.roots[removeIndex])
              /\ \A i \in 1 .. removeIndex - 1 : ~Exists(op.roots[i])
              /\ state = "Completed" =>
                    /\ \A i \in 1 .. Len(op.roots) : ~Exists(op.roots[i])
                    /\ removeStack # <<>> => /\ Len(removeStack) = 1
                                             /\ ~removeStack[1].opened /\ removeStack[1].todo = {}
        /\ pc \in {"planned", "jobTop"} /\ state = "Completed" /\ op.kind = "Move" =>
              \A i \in 1 .. Len(op.roots) : ~Exists(op.roots[i])

PromiseInv == StateInv /\ AfterInv /\ RemovedInv

\* A thread that has not been started shows nothing.
LEMMA PromiseStarts == Init => PromiseInv
BY DEF Init, PromiseInv, StateInv, AfterInv, RemovedInv, InJob

\* Every step shows what its place allows.
LEMMA StateSteps ==
    ASSUME SafeInv, StateInv, AfterInv, RemovedInv, [Next]_vars, ~Broke({"lstat_removed"})
    PROVE  StateInv' /\ AfterInv'
<1>. USE DEF StateInv, AfterInv, InJob, LiveStates, AllJobsDone
<1>1. PlaceInv /\ Len(jobs) \in Nat /\ jobIndex \in Nat /\ op' = op
  BY LenIsNat, SameOperation DEF SafeInv, MemoryInv, JobsExpendable, PlaceInv
<1>2. CASE Start
  BY <1>2 DEF Start
<1>13. CASE Cancel
  BY <1>13 DEF Cancel, Locked
<1>14. CASE Gone \/ UNCHANGED vars
  BY <1>14 DEF Gone, vars
<1>3. CASE PlanTop
  <2>1. jobs = <<>> => Len(jobs) = 0
    BY LenIsNat DEF SafeInv, MemoryInv, JobsExpendable
  <2>. QED BY <1>1, <1>3, <2>1 DEF PlanTop, CompleteOperation, Fail, Undo, PlaceInv
<1>4. CASE PlanRefused \/ PlanMakeDirectory \/ PlanOpenDirectory
  BY <1>4 DEF PlanRefused, PlanMakeDirectory, PlanOpenDirectory, Walking, Fail, Undo
<1>5. CASE PlanDescend \/ PlanLeaveDirectory \/ PlanFile \/ PlanDeleteLeaf
  BY <1>5 DEF PlanDescend, PlanLeaveDirectory, PlanFile, PlanDeleteLeaf, Walking, Fail, Undo
<1>6. CASE Planned
  BY <1>1, <1>6 DEF Planned, Fail, Undo
<1>7. CASE JobTop
  BY <1>7 DEF JobTop, CompleteOperation, Undo, StopCopying
<1>8. CASE JobOpenSource \/ JobOpenTarget \/ JobNoResources \/ JobTransfer
  BY <1>8 DEF JobOpenSource, JobOpenTarget, JobNoResources, JobTransfer, Undo, Fail
<1>9. CASE JobTransferred \/ JobDiscard \/ JobFinalize \/ JobRename \/ JobRecord
  BY <1>9 DEF JobTransferred, TransferEnd, JobDiscard, JobFinalize, JobRename, JobRecord
<1>10. CASE DeleteTop \/ DeleteItem
  BY <1>1, <1>10 DEF DeleteTop, DeleteItem, Undo, Fail
<1>15. CASE End
  BY <1>15 DEF End
<1>11. CASE UndoStep
  BY <1>1, <1>11 DEF UndoStep, UndoTemp, UndoFile, UndoDirectory, UndoEnd, EndsThread
<1>12. CASE RemoveStep
  BY <1>1, <1>12 DEF PlaceInv, RemoveStep, RemoveMissing, RemoveOpen, RemoveDescend,
     RemoveItem, RemoveNextRoot, Removing
<1>. QED BY <1>2, <1>3, <1>4, <1>5, <1>6, <1>7, <1>8, <1>9, <1>10, <1>11, <1>12, <1>13,
            <1>14, <1>15
         DEF Next, WorkerStep, PlanStep, JobStep
\* The list of the calls that broke only grows.
LEMMA BrokenStays ==
    ASSUME IsSeq(faults), [Next]_vars, NEW calls
    PROVE  IsSeq(faults') /\ (Broke(calls) => Broke(calls)')
<1>1. faults' = faults \/ \E call : faults' = Append(faults, call)
  BY DEF Next, vars, WorkerStep, PlanStep, JobStep, UndoStep, RemoveStep, Start, Cancel, Gone,
     PlanTop, PlanRefused, PlanMakeDirectory, PlanOpenDirectory, PlanDescend,
     PlanLeaveDirectory, PlanFile, PlanDeleteLeaf, Planned, JobTop, JobOpenSource,
     JobOpenTarget, JobNoResources, JobTransfer, JobTransferred, JobDiscard, JobFinalize,
     JobRename, JobRecord, DeleteTop, DeleteItem, UndoTemp, UndoFile, UndoDirectory, UndoEnd,
     TryUnlink, TryRmdir, RemoveMissing, RemoveOpen, RemoveDescend, RemoveItem,
     RemoveNextRoot, End, Works, Breaks, NoFault, Fault
<1>2. ASSUME NEW call, faults' = Append(faults, call)
      PROVE  IsSeq(faults') /\ (Broke(calls) => Broke(calls)')
  BY <1>2, AppendFacts, LenIsNat DEF Broke
<1>. QED BY <1>1, <1>2 DEF Broke

\* The second removal of a move removes nothing.
LEMMA RemovesOnce ==
    ASSUME SafeInv, RemovedInv, ~Broke({"lstat_removed"}), RemoveItem
    PROVE  state # "Completed"
<1>. SUFFICES ASSUME state = "Completed" PROVE FALSE
  OBVIOUS
<1>1. pc = "remove" /\ removeStack # <<>>
  BY DEF RemoveItem, Removing
<1>2. removeIndex \in 1 .. Len(op.roots)
  BY <1>1 DEF SafeInv, PlaceInv
<1>3. /\ Len(removeStack) = 1 /\ ~removeStack[1].opened
      /\ removeStack[1].src = op.roots[removeIndex] /\ ~Exists(op.roots[removeIndex])
  BY <1>1, <1>2 DEF RemovedInv
<1>4. Top(removeStack) = removeStack[1]
  BY <1>3 DEF Top
<1>. QED BY <1>3, <1>4 DEF RemoveItem, CanUnlink

\* What has been removed stays removed.
LEMMA RemovedSteps ==
    ASSUME SafeInv, IsSeq(faults), StateInv, AfterInv, RemovedInv, [Next]_vars
    PROVE  RemovedInv'
<1>. SUFFICES ASSUME ~Broke({"lstat_removed"})' PROVE RemovedInv'
  BY DEF RemovedInv
<1>. DEFINE n == Len(op.roots)
            root == op.roots[removeIndex]
            top == Top(removeStack)
            AllGone == \A i \in 1 .. n : ~Exists(op.roots[i])
            Walk == /\ removeStack # <<>> => removeStack[1].src = root
                    /\ removeStack = <<>> => ~Exists(root)
                    /\ \A i \in 1 .. removeIndex - 1 : ~Exists(op.roots[i])
                    /\ state = "Completed" =>
                          /\ AllGone
                          /\ removeStack # <<>> => /\ Len(removeStack) = 1
                                                   /\ ~removeStack[1].opened /\ removeStack[1].todo = {}
            Done == state = "Completed" /\ op.kind = "Move" => AllGone
<1>1. ~Broke({"lstat_removed"}) /\ op' = op /\ PlaceInv /\ n \in Nat \ {0}
  BY BrokenStays, SameOperation, RootsArePaths DEF SafeInv, PlaceInv
<1>2. /\ pc = "remove" => Walk
      /\ pc \in {"planned", "jobTop"} => Done
  BY <1>1 DEF RemovedInv
<1>3. SUFFICES /\ pc' = "remove" => Walk'
               /\ pc' \in {"planned", "jobTop"} => Done'
  BY DEF RemovedInv
<1>4. IsSeq(removeStack) /\ \A i \in 1 .. Len(removeStack) : DOMAIN removeStack[i] = {"src", "dst", "opened", "todo"}
  BY DEF SafeInv, MemoryInv, Frames, FrameOK
<1>5. fs' = fs => (AllGone' <=> AllGone)
  BY <1>1 DEF Exists
<1>6. CASE Cancel \/ Gone \/ UNCHANGED vars \/ Planned
  <2>1. UNCHANGED <<fs, removeStack, removeIndex>> /\ (state' = state \/ state' = "Canceled")
    BY <1>6 DEF Cancel, Gone, vars, Planned
  <2>2. pc' = "remove" => pc = "remove" /\ UNCHANGED state
    BY <1>6 DEF Cancel, Gone, vars, Planned, Undo, Locked
  <2>3. pc' \in {"planned", "jobTop"} => pc \in {"planned", "jobTop"}
    BY <1>6 DEF Cancel, Gone, vars, Planned, Undo
  <2>. QED BY <1>1, <1>2, <1>5, <2>1, <2>2, <2>3 DEF Exists
<1>7. CASE PlanTop \/ JobTop
  <2>1. fs' = fs
    BY <1>7 DEF PlanTop, JobTop
  <2>2. pc' = "remove" => /\ removeIndex' = 1 /\ removeStack' = <<Frame(op.roots[1], NoPath)>>
                          /\ state' = state /\ op.kind = "Move"
                          /\ pc \in {"planTop", "jobTop"}
    BY <1>7 DEF PlanTop, JobTop, CompleteOperation, Undo, Fail
  <2>3. pc' = "remove" => (state' = "Completed" => AllGone')
    BY <1>1, <1>2, <1>5, <2>1, <2>2 DEF StateInv, LiveStates
  <2>4. pc' = "remove" => Walk'
    <3>. DEFINE frame == Frame(op.roots[1], NoPath)
    <3>1. frame.src = op.roots[1] /\ frame.opened = FALSE /\ frame.todo = {}
      BY DEF Frame
    <3>. HIDE DEF frame
    <3>2. <<frame>> # <<>> /\ Len(<<frame>>) = 1 /\ <<frame>>[1] = frame
      OBVIOUS
    <3>. HIDE DEF n
    <3>3. SUFFICES ASSUME pc' = "remove" PROVE Walk'
      OBVIOUS
    <3>4. removeStack' = <<frame>> /\ removeIndex' = 1
      BY <2>2, <3>3 DEF frame
    <3>5. (root = op.roots[1])' /\ op' = op
      BY <1>1, <3>4
    <3>. QED BY <2>3, <3>1, <3>2, <3>3, <3>4, <3>5
  <2>5. pc' \in {"planned", "jobTop"} => state' # "Completed" \/ op.kind # "Move"
    BY <1>7 DEF PlanTop, JobTop, CompleteOperation, Undo, Fail, StateInv, LiveStates
  <2>. QED BY <1>1, <2>4, <2>5
<1>8. CASE RemoveStep
  <2>1. pc = "remove" /\ op.kind = "Move" /\ removeIndex \in 1 .. n /\ Walk
    BY <1>1, <1>2, <1>8 DEF RemoveStep, RemoveMissing, RemoveOpen, RemoveDescend, RemoveItem,
       RemoveNextRoot, Removing, PlaceInv, Returning
  <2>. HIDE DEF n, root, Walk, AllGone
  <2>2. ASSUME removeStack # <<>>, UNCHANGED <<state, removeIndex, pc>>,
               removeStack' # <<>> => removeStack'[1].src = root,
               removeStack' = <<>> => ~Exists(root)',
               \A i \in 1 .. n : ~Exists(op.roots[i]) => ~Exists(op.roots[i])',
               state = "Completed" => removeStack' = <<>>
        PROVE  Walk' /\ pc' = "remove"
    <3>1. (root = op.roots[removeIndex])' /\ root' = root
      BY <1>1, <2>2 DEF root
    <3>2. n' = n /\ n \in Nat /\ op' = op
      BY <1>1 DEF n
    <3>3. \A i \in 1 .. removeIndex - 1 : i \in 1 .. n
      BY <2>1, <3>2
    <3>. QED BY <2>1, <2>2, <3>1, <3>2, <3>3 DEF Walk, AllGone
  <2>3. CASE RemoveMissing
    <3>1. removeStack # <<>> /\ UNCHANGED <<fs, state, removeIndex, pc>> /\ removeStack' = Pop(removeStack)
      BY <1>8, <2>3 DEF RemoveMissing, Removing
    <3>2. ~Exists(top.src)
      <4>1. Breaks("lstat_removed", Exists(top.src))
        BY <2>3 DEF RemoveMissing
      <4>2. ~Fault("lstat_removed")
        <5>1. SUFFICES ASSUME faults' = Append(faults, "lstat_removed") PROVE FALSE
          BY DEF Fault
        <5>2. faults'[Len(faults) + 1] = "lstat_removed" /\ Len(faults') = Len(faults) + 1 /\ Len(faults) \in Nat
          BY <5>1, AppendFacts, LenIsNat
        <5>3. Len(faults) + 1 \in 1 .. Len(faults')
          BY <5>2
        <5>. QED BY <5>2, <5>3 DEF Broke
      <4>. QED BY <4>1, <4>2 DEF Breaks
    <3>3. /\ Len(removeStack') = Len(removeStack) - 1 /\ Len(removeStack) \in Nat \ {0}
          /\ \A i \in 1 .. Len(removeStack) - 1 : removeStack'[i] = removeStack[i]
          /\ IsSeq(removeStack')
      BY <1>4, <3>1, ButLastFacts DEF Pop
    <3>4. (removeStack' # <<>> <=> Len(removeStack') # 0) /\ Len(removeStack') \in Nat
      BY <3>3, LenIsNat
    <3>5. removeStack' # <<>> => removeStack'[1] = removeStack[1] /\ Len(removeStack) > 1
      BY <3>3, <3>4
    <3>6. removeStack' = <<>> => top = removeStack[1]
      <4>1. removeStack' = <<>> => Len(removeStack) = 1
        BY <3>3, <3>4
      <4>. QED BY <4>1 DEF Top
    <3>7. removeStack[1].src = root /\ (state = "Completed" => Len(removeStack) = 1)
      BY <2>1, <3>1 DEF Walk
    <3>8. removeStack' = <<>> => ~Exists(root)'
      BY <1>1, <3>1, <3>2, <3>6, <3>7 DEF Exists, root
    <3>. HIDE DEF top
    <3>9. \A i \in 1 .. n : ~Exists(op.roots[i]) => ~Exists(op.roots[i])'
      BY <1>1, <3>1 DEF Exists
    <3>10. removeStack' # <<>> => removeStack'[1].src = root
      BY <3>5, <3>7
    <3>11. state = "Completed" => removeStack' = <<>>
      <4>1. SUFFICES ASSUME Len(removeStack) = 1 PROVE removeStack' = <<>>
        BY <3>7
      <4>2. Len(removeStack') = 0
        BY <3>3, <4>1
      <4>. QED BY <3>4, <4>2
    <3>. QED BY ONLY <2>2, <3>1, <3>8, <3>9, <3>10, <3>11
  <2>4. CASE RemoveOpen \/ RemoveDescend
    <3>1. removeStack # <<>> /\ UNCHANGED <<fs, state, removeIndex, pc>>
      BY <1>8, <2>4 DEF RemoveOpen, RemoveDescend, Removing
    <3>2. removeStack[1].src = root
      BY <2>1, <3>1 DEF Walk
    <3>3. Len(removeStack) \in Nat \ {0} /\ top = removeStack[Len(removeStack)]
      BY <1>4, <3>1, LenIsNat DEF Top
    <3>4. DOMAIN top = {"src", "dst", "opened", "todo"}
      BY <1>4, <3>3
    <3>5. state # "Completed"
      <4>1. SUFFICES ASSUME state = "Completed" PROVE FALSE
        OBVIOUS
      <4>2. Len(removeStack) = 1 /\ removeStack[1].todo = {} /\ ~Exists(root)
        BY <2>1, <3>1, <4>1 DEF Walk, AllGone, n, root
      <4>3. top = removeStack[1]
        BY <3>3, <4>2
      <4>4. ~RemoveOpen
        BY <3>2, <4>2, <4>3 DEF RemoveOpen, IsDir
      <4>5. RemoveDescend
        BY <2>4, <4>4
      <4>. QED BY <4>2, <4>3, <4>5 DEF RemoveDescend, NextChild
    <3>6. ASSUME NEW f, f.src = top.src
          PROVE  LET low == SetTop(removeStack, f)
                 IN  IsSeq(low) /\ Len(low) = Len(removeStack) /\ low[1].src = root /\ low # <<>>
      <4>. DEFINE low == SetTop(removeStack, f)
      <4>1. /\ IsSeq(low) /\ Len(low) = Len(removeStack)
            /\ low[1] = IF 1 = Len(removeStack) THEN f ELSE removeStack[1]
        <5>1. 1 \in 1 .. Len(removeStack)
          BY <3>3
        <5>2. /\ IsSeq(low) /\ Len(low) = Len(removeStack)
              /\ \A i \in 1 .. Len(removeStack) :
                    low[i] = IF i = Len(removeStack) THEN f ELSE removeStack[i]
          BY <1>4, <3>1, SetTopFacts
        <5>. QED BY <5>1, <5>2
      <4>2. low # <<>>
        BY <3>3, <4>1, LenIsNat
      <4>. QED BY <3>2, <3>3, <3>6, <4>1, <4>2
    <3>7. CASE RemoveOpen
      <4>1. PICK names : removeStack' = SetTop(removeStack, OpenFrame(top, names))
        BY <3>7 DEF RemoveOpen
      <4>2. OpenFrame(top, names).src = top.src
        BY <3>4 DEF OpenFrame
      <4>3. removeStack' # <<>> /\ removeStack'[1].src = root
        BY <3>6, <4>1, <4>2
      <4>4. \A i \in 1 .. n : ~Exists(op.roots[i]) => ~Exists(op.roots[i])'
        BY <1>1, <3>1 DEF Exists
      <4>. QED BY ONLY <2>2, <3>1, <3>5, <4>3, <4>4
    <3>8. CASE RemoveDescend
      <4>1. PICK name : removeStack' = Push(SetTop(removeStack, [top EXCEPT !.todo = @ \ {name}]),
                                            Frame(JoinPath(top.src, name), NoPath))
        BY <3>8 DEF RemoveDescend, NextChild, SourceChild
      <4>. DEFINE f == [top EXCEPT !.todo = @ \ {name}]
                  low == SetTop(removeStack, f)
                  child == Frame(JoinPath(top.src, name), NoPath)
      <4>2. f.src = top.src
        BY <3>4
      <4>3. IsSeq(low) /\ Len(low) = Len(removeStack) /\ low[1].src = root
        BY <3>6, <4>2
      <4>4. removeStack' = Append(low, child)
        BY <4>1 DEF Push
      <4>. HIDE DEF low, child
      <4>5. /\ IsSeq(Append(low, child)) /\ Len(Append(low, child)) = Len(low) + 1
            /\ 1 \in 1 .. Len(low) => Append(low, child)[1] = low[1]
        BY <4>3, AppendFacts
      <4>6. removeStack' # <<>> /\ removeStack'[1].src = root
        BY <3>3, <4>3, <4>4, <4>5, LenIsNat
      <4>7. \A i \in 1 .. n : ~Exists(op.roots[i]) => ~Exists(op.roots[i])'
        BY <1>1, <3>1 DEF Exists
      <4>. QED BY ONLY <2>2, <3>1, <3>5, <4>6, <4>7
    <3>. QED BY <2>4, <3>7, <3>8
  <2>5. CASE RemoveItem
    <3>1. removeStack # <<>> /\ removeIndex' = removeIndex
      BY <2>5 DEF RemoveItem, Removing
    <3>2. removeStack[1].src = root
      BY <2>1, <3>1 DEF Walk
    <3>3. /\ Len(Pop(removeStack)) = Len(removeStack) - 1 /\ Len(removeStack) \in Nat \ {0}
          /\ \A i \in 1 .. Len(removeStack) - 1 : Pop(removeStack)[i] = removeStack[i]
          /\ IsSeq(Pop(removeStack))
      BY <1>4, <3>1, ButLastFacts DEF Pop
    <3>4. state # "Completed"
      BY <1>1, <2>5, RemovesOnce
    <3>5. CASE fs' = Drop(top.src) /\ removeStack' = Pop(removeStack) /\ UNCHANGED <<state, pc>>
      <4>1. (removeStack' # <<>> <=> Len(removeStack') # 0) /\ Len(removeStack') \in Nat
        BY <3>3, <3>5, LenIsNat
      <4>2. removeStack' # <<>> => removeStack'[1].src = root
        BY <3>2, <3>3, <3>5, <4>1
      <4>3. removeStack' = <<>> => top.src = root
        <5>1. removeStack' = <<>> => Len(removeStack) = 1
          BY <3>3, <3>5, <4>1
        <5>. QED BY <3>2, <5>1 DEF Top
      <4>4. removeStack' = <<>> => ~Exists(root)'
        BY <1>1, <3>1, <3>5, <4>3 DEF Exists, Drop, root
      <4>5. \A i \in 1 .. n : ~Exists(op.roots[i]) => ~Exists(op.roots[i])'
        BY <1>1, <3>5 DEF Exists, Drop
      <4>. QED BY ONLY <2>2, <3>1, <3>4, <3>5, <4>2, <4>4, <4>5
    <3>6. CASE state' = "Failed" /\ pc' = after.pc
      BY <2>1, <3>6 DEF AfterInv
    <3>. QED BY <2>1, <2>5, <3>5, <3>6 DEF RemoveItem
  <2>6. CASE RemoveNextRoot
    <3>1. removeStack = <<>> /\ fs' = fs
      BY <2>6 DEF RemoveNextRoot
    <3>2. \A i \in 1 .. removeIndex : ~Exists(op.roots[i])'
      <4>1. \A i \in 1 .. removeIndex : i = removeIndex \/ i \in 1 .. removeIndex - 1
        BY <2>1
      <4>. QED BY <1>1, <2>1, <3>1, <4>1 DEF Walk, root, Exists
    <3>3. CASE removeIndex = n /\ state' = "Completed" /\ pc' = after.pc
      BY <1>1, <2>1, <3>2, <3>3 DEF AfterInv, AllGone, n
    <3>4. CASE /\ removeIndex' = removeIndex + 1 /\ UNCHANGED <<state, pc>>
               /\ removeStack' = <<Frame(op.roots[removeIndex + 1], NoPath)>>
      <4>. DEFINE frame == Frame(op.roots[removeIndex + 1], NoPath)
      <4>1. frame.src = op.roots[removeIndex + 1] /\ frame.opened = FALSE /\ frame.todo = {}
        BY DEF Frame
      <4>2. removeStack' = <<frame>> /\ op.roots[removeIndex + 1] = root'
        BY <1>1, <3>4 DEF root
      <4>. HIDE DEF frame
      <4>3. removeStack' # <<>> /\ Len(removeStack') = 1 /\ removeStack'[1] = frame
        BY <4>2
      <4>4. \A i \in 1 .. removeIndex' - 1 : ~Exists(op.roots[i])'
        BY <2>1, <3>2, <3>4
      <4>5. state' = "Completed" => AllGone'
        BY <1>1, <2>1, <3>1, <3>4 DEF Walk, AllGone, n, Exists
      <4>6. Walk'
        BY <4>1, <4>2, <4>3, <4>4, <4>5 DEF Walk
      <4>. QED BY <2>1, <3>4, <4>6
    <3>. QED BY <2>6, <3>3, <3>4 DEF RemoveNextRoot, LastRoot, n
  <2>. QED BY <1>8, <2>3, <2>4, <2>5, <2>6 DEF RemoveStep
<1>9. CASE Start \/ (PlanStep /\ ~PlanTop /\ ~Planned) \/ (JobStep /\ ~JobTop) \/ DeleteTop
           \/ DeleteItem \/ UndoStep \/ End
  <2>1. pc' # "remove"
    BY <1>1, <1>9 DEF Start, PlanStep, PlanRefused, PlanMakeDirectory, PlanOpenDirectory, PlanDescend,
       PlanLeaveDirectory, PlanFile, PlanDeleteLeaf, JobStep, JobOpenSource, JobOpenTarget,
       JobNoResources, JobTransfer, JobTransferred, JobDiscard, JobFinalize, JobRename, JobRecord,
       DeleteTop, DeleteItem, UndoStep, UndoTemp, UndoFile, UndoDirectory, UndoEnd, End, Undo, Fail,
       AfterInv
  <2>2. pc' \in {"planned", "jobTop"} => state' # "Completed"
    BY <1>1, <1>9 DEF Start, PlanStep, PlanRefused, PlanMakeDirectory, PlanOpenDirectory, PlanDescend,
       PlanLeaveDirectory, PlanFile, PlanDeleteLeaf, JobStep, JobOpenSource, JobOpenTarget,
       JobNoResources, JobTransfer, JobTransferred, JobDiscard, JobFinalize, JobRename, JobRecord,
       DeleteTop, DeleteItem, UndoStep, UndoTemp, UndoFile, UndoDirectory, UndoEnd, End, Undo, Fail,
       AfterInv, StateInv, LiveStates, InJob
  <2>. QED BY <2>1, <2>2
<1>. QED BY <1>6, <1>7, <1>8, <1>9 DEF Next, WorkerStep, PlanStep, JobStep

\* What the promise rests on is kept by every step, until a call of lstat in
\* RemovePathRecursive breaks.
LEMMA PromiseSteps ==
    ASSUME SafeInv, IsSeq(faults), PromiseInv, [Next]_vars
    PROVE  PromiseInv' \/ Broke({"lstat_removed"})'
BY BrokenStays, StateSteps, RemovedSteps DEF PromiseInv

\* Every step is one that BackgroundOperation allows, or none that it sees, as long
\* as lstat has not broken in RemovePathRecursive.
LEMMA PromiseKept ==
    ASSUME SafeInv, PromiseInv, [Next]_vars, ~Broke({"lstat_removed"})
    PROVE  [BO!Next]_(BO!vars)
<1>. USE DEF BO!Next, BO!vars, BO!WorkerStep, BO!Outcomes, PromiseInv, StateInv, AfterInv,
             LiveStates, InJob
<1>1. PlaceInv
  BY DEF SafeInv
<1>2. CASE Start
  BY <1>2 DEF Start, BO!Start
<1>3. CASE Cancel
  BY <1>3 DEF Cancel, BO!Cancel
<1>4. CASE Gone \/ UNCHANGED vars
  BY <1>4 DEF Gone, vars
<1>5. CASE PlanTop
  BY <1>5 DEF PlanTop, CompleteOperation, Fail, Undo, BO!Complete
<1>6. CASE PlanRefused \/ PlanMakeDirectory \/ PlanOpenDirectory \/ PlanDescend
           \/ PlanLeaveDirectory \/ PlanFile \/ PlanDeleteLeaf \/ Planned
  BY <1>6 DEF PlanRefused, PlanMakeDirectory, PlanOpenDirectory, PlanDescend,
     PlanLeaveDirectory, PlanFile, PlanDeleteLeaf, Planned, Walking, Fail, Undo
<1>7. CASE JobTop
  BY <1>7 DEF JobTop, CompleteOperation, Undo, StopCopying, BO!Complete
<1>8. CASE JobOpenSource \/ JobOpenTarget \/ JobNoResources \/ JobTransfer \/ JobTransferred
           \/ JobDiscard \/ JobFinalize \/ JobRename \/ JobRecord
  BY <1>8 DEF JobOpenSource, JobOpenTarget, JobNoResources, JobTransfer, JobTransferred,
     JobDiscard, JobFinalize, JobRename, JobRecord, Undo, Fail
<1>9. CASE DeleteTop \/ DeleteItem
  BY <1>9 DEF DeleteTop, DeleteItem, Undo, Fail, BO!Complete
<1>10. CASE UndoTemp \/ UndoFile \/ UndoDirectory
  BY <1>10 DEF UndoTemp, UndoFile, UndoDirectory
<1>11. CASE UndoEnd
  BY <1>11 DEF UndoEnd, EndsThread, BO!Fail, BO!Recant
<1>12. CASE RemoveMissing \/ RemoveOpen \/ RemoveDescend
  BY <1>12 DEF RemoveMissing, RemoveOpen, RemoveDescend, Removing
<1>13. CASE RemoveItem
  BY <1>13, RemovesOnce DEF RemoveItem, Removing, BO!Fail
<1>14. CASE RemoveNextRoot
  BY <1>14 DEF RemoveNextRoot, BO!Complete
<1>15. CASE End
  BY <1>15 DEF End, BO!Finish
<1>. QED BY <1>2, <1>3, <1>4, <1>5, <1>6, <1>7, <1>8, <1>9, <1>10, <1>11, <1>12, <1>13, <1>14,
            <1>15 DEF Next, WorkerStep, PlanStep, JobStep, UndoStep, RemoveStep

\* The worker keeps the promise on which the user interface relies: an answered
\* cancellation is not taken back by a late success, a success not by an error,
\* unless lstat() fails for a source that is there while a move removes it.  The
\* two removals of a move without files could then end differently.
THEOREM KeepsPromise ==
    Spec => BO!Init /\ [][[BO!Next]_(BO!vars) \/ Broke({"lstat_removed"})]_vars
<1>. DEFINE Known == IsSeq(faults)
            Promised == PromiseInv \/ Broke({"lstat_removed"})
<1>1. Init => Known /\ Promised /\ BO!Init
  <2>1. IsSeq(<<>>)
    BY EmptySeq DEF IsSeq
  <2>. QED BY <2>1, PromiseStarts DEF Init, BO!Init
<1>2. SafeInv /\ Known /\ Promised /\ [Next]_vars => Known' /\ Promised'
  BY BrokenStays, PromiseSteps
<1>3. SafeInv /\ Promised /\ [Next]_vars => [BO!Next]_(BO!vars) \/ Broke({"lstat_removed"})
  BY PromiseKept
<1>. HIDE DEF Known, Promised
<1>. QED BY <1>1, <1>2, <1>3, WorkerStarts, SafeSteps, PTL DEF Spec

(***************************************************************************)
(* Paths.                                                                  *)
(***************************************************************************)
\* Paths are equal when they have the same names in the same places.
LEMMA SamePath ==
    ASSUME NEW a, IsSeq(a), NEW b, IsSeq(b), Len(a) = Len(b),
           \A k \in 1 .. Len(a) : a[k] = b[k]
    PROVE  a = b
<1>1. PICK S, T : a \in Seq(S) /\ b \in Seq(T)
  BY DEF IsSeq
<1>. DEFINE U == S \cup T
<1>2. a \in Seq(U) /\ b \in Seq(U)
  BY <1>1
<1>. HIDE DEF U
<1>. QED BY <1>2, SeqEqual

\* IsPathWithin() goes by the names at the beginning.
LEMMA UnderByName ==
    ASSUME NEW p, IsSeq(p), NEW root, IsSeq(root)
    PROVE  IsUnder(p, root) <=> /\ Len(root) <= Len(p)
                                /\ \A k \in 1 .. Len(root) : p[k] = root[k]
<1>. DEFINE n == Len(root)
<1>1. n \in Nat /\ Len(p) \in Nat
  BY LenIsNat
<1>2. ASSUME n <= Len(p)
      PROVE  IsSeq(SubSeq(p, 1, n)) /\ Len(SubSeq(p, 1, n)) = n
             /\ \A k \in 1 .. n : SubSeq(p, 1, n)[k] = p[k]
  <2>1. PICK S : p \in Seq(S)
    BY DEF IsSeq
  <2>. HIDE DEF n
  <2>2. SubSeq(p, 1, n) \in Seq(S) /\ Len(SubSeq(p, 1, n)) = n
        /\ \A k \in 1 .. n : SubSeq(p, 1, n)[k] = p[k]
    <3>1. \A k \in 1 .. n : p[k] \in S
      BY <1>1, <1>2, <2>1
    <3>. QED BY <1>1, <1>2, <2>1, <3>1, SubSeqProperties
  <2>. QED BY <2>2 DEF IsSeq
<1>3. CASE ~(n <= Len(p))
  BY <1>3 DEF IsUnder
<1>4. CASE n <= Len(p)
  <2>1. SubSeq(p, 1, n) = root <=> \A k \in 1 .. n : p[k] = root[k]
    BY <1>2, <1>4, SamePath
  <2>. QED BY <1>4, <2>1 DEF IsUnder
<1>. QED BY <1>3, <1>4

\* Of two folders that hold the same item one holds the other.
LEMMA Nested ==
    ASSUME NEW p, IsSeq(p), NEW a, IsSeq(a), NEW b, IsSeq(b), IsUnder(p, a), IsUnder(p, b)
    PROVE  IsUnder(a, b) \/ IsUnder(b, a)
BY UnderByName, LenIsNat

\* A name put behind a folder.
LEMMA JoinFacts ==
    ASSUME NEW dir, IsSeq(dir), NEW name
    PROVE  /\ IsSeq(JoinPath(dir, name)) /\ JoinPath(dir, name) # <<>>
           /\ Len(JoinPath(dir, name)) = Len(dir) + 1
           /\ \A k \in 1 .. Len(dir) : JoinPath(dir, name)[k] = dir[k]
           /\ BaseName(JoinPath(dir, name)) = name
           /\ ParentPath(JoinPath(dir, name)) = dir
<1>. DEFINE q == JoinPath(dir, name)
<1>1. IsSeq(q) /\ Len(q) = Len(dir) + 1 /\ (\A k \in 1 .. Len(dir) : q[k] = dir[k])
      /\ q[Len(dir) + 1] = name
  BY AppendFacts DEF JoinPath
<1>2. Len(dir) \in Nat /\ q # <<>>
  BY <1>1, LenIsNat
<1>. HIDE DEF q
<1>3. ButLast(q) = ParentPath(q) /\ BaseName(q) = name
  BY <1>1, <1>2 DEF ButLast, ParentPath, BaseName
<1>4. ParentPath(q) = dir
  <2>1. IsSeq(ButLast(q)) /\ Len(ButLast(q)) = Len(dir)
        /\ \A k \in 1 .. Len(dir) : ButLast(q)[k] = dir[k]
    <3>1. /\ IsSeq(ButLast(q)) /\ Len(ButLast(q)) = Len(q) - 1
          /\ \A k \in 1 .. Len(q) - 1 : ButLast(q)[k] = q[k]
      BY ONLY <1>1, <1>2, ButLastFacts
    <3>2. Len(q) - 1 = Len(dir)
      BY ONLY <1>1, <1>2
    <3>. QED BY ONLY <1>1, <3>1, <3>2
  <2>2. \A k \in 1 .. Len(ButLast(q)) : ButLast(q)[k] = dir[k]
    BY ONLY <2>1
  <2>3. IsSeq(dir)
    OBVIOUS
  <2>. QED BY ONLY <1>3, <2>1, <2>2, <2>3, SamePath
<1>. QED BY <1>1, <1>2, <1>3, <1>4 DEF q

\* What is left of a path behind its first n names.
LEMMA TailFacts ==
    ASSUME NEW U, NEW p \in Seq(U), NEW n \in Nat, n <= Len(p)
    PROVE  /\ SubSeq(p, n + 1, Len(p)) \in Seq(U)
           /\ Len(SubSeq(p, n + 1, Len(p))) = Len(p) - n
           /\ \A k \in 1 .. Len(p) - n : SubSeq(p, n + 1, Len(p))[k] = p[n + k]
<1>. DEFINE l == Len(p)
            a == n + 1
            rest == SubSeq(p, a, l)
<1>1. l \in Nat /\ a \in Nat /\ a = n + 1 /\ n <= l
  OBVIOUS
<1>2. \A k \in a .. l : p[k] \in U
  BY <1>1
<1>. HIDE DEF a, l
<1>3. /\ rest \in Seq(U)
      /\ Len(rest) = IF a <= l THEN l - a + 1 ELSE 0
      /\ \A k \in 1 .. l - a + 1 : rest[k] = p[a + k - 1]
  BY <1>1, <1>2, SubSeqProperties
<1>. HIDE DEF rest
<1>4. Len(rest) = l - n /\ l - a + 1 = l - n /\ \A k \in Int : a + k - 1 = n + k
  BY <1>1, <1>3
<1>5. \A k \in 1 .. l - n : rest[k] = p[n + k]
  BY <1>3, <1>4
<1>. QED BY ONLY <1>3, <1>4, <1>5 DEF rest, a, l

\* A path below a folder taken over to a target.
LEMMA GraftFacts ==
    ASSUME NEW U, NEW t \in Seq(U), NEW r \in Seq(U), NEW q, q = t \o r
    PROVE  /\ q \in Seq(U) /\ Len(q) = Len(t) + Len(r)
           /\ \A k \in 1 .. Len(t) : q[k] = t[k]
           /\ \A k \in 1 .. Len(r) : q[Len(t) + k] = r[k]
OBVIOUS

(***************************************************************************)
(* The targets of a paste.                                                 *)
(***************************************************************************)
\* What the assumptions say of the operation at hand.
LEMMA PasteFacts ==
    ASSUME op \in Operations, Pasting
    PROVE  /\ IsSeq(op.dest)
           /\ Len(op.roots) \in Nat \ {0}
           /\ \A i \in 1 .. Len(op.roots) :
                 /\ IsSeq(op.roots[i]) /\ Len(op.roots[i]) \in Nat
                 /\ op.roots[i] = JoinPath(ParentPath(op.roots[i]), BaseName(op.roots[i]))
                 /\ IsSeq(TargetOf(op.roots[i])) /\ Len(TargetOf(op.roots[i])) = Len(op.dest) + 1
                 /\ TargetOf(op.roots[i])[Len(op.dest) + 1] = BaseName(op.roots[i])
                 /\ \A j \in 1 .. Len(op.roots) :
                       /\ i # j => ~IsUnder(op.roots[i], op.roots[j])
                       /\ i # j => BaseName(op.roots[i]) # BaseName(op.roots[j])
                       /\ \/ IsUnder(TargetOf(op.roots[i]), op.roots[j])
                          \/ IsUnder(op.roots[j], TargetOf(op.roots[i]))
                          => op.kind = "Copy" /\ op.replace /\ TargetOf(op.roots[i]) = op.roots[j]
<1>1. op.kind # "Delete"
  BY DEF Pasting, Pastes
<1>2. IsSeq(op.dest)
  BY <1>1, PasteAssumption DEF IsSeq
<1>3. ASSUME NEW i \in 1 .. Len(op.roots)
      PROVE  IsSeq(op.roots[i]) /\ Len(op.roots[i]) \in Nat /\ op.roots[i] # <<>>
  BY <1>1, <1>3, RootsArePaths, LenIsNat, PasteAssumption
<1>4. ASSUME NEW i \in 1 .. Len(op.roots)
      PROVE  op.roots[i] = JoinPath(ParentPath(op.roots[i]), BaseName(op.roots[i]))
  <2>. DEFINE root == op.roots[i]
              up == ButLast(root)
  <2>1. IsSeq(root) /\ root # <<>>
    BY <1>3
  <2>. HIDE DEF root
  <2>2. up = ParentPath(root)
    BY DEF ButLast, ParentPath
  <2>3. IsSeq(up) /\ Len(up) = Len(root) - 1 /\ Len(root) \in Nat \ {0}
        /\ \A k \in 1 .. Len(root) - 1 : up[k] = root[k]
    BY <2>1, ButLastFacts
  <2>. HIDE DEF up
  <2>. DEFINE new == Append(up, BaseName(root))
  <2>4. IsSeq(new) /\ Len(new) = Len(root) /\ (\A k \in 1 .. Len(up) : new[k] = up[k])
        /\ new[Len(up) + 1] = BaseName(root)
    BY <2>3, AppendFacts
  <2>5. \A k \in 1 .. Len(root) : new[k] = root[k]
    BY <2>3, <2>4 DEF BaseName
  <2>6. new = root
    <3>. HIDE DEF new
    <3>. QED BY <2>1, <2>4, <2>5, SamePath
  <2>7. root = JoinPath(ParentPath(root), BaseName(root))
    BY <2>2, <2>6 DEF JoinPath
  <2>. QED BY <2>7 DEF root
<1>5. ASSUME NEW i \in 1 .. Len(op.roots)
      PROVE  /\ IsSeq(TargetOf(op.roots[i])) /\ Len(TargetOf(op.roots[i])) = Len(op.dest) + 1
             /\ TargetOf(op.roots[i])[Len(op.dest) + 1] = BaseName(op.roots[i])
  BY <1>2, AppendFacts DEF TargetOf, JoinPath
<1>6. ASSUME NEW i \in 1 .. Len(op.roots), NEW j \in 1 .. Len(op.roots)
      PROVE  /\ i # j => ~IsUnder(op.roots[i], op.roots[j])
             /\ i # j => BaseName(op.roots[i]) # BaseName(op.roots[j])
             /\ \/ IsUnder(TargetOf(op.roots[i]), op.roots[j])
                \/ IsUnder(op.roots[j], TargetOf(op.roots[i]))
                => op.kind = "Copy" /\ op.replace /\ TargetOf(op.roots[i]) = op.roots[j]
  BY <1>1, PasteAssumption, RootsAssumption DEF TargetOf
<1>. QED BY <1>2, <1>3, <1>4, <1>5, <1>6, RootsArePaths

\* How many names the path of a root has, and that of a target.
RootLen(i) == Len(op.roots[i])
TargetLen == Len(op.dest) + 1

\* Where the items below a root belong: CHOOSE finds the one root there is.
LEMMA ImageFacts ==
    ASSUME op \in Operations, Pasting, NEW i \in 1 .. Len(op.roots),
           NEW p, IsSeq(p), IsUnder(p, op.roots[i])
    PROVE  /\ IsSeq(Image(p)) /\ TargetLen \in Nat \ {0}
           /\ RootLen(i) \in Nat /\ Len(p) \in Nat /\ RootLen(i) <= Len(p)
           /\ Len(Image(p)) = TargetLen + (Len(p) - RootLen(i))
           /\ \A k \in 1 .. TargetLen : Image(p)[k] = TargetOf(op.roots[i])[k]
           /\ \A k \in 1 .. Len(p) - RootLen(i) : Image(p)[TargetLen + k] = p[RootLen(i) + k]
<1>. DEFINE n == RootLen(i)
            m == TargetLen
            target == TargetOf(op.roots[i])
            rest == SubSeq(p, n + 1, Len(p))
<1>1. /\ n \in Nat /\ m \in Nat \ {0} /\ Len(p) \in Nat /\ n <= Len(p)
      /\ IsSeq(target) /\ Len(target) = m
  BY PasteFacts, LenIsNat DEF IsUnder, RootLen, TargetLen
<1>2. (CHOOSE r \in Roots : IsUnder(p, r)) = op.roots[i]
  <2>. DEFINE r0 == CHOOSE r \in Roots : IsUnder(p, r)
  <2>1. op.roots[i] \in Roots
    BY DEF Roots
  <2>2. r0 \in Roots /\ IsUnder(p, r0)
    BY <2>1
  <2>3. PICK j \in 1 .. Len(op.roots) : r0 = op.roots[j]
    BY <2>2 DEF Roots
  <2>4. IsUnder(op.roots[i], op.roots[j]) \/ IsUnder(op.roots[j], op.roots[i])
    BY <2>2, <2>3, PasteFacts, Nested
  <2>. QED BY <2>3, <2>4, PasteFacts
<1>3. Image(p) = target \o rest
  BY <1>2 DEF Image, RootLen
<1>4. PICK S, T : p \in Seq(S) /\ target \in Seq(T)
  BY <1>1 DEF IsSeq
<1>. DEFINE U == S \cup T
<1>5. p \in Seq(U) /\ target \in Seq(U)
  BY <1>4
<1>. HIDE DEF U, n, m, target
<1>6. rest \in Seq(U) /\ Len(rest) = Len(p) - n /\ \A k \in 1 .. Len(p) - n : rest[k] = p[n + k]
  BY ONLY <1>1, <1>5, TailFacts
<1>. HIDE DEF rest
<1>7. /\ Image(p) \in Seq(U) /\ Len(Image(p)) = Len(target) + Len(rest)
      /\ \A k \in 1 .. Len(target) : Image(p)[k] = target[k]
      /\ \A k \in 1 .. Len(rest) : Image(p)[Len(target) + k] = rest[k]
  <2>. SUFFICES ASSUME NEW q, q = target \o rest
                PROVE  /\ q \in Seq(U) /\ Len(q) = Len(target) + Len(rest)
                       /\ \A k \in 1 .. Len(target) : q[k] = target[k]
                       /\ \A k \in 1 .. Len(rest) : q[Len(target) + k] = rest[k]
    BY <1>3
  <2>1. target \in Seq(U) /\ rest \in Seq(U)
    BY <1>5, <1>6
  <2>. QED BY <2>1, GraftFacts
<1>8. IsSeq(Image(p)) /\ Len(Image(p)) = m + (Len(p) - n)
      /\ \A k \in 1 .. m : Image(p)[k] = target[k]
  BY ONLY <1>1, <1>6, <1>7 DEF IsSeq
<1>9. \A k \in 1 .. Len(p) - n : Image(p)[m + k] = p[n + k]
  BY ONLY <1>1, <1>6, <1>7
<1>. QED BY <1>1, <1>8, <1>9 DEF target, n, m

\* Two paths that a paste would give the same names in the same places.
LEMMA ImageIs ==
    ASSUME op \in Operations, Pasting, NEW i \in 1 .. Len(op.roots),
           NEW p, IsSeq(p), IsUnder(p, op.roots[i]),
           NEW q, IsSeq(q), Len(q) = TargetLen + (Len(p) - RootLen(i)),
           \A k \in 1 .. TargetLen : q[k] = TargetOf(op.roots[i])[k],
           \A k \in 1 .. Len(p) - RootLen(i) : q[TargetLen + k] = p[RootLen(i) + k]
    PROVE  q = Image(p)
<1>. DEFINE n == RootLen(i)
            m == TargetLen
            l == Len(p)
<1>1. IsSeq(Image(p)) /\ m \in Nat /\ n \in Nat /\ l \in Nat /\ n <= l /\ Len(Image(p)) = m + (l - n)
  BY ImageFacts
<1>2. \A k \in 1 .. m : Image(p)[k] = q[k]
  BY ImageFacts
<1>3. \A k \in 1 .. l - n : Image(p)[m + k] = q[m + k]
  BY ImageFacts
<1>. HIDE DEF n, m, l
<1>4. ASSUME NEW k \in 1 .. m + (l - n) PROVE q[k] = Image(p)[k]
  <2>1. CASE k <= m
    BY ONLY <1>1, <1>2, <2>1, k \in 1 .. m + (l - n)
  <2>2. CASE ~(k <= m)
    <3>. DEFINE c == k - m
    <3>1. c \in 1 .. l - n /\ m + c = k
      BY ONLY <1>1, <2>2, k \in 1 .. m + (l - n)
    <3>. HIDE DEF c
    <3>. QED BY ONLY <1>3, <3>1
  <2>. QED BY <2>1, <2>2
<1>5. Len(q) = m + (l - n)
  BY DEF n, m, l
<1>. QED BY ONLY <1>1, <1>4, <1>5, IsSeq(q), SamePath

\* The target of a root.
LEMMA ImageOfRoot ==
    ASSUME op \in Operations, Pasting, NEW i \in 1 .. Len(op.roots)
    PROVE  Image(op.roots[i]) = TargetOf(op.roots[i])
<1>1. IsSeq(op.roots[i]) /\ IsUnder(op.roots[i], op.roots[i])
  BY PasteFacts, UnderSelf
<1>2. IsSeq(TargetOf(op.roots[i])) /\ Len(TargetOf(op.roots[i])) = TargetLen
      /\ RootLen(i) = Len(op.roots[i])
  BY PasteFacts DEF TargetLen, RootLen
<1>3. IsSeq(Image(op.roots[i])) /\ Len(Image(op.roots[i])) = TargetLen
      /\ \A k \in 1 .. TargetLen : Image(op.roots[i])[k] = TargetOf(op.roots[i])[k]
  BY <1>1, <1>2, ImageFacts
<1>. QED BY <1>2, <1>3, SamePath

\* What is in a folder belongs into the image of the folder.
LEMMA ImageOfChild ==
    ASSUME op \in Operations, Pasting, NEW p, BelowRoot(p), NEW name
    PROVE  Image(JoinPath(p, name)) = JoinPath(Image(p), name)
<1>1. PICK i \in 1 .. Len(op.roots) : IsUnder(p, op.roots[i])
  BY DEF BelowRoot
<1>. DEFINE q == JoinPath(p, name)
            new == JoinPath(Image(p), name)
            n == RootLen(i)
            m == TargetLen
            l == Len(p)
<1>2. IsSeq(p) /\ IsSeq(op.roots[i])
  BY PasteFacts DEF BelowRoot
<1>3. IsSeq(q) /\ IsUnder(q, op.roots[i]) /\ Len(q) = l + 1
      /\ (\A k \in 1 .. l : q[k] = p[k]) /\ q[l + 1] = name
  BY <1>1, <1>2, UnderChild, AppendFacts DEF JoinPath
<1>4. n \in Nat /\ m \in Nat \ {0} /\ l \in Nat /\ n <= l /\ IsSeq(Image(p)) /\ Len(Image(p)) = m + (l - n)
  BY <1>1, <1>2, ImageFacts
<1>5. \A k \in 1 .. m : Image(p)[k] = TargetOf(op.roots[i])[k]
  BY <1>1, <1>2, ImageFacts
<1>6. \A k \in 1 .. l - n : Image(p)[m + k] = p[n + k]
  BY <1>1, <1>2, ImageFacts
<1>7. IsSeq(new) /\ Len(new) = Len(Image(p)) + 1
      /\ (\A k \in 1 .. Len(Image(p)) : new[k] = Image(p)[k]) /\ new[Len(Image(p)) + 1] = name
  <2>. DEFINE base == Image(p)
  <2>1. IsSeq(base)
    BY <1>4
  <2>. HIDE DEF base
  <2>2. /\ IsSeq(Append(base, name)) /\ Len(Append(base, name)) = Len(base) + 1
        /\ \A k \in 1 .. Len(base) : Append(base, name)[k] = base[k]
        /\ Append(base, name)[Len(base) + 1] = name
    BY ONLY <2>1, AppendFacts
  <2>3. new = Append(base, name)
    BY DEF JoinPath, base
  <2>. HIDE DEF new
  <2>. QED BY ONLY <2>2, <2>3 DEF base
<1>. HIDE DEF q, new, n, m, l
<1>8. Len(new) = m + (Len(q) - n)
  BY ONLY <1>3, <1>4, <1>7
<1>9. \A k \in 1 .. m : new[k] = TargetOf(op.roots[i])[k]
  BY ONLY <1>4, <1>5, <1>7
<1>10. ASSUME NEW k \in 1 .. Len(q) - n PROVE new[m + k] = q[n + k]
  <2>1. CASE k \in 1 .. l - n
    <3>1. m + k \in 1 .. Len(Image(p)) /\ n + k \in 1 .. l
      BY ONLY <1>4, <2>1
    <3>. QED BY ONLY <1>3, <1>6, <1>7, <2>1, <3>1
  <2>2. CASE k = l - n + 1
    <3>1. m + k = Len(Image(p)) + 1 /\ n + k = l + 1
      BY ONLY <1>4, <2>2
    <3>. QED BY ONLY <1>3, <1>7, <3>1
  <2>. QED BY ONLY <1>3, <1>4, <2>1, <2>2, k \in 1 .. Len(q) - n
<1>11. new = Image(q)
  BY <1>3, <1>7, <1>8, <1>9, <1>10, ImageIs DEF n, m
<1>. QED BY <1>11 DEF q, new

\* Two items of the clipboard have different targets.
LEMMA ImagesDiffer ==
    ASSUME op \in Operations, Pasting, NEW p, BelowRoot(p), NEW q, BelowRoot(q),
           Image(p) = Image(q)
    PROVE  p = q
<1>1. PICK i \in 1 .. Len(op.roots) : IsUnder(p, op.roots[i])
  BY DEF BelowRoot
<1>2. PICK j \in 1 .. Len(op.roots) : IsUnder(q, op.roots[j])
  BY DEF BelowRoot
<1>3. IsSeq(p) /\ IsSeq(q) /\ IsSeq(op.roots[i])
  BY PasteFacts DEF BelowRoot
<1>. DEFINE m == TargetLen
<1>4. i = j
  <2>1. m \in 1 .. m /\ m = Len(op.dest) + 1
    BY PasteFacts, LenIsNat DEF TargetLen
  <2>2. \A k \in 1 .. m : Image(p)[k] = TargetOf(op.roots[i])[k]
    BY <1>1, <1>3, ImageFacts
  <2>3. \A k \in 1 .. m : Image(q)[k] = TargetOf(op.roots[j])[k]
    BY <1>2, <1>3, ImageFacts
  <2>. HIDE DEF m
  <2>4. TargetOf(op.roots[i])[m] = TargetOf(op.roots[j])[m]
    BY <2>1, <2>2, <2>3
  <2>5. BaseName(op.roots[i]) = BaseName(op.roots[j])
    BY <2>1, <2>4, PasteFacts
  <2>. QED BY <2>5, PasteFacts
<1>. DEFINE n == RootLen(i)
            lp == Len(p)
            lq == Len(q)
<1>5. n \in Nat /\ m \in Nat /\ lp \in Nat /\ n <= lp /\ Len(Image(p)) = m + (lp - n)
  BY <1>1, <1>3, ImageFacts
<1>6. \A k \in 1 .. lp - n : Image(p)[m + k] = p[n + k]
  BY <1>1, <1>3, ImageFacts
<1>7. lq \in Nat /\ n <= lq /\ Len(Image(q)) = m + (lq - n)
  BY <1>2, <1>3, <1>4, ImageFacts
<1>8. \A k \in 1 .. lq - n : Image(q)[m + k] = q[n + k]
  BY <1>2, <1>3, <1>4, ImageFacts
<1>9. \A k \in 1 .. n : p[k] = q[k]
  BY <1>1, <1>2, <1>3, <1>4, UnderByName DEF RootLen
<1>. HIDE DEF n, m, lp, lq
<1>10. lp = lq
  BY ONLY <1>5, <1>7, Image(p) = Image(q)
<1>11. ASSUME NEW k \in 1 .. lp PROVE p[k] = q[k]
  <2>1. CASE k \in 1 .. n
    BY ONLY <1>9, <2>1
  <2>2. CASE k \notin 1 .. n
    <3>. DEFINE c == k - n
    <3>1. c \in 1 .. lp - n /\ n + c = k
      BY ONLY <1>5, <2>2, k \in 1 .. lp
    <3>. HIDE DEF c
    <3>. QED BY ONLY <1>6, <1>8, <1>10, <3>1, Image(p) = Image(q)
  <2>. QED BY <2>1, <2>2
<1>. QED BY <1>3, <1>10, <1>11, SamePath DEF lp, lq

\* A paste does not reach what it reads, unless a file is its own target.
LEMMA ImageApart ==
    ASSUME op \in Operations, Pasting, NEW p, BelowRoot(p), BelowRoot(Image(p))
    PROVE  /\ op.kind = "Copy" /\ op.replace
           /\ TargetOf(op.roots[1]) = op.roots[1] /\ Image(p) = p
<1>1. PICK i \in 1 .. Len(op.roots) : IsUnder(p, op.roots[i])
  BY DEF BelowRoot
<1>2. PICK j \in 1 .. Len(op.roots) : IsUnder(Image(p), op.roots[j])
  BY DEF BelowRoot
<1>. DEFINE target == TargetOf(op.roots[i])
            n == RootLen(i)
            m == TargetLen
            l == Len(p)
<1>3. /\ IsSeq(p) /\ IsSeq(op.roots[i]) /\ IsSeq(op.roots[j]) /\ IsSeq(target)
      /\ Len(target) = m /\ Len(op.roots[i]) = n
  BY PasteFacts DEF BelowRoot, RootLen, TargetLen
<1>4. n \in Nat /\ m \in Nat \ {0} /\ l \in Nat /\ n <= l /\ IsSeq(Image(p)) /\ Len(Image(p)) = m + (l - n)
  BY <1>1, <1>3, ImageFacts
<1>5. \A k \in 1 .. m : Image(p)[k] = target[k]
  BY <1>1, <1>3, ImageFacts
<1>6. \A k \in 1 .. n : p[k] = op.roots[i][k]
  <2>. DEFINE root == op.roots[i]
  <2>1. IsSeq(p) /\ IsSeq(root) /\ IsUnder(p, root) /\ Len(root) = n
    BY <1>1, <1>3
  <2>. HIDE DEF root, n
  <2>2. \A k \in 1 .. n : p[k] = root[k]
    BY ONLY <2>1, UnderByName
  <2>. QED BY ONLY <2>2 DEF root
<1>. HIDE DEF target, n, m, l
<1>7. IsUnder(Image(p), target)
  <2>1. Len(target) <= Len(Image(p))
    BY ONLY <1>3, <1>4
  <2>. QED BY <1>3, <1>4, <1>5, <2>1, UnderByName
<1>8. IsUnder(target, op.roots[j]) \/ IsUnder(op.roots[j], target)
  BY <1>2, <1>3, <1>4, <1>7, Nested
<1>9. op.kind = "Copy" /\ op.replace /\ target = op.roots[j]
  BY <1>8, PasteFacts DEF target
<1>10. i = 1 /\ j = 1
  BY <1>9, RootsArePaths
<1>11. m = n /\ target = op.roots[i]
  BY <1>3, <1>9, <1>10
<1>12. p = Image(p)
  <2>1. l = TargetLen + (l - n) /\ \A k \in 1 .. TargetLen : p[k] = target[k]
    <3>1. l = m + (l - n)
      BY ONLY <1>4, <1>11
    <3>2. \A k \in 1 .. m : p[k] = target[k]
      BY ONLY <1>6, <1>11
    <3>. QED BY ONLY <3>1, <3>2 DEF m
  <2>2. \A k \in 1 .. l - n : p[TargetLen + k] = p[n + k]
    BY <1>11 DEF m
  <2>. QED BY <1>1, <1>3, <2>1, <2>2, ImageIs DEF n, l, target
<1>. QED BY <1>9, <1>10, <1>12 DEF target

(***************************************************************************)
(* The sources of a paste.                                                 *)
(***************************************************************************)
\* The sources are what the disk had below the roots when the paste started.
LEMMA SourceFacts ==
    ASSUME op \in Operations
    PROVE  \A p : p \in Sources <=> p \in DOMAIN Disk0 /\ BelowRoot(p)
<1>1. \A p \in DOMAIN Disk0 : IsSeq(p)
  BY DiskAssumption DEF IsSeq
<1>. QED BY <1>1 DEF Sources, Roots, BelowRoot

\* What lies above an item that was there was there, and a directory: the walk
\* that has come to q goes on to p through an item of q, unless p is q.
LEMMA WayDown ==
    ASSUME NEW p \in DOMAIN Disk0, NEW q, IsSeq(q), IsUnder(p, q), p # q
    PROVE  /\ q \in DOMAIN Disk0 /\ Disk0[q] = Dir
           /\ \E name : /\ IsUnder(p, JoinPath(q, name))
                        /\ JoinPath(q, name) \in DOMAIN Disk0
<1>. DEFINE n == Len(q)
            name == p[n + 1]
            below == JoinPath(q, name)
<1>1. p \in Seq(STRING) /\ IsSeq(p) /\ n \in Nat /\ Len(p) \in Nat /\ n <= Len(p)
      /\ SubSeq(p, 1, n) = q
  BY DiskAssumption, LenIsNat DEF IsUnder, IsSeq
<1>2. \A k \in 1 .. n : p[k] = q[k]
  BY <1>1, UnderByName
<1>3. n < Len(p)
  <2>1. Len(p) = n => p = q
    BY <1>1, <1>2, SamePath
  <2>. HIDE DEF n
  <2>. QED BY <1>1, <2>1
<1>4. n \in 0 .. (Len(p) - 1) /\ n + 1 \in Nat
  BY <1>1, <1>3
<1>5. q \in DOMAIN Disk0 /\ Disk0[q] = Dir
  BY <1>1, <1>4, DiskAssumption
<1>6. IsSeq(below) /\ Len(below) = n + 1 /\ (\A k \in 1 .. n : below[k] = q[k]) /\ below[n + 1] = name
  BY AppendFacts DEF JoinPath
<1>. HIDE DEF below, n
<1>7. \A k \in 1 .. n + 1 : p[k] = below[k]
  BY <1>1, <1>2, <1>6
<1>8. IsUnder(p, below)
  <2>1. Len(below) <= Len(p)
    BY ONLY <1>1, <1>3, <1>6
  <2>2. \A k \in 1 .. Len(below) : p[k] = below[k]
    BY ONLY <1>6, <1>7
  <2>. QED BY ONLY <1>1, <1>6, <2>1, <2>2, UnderByName
<1>9. below \in DOMAIN Disk0
  <2>1. CASE n + 1 = Len(p)
    BY <1>1, <1>6, <1>7, <2>1, SamePath
  <2>2. CASE n + 1 < Len(p)
    <3>1. n + 1 \in 0 .. (Len(p) - 1)
      BY <1>1, <2>2
    <3>2. SubSeq(p, 1, n + 1) = below
      BY <1>6, <1>8 DEF IsUnder
    <3>. QED BY <3>1, <3>2, DiskAssumption
  <2>. QED BY <1>1, <1>3, <2>1, <2>2
<1>. QED BY <1>5, <1>8, <1>9 DEF below

\* readdir() finds what is there.
LEMMA NameFound ==
    ASSUME NEW q, IsSeq(q), NEW name, JoinPath(q, name) \in DOMAIN fs
    PROVE  name \in NamesIn(q)
BY JoinFacts DEF NamesIn

\* What belongs where only depends on the operation.
LEMMA SameTargets ==
    ASSUME op' = op
    PROVE  /\ \A root : TargetOf(root)' = TargetOf(root)
           /\ \A p : Image(p)' = Image(p)
           /\ Sources' = Sources
           /\ Pasting' <=> Pasting
<1>1. \A root : TargetOf(root)' = TargetOf(root)
  BY DEF TargetOf
<1>2. Roots' = Roots
  BY DEF Roots
<1>3. \A p : Image(p)' = Image(p)
  BY <1>1, <1>2 DEF Image
<1>. QED BY <1>1, <1>2, <1>3 DEF Sources, Pasting

(***************************************************************************)
(* The invariant, part by part.                                            *)
(***************************************************************************)
\* Where the planning is under way, or has not begun.
PlanPlaces == {"planTop", "frame", "opendir"}
Before == {"idle", "none"} \cup PlanPlaces

\* Where the jobs are done one after the other.
Copying == {"jobTop"} \cup (InJob \ {"jobDiscard"})

\* The walk knows where the items belong, and only an open folder has items left.
WalkInv ==
    \A i \in 1 .. Len(planStack) :
        /\ planStack[i].dst = Image(planStack[i].src)
        /\ ~planStack[i].opened => planStack[i].todo = {}

\* What a paste may write to: what was not there, and the file to be replaced.
Fresh(p) == p \notin DOMAIN Disk0 \/ (op.replace /\ p = TargetOf(op.roots[1]))

\* Another program may put files below the roots of a paste, but not the file
\* that is to replace another when that is gone.
MayCome(p) == ~(op.replace /\ p = op.roots[1])
Found(p) == p \in DOMAIN Disk0 \/ MayCome(p)

\* A job copies a file of the clipboard to its place.
JobsInv ==
    \A i \in 1 .. Len(jobs) :
        /\ BelowRoot(jobs[i].src) /\ Found(jobs[i].src)
        /\ jobs[i].src \in DOMAIN Disk0 => Disk0[jobs[i].src] # Dir
        /\ jobs[i].dst = Image(jobs[i].src)
        /\ Fresh(jobs[i].dst)
        /\ TempPath(jobs[i].dst) \notin DOMAIN Disk0

\* A rollback finds what jobs that are done have made, and what was not there.
MadeInv ==
    /\ \A i \in 1 .. Len(createdFiles) :
          \E k \in 1 .. Len(jobs) : k < jobIndex /\ createdFiles[i] = jobs[k].dst
    /\ \A i \in 1 .. Len(createdDirectories) : createdDirectories[i] \notin DOMAIN Disk0
    /\ temporaryPath = NoPath \/ temporaryPath \notin DOMAIN Disk0

\* The file that replaces another is the only job.
SingleInv ==
    op.replace /\ (op.roots[1] \in DOMAIN Disk0 => Disk0[op.roots[1]] # Dir) =>
        /\ Len(planStack) + Len(jobs) <= 1
        /\ \A i \in 1 .. Len(planStack) : ~planStack[i].opened

\* The planning only adds to the disk, and no folder below the roots; a folder it
\* is about to list was there and has its copy.
PlanInv ==
    /\ pc \in Before =>
          /\ \A p \in DOMAIN Disk0 : Intact(p)
          /\ \A p \in DOMAIN fs :
                p \in DOMAIN Disk0 \/ ~BelowRoot(p) \/ (MayCome(p) /\ fs[p] # Dir)
          /\ jobIndex = 1
    /\ pc = "idle" => jobs = <<>>
    /\ pc = "opendir" => /\ ~TopFrame.opened
                         /\ Exists(TopFrame.dst) /\ fs[TopFrame.dst] = Dir
                         /\ TopFrame.src \in DOMAIN Disk0 /\ Disk0[TopFrame.src] = Dir

\* A rollback goes back to the planning when that has failed, and takes back
\* what has been copied completely only because of a cancellation.
UndoInv ==
    /\ pc \notin {"deleteTop", "delete"}
    /\ pc \in {"undoTemp", "undo"} /\ after.pc = "planned" => after.state = "Failed"
    /\ pc \in {"undoTemp", "undo"} /\ jobs # <<>> /\ jobIndex > Len(jobs) => cancelRequested
    /\ pc = "jobDiscard" => after.pc = "end"

PlanningInv == WalkInv /\ JobsInv /\ MadeInv /\ SingleInv /\ PlanInv /\ UndoInv

(***************************************************************************)
(* The planning.                                                           *)
(***************************************************************************)
\* The walk over the roots begins with all their targets.
LEMMA RootImages ==
    ASSUME op \in Operations, Pasting
    PROVE  /\ IsSeq(RootFrames) /\ Len(RootFrames) = Len(op.roots)
           /\ \A i \in 1 .. Len(op.roots) :
                 /\ RootFrames[i].src = op.roots[Len(op.roots) + 1 - i]
                 /\ RootFrames[i].dst = Image(RootFrames[i].src)
                 /\ ~RootFrames[i].opened /\ RootFrames[i].todo = {}
<1>. DEFINE n == Len(op.roots)
            R == {RootFrames[i] : i \in 1 .. n}
<1>1. n \in Nat \ {0} /\ op.kind # "Delete"
  BY RootsArePaths DEF Pasting, Pastes
<1>2. RootFrames \in Seq(R) /\ Len(RootFrames) = n
  BY <1>1 DEF RootFrames
<1>3. ASSUME NEW i \in 1 .. n
      PROVE  /\ RootFrames[i].src = op.roots[n + 1 - i]
             /\ RootFrames[i].dst = Image(RootFrames[i].src)
             /\ ~RootFrames[i].opened /\ RootFrames[i].todo = {}
  <2>1. n + 1 - i \in 1 .. n
    BY <1>1
  <2>2. Image(op.roots[n + 1 - i]) = TargetOf(op.roots[n + 1 - i])
    BY <2>1, ImageOfRoot
  <2>3. RootFrames[i] = Frame(op.roots[n + 1 - i], TargetOf(op.roots[n + 1 - i]))
    BY <1>1 DEF RootFrames
  <2>. QED BY <2>2, <2>3 DEF Frame
<1>. QED BY <1>2, <1>3 DEF IsSeq

\* What the walk is at.
LEMMA TopFrameFacts ==
    ASSUME SafeInv, Pasting, WalkInv, pc \in {"frame", "opendir"}
    PROVE  /\ planStack # <<>> /\ IsSeq(planStack) /\ Len(planStack) \in Nat \ {0}
           /\ TopFrame = planStack[Len(planStack)]
           /\ DOMAIN TopFrame = {"src", "dst", "opened", "todo"}
           /\ BelowRoot(TopFrame.src) /\ TopFrame.dst = Image(TopFrame.src)
           /\ ~TopFrame.opened => TopFrame.todo = {}
<1>1. planStack # <<>> /\ Frames(planStack, TRUE)
  BY DEF SafeInv, PlaceInv, MemoryInv
<1>2. IsSeq(planStack) /\ Len(planStack) \in Nat \ {0}
  BY <1>1, LenIsNat DEF Frames
<1>. QED BY <1>1, <1>2 DEF Frames, FrameOK, WalkInv, TopFrame, Top

\* readdir() returns a name: what is on the stack then.
LEMMA Descends ==
    ASSUME SafeInv, Pasting, WalkInv, PlanDescend
    PROVE  \E name \in TopFrame.todo :
              /\ IsSeq(planStack') /\ Len(planStack') = Len(planStack) + 1
              /\ \A i \in 1 .. Len(planStack) - 1 : planStack'[i] = planStack[i]
              /\ LET f == planStack'[Len(planStack)]
                 IN  /\ f.src = TopFrame.src /\ f.dst = TopFrame.dst
                     /\ f.opened = TopFrame.opened /\ f.todo = TopFrame.todo \ {name}
              /\ LET f == planStack'[Len(planStack) + 1]
                 IN  /\ f.src = JoinPath(TopFrame.src, name) /\ f.dst = Image(f.src)
                     /\ ~f.opened /\ f.todo = {}
<1>. DEFINE n == Len(planStack)
<1>1. /\ planStack # <<>> /\ IsSeq(planStack) /\ n \in Nat \ {0}
      /\ BelowRoot(TopFrame.src) /\ TopFrame.dst = Image(TopFrame.src)
  BY TopFrameFacts DEF PlanDescend
<1>2. PICK name \in TopFrame.todo :
          planStack' = Push(SetTop(planStack, [TopFrame EXCEPT !.todo = @ \ {name}]),
                            PasteChild(TopFrame, name))
  BY DEF PlanDescend, NextChild, Pasting, Pastes, TopFrame
<1>. DEFINE f == [TopFrame EXCEPT !.todo = @ \ {name}]
            low == SetTop(planStack, f)
            g == PasteChild(TopFrame, name)
<1>3. f.src = TopFrame.src /\ f.dst = TopFrame.dst /\ f.opened = TopFrame.opened
      /\ f.todo = TopFrame.todo \ {name}
  <2>1. DOMAIN TopFrame = {"src", "dst", "opened", "todo"}
    BY TopFrameFacts DEF PlanDescend
  <2>. QED BY <2>1
<1>4. JoinPath(TopFrame.dst, name) = Image(JoinPath(TopFrame.src, name))
  BY <1>1, ImageOfChild DEF SafeInv, PlaceInv
<1>5. g.src = JoinPath(TopFrame.src, name) /\ g.dst = Image(g.src) /\ ~g.opened /\ g.todo = {}
  BY <1>4 DEF PasteChild, Frame
<1>. HIDE DEF f, g
<1>6. IsSeq(low) /\ Len(low) = n /\ \A i \in 1 .. n : low[i] = IF i = n THEN f ELSE planStack[i]
  BY <1>1, SetTopFacts
<1>. HIDE DEF low
<1>7. planStack' = Append(low, g)
  BY <1>2 DEF Push, low, f, g
<1>8. IsSeq(planStack') /\ Len(planStack') = n + 1
      /\ (\A i \in 1 .. n : planStack'[i] = low[i]) /\ planStack'[n + 1] = g
  BY <1>6, <1>7, AppendFacts
<1>. HIDE DEF n
<1>9. (\A i \in 1 .. n - 1 : planStack'[i] = planStack[i]) /\ planStack'[n] = f
  BY <1>1, <1>6, <1>8
<1>. QED BY <1>3, <1>5, <1>8, <1>9 DEF n

\* opendir() of the folder on top.
LEMMA Opens ==
    ASSUME SafeInv, Pasting, WalkInv, PlanOpenDirectory, planStack' # planStack
    PROVE  /\ pc = "opendir"
           /\ IsSeq(planStack') /\ Len(planStack') = Len(planStack)
           /\ \A i \in 1 .. Len(planStack) - 1 : planStack'[i] = planStack[i]
           /\ LET f == planStack'[Len(planStack)]
              IN  /\ f.src = TopFrame.src /\ f.dst = TopFrame.dst
                  /\ f.opened /\ f.todo = NamesIn(TopFrame.src)
<1>. DEFINE f == OpenFrame(TopFrame, NamesIn(TopFrame.src))
<1>1. pc = "opendir" /\ planStack' = SetTop(planStack, f)
  BY DEF PlanOpenDirectory, Walking, Pasting, Pastes
<1>2. /\ planStack # <<>> /\ IsSeq(planStack) /\ Len(planStack) \in Nat \ {0}
      /\ DOMAIN TopFrame = {"src", "dst", "opened", "todo"}
  BY <1>1, TopFrameFacts
<1>3. f.src = TopFrame.src /\ f.dst = TopFrame.dst /\ f.opened /\ f.todo = NamesIn(TopFrame.src)
  BY <1>2 DEF OpenFrame
<1>. HIDE DEF f
<1>. QED BY <1>1, <1>2, <1>3, SetTopFacts

\* The top frame is done with.
LEMMA Pops ==
    ASSUME SafeInv, Pasting, WalkInv, PlanLeaveDirectory \/ PlanFile, planStack' # planStack
    PROVE  /\ pc = "frame"
           /\ IsSeq(planStack') /\ Len(planStack') = Len(planStack) - 1
           /\ \A i \in 1 .. Len(planStack) - 1 : planStack'[i] = planStack[i]
<1>1. pc = "frame" /\ planStack' = ButLast(planStack)
  BY DEF PlanLeaveDirectory, PlanFile, Walking, Pop
<1>. QED BY <1>1, TopFrameFacts, ButLastFacts

\* A paste does not plan a deletion.
LEMMA NoDeletion == ASSUME Pasting PROVE ~PlanDeleteLeaf
BY DEF Pasting, Pastes, PlanDeleteLeaf, Walking

\* Every step of the walk keeps the targets right.
LEMMA WalkSteps == ASSUME SafeInv, Pasting, WalkInv, [Next]_vars PROVE WalkInv'
<1>1. op' = op /\ op \in Operations
  BY SameOperation DEF SafeInv, PlaceInv
<1>. SUFFICES \A i \in 1 .. Len(planStack') :
                 /\ planStack'[i].dst = Image(planStack'[i].src)
                 /\ ~planStack'[i].opened => planStack'[i].todo = {}
  BY <1>1, SameTargets DEF WalkInv
<1>. DEFINE n == Len(planStack)
<1>2. CASE planStack' = planStack
  BY <1>2 DEF WalkInv
<1>3. CASE Start
  BY <1>1, <1>3, RootImages DEF Start
<1>4. CASE PlanOpenDirectory /\ planStack' # planStack
  <2>1. TopFrame.dst = Image(TopFrame.src) /\ n \in Nat
    BY <1>4, Opens, TopFrameFacts
  <2>. QED BY <1>4, <2>1, Opens DEF WalkInv
<1>5. CASE PlanDescend
  <2>1. TopFrame.dst = Image(TopFrame.src) /\ n \in Nat
        /\ (~TopFrame.opened => TopFrame.todo = {})
    BY <1>5, TopFrameFacts DEF PlanDescend
  <2>. QED BY <1>5, <2>1, Descends DEF WalkInv
<1>6. CASE (PlanLeaveDirectory \/ PlanFile) /\ planStack' # planStack
  <2>1. n \in Nat
    BY <1>6, Pops, TopFrameFacts
  <2>. QED BY <1>6, <2>1, Pops DEF WalkInv
<1>. QED BY <1>2, <1>3, <1>4, <1>5, <1>6, NoDeletion, PlanStackChanges

\* AddFileJob() lets one more file in.
LEMMA AddsJob ==
    ASSUME SafeInv, Pasting, PlanningInv, PlanFile, jobs' # jobs
    PROVE  /\ Len(jobs) \in Nat /\ Len(jobs') = Len(jobs) + 1
           /\ \A i \in 1 .. Len(jobs) : jobs'[i] = jobs[i]
           /\ jobs'[Len(jobs) + 1].src = TopFrame.src /\ jobs'[Len(jobs) + 1].dst = TopFrame.dst
           /\ IsRegular(TopFrame.src) /\ ~TopFrame.opened
           /\ ~TargetTaken(TopFrame.src, TopFrame.dst)
           /\ pc = "frame" /\ planStack' = Pop(planStack)
<1>. DEFINE job == [src |-> TopFrame.src, dst |-> TopFrame.dst]
<1>1. /\ jobs' = Append(jobs, job) /\ pc = "frame" /\ IsRegular(TopFrame.src)
      /\ ~TopFrame.opened /\ ~TargetTaken(TopFrame.src, TopFrame.dst)
      /\ planStack' = Pop(planStack)
  BY DEF PlanFile, Walking
<1>2. job.src = TopFrame.src /\ job.dst = TopFrame.dst
  OBVIOUS
<1>. HIDE DEF job
<1>3. IsSeq(jobs) /\ Len(jobs) \in Nat
  BY LenIsNat DEF SafeInv, MemoryInv, JobsExpendable
<1>. QED BY <1>1, <1>2, <1>3, AppendFacts

\* A file that is planned is a source, and its names are free.
LEMMA JobsInvSteps == ASSUME SafeInv, Pasting, PlanningInv, [Next]_vars PROVE JobsInv'
<1>1. op' = op /\ op \in Operations
  BY SameOperation DEF SafeInv, PlaceInv
<1>. SUFFICES \A i \in 1 .. Len(jobs') :
                 /\ BelowRoot(jobs'[i].src) /\ Found(jobs'[i].src)
                 /\ jobs'[i].src \in DOMAIN Disk0 => Disk0[jobs'[i].src] # Dir
                 /\ jobs'[i].dst = Image(jobs'[i].src)
                 /\ Fresh(jobs'[i].dst)
                 /\ TempPath(jobs'[i].dst) \notin DOMAIN Disk0
  BY <1>1, SameTargets DEF JobsInv, Fresh, Found, MayCome, BelowRoot
<1>2. CASE jobs' = jobs
  BY <1>2 DEF PlanningInv, JobsInv
<1>3. CASE PlanFile /\ jobs' # jobs
  <2>. DEFINE src == TopFrame.src
              dst == TopFrame.dst
  <2>1. /\ IsRegular(src) /\ ~TargetTaken(src, dst) /\ pc \in Before /\ pc = "frame"
    BY <1>3, AddsJob DEF Before, PlanPlaces
  <2>2. BelowRoot(src) /\ dst = Image(src)
    BY <2>1, TopFrameFacts DEF PlanningInv
  <2>3. src \in DOMAIN Disk0 => Disk0[src] # Dir
    BY <2>1, <2>2 DEF PlanningInv, PlanInv, IsRegular, Exists, Intact
  <2>4. Found(src)
    BY <2>1, <2>2 DEF PlanningInv, PlanInv, IsRegular, Exists, Found
  <2>5. \A p : ~Exists(p) => p \notin DOMAIN Disk0
    BY <2>1 DEF PlanningInv, PlanInv, Intact
  <2>6. TempPath(dst) \notin DOMAIN Disk0
    BY <2>1, <2>5 DEF TargetTaken
  <2>7. Fresh(dst)
    <3>1. CASE ~Exists(dst)
      BY <2>5, <3>1 DEF Fresh
    <3>2. CASE op.replace /\ src = op.roots[1]
      <4>1. dst = TargetOf(op.roots[1])
        BY <1>1, <2>2, <3>2, ImageOfRoot, RootsArePaths
      <4>. QED BY <3>2, <4>1 DEF Fresh
    <3>. QED BY <2>1, <3>1, <3>2 DEF TargetTaken
  <2>. HIDE DEF src, dst
  <2>8. ASSUME NEW i \in 1 .. Len(jobs') PROVE i \in 1 .. Len(jobs) \/ i = Len(jobs) + 1
    BY <1>3, AddsJob
  <2>. QED BY <1>3, <2>2, <2>3, <2>4, <2>6, <2>7, <2>8, AddsJob DEF PlanningInv, JobsInv, src, dst
<1>. QED BY <1>2, <1>3, JobsChange

\* The job at hand.
LEMMA JobFacts ==
    ASSUME SafeInv, Pasting, PlanningInv, pc \in InJob
    PROVE  /\ jobIndex \in 1 .. Len(jobs) /\ Len(jobs) \in Nat /\ Job = jobs[jobIndex]
           /\ BelowRoot(Job.src) /\ Found(Job.src)
           /\ Job.src \in DOMAIN Disk0 => Job.src \in Sources /\ Disk0[Job.src] # Dir
           /\ Job.dst = Image(Job.src) /\ Fresh(Job.dst)
           /\ Temp \notin DOMAIN Disk0
<1>1. jobIndex \in 1 .. Len(jobs) /\ op \in Operations /\ Len(jobs) \in Nat
  BY LenIsNat DEF SafeInv, PlaceInv, MemoryInv, JobsExpendable
<1>. QED BY <1>1, SourceFacts DEF PlanningInv, JobsInv, Job, Temp

\* What is remembered for a rollback was made by this paste.
LEMMA MadeSteps == ASSUME SafeInv, Pasting, PlanningInv, [Next]_vars PROVE MadeInv'
<1>1. jobIndex \in Nat /\ Len(jobs) \in Nat /\ IsSeq(createdFiles) /\ IsSeq(createdDirectories)
      /\ Len(createdFiles) \in Nat /\ Len(createdDirectories) \in Nat
  BY LenIsNat DEF SafeInv, PlaceInv, MemoryInv, JobsExpendable, AllExpendable
<1>2. jobIndex' \in Nat /\ jobIndex <= jobIndex'
  BY <1>1, JobIndexChanges DEF JobRecord
<1>3. Len(jobs') \in Nat /\ Len(jobs) <= Len(jobs') /\ \A k \in 1 .. Len(jobs) : jobs'[k] = jobs[k]
  BY <1>1, JobsChange, AddsJob
<1>4. ASSUME NEW i \in 1 .. Len(createdFiles)
      PROVE  \E k \in 1 .. Len(jobs') : k < jobIndex' /\ createdFiles[i] = jobs'[k].dst
  <2>1. PICK k \in 1 .. Len(jobs) : k < jobIndex /\ createdFiles[i] = jobs[k].dst
    BY DEF PlanningInv, MadeInv
  <2>2. k \in 1 .. Len(jobs') /\ k < jobIndex' /\ createdFiles[i] = jobs'[k].dst
    BY <1>1, <1>2, <1>3, <2>1
  <2>. QED BY <2>2
<1>5. \A i \in 1 .. Len(createdFiles') :
         \E k \in 1 .. Len(jobs') : k < jobIndex' /\ createdFiles'[i] = jobs'[k].dst
  <2>1. CASE createdFiles' = createdFiles
    BY <1>4, <2>1
  <2>2. CASE JobRecord
    <3>1. jobIndex \in 1 .. Len(jobs') /\ jobIndex < jobIndex' /\ Job.dst = jobs'[jobIndex].dst
      BY <1>1, <1>3, <2>2, JobFacts DEF JobRecord, InJob
    <3>2. /\ Len(createdFiles') = Len(createdFiles) + 1
          /\ \A i \in 1 .. Len(createdFiles) : createdFiles'[i] = createdFiles[i]
          /\ createdFiles'[Len(createdFiles) + 1] = Job.dst
      BY <1>1, <2>2, AppendFacts DEF JobRecord, Recorded
    <3>3. Len(createdFiles) \in Nat
      BY <1>1
    <3>4. ASSUME NEW i \in 1 .. Len(createdFiles')
          PROVE  \/ i \in 1 .. Len(createdFiles) /\ createdFiles'[i] = createdFiles[i]
                 \/ createdFiles'[i] = Job.dst
      BY ONLY <3>2, <3>3, <3>4
    <3>. QED BY ONLY <1>4, <3>1, <3>4
  <2>3. CASE UndoFile
    <3>1. /\ Len(createdFiles') = Len(createdFiles) - 1
          /\ \A i \in 1 .. Len(createdFiles) - 1 : createdFiles'[i] = createdFiles[i]
      BY <1>1, <2>3, ButLastFacts DEF UndoFile
    <3>2. Len(createdFiles) \in Nat
      BY <1>1
    <3>3. ASSUME NEW i \in 1 .. Len(createdFiles')
          PROVE  i \in 1 .. Len(createdFiles) /\ createdFiles'[i] = createdFiles[i]
      BY ONLY <3>1, <3>2, <3>3
    <3>. QED BY ONLY <1>4, <3>3
  <2>. QED BY <2>1, <2>2, <2>3, CreatedFilesChange
<1>6. \A i \in 1 .. Len(createdDirectories') : createdDirectories'[i] \notin DOMAIN Disk0
  <2>1. CASE createdDirectories' = createdDirectories
    BY <2>1 DEF PlanningInv, MadeInv
  <2>2. CASE PlanMakeDirectory /\ createdDirectories' # createdDirectories
    <3>1. /\ ~Exists(TopFrame.dst) /\ pc \in Before
          /\ createdDirectories' = Append(createdDirectories, TopFrame.dst)
      BY <2>2 DEF PlanMakeDirectory, Works, CanCreate, Walking, Before, PlanPlaces
    <3>2. TopFrame.dst \notin DOMAIN Disk0
      BY <3>1 DEF PlanningInv, PlanInv, Intact
    <3>3. /\ Len(createdDirectories') = Len(createdDirectories) + 1
          /\ \A i \in 1 .. Len(createdDirectories) : createdDirectories'[i] = createdDirectories[i]
          /\ createdDirectories'[Len(createdDirectories) + 1] = TopFrame.dst
      BY <1>1, <3>1, AppendFacts
    <3>. QED BY <1>1, <3>2, <3>3 DEF PlanningInv, MadeInv
  <2>3. CASE UndoDirectory
    <3>1. /\ Len(createdDirectories') = Len(createdDirectories) - 1
          /\ \A i \in 1 .. Len(createdDirectories) - 1 :
                createdDirectories'[i] = createdDirectories[i]
      BY <1>1, <2>3, ButLastFacts DEF UndoDirectory
    <3>. QED BY <1>1, <3>1 DEF PlanningInv, MadeInv
  <2>. QED BY <2>1, <2>2, <2>3, CreatedDirectoriesChange
<1>7. temporaryPath' = NoPath \/ temporaryPath' \notin DOMAIN Disk0
  <2>1. CASE JobOpenSource
    BY <2>1, JobFacts DEF JobOpenSource, InJob
  <2>. QED BY <2>1, TemporaryPathChanges DEF PlanningInv, MadeInv, JobRecord
<1>. QED BY <1>5, <1>6, <1>7 DEF MadeInv, NoPath

\* The file that replaces another stays alone.
LEMMA SingleSteps == ASSUME SafeInv, Pasting, PlanningInv, [Next]_vars PROVE SingleInv'
<1>. DEFINE root == op.roots[1]
<1>1. op' = op /\ op \in Operations /\ WalkInv
  BY SameOperation DEF SafeInv, PlaceInv, PlanningInv
<1>. SUFFICES ASSUME op.replace, root \in DOMAIN Disk0 => Disk0[root] # Dir
              PROVE  /\ Len(planStack') + Len(jobs') <= 1
                     /\ \A i \in 1 .. Len(planStack') : ~planStack'[i].opened
  BY <1>1 DEF SingleInv
<1>2. /\ Len(planStack) + Len(jobs) <= 1
      /\ \A i \in 1 .. Len(planStack) : ~planStack[i].opened
  BY DEF PlanningInv, SingleInv
<1>3. Len(planStack) \in Nat /\ Len(jobs) \in Nat /\ Len(op.roots) = 1 /\ IsSeq(root)
  BY <1>1, LenIsNat, RootsArePaths DEF SafeInv, MemoryInv, Frames, JobsExpendable
<1>. HIDE DEF root
<1>4. CASE planStack' = planStack /\ jobs' = jobs
  BY <1>2, <1>4
<1>5. CASE Start
  <2>1. jobs' = <<>> /\ planStack' = RootFrames
    BY <1>5 DEF Start, PlanningInv, PlanInv
  <2>2. Len(jobs') = 0 /\ Len(planStack') = 1
    BY <1>1, <1>3, <2>1, RootImages
  <2>. QED BY <1>1, <1>3, <2>1, <2>2, RootImages
<1>6. CASE PlanOpenDirectory
  <2>1. planStack' = planStack
    <3>1. SUFFICES ASSUME planStack' # planStack PROVE FALSE
      OBVIOUS
    <3>2. pc = "opendir"
      BY <1>1, <1>6, <3>1, Opens
    <3>3. TopFrame.src \in DOMAIN Disk0 /\ Disk0[TopFrame.src] = Dir
      BY <3>2 DEF PlanningInv, PlanInv
    <3>4. IsUnder(TopFrame.src, root)
      BY <1>1, <1>3, <3>2, TopFrameFacts DEF BelowRoot, root
    <3>. QED BY <1>3, <3>3, <3>4, WayDown
  <2>. QED BY <1>4, <1>6, <2>1 DEF PlanOpenDirectory
<1>7. CASE PlanDescend
  <2>1. TopFrame.todo # {} /\ pc = "frame"
    BY <1>1, <1>7, Descends DEF PlanDescend
  <2>2. TopFrame.opened /\ TopFrame = planStack[Len(planStack)] /\ Len(planStack) \in 1 .. Len(planStack)
    BY <1>1, <2>1, TopFrameFacts
  <2>. QED BY <1>2, <2>2
<1>8. CASE PlanLeaveDirectory
  <2>1. jobs' = jobs
    BY <1>8 DEF PlanLeaveDirectory
  <2>. QED BY <1>1, <1>2, <1>3, <1>4, <1>8, <2>1, Pops
<1>9. CASE PlanFile
  <2>1. CASE jobs' = jobs
    <3>1. planStack' = planStack \/ planStack' # planStack
      OBVIOUS
    <3>. QED BY <1>1, <1>2, <1>3, <1>4, <1>9, <2>1, <3>1, Pops
  <2>2. CASE jobs' # jobs
    <3>1. Len(jobs') = Len(jobs) + 1 /\ planStack' = ButLast(planStack) /\ pc = "frame"
      BY <1>9, <2>2, AddsJob DEF Pop
    <3>2. planStack # <<>> /\ IsSeq(planStack)
      BY <1>1, <3>1, TopFrameFacts
    <3>. QED BY <1>2, <1>3, <3>1, <3>2, ButLastFacts
  <2>. QED BY <2>1, <2>2
<1>. QED BY <1>4, <1>5, <1>6, <1>7, <1>8, <1>9, NoDeletion, PlanStackChanges, JobsChange

\* The planning is not gone back to.
LEMMA BeforeSteps ==
    ASSUME PlaceInv, [Next]_vars
    PROVE  /\ pc' \in Before => pc \in Before
           /\ pc' = "idle" => pc = "idle"
           /\ pc' = "opendir" => pc = "opendir" \/ PlanMakeDirectory
<1>. USE DEF Before, PlanPlaces
<1>1. CASE Start \/ Cancel \/ Gone \/ UNCHANGED vars
  BY <1>1 DEF Start, Cancel, Gone, vars
<1>2. CASE PlanStep
  BY <1>2 DEF PlanStep, PlanTop, PlanRefused, PlanMakeDirectory, PlanOpenDirectory, PlanDescend,
     PlanLeaveDirectory, PlanFile, PlanDeleteLeaf, Planned, Walking, CompleteOperation, Fail, Undo
<1>3. CASE JobStep
  BY <1>3 DEF JobStep, JobTop, JobOpenSource, JobOpenTarget, JobNoResources, JobTransfer,
     JobTransferred, JobDiscard, JobFinalize, JobRename, JobRecord, CompleteOperation, Fail, Undo
<1>4. CASE DeleteTop \/ DeleteItem \/ UndoStep \/ End
  BY <1>4 DEF DeleteTop, DeleteItem, UndoStep, UndoTemp, UndoFile, UndoDirectory, UndoEnd, Fail,
     Undo, End, PlaceInv, Returning
<1>5. CASE RemoveStep
  BY <1>5 DEF RemoveStep, RemoveMissing, RemoveOpen, RemoveDescend, RemoveItem, RemoveNextRoot,
     Removing, PlaceInv, Returning
<1>. QED BY <1>1, <1>2, <1>3, <1>4, <1>5 DEF Next, WorkerStep

\* mkdir() of the copy of a folder.
LEMMA MakesDirectory ==
    ASSUME SafeInv, Pasting, PlanningInv, PlanMakeDirectory, fs' # fs \/ pc' = "opendir"
    PROVE  /\ pc = "frame" /\ pc' = "opendir" /\ planStack' = planStack /\ ~TopFrame.opened
           /\ ~Exists(TopFrame.dst) /\ fs' = Put(TopFrame.dst, Dir)
           /\ ~BelowRoot(TopFrame.dst)
           /\ TopFrame.src \in DOMAIN Disk0 /\ Disk0[TopFrame.src] = Dir
<1>5. pc = "frame" /\ ~TopFrame.opened /\ IsDir(TopFrame.src) /\ planStack' = planStack
  BY DEF PlanMakeDirectory, Walking
<1>6. \/ ~Exists(TopFrame.dst) /\ fs' = Put(TopFrame.dst, Dir) /\ pc' = "opendir"
      \/ fs' = fs /\ pc' = "undoTemp"
  BY ONLY PlanMakeDirectory DEF PlanMakeDirectory, Works, CanCreate, Fail, Undo
<1>1. /\ pc = "frame" /\ pc' = "opendir" /\ planStack' = planStack /\ ~TopFrame.opened
      /\ ~Exists(TopFrame.dst) /\ fs' = Put(TopFrame.dst, Dir) /\ IsDir(TopFrame.src)
  BY <1>5, <1>6
<1>2. BelowRoot(TopFrame.src) /\ TopFrame.dst = Image(TopFrame.src) /\ op \in Operations
  BY <1>1, TopFrameFacts DEF PlanningInv, SafeInv, PlaceInv
<1>3. ~BelowRoot(TopFrame.dst)
  BY <1>1, <1>2, ImageApart DEF IsDir
<1>4. TopFrame.src \in DOMAIN Disk0 /\ Disk0[TopFrame.src] = Dir
  BY <1>1, <1>2 DEF PlanningInv, PlanInv, Before, PlanPlaces, IsDir, Exists, Intact
<1>. QED BY <1>1, <1>3, <1>4

\* What the planning adds to the disk is nobody's.
LEMMA PlanSteps == ASSUME SafeInv, Pasting, PlanningInv, [Next]_vars PROVE PlanInv'
<1>. USE DEF PlanningInv
<1>1. op' = op /\ op \in Operations /\ PlaceInv
  BY SameOperation DEF SafeInv, PlaceInv
<1>2. ASSUME pc' \in Before
      PROVE  /\ \A p \in DOMAIN Disk0 : Intact(p)'
             /\ \A p \in DOMAIN fs' :
                   p \in DOMAIN Disk0 \/ ~BelowRoot(p)' \/ (MayCome(p)' /\ fs'[p] # Dir)
             /\ jobIndex' = 1
  <2>1. pc \in Before
    BY <1>1, <1>2, BeforeSteps
  <2>2. /\ \A p \in DOMAIN Disk0 : Intact(p)
        /\ \A p \in DOMAIN fs :
              p \in DOMAIN Disk0 \/ ~BelowRoot(p) \/ (MayCome(p) /\ fs[p] # Dir)
        /\ jobIndex = 1
    BY <2>1 DEF PlanInv
  <2>3. jobIndex' = 1
    BY <2>1, <2>2, JobIndexChanges DEF JobRecord, Before, PlanPlaces
  <2>4. CASE fs' = fs
    BY <1>1, <2>2, <2>3, <2>4 DEF Intact, Exists, BelowRoot, MayCome
  <2>5. CASE PlanMakeDirectory /\ fs' # fs
    <3>1. /\ ~Exists(TopFrame.dst) /\ fs' = Put(TopFrame.dst, Dir) /\ ~BelowRoot(TopFrame.dst)
      BY <2>5, MakesDirectory
    <3>. QED BY <1>1, <2>2, <2>3, <3>1 DEF Put, Intact, Exists, BelowRoot, MayCome
  <2>6. fs' = fs \/ PlanMakeDirectory
    BY <2>1, DiskChanges DEF Before, PlanPlaces, UndoTemp, UndoFile, UndoDirectory, RemoveItem,
       Removing, JobOpenTarget, JobTransfer, JobDiscard, JobRename, DeleteItem
  <2>. QED BY <2>4, <2>5, <2>6
<1>3. pc' = "idle" => jobs' = <<>>
  BY <1>1, BeforeSteps, JobsChange DEF PlanInv, PlanFile, Walking
<1>4. ASSUME pc' = "opendir"
      PROVE  /\ ~TopFrame.opened'
             /\ Exists(TopFrame.dst)' /\ fs'[TopFrame.dst'] = Dir
             /\ TopFrame.src' \in DOMAIN Disk0 /\ Disk0[TopFrame.src'] = Dir
  <2>1. CASE PlanMakeDirectory
    <3>1. TopFrame' = TopFrame /\ fs' = Put(TopFrame.dst, Dir) /\ ~TopFrame.opened
          /\ TopFrame.src \in DOMAIN Disk0 /\ Disk0[TopFrame.src] = Dir
      BY <1>4, <2>1, MakesDirectory DEF TopFrame
    <3>. QED BY <3>1 DEF Put, Exists
  <2>2. CASE pc = "opendir" /\ ~PlanMakeDirectory
    <3>1. planStack' = planStack
      BY <1>4, <2>2, PlanStackChanges DEF Start, PlanOpenDirectory, PlanDescend, PlanLeaveDirectory,
         PlanFile, PlanDeleteLeaf, Walking, Fail, Undo
    <3>2. fs' = fs
      BY <2>2, DiskChanges DEF UndoTemp, UndoFile, UndoDirectory, RemoveItem,
         Removing, JobOpenTarget, JobTransfer, JobDiscard, JobRename, DeleteItem
    <3>3. TopFrame' = TopFrame
      BY <3>1 DEF TopFrame
    <3>. QED BY <2>2, <3>2, <3>3 DEF PlanInv, Exists
  <2>. QED BY <1>1, <1>4, <2>1, <2>2, BeforeSteps
<1>. QED BY <1>2, <1>3, <1>4 DEF PlanInv

\* A rollback has a reason.
LEMMA UndoSteps == ASSUME SafeInv, Pasting, PlanningInv, [Next]_vars PROVE UndoInv'
<1>1. jobIndex \in Nat \ {0} /\ IsSeq(jobs) /\ Len(jobs) \in Nat /\ (jobs # <<>> <=> Len(jobs) # 0)
      /\ (pc \in InJob => jobIndex \in 1 .. Len(jobs))
  BY LenIsNat DEF SafeInv, PlaceInv, MemoryInv, JobsExpendable
<1>2. pc \in PlanPlaces => jobIndex = 1
  BY DEF PlanningInv, PlanInv, Before
<1>3. UndoInv /\ PlaceInv /\ op.kind # "Delete"
  BY DEF PlanningInv, SafeInv, Pasting, Pastes
<1>. USE DEF PlanPlaces, InJob
<1>4. CASE Start
  BY ONLY <1>4 DEF Start, UndoInv
<1>5. CASE Cancel
  BY ONLY <1>3, <1>5 DEF Cancel, UndoInv
<1>6. CASE Gone \/ UNCHANGED vars
  BY ONLY <1>3, <1>6 DEF Gone, vars, UndoInv
<1>7. ASSUME pc \in PlanPlaces, jobs' = jobs, jobIndex' = jobIndex,
             \/ pc' \in {"planTop", "frame", "opendir", "planned", "remove"}
             \/ pc' = "undoTemp" /\ after' = [state |-> "Failed", pc |-> "planned"]
      PROVE  UndoInv'
  <2>1. ~(jobs' # <<>> /\ jobIndex' > Len(jobs'))
    BY <1>1, <1>2, <1>7
  <2>. QED BY ONLY <1>7, <2>1 DEF UndoInv
<1>8. CASE PlanTop
  <2>1. pc \in PlanPlaces /\ jobs' = jobs /\ jobIndex' = jobIndex
    BY ONLY <1>8 DEF PlanTop
  <2>2. \/ pc' \in {"planTop", "frame", "opendir", "planned", "remove"}
        \/ pc' = "undoTemp" /\ after' = [state |-> "Failed", pc |-> "planned"]
    BY ONLY <1>8 DEF PlanTop, CompleteOperation, Fail, Undo
  <2>. QED BY <1>7, <2>1, <2>2
<1>9. CASE PlanRefused
  <2>1. pc \in PlanPlaces /\ jobs' = jobs /\ jobIndex' = jobIndex
    BY ONLY <1>9 DEF PlanRefused
  <2>2. pc' = "undoTemp" /\ after' = [state |-> "Failed", pc |-> "planned"]
    BY ONLY <1>9 DEF PlanRefused, Fail, Undo
  <2>. QED BY <1>7, <2>1, <2>2
<1>10. CASE PlanMakeDirectory
  <2>1. pc \in PlanPlaces /\ jobs' = jobs /\ jobIndex' = jobIndex
    BY ONLY <1>10 DEF PlanMakeDirectory, Walking
  <2>2. \/ pc' = "opendir"
        \/ pc' = "undoTemp" /\ after' = [state |-> "Failed", pc |-> "planned"]
    BY ONLY <1>10 DEF PlanMakeDirectory, Fail, Undo
  <2>. QED BY <1>7, <2>1, <2>2
<1>11. CASE PlanOpenDirectory
  <2>1. pc \in PlanPlaces /\ jobs' = jobs /\ jobIndex' = jobIndex
    BY ONLY <1>11 DEF PlanOpenDirectory, Walking
  <2>2. \/ pc' = "planTop"
        \/ pc' = "undoTemp" /\ after' = [state |-> "Failed", pc |-> "planned"]
    BY ONLY <1>11 DEF PlanOpenDirectory, Fail, Undo
  <2>. QED BY <1>7, <2>1, <2>2
<1>12. CASE PlanDescend \/ PlanLeaveDirectory
  <2>1. pc \in PlanPlaces /\ jobs' = jobs /\ jobIndex' = jobIndex /\ pc' = "planTop"
    BY ONLY <1>12 DEF PlanDescend, PlanLeaveDirectory
  <2>. QED BY <1>7, <2>1
<1>13. CASE PlanFile
  <2>1. \/ pc' = "planTop"
        \/ pc' = "undoTemp" /\ after' = [state |-> "Failed", pc |-> "planned"] /\ jobs' = jobs
    BY ONLY <1>13 DEF PlanFile, Fail, Undo
  <2>2. pc \in PlanPlaces /\ jobIndex' = jobIndex
    BY ONLY <1>13 DEF PlanFile, Walking
  <2>3. CASE pc' = "planTop"
    BY ONLY <2>3 DEF UndoInv
  <2>. QED BY <1>7, <2>1, <2>2, <2>3
<1>14. CASE Planned
  <2>1. \/ pc' \in {"end", "jobTop"}
        \/ pc' = "undoTemp" /\ after' = [state |-> "Canceled", pc |-> "done"] /\ cancelRequested'
    BY ONLY <1>3, <1>14 DEF Planned, Undo
  <2>. QED BY ONLY <2>1 DEF UndoInv
<1>15. CASE JobTop
  <2>1. \/ pc' \in {"end", "remove", "jobPrepare"}
        \/ pc' = "undoTemp" /\ after' = [state |-> "Canceled", pc |-> "end"] /\ cancelRequested'
    BY ONLY <1>15 DEF JobTop, StopCopying, CompleteOperation, Undo
  <2>. QED BY ONLY <2>1 DEF UndoInv
<1>16. ASSUME pc \in InJob, jobs' = jobs, jobIndex' = jobIndex,
              pc' \in InJob \cup {"jobTop", "undoTemp"},
              pc' \in {"jobDiscard", "undoTemp"} => after'.pc = "end"
       PROVE  UndoInv'
  <2>1. ~(jobs' # <<>> /\ jobIndex' > Len(jobs'))
    BY <1>1, <1>16
  <2>. QED BY ONLY <1>16, <2>1 DEF UndoInv
<1>17. CASE JobOpenSource \/ JobOpenTarget
  <2>1. pc \in InJob /\ jobs' = jobs /\ jobIndex' = jobIndex
    BY ONLY <1>17 DEF JobOpenSource, JobOpenTarget
  <2>2. \/ pc' \in {"jobOpenTarget", "jobTransfer"}
        \/ pc' = "undoTemp" /\ after' = [state |-> "Failed", pc |-> "end"]
    BY ONLY <1>17 DEF JobOpenSource, JobOpenTarget, Fail, Undo
  <2>. QED BY <1>16, <2>1, <2>2
<1>18. CASE JobNoResources \/ JobTransfer \/ JobTransferred
  <2>1. pc \in InJob /\ jobs' = jobs /\ jobIndex' = jobIndex
    BY ONLY <1>18 DEF JobNoResources, JobTransfer, JobTransferred
  <2>2. \/ pc' \in {"jobTransferred", "jobFinalize"}
        \/ pc' = "jobDiscard" /\ \E s : after' = [state |-> s, pc |-> "end"]
    BY ONLY <1>18 DEF JobNoResources, JobTransfer, JobTransferred
  <2>. QED BY <1>16, <2>1, <2>2
<1>19. CASE JobFinalize \/ JobRename
  <2>1. pc \in InJob /\ jobs' = jobs /\ jobIndex' = jobIndex
    BY ONLY <1>19 DEF JobFinalize, JobRename
  <2>2. \/ pc' \in {"jobRename", "jobRecord"}
        \/ pc' = "jobDiscard" /\ after' = [state |-> "Failed", pc |-> "end"]
    BY ONLY <1>19 DEF JobFinalize, JobRename
  <2>. QED BY <1>16, <2>1, <2>2
<1>20. CASE JobDiscard
  <2>1. pc = "jobDiscard" /\ jobs' = jobs /\ jobIndex' = jobIndex /\ pc' = "undoTemp" /\ after' = after
    BY ONLY <1>20 DEF JobDiscard
  <2>2. after'.pc = "end"
    BY ONLY <1>3, <2>1 DEF UndoInv
  <2>. QED BY <1>16, <2>1, <2>2
<1>21. CASE JobRecord
  <2>1. pc' = "jobTop"
    BY ONLY <1>21 DEF JobRecord
  <2>. QED BY ONLY <2>1 DEF UndoInv
<1>22. CASE DeleteTop \/ DeleteItem \/ End
  <2>1. pc' = "done"
    BY ONLY <1>3, <1>22 DEF DeleteTop, DeleteItem, End, UndoInv
  <2>. QED BY ONLY <2>1 DEF UndoInv
<1>23. CASE UndoTemp \/ UndoFile \/ UndoDirectory
  <2>1. /\ pc \in {"undoTemp", "undo"} /\ pc' = "undo" /\ after' = after /\ jobs' = jobs
        /\ jobIndex' = jobIndex /\ cancelRequested' = cancelRequested
    BY ONLY <1>23 DEF UndoTemp, UndoFile, UndoDirectory
  <2>. QED BY ONLY <1>3, <2>1 DEF UndoInv
<1>24. CASE UndoEnd \/ RemoveStep
  <2>1. pc \in Returning /\ pc' \in {"remove", after.pc}
    BY ONLY <1>24 DEF UndoEnd, RemoveStep, RemoveMissing, RemoveOpen, RemoveDescend, RemoveItem,
       RemoveNextRoot, Removing, Returning
  <2>2. pc' \in {"remove", "planned", "end", "done"}
    BY ONLY <1>3, <2>1 DEF PlaceInv
  <2>. QED BY ONLY <2>2 DEF UndoInv
<1>. QED BY <1>4, <1>5, <1>6, <1>8, <1>9, <1>10, <1>11, <1>12, <1>13, <1>14, <1>15, <1>17, <1>18,
         <1>19, <1>20, <1>21, <1>22, <1>23, <1>24, NoDeletion
         DEF Next, WorkerStep, PlanStep, JobStep, UndoStep

\* Together.
LEMMA PlanningSteps ==
    ASSUME SafeInv, Pasting, PlanningInv, [Next]_vars PROVE PlanningInv'
BY WalkSteps, JobsInvSteps, MadeSteps, SingleSteps, PlanSteps, UndoSteps DEF PlanningInv

(***************************************************************************)
(* What has been copied, and what is lost.                                 *)
(***************************************************************************)
\* The walk will still come to p.
Walks(f, p) ==
    /\ IsUnder(p, f.src)
    /\ f.opened => \E name \in f.todo : IsUnder(p, JoinPath(f.src, name))
Awaited(p) == \E i \in 1 .. Len(planStack) : Walks(planStack[i], p)

\* Where the paste goes on, and does not take back what it has done.
Active ==
    \/ pc \in PlanPlaces
    \/ pc \in Copying
    \/ pc = "planned" /\ state # "Failed" /\ ~cancelRequested

\* Every source is still to be found, is a folder that has its copy, or is the
\* source of a job, which has arrived when the job is done.
ProgressInv ==
    Active =>
        /\ pc \notin PlanPlaces => planStack = <<>>
        /\ \A p \in Sources : \/ Awaited(p)
                              \/ Disk0[p] = Dir /\ Arrived(p)
                              \/ \E j \in 1 .. Len(jobs) : jobs[j].src = p
        /\ \A j \in 1 .. Len(jobs) :
              /\ j < jobIndex \/ (j = jobIndex /\ pc = "jobRecord")
              /\ jobs[j].src \in Sources
              => Arrived(jobs[j].src)

\* What has its copy while a job is done: the folders, and the files of the jobs
\* before it.
Settled(p) == Disk0[p] = Dir \/ \E k \in 1 .. Len(jobs) : k < jobIndex /\ jobs[k].src = p

\* The temporary file is none of the copies, and is whole when it gets its name.
TempInv ==
    /\ pc \in {"jobTransfer", "jobTransferred", "jobFinalize", "jobRename"} =>
          \A p \in Sources : Settled(p) => Image(p) # Temp
    /\ \/ pc \in {"jobFinalize", "jobRename"}
       \/ pc = "jobTransferred" /\ ~hasError /\ ~cancelRequested
       => Exists(Temp) /\ (Job.src \in Sources => fs[Temp] = Disk0[Job.src])

\* Everything has arrived, and nothing will be taken back, unless a move of
\* folders without a file is canceled, which has no job that could notice.
SafePlaces == {"remove", "planned", "jobTop", "end", "done"}
Safe ==
    /\ AllArrived /\ planStack = <<>>
    /\ pc \in SafePlaces
    /\ pc \in {"planned", "jobTop"} \/ (pc = "remove" /\ after.pc = "planned") =>
          jobs = <<>> /\ \A p \in Sources : Disk0[p] = Dir

\* A move removes its sources when all of them have arrived.
LossInv ==
    op.kind = "Move" =>
        /\ BeyondUndoing \/ (\A p \in Sources : Intact(p)) \/ Safe
        /\ pc = "remove" => Safe

PasteInv == Pasting => /\ PlanningInv /\ ProgressInv /\ TempInv /\ LossInv
                       /\ ReplaceIsAtomic

\* A move may not write to any of its sources, a copy only to the file that is
\* its own target.
LEMMA FreshSource ==
    ASSUME op \in Operations, Pasting, NEW p \in Sources, Fresh(p)
    PROVE  op.kind = "Copy" /\ op.replace /\ p = TargetOf(op.roots[1]) /\ p = op.roots[1]
<1>1. op.replace /\ p = TargetOf(op.roots[1]) /\ p \in DOMAIN Disk0 /\ BelowRoot(p)
  BY SourceFacts DEF Fresh
<1>2. PICK j \in 1 .. Len(op.roots) : IsUnder(p, op.roots[j])
  BY <1>1 DEF BelowRoot
<1>3. j = 1 /\ 1 \in 1 .. Len(op.roots)
  BY <1>1, <1>2, RootsArePaths
<1>. QED BY <1>1, <1>2, <1>3, PasteFacts

\* The source of the job at hand is there, as it was.
LEMMA JobSourceIntact ==
    ASSUME SafeInv, Pasting, PlanningInv, LossInv, ReplaceIsAtomic, pc \in InJob,
           Job.src \in Sources
    PROVE  Intact(Job.src)
<1>. DEFINE p == Job.src
<1>1. /\ jobIndex \in 1 .. Len(jobs) /\ Len(jobs) \in Nat
      /\ p \in Sources /\ p \in DOMAIN Disk0 /\ Disk0[p] # Dir /\ op \in Operations
  BY JobFacts DEF Sources, SafeInv, PlaceInv
<1>. HIDE DEF p
<1>2. CASE op.kind = "Move"
  <2>1. ~Safe
    BY DEF Safe, SafePlaces, InJob
  <2>2. ~BeyondUndoing
    <3>1. SUFFICES ASSUME op.replace, TargetOf(op.roots[1]) = op.roots[1] PROVE FALSE
      BY <1>1 DEF BeyondUndoing
    <3>2. 1 \in 1 .. Len(op.roots) /\ IsSeq(op.roots[1])
      BY <1>1, RootsArePaths
    <3>3. IsUnder(TargetOf(op.roots[1]), op.roots[1])
      BY <3>1, <3>2, UnderSelf
    <3>. QED BY <1>1, <1>2, <3>2, <3>3, PasteFacts
  <2>. QED BY <1>1, <1>2, <2>1, <2>2 DEF LossInv, p
<1>3. CASE op.kind # "Move"
  <2>1. op.kind = "Copy"
    BY <1>3 DEF Pasting, Pastes
  <2>2. CASE op.replace /\ p = TargetOf(op.roots[1])
    <3>1. p = op.roots[1]
      BY <1>1, <2>2, FreshSource DEF Fresh
    <3>2. Exists(p) /\ fs[p] \in {Disk0[p], Disk0[op.roots[1]]}
      BY <1>1, <2>2 DEF ReplaceIsAtomic
    <3>. QED BY <3>1, <3>2 DEF Intact, p
  <2>. QED BY <1>1, <2>1, <2>2 DEF SafeInv, BystandersUntouched, p
<1>. QED BY <1>2, <1>3

\* Nothing happens to p.
Same(p) == /\ p \in DOMAIN fs' <=> p \in DOMAIN fs
           /\ p \in DOMAIN fs => fs'[p] = fs[p]

\* What a call does to the other paths.
LEMMA OthersSame ==
    ASSUME NEW p, NEW q, p # q
    PROVE  /\ \A node : fs' = Put(q, node) => Same(p)
           /\ fs' = Drop(q) => Same(p)
           /\ fs' = fs => Same(p)
           /\ \A r : p # r /\ fs' = Renamed(r, q) => Same(p)
BY DEF Same, Put, Drop, Renamed

\* What is intact or has arrived stays so when nothing happens to it.
LEMMA SameKeeps ==
    ASSUME op' = op, NEW p
    PROVE  /\ Same(p) /\ Intact(p) => Intact(p)'
           /\ Same(Image(p)) /\ Arrived(p) => Arrived(p)'
<1>1. Image(p)' = Image(p)
  BY SameTargets
<1>2. Same(p) /\ Intact(p) => Intact(p)'
  BY DEF Same, Intact, Exists
<1>. DEFINE q == Image(p)
<1>3. Arrived(p) <=> q \in DOMAIN fs /\ fs[q] = Disk0[p]
  BY DEF Arrived, Exists
<1>4. Arrived(p)' <=> q \in DOMAIN fs' /\ fs'[q] = Disk0[p]
  BY <1>1 DEF Arrived, Exists
<1>. HIDE DEF q
<1>5. Same(q) /\ Arrived(p) => Arrived(p)'
  BY <1>3, <1>4 DEF Same
<1>. QED BY <1>2, <1>5 DEF q

\* What was there when the paste started only changes when a move removes its
\* sources, or when it is the file that is replaced, or taken back.
LEMMA OldChanges ==
    ASSUME SafeInv, Pasting, PlanningInv, [Next]_vars, NEW p \in DOMAIN Disk0
    PROVE  \/ Same(p)
           \/ /\ pc = "remove" /\ op.kind = "Move" /\ BelowRoot(p)
           \/ /\ UndoFile /\ createdFiles # <<>>
              /\ p = Top(createdFiles) /\ Fresh(p)
              /\ \E k \in 1 .. Len(jobs) : k < jobIndex /\ p = jobs[k].dst
           \/ /\ JobRename /\ pc = "jobRename" /\ p = Job.dst /\ Fresh(p) /\ Exists(Temp)
              /\ p \in DOMAIN fs' /\ fs'[p] = fs[Temp]
<1>1. /\ PlaceInv /\ MemoryInv /\ MadeInv /\ PlanInv /\ UndoInv /\ op \in Operations
      /\ \A s : IsSeq(s) /\ s # <<>> => Len(s) \in 1 .. Len(s)
  BY LenIsNat DEF SafeInv, PlaceInv, PlanningInv
<1>2. pc \in InJob => Temp \notin DOMAIN Disk0 /\ Fresh(Job.dst) /\ p # Temp
  BY JobFacts
<1>3. CASE fs' = fs
  BY ONLY <1>3 DEF Same
<1>4. CASE UndoTemp
  <2>1. fs' = fs \/ (fs' = Drop(temporaryPath) /\ temporaryPath # NoPath)
    BY ONLY <1>4 DEF UndoTemp, TryUnlink
  <2>2. temporaryPath # NoPath => p # temporaryPath
    BY <1>1 DEF MadeInv
  <2>3. Same(p)
    BY ONLY <2>1, <2>2 DEF Same, Drop
  <2>. QED BY <2>3
<1>5. CASE UndoFile
  <2>1. createdFiles # <<>> /\ (fs' = fs \/ fs' = Drop(Top(createdFiles)))
    BY ONLY <1>5 DEF UndoFile, TryUnlink
  <2>2. CASE p = Top(createdFiles)
    <3>1. Len(createdFiles) \in 1 .. Len(createdFiles)
      BY <1>1, <2>1 DEF MemoryInv, AllExpendable
    <3>2. PICK k \in 1 .. Len(jobs) : k < jobIndex /\ p = jobs[k].dst
      BY <1>1, <2>2, <3>1 DEF MadeInv, Top
    <3>3. Fresh(p)
      BY <3>2 DEF PlanningInv, JobsInv
    <3>. QED BY <1>5, <2>1, <2>2, <3>2, <3>3
  <2>. QED BY <2>1, <2>2, OthersSame
<1>6. CASE UndoDirectory
  <2>1. createdDirectories # <<>> /\ (fs' = fs \/ fs' = Drop(Top(createdDirectories)))
    BY ONLY <1>6 DEF UndoDirectory, TryRmdir
  <2>2. p # Top(createdDirectories)
    BY <1>1, <2>1 DEF MemoryInv, AllExpendable, MadeInv, Top
  <2>. QED BY <2>1, <2>2, OthersSame
<1>7. CASE RemoveItem
  <2>1. /\ pc = "remove" /\ removeStack # <<>>
        /\ fs' = fs \/ fs' = Drop(Top(removeStack).src)
    BY ONLY <1>7 DEF RemoveItem, Removing
  <2>2. op.kind = "Move" /\ BelowRoot(Top(removeStack).src)
    BY <1>1, <2>1, PopFrames DEF PlaceInv, MemoryInv, FrameOK
  <2>. QED BY <2>1, <2>2, OthersSame
<1>8. CASE PlanMakeDirectory /\ fs' # fs
  <2>1. ~Exists(TopFrame.dst) /\ fs' = Put(TopFrame.dst, Dir) /\ pc = "frame"
    BY <1>8, MakesDirectory
  <2>2. p # TopFrame.dst
    BY <1>1, <2>1 DEF PlanInv, Before, PlanPlaces, Intact
  <2>. QED BY <2>1, <2>2, OthersSame
<1>9. CASE JobOpenTarget \/ JobTransfer \/ JobDiscard
  <2>1. pc \in InJob /\ (fs' = fs \/ fs' = Drop(Temp) \/ \E node : fs' = Put(Temp, node))
    BY ONLY <1>9 DEF JobOpenTarget, JobTransfer, JobDiscard, TryUnlink, InJob
  <2>. QED BY <1>2, <2>1, OthersSame
<1>10. CASE JobRename
  <2>1. /\ pc = "jobRename"
        /\ fs' = fs \/ (Exists(Temp) /\ fs' = Renamed(Temp, Job.dst))
    BY ONLY <1>10 DEF JobRename, Works, CanRename
  <2>2. p # Temp /\ Fresh(Job.dst)
    BY <1>2, <2>1 DEF InJob
  <2>3. CASE p = Job.dst /\ fs' = Renamed(Temp, Job.dst) /\ Exists(Temp)
    <3>1. p \in DOMAIN fs' /\ fs'[p] = fs[Temp]
      BY ONLY <2>3 DEF Renamed
    <3>. QED BY <1>10, <2>1, <2>2, <2>3, <3>1
  <2>. QED BY <2>1, <2>2, <2>3, OthersSame
<1>11. ~DeleteItem
  BY <1>1 DEF DeleteItem, UndoInv
<1>. QED BY <1>3, <1>4, <1>5, <1>6, <1>7, <1>8, <1>9, <1>10, <1>11, DiskChanges

\* A cancellation is not taken back.
LEMMA StaysCanceled == ASSUME [Next]_vars, cancelRequested PROVE cancelRequested'
BY DEF Next, vars, WorkerStep, PlanStep, JobStep, UndoStep, RemoveStep, Start, Cancel, Gone,
   PlanTop, PlanRefused, PlanMakeDirectory, PlanOpenDirectory, PlanDescend, PlanLeaveDirectory,
   PlanFile, PlanDeleteLeaf, Planned, JobTop, JobOpenSource, JobOpenTarget, JobNoResources,
   JobTransfer, JobTransferred, JobDiscard, JobFinalize, JobRename, JobRecord, DeleteTop,
   DeleteItem, UndoTemp, UndoFile, UndoDirectory, UndoEnd, RemoveMissing, RemoveOpen,
   RemoveDescend, RemoveItem, RemoveNextRoot, End

\* The jobs are what they were when the first is begun.
LEMMA JobsStay ==
    ASSUME SafeInv, Pasting, PlanningInv, [Next]_vars
    PROVE  /\ Len(jobs) \in Nat /\ Len(jobs') \in Nat /\ Len(jobs) <= Len(jobs')
           /\ \A k \in 1 .. Len(jobs) : jobs'[k] = jobs[k]
           /\ jobIndex \in Nat \ {0} /\ jobIndex' \in Nat \ {0} /\ jobIndex <= jobIndex'
           /\ jobs' = jobs \/ (pc = "frame" /\ jobIndex = 1 /\ jobIndex' = 1)
           /\ jobIndex' = jobIndex \/ (jobIndex' = jobIndex + 1 /\ JobRecord)
<1>1. Len(jobs) \in Nat /\ jobIndex \in Nat \ {0}
  BY LenIsNat DEF SafeInv, PlaceInv, MemoryInv, JobsExpendable
<1>2. \/ jobIndex' = jobIndex
      \/ jobIndex' = jobIndex + 1 /\ JobRecord
  BY JobIndexChanges DEF JobRecord
<1>3. CASE jobs' = jobs
  BY <1>1, <1>2, <1>3
<1>4. CASE jobs' # jobs
  <2>1. PlanFile
    BY <1>4, JobsChange
  <2>2. pc = "frame" /\ jobIndex = 1 /\ jobIndex' = jobIndex
    BY <2>1 DEF PlanFile, Walking, PlanningInv, PlanInv, Before, PlanPlaces
  <2>. QED BY <1>1, <1>4, <2>1, <2>2, AddsJob
<1>. QED BY <1>3, <1>4

\* The file that is replaced is there in its old or its new version.
LEMMA ReplaceSteps ==
    ASSUME SafeInv, Pasting, PlanningInv, TempInv, ReplaceIsAtomic, [Next]_vars
    PROVE  ReplaceIsAtomic'
<1>. DEFINE root == op.roots[1]
            dst == TargetOf(root)
<1>1. op' = op /\ op \in Operations
  BY SameOperation DEF SafeInv, PlaceInv
<1>2. root' = root /\ dst' = dst
  BY <1>1 DEF TargetOf
<1>. SUFFICES ASSUME op.replace, dst \in DOMAIN Disk0,
                     ~(cancelRequested' /\ jobs' # <<>> /\ jobIndex' > Len(jobs'))
              PROVE  dst \in DOMAIN fs' /\ fs'[dst] \in {Disk0[dst], Disk0[root]}
  BY <1>1, <1>2 DEF ReplaceIsAtomic, Exists
<1>3. IsSeq(jobs) /\ IsSeq(jobs')
  BY SafeSteps DEF SafeInv, MemoryInv, JobsExpendable
<1>4. ~(cancelRequested /\ jobs # <<>> /\ jobIndex > Len(jobs))
  BY <1>3, StaysCanceled, JobsStay, LenIsNat
<1>5. dst \in DOMAIN fs /\ fs[dst] \in {Disk0[dst], Disk0[root]}
  BY <1>4 DEF ReplaceIsAtomic, Exists
<1>6. 1 \in 1 .. Len(op.roots) /\ BelowRoot(root) /\ dst = Image(root)
  BY <1>1, RootsArePaths, ImageOfRoot
<1>7. ASSUME NEW k \in 1 .. Len(jobs), jobs[k].dst = dst PROVE jobs[k].src = root
  <2>1. BelowRoot(jobs[k].src) /\ jobs[k].dst = Image(jobs[k].src)
    BY DEF PlanningInv, JobsInv
  <2>. QED BY <1>1, <1>6, <1>7, <2>1, ImagesDiffer
<1>. HIDE DEF root, dst
<1>8. CASE Same(dst)
  BY <1>5, <1>8 DEF Same
<1>9. CASE pc = "remove" /\ op.kind = "Move" /\ BelowRoot(dst)
  BY <1>1, <1>6, <1>9, ImageApart
<1>10. CASE UndoFile /\ \E k \in 1 .. Len(jobs) : k < jobIndex /\ dst = jobs[k].dst
  <2>1. PICK k \in 1 .. Len(jobs) : k < jobIndex /\ dst = jobs[k].dst
    BY <1>10
  <2>2. root \in DOMAIN Disk0 => Disk0[root] # Dir
    BY <1>7, <2>1 DEF PlanningInv, JobsInv
  <2>3. Len(planStack) + Len(jobs) <= 1
    BY <2>2 DEF PlanningInv, SingleInv, root
  <2>4. Len(planStack) \in Nat /\ Len(jobs) \in Nat /\ jobIndex \in Nat
    BY JobsStay, LenIsNat DEF SafeInv, MemoryInv, Frames
  <2>5. jobIndex > Len(jobs) /\ jobs # <<>>
    BY <1>3, <2>1, <2>3, <2>4, LenIsNat
  <2>6. pc = "undo"
    BY <1>10 DEF UndoFile
  <2>7. cancelRequested
    BY <2>5, <2>6 DEF PlanningInv, UndoInv
  <2>. QED BY <1>4, <2>5, <2>7
<1>11. CASE /\ pc = "jobRename" /\ dst = Job.dst
            /\ dst \in DOMAIN fs' /\ fs'[dst] = fs[Temp]
  <2>1. jobIndex \in 1 .. Len(jobs) /\ Job = jobs[jobIndex]
    BY <1>11, JobFacts DEF InJob
  <2>2. Job.src = root
    BY <1>7, <1>11, <2>1
  <2>3. Job.src \in Sources
    BY <1>6, <1>11, <2>2, JobFacts DEF InJob, Found, MayCome, root
  <2>4. fs[Temp] = Disk0[Job.src]
    BY <1>11, <2>3 DEF TempInv
  <2>. QED BY <1>11, <2>2, <2>4
<1>. QED BY <1>8, <1>9, <1>10, <1>11, OldChanges

\* A removal only makes room: what has arrived stays.
LEMMA RemovalIsSafe ==
    ASSUME SafeInv, Pasting, PlanningInv, Safe, op.kind = "Move", pc = "remove", RemoveStep
    PROVE  Safe'
<1>1. op' = op /\ op \in Operations /\ after.pc \in {"planned", "end", "done"}
  BY SameOperation DEF SafeInv, PlaceInv, Returning, Next, WorkerStep
<1>2. planStack' = planStack /\ jobs' = jobs /\ after' = after /\ pc' \in {"remove", after.pc}
  BY ONLY RemoveStep, pc = "remove" DEF RemoveStep, RemoveMissing, RemoveOpen, RemoveDescend,
     RemoveItem, RemoveNextRoot
<1>3. fs' = fs \/ \E p : BelowRoot(p) /\ fs' = Drop(p)
  <2>1. fs' = fs \/ (removeStack # <<>> /\ fs' = Drop(Top(removeStack).src))
    BY ONLY RemoveStep DEF RemoveStep, RemoveMissing, RemoveOpen, RemoveDescend,
       RemoveItem, RemoveNextRoot, Removing
  <2>2. removeStack # <<>> => BelowRoot(Top(removeStack).src)
    BY PopFrames DEF SafeInv, MemoryInv, FrameOK
  <2>. QED BY <2>1, <2>2
<1>4. ASSUME NEW p \in Sources PROVE Arrived(p)'
  <2>1. BelowRoot(p) /\ Arrived(p)
    BY <1>1, SourceFacts DEF Safe, AllArrived
  <2>2. ~BelowRoot(Image(p))
    BY <1>1, <2>1, ImageApart
  <2>3. Same(Image(p))
    BY <1>3, <2>2, OthersSame
  <2>. QED BY <1>1, <2>1, <2>3, SameKeeps
<1>5. AllArrived'
  BY <1>1, <1>4, SameTargets DEF AllArrived
<1>6. planStack = <<>> /\ (after.pc = "planned" => jobs = <<>> /\ \A p \in Sources : Disk0[p] = Dir)
  BY DEF Safe
<1>7. Sources' = Sources
  BY <1>1, SameTargets
<1>. QED BY ONLY <1>1, <1>2, <1>5, <1>6, <1>7 DEF Safe, SafePlaces

\* When the last job is done everything has arrived.
LEMMA AllHaveArrived ==
    ASSUME SafeInv, Pasting, PlanningInv, ProgressInv, Active, planStack = <<>>,
           jobIndex > Len(jobs)
    PROVE  AllArrived /\ (jobs = <<>> => \A p \in Sources : Disk0[p] = Dir)
<1>1. jobIndex \in Nat /\ Len(jobs) \in Nat /\ (jobs = <<>> <=> Len(jobs) = 0)
  BY LenIsNat DEF SafeInv, PlaceInv, MemoryInv, JobsExpendable
<1>2. ASSUME NEW p \in Sources
      PROVE  Arrived(p) /\ (jobs = <<>> => Disk0[p] = Dir)
  <2>1. ~Awaited(p)
    BY DEF Awaited
  <2>2. (Disk0[p] = Dir /\ Arrived(p)) \/ \E j \in 1 .. Len(jobs) : jobs[j].src = p
    BY <1>2, <2>1 DEF ProgressInv
  <2>3. \A j \in 1 .. Len(jobs) : jobs[j].src \in Sources => Arrived(jobs[j].src)
    BY <1>1 DEF ProgressInv
  <2>. QED BY <1>1, <2>2, <2>3
<1>. QED BY <1>2 DEF AllArrived

\* A move starts to remove its sources when it has copied all of them.
LEMMA RemovalBegins ==
    ASSUME SafeInv, Pasting, PlanningInv, ProgressInv, [Next]_vars,
           pc # "remove", pc' = "remove"
    PROVE  Safe'
<1>1. op' = op /\ (pc \in Returning => after.pc # "remove")
  BY SameOperation DEF SafeInv, PlaceInv
<1>2. /\ op' = op /\ fs' = fs /\ planStack' = planStack /\ jobs' = jobs
      /\ planStack = <<>>
      /\ \/ pc = "planTop" /\ jobs = <<>> /\ after'.pc = "planned"
         \/ pc = "jobTop" /\ jobIndex > Len(jobs) /\ after'.pc = "end"
  <2>1. PlanTop \/ JobTop
    <3>1. CASE Start \/ Cancel \/ Gone \/ UNCHANGED vars
      BY <3>1 DEF Start, Cancel, Gone, vars
    <3>2. CASE PlanStep
      BY <3>2 DEF PlanStep, PlanRefused, PlanMakeDirectory, PlanOpenDirectory, PlanDescend,
         PlanLeaveDirectory, PlanFile, PlanDeleteLeaf, Planned, Fail, Undo
    <3>3. CASE JobStep
      BY <3>3 DEF JobStep, JobOpenSource, JobOpenTarget, JobNoResources, JobTransfer,
         JobTransferred, JobDiscard, JobFinalize, JobRename, JobRecord, Fail, Undo
    <3>4. CASE DeleteTop \/ DeleteItem \/ UndoStep \/ End
      BY <1>1, <3>4 DEF DeleteTop, DeleteItem, UndoStep, UndoTemp, UndoFile, UndoDirectory,
         UndoEnd, Fail, Undo, End, SafeInv, PlaceInv, Returning
    <3>5. CASE RemoveStep
      BY <3>5 DEF RemoveStep, RemoveMissing, RemoveOpen, RemoveDescend, RemoveItem,
         RemoveNextRoot, Removing
    <3>. QED BY <3>1, <3>2, <3>3, <3>4, <3>5 DEF Next, WorkerStep
  <2>2. CASE PlanTop
    <3>1. /\ op' = op /\ fs' = fs /\ planStack' = planStack /\ jobs' = jobs /\ pc = "planTop"
      BY ONLY <2>2 DEF PlanTop
    <3>2. planStack = <<>> /\ jobs = <<>> /\ after' = [state |-> "Completed", pc |-> "planned"]
      BY ONLY <2>2, pc' = "remove" DEF PlanTop, CompleteOperation, Fail, Undo
    <3>. QED BY <3>1, <3>2
  <2>3. CASE JobTop
    <3>1. /\ op' = op /\ fs' = fs /\ planStack' = planStack /\ jobs' = jobs /\ pc = "jobTop"
      BY ONLY <2>3 DEF JobTop
    <3>2. jobIndex > Len(jobs) /\ after' = [state |-> "Completed", pc |-> "end"]
      BY ONLY <2>3, pc' = "remove" DEF JobTop, CompleteOperation, Undo, AllJobsDone
    <3>3. planStack = <<>>
      BY <3>1 DEF ProgressInv, Active, Copying, PlanPlaces
    <3>. QED BY <3>1, <3>2, <3>3
  <2>. QED BY <2>1, <2>2, <2>3
<1>3. jobIndex > Len(jobs)
  <2>1. jobs = <<>> => Len(jobs) = 0
    OBVIOUS
  <2>2. jobIndex \in Nat \ {0}
    BY DEF SafeInv, PlaceInv
  <2>. QED BY <1>2, <2>1, <2>2
<1>4. AllArrived /\ (jobs = <<>> => \A p \in Sources : Disk0[p] = Dir)
  BY <1>2, <1>3, AllHaveArrived DEF Active, Copying, PlanPlaces
<1>5. AllArrived' /\ Sources' = Sources
  BY <1>2, <1>4, SameTargets DEF AllArrived, Arrived, Exists
<1>. QED BY ONLY <1>2, <1>4, <1>5, pc' = "remove" DEF Safe, SafePlaces

\* A move loses nothing.
LEMMA LossSteps ==
    ASSUME SafeInv, Pasting, PlanningInv, ProgressInv, LossInv, [Next]_vars
    PROVE  LossInv'
<1>1. op' = op /\ op \in Operations /\ Sources' = Sources
  BY SameOperation, SameTargets DEF SafeInv, PlaceInv
<1>. SUFFICES ASSUME op.kind = "Move"
              PROVE  /\ BeyondUndoing' \/ (\A p \in Sources : Intact(p)') \/ Safe'
                     /\ pc' = "remove" => Safe'
  BY <1>1 DEF LossInv
<1>2. BeyondUndoing => BeyondUndoing'
  BY <1>1, StaysCanceled DEF BeyondUndoing, TargetOf
<1>3. pc = "remove" => Safe
  BY DEF LossInv
<1>4. ASSUME pc = "remove" PROVE Safe'
  <2>1. CASE RemoveStep
    BY <1>3, <1>4, <2>1, RemovalIsSafe
  <2>2. CASE Gone \/ UNCHANGED vars
    <3>1. UNCHANGED vars
      BY <2>2 DEF Gone
    <3>2. op' = op /\ fs' = fs /\ planStack' = planStack /\ pc' = pc /\ jobs' = jobs /\ after' = after
      BY <3>1 DEF vars
    <3>3. AllArrived'
      BY <1>1, <1>3, <1>4, <3>2, SameTargets DEF Safe, AllArrived, Arrived, Exists
    <3>. QED BY <1>1, <1>3, <1>4, <3>2, <3>3 DEF Safe
  <2>3. ~(Start \/ Cancel \/ PlanStep \/ JobStep \/ DeleteTop \/ DeleteItem \/ UndoStep \/ End)
    BY <1>4 DEF Start, Cancel, Locked, PlanStep, PlanTop, PlanRefused, PlanMakeDirectory,
       PlanOpenDirectory, PlanDescend, PlanLeaveDirectory, PlanFile, PlanDeleteLeaf, Planned,
       Walking, JobStep, JobTop, JobOpenSource, JobOpenTarget, JobNoResources, JobTransfer,
       JobTransferred, JobDiscard, JobFinalize, JobRename, JobRecord, DeleteTop, DeleteItem,
       UndoStep, UndoTemp, UndoFile, UndoDirectory, UndoEnd, End
  <2>. QED BY <2>1, <2>2, <2>3 DEF Next, WorkerStep
<1>5. pc' = "remove" => Safe'
  BY <1>4, RemovalBegins
<1>6. ASSUME \A p \in Sources : Intact(p), pc # "remove" PROVE \A p \in Sources : Intact(p)'
  <2>1. SUFFICES ASSUME NEW p \in Sources PROVE Same(p)
    BY <1>1, <1>6, SameKeeps
  <2>2. p \in DOMAIN Disk0
    BY DEF Sources
  <2>3. ~Fresh(p)
    BY <1>1, FreshSource
  <2>. QED BY <1>6, <2>2, <2>3, OldChanges
<1>7. ASSUME Safe, pc # "remove" PROVE BeyondUndoing' \/ Safe'
  <2>1. AllArrived /\ planStack = <<>> /\ pc \in {"planned", "jobTop", "end", "done"}
        /\ (pc \in {"planned", "jobTop"} => jobs = <<>> /\ \A p \in Sources : Disk0[p] = Dir)
    BY <1>7 DEF Safe, SafePlaces
  <2>2. pc' # "remove" /\ ~BeyondUndoing' =>
            /\ fs' = fs /\ planStack' = planStack /\ jobs' = jobs
            /\ pc' \in {"planned", "jobTop", "end", "done"}
            /\ pc' \in {"planned", "jobTop"} => pc \in {"planned", "jobTop"}
    <3>1. CASE Cancel \/ Gone \/ End \/ UNCHANGED vars
      BY <2>1, <3>1 DEF Cancel, Gone, End, vars
    <3>2. CASE (Planned \/ JobTop) /\ ~cancelRequested
      <4>1. jobIndex > Len(jobs)
        <5>1. jobs = <<>> => Len(jobs) = 0
          OBVIOUS
        <5>2. jobIndex \in Nat \ {0} /\ jobs = <<>>
          BY <2>1, <3>2 DEF SafeInv, PlaceInv, Planned, JobTop
        <5>. QED BY <5>1, <5>2
      <4>2. CASE Planned
        BY <3>2, <4>2, op.kind = "Move" DEF Planned
      <4>3. CASE JobTop
        BY <3>2, <4>1, <4>3, op.kind = "Move" DEF JobTop, StopCopying, AllJobsDone, CompleteOperation
      <4>. QED BY <3>2, <4>2, <4>3
    <3>3. CASE (Planned \/ JobTop) /\ cancelRequested
      <4>1. cancelRequested' /\ \A p \in Sources : Disk0[p] = Dir
        BY <2>1, <3>3 DEF Planned, JobTop
      <4>. QED BY <1>1, <4>1 DEF BeyondUndoing
    <3>. QED BY <2>1, <3>1, <3>2, <3>3 DEF Next, WorkerStep, Start, PlanStep, PlanTop,
             PlanRefused, PlanMakeDirectory, PlanOpenDirectory, PlanDescend, PlanLeaveDirectory,
             PlanFile, PlanDeleteLeaf, Walking, JobStep, JobOpenSource, JobOpenTarget,
             JobNoResources, JobTransfer, JobTransferred, JobDiscard, JobFinalize, JobRename,
             JobRecord, DeleteTop, DeleteItem, UndoStep, UndoTemp, UndoFile, UndoDirectory,
             UndoEnd, RemoveStep, RemoveMissing, RemoveOpen, RemoveDescend, RemoveItem,
             RemoveNextRoot, Removing
  <2>3. CASE pc' = "remove" \/ BeyondUndoing'
    BY <1>5, <2>3
  <2>4. CASE pc' # "remove" /\ ~BeyondUndoing'
    <3>1. AllArrived'
      BY <1>1, <2>1, <2>2, <2>4, SameTargets DEF AllArrived, Arrived, Exists
    <3>. QED BY ONLY <1>1, <2>1, <2>2, <2>4, <3>1 DEF Safe, SafePlaces
  <2>. QED BY <2>3, <2>4
<1>. QED BY <1>2, <1>4, <1>5, <1>6, <1>7 DEF LossInv

\* A paste that goes on went on before, unless it begins, or a move of folders
\* has removed them.
LEMMA ActiveSteps ==
    ASSUME SafeInv, Pasting, PlanningInv, [Next]_vars, Active'
    PROVE  Active \/ Start \/ (RemoveStep /\ pc = "remove" /\ pc' = "planned")
<1>. USE DEF Active, PlanPlaces, Copying, InJob
<1>1. /\ pc \in Returning => after.pc \in {"planned", "end", "done"}
      /\ pc \in {"undoTemp", "undo"} /\ after.pc = "planned" => after.state = "Failed"
  BY DEF SafeInv, PlaceInv, PlanningInv, UndoInv
<1>2. CASE Cancel \/ Gone \/ End \/ UNCHANGED vars
  BY ONLY <1>2, Active' DEF Cancel, Gone, End, vars, Locked
<1>3. CASE PlanStep
  <2>1. pc \in PlanPlaces \/ Planned
    BY ONLY <1>3 DEF PlanStep, PlanTop, PlanRefused, PlanMakeDirectory, PlanOpenDirectory,
       PlanDescend, PlanLeaveDirectory, PlanFile, PlanDeleteLeaf, Walking
  <2>2. CASE Planned
    <3>1. pc = "planned" /\ (cancelRequested => pc' = "undoTemp") /\ (state = "Failed" => pc' \in {"end", "undoTemp"})
      BY ONLY <2>2 DEF Planned, Undo
    <3>. QED BY ONLY <3>1, Active'
  <2>. QED BY <2>1, <2>2
<1>4. CASE JobStep
  <2>1. pc = "jobTop" \/ pc \in InJob
    BY ONLY <1>4 DEF JobStep, JobTop, JobOpenSource, JobOpenTarget, JobNoResources, JobTransfer,
       JobTransferred, JobDiscard, JobFinalize, JobRename, JobRecord
  <2>2. pc = "jobDiscard" => pc' = "undoTemp"
    BY ONLY <1>4 DEF JobStep, JobTop, JobOpenSource, JobOpenTarget, JobNoResources, JobTransfer,
       JobTransferred, JobDiscard, JobFinalize, JobRename, JobRecord
  <2>. QED BY ONLY <2>1, <2>2, Active'
<1>5. CASE DeleteTop \/ DeleteItem
  <2>1. pc \in {"deleteTop", "delete"}
    BY ONLY <1>5 DEF DeleteTop, DeleteItem
  <2>. QED BY <2>1 DEF PlanningInv, UndoInv
<1>6. CASE UndoStep
  <2>1. pc' = "undo" \/ (pc = "undo" /\ pc' = after.pc /\ state' = after.state)
    BY ONLY <1>6 DEF UndoStep, UndoTemp, UndoFile, UndoDirectory, UndoEnd
  <2>. QED BY ONLY <1>1, <2>1, Active' DEF Returning
<1>7. CASE RemoveStep
  <2>1. pc = "remove" /\ pc' \in {"remove", after.pc}
    BY ONLY <1>7 DEF RemoveStep, RemoveMissing, RemoveOpen, RemoveDescend, RemoveItem,
       RemoveNextRoot, Removing
  <2>2. pc' \in {"remove", "planned", "end", "done"}
    BY ONLY <1>1, <2>1 DEF Returning
  <2>. QED BY ONLY <1>7, <2>1, <2>2, Active'
<1>. QED BY <1>2, <1>3, <1>4, <1>5, <1>6, <1>7 DEF Next, WorkerStep

\* A copy that is settled stays.
LEMMA ArrivedStays ==
    ASSUME SafeInv, Pasting, PlanningInv, TempInv, [Next]_vars, Active,
           NEW p \in Sources, Settled(p), Arrived(p)
    PROVE  Arrived(p)'
<1>1. op' = op /\ op \in Operations /\ BelowRoot(p)
  BY SameOperation, SourceFacts DEF SafeInv, PlaceInv
<1>2. Exists(Image(p)) /\ fs[Image(p)] = Disk0[p]
  BY DEF Arrived
<1>3. CASE Same(Image(p))
  BY <1>1, <1>3, SameKeeps
<1>4. CASE PlanMakeDirectory /\ fs' # fs
  <2>1. ~Exists(TopFrame.dst) /\ fs' = Put(TopFrame.dst, Dir)
    BY <1>4, MakesDirectory
  <2>. QED BY <1>2, <1>3, <2>1, OthersSame
<1>5. CASE JobOpenTarget
  <2>1. fs' = fs \/ (~Exists(Temp) /\ fs' = Put(Temp, Partial))
    BY ONLY <1>5 DEF JobOpenTarget, Works, CanCreate
  <2>. QED BY <1>2, <1>3, <2>1, OthersSame
<1>6. CASE JobTransfer
  <2>1. pc = "jobTransfer" /\ (fs' = fs \/ fs' = Put(Temp, fs[Job.src]))
    BY ONLY <1>6 DEF JobTransfer
  <2>2. Image(p) # Temp
    BY <2>1 DEF TempInv
  <2>. QED BY <1>3, <2>1, <2>2, OthersSame
<1>7. CASE JobRename
  <2>1. pc = "jobRename" /\ (fs' = fs \/ fs' = Renamed(Temp, Job.dst))
    BY ONLY <1>7 DEF JobRename
  <2>2. Image(p) # Temp /\ (Job.src \in Sources => fs[Temp] = Disk0[Job.src])
    BY <2>1 DEF TempInv
  <2>3. CASE Image(p) = Job.dst /\ fs' = Renamed(Temp, Job.dst)
    <3>1. p = Job.src
      BY <1>1, <2>1, <2>3, JobFacts, ImagesDiffer DEF InJob
    <3>2. Image(p) \in DOMAIN fs' /\ fs'[Image(p)] = fs[Temp]
      BY ONLY <2>3 DEF Renamed
    <3>3. Image(p)' = Image(p)
      BY <1>1, SameTargets
    <3>. QED BY <2>2, <3>1, <3>2, <3>3 DEF Arrived, Exists
  <2>. QED BY <1>3, <2>1, <2>2, <2>3, OthersSame
<1>8. fs' = fs \/ PlanMakeDirectory \/ JobOpenTarget \/ JobTransfer \/ JobRename
  <2>1. pc \notin {"undoTemp", "undo", "remove", "delete", "jobDiscard"}
    BY DEF Active, PlanPlaces, Copying, InJob
  <2>2. ~(UndoTemp \/ UndoFile \/ UndoDirectory \/ RemoveItem \/ DeleteItem \/ JobDiscard)
    BY ONLY <2>1 DEF UndoTemp, UndoFile, UndoDirectory, RemoveItem, Removing, DeleteItem, JobDiscard
  <2>. QED BY <2>2, DiskChanges
<1>. QED BY <1>3, <1>4, <1>5, <1>6, <1>7, <1>8, OthersSame

\* A folder that is listed leads to everything that was in it.
LEMMA WayFound ==
    ASSUME SafeInv, Pasting, PlanningInv, pc \in Before, NEW p \in DOMAIN Disk0,
           NEW q, IsSeq(q), IsUnder(p, q), p # q
    PROVE  \E name \in NamesIn(q) : IsUnder(p, JoinPath(q, name))
<1>1. PICK name : IsUnder(p, JoinPath(q, name)) /\ JoinPath(q, name) \in DOMAIN Disk0
  BY WayDown
<1>2. JoinPath(q, name) \in DOMAIN fs
  BY <1>1 DEF PlanningInv, PlanInv, Intact, Exists
<1>3. name \in NamesIn(q)
  BY <1>2, NameFound
<1>. QED BY <1>1, <1>3

\* The walk comes to everything it has not come to yet.
LEMMA StillAwaited ==
    ASSUME SafeInv, Pasting, PlanningInv, TempInv, [Next]_vars, Active, Active',
           NEW p \in Sources, Awaited(p)
    PROVE  \/ Awaited(p)'
           \/ Disk0[p] = Dir /\ Arrived(p)'
           \/ \E j \in 1 .. Len(jobs') : jobs'[j].src = p
<1>. DEFINE n == Len(planStack)
<1>1. p \in DOMAIN Disk0 /\ IsSeq(p) /\ op \in Operations /\ op' = op /\ n \in Nat
  BY SourceFacts, SameOperation, LenIsNat
     DEF SafeInv, PlaceInv, MemoryInv, Frames, BelowRoot
<1>2. PICK i \in 1 .. n : Walks(planStack[i], p)
  BY DEF Awaited
<1>3. ASSUME NEW j \in 1 .. Len(planStack'), Walks(planStack'[j], p) PROVE Awaited(p)'
  BY <1>3 DEF Awaited, Walks
<1>. HIDE DEF n
<1>4. CASE planStack' = planStack
  BY <1>2, <1>3, <1>4 DEF n
<1>5. ASSUME pc \in {"frame", "opendir"}
      PROVE  n \in 1 .. n /\ TopFrame = planStack[n] /\ BelowRoot(TopFrame.src) /\ IsSeq(TopFrame.src)
             /\ TopFrame.dst = Image(TopFrame.src)
  BY <1>5, TopFrameFacts DEF PlanningInv, n, BelowRoot
<1>6. ASSUME i # n, \A j \in 1 .. n - 1 : planStack'[j] = planStack[j], Len(planStack') >= n - 1,
             Len(planStack') \in Nat
      PROVE  Awaited(p)'
  <2>1. i \in 1 .. n - 1 /\ i \in 1 .. Len(planStack')
    BY <1>1, <1>2, <1>6
  <2>. QED BY <1>2, <1>3, <1>6, <2>1
<1>7. CASE PlanOpenDirectory /\ planStack' # planStack
  <2>. DEFINE f == planStack'[n]
  <2>1. /\ pc = "opendir" /\ Len(planStack') = n
        /\ \A j \in 1 .. n - 1 : planStack'[j] = planStack[j]
        /\ f.src = TopFrame.src /\ f.todo = NamesIn(TopFrame.src)
    BY <1>7, Opens DEF PlanningInv, n
  <2>2. CASE i = n /\ p = TopFrame.src
    <3>1. Disk0[p] = Dir /\ Exists(Image(p)) /\ fs[Image(p)] = Dir
      BY <1>5, <2>1, <2>2 DEF PlanningInv, PlanInv
    <3>2. Arrived(p)'
      BY <3>1, ArrivedStays DEF Settled, Arrived
    <3>. QED BY <3>1, <3>2
  <2>3. CASE i = n /\ p # TopFrame.src
    <3>1. IsUnder(p, TopFrame.src)
      BY <1>2, <1>5, <2>1, <2>3 DEF Walks
    <3>2. \E name \in NamesIn(TopFrame.src) : IsUnder(p, JoinPath(TopFrame.src, name))
      BY <1>1, <1>5, <2>1, <2>3, <3>1, WayFound DEF Before, PlanPlaces
    <3>3. Walks(f, p)
      BY <2>1, <3>1, <3>2 DEF Walks
    <3>. QED BY <1>1, <1>3, <1>5, <2>1, <3>3
  <2>. QED BY <1>1, <1>6, <2>1, <2>2, <2>3
<1>8. CASE PlanDescend
  <2>. DEFINE f == planStack'[n]
              g == planStack'[n + 1]
  <2>1. PICK name \in TopFrame.todo :
          /\ Len(planStack') = n + 1
          /\ \A j \in 1 .. n - 1 : planStack'[j] = planStack[j]
          /\ f.src = TopFrame.src /\ f.opened = TopFrame.opened /\ f.todo = TopFrame.todo \ {name}
          /\ g.src = JoinPath(TopFrame.src, name) /\ ~g.opened
    BY <1>8, Descends DEF PlanningInv, n
  <2>2. pc = "frame"
    BY <1>8 DEF PlanDescend
  <2>3. n \in 1 .. Len(planStack') /\ n + 1 \in 1 .. Len(planStack')
    BY <1>1, <1>5, <2>1, <2>2
  <2>4. CASE i = n
    <3>1. TopFrame.opened
      BY <2>1, <2>2, TopFrameFacts DEF PlanningInv
    <3>2. PICK m \in TopFrame.todo : IsUnder(p, JoinPath(TopFrame.src, m))
      BY <1>2, <1>5, <2>2, <2>4, <3>1 DEF Walks
    <3>3. IsUnder(p, TopFrame.src)
      BY <1>2, <1>5, <2>2, <2>4 DEF Walks
    <3>4. CASE m = name
      <4>1. Walks(g, p)
        BY <2>1, <3>2, <3>4 DEF Walks
      <4>. QED BY <1>3, <2>3, <4>1
    <3>5. CASE m # name
      <4>1. Walks(f, p)
        BY <2>1, <3>2, <3>3, <3>5 DEF Walks
      <4>. QED BY <1>3, <2>3, <4>1
    <3>. QED BY <3>4, <3>5
  <2>. QED BY <1>1, <1>6, <2>1, <2>4
<1>9. CASE PlanLeaveDirectory /\ planStack' # planStack
  <2>1. pc = "frame" /\ Len(planStack') = n - 1
        /\ \A j \in 1 .. n - 1 : planStack'[j] = planStack[j]
    BY <1>9, Pops DEF PlanningInv, n
  <2>2. TopFrame.opened /\ TopFrame.todo = {}
    BY <1>9 DEF PlanLeaveDirectory, Walked
  <2>3. i # n
    BY <1>2, <1>5, <2>1, <2>2 DEF Walks
  <2>. QED BY <1>1, <1>6, <2>1, <2>3
<1>10. CASE PlanFile /\ planStack' # planStack
  <2>1. pc = "frame" /\ Len(planStack') = n - 1
        /\ \A j \in 1 .. n - 1 : planStack'[j] = planStack[j]
    BY <1>10, Pops DEF PlanningInv, n
  <2>2. jobs' # jobs /\ ~TopFrame.opened /\ IsRegular(TopFrame.src)
    <3>1. /\ ~TopFrame.opened /\ IsRegular(TopFrame.src)
          /\ jobs' = Append(jobs, [src |-> TopFrame.src, dst |-> TopFrame.dst])
      BY <1>10 DEF PlanFile
    <3>2. IsSeq(jobs) /\ Len(jobs) \in Nat
      BY LenIsNat DEF SafeInv, MemoryInv, JobsExpendable
    <3>3. Len(jobs') = Len(jobs) + 1
      BY <3>1, <3>2, AppendFacts
    <3>. QED BY <3>1, <3>2, <3>3
  <2>3. /\ Len(jobs) \in Nat /\ Len(jobs') = Len(jobs) + 1
        /\ jobs'[Len(jobs) + 1].src = TopFrame.src
    BY <1>10, <2>2, AddsJob
  <2>4. CASE i = n
    <3>1. IsUnder(p, TopFrame.src)
      BY <1>2, <1>5, <2>1, <2>4 DEF Walks
    <3>2. p = TopFrame.src
      <4>1. SUFFICES ASSUME p # TopFrame.src PROVE FALSE
        OBVIOUS
      <4>2. TopFrame.src \in DOMAIN Disk0 /\ Disk0[TopFrame.src] = Dir
        BY <1>1, <1>5, <2>1, <3>1, <4>1, WayDown
      <4>3. Intact(TopFrame.src)
        BY <2>1, <4>2 DEF PlanningInv, PlanInv, Before, PlanPlaces
      <4>. QED BY <2>2, <4>2, <4>3 DEF IsRegular, Intact
    <3>. QED BY <2>3, <3>2
  <2>. QED BY <1>1, <1>6, <2>1, <2>4
<1>11. CASE Start
  BY <1>11 DEF Start, Active, PlanPlaces, Copying, InJob
<1>. QED BY <1>4, <1>7, <1>8, <1>9, <1>10, <1>11, NoDeletion, PlanStackChanges

\* The paste makes progress and forgets nothing.
LEMMA ProgressSteps ==
    ASSUME SafeInv, Pasting, PlanningInv, ProgressInv, TempInv, LossInv, [Next]_vars
    PROVE  ProgressInv'
<1>1. op' = op /\ op \in Operations /\ Sources' = Sources
  BY SameOperation, SameTargets DEF SafeInv, PlaceInv
<1>. SUFFICES ASSUME Active'
              PROVE  /\ pc' \notin PlanPlaces => planStack' = <<>>
                     /\ \A p \in Sources : \/ Awaited(p)'
                                           \/ Disk0[p] = Dir /\ Arrived(p)'
                                           \/ \E j \in 1 .. Len(jobs') : jobs'[j].src = p
                     /\ \A j \in 1 .. Len(jobs') : \A p \in Sources :
                           /\ p = jobs'[j].src
                           /\ j < jobIndex' \/ (j = jobIndex' /\ pc' = "jobRecord")
                           => Arrived(p)'
  BY <1>1 DEF ProgressInv, PlanPlaces
<1>2. /\ Len(jobs) \in Nat /\ Len(jobs') \in Nat /\ Len(jobs) <= Len(jobs')
      /\ \A k \in 1 .. Len(jobs) : jobs'[k] = jobs[k]
      /\ jobIndex \in Nat \ {0} /\ jobIndex' \in Nat \ {0}
      /\ jobs' = jobs \/ (pc = "frame" /\ jobIndex = 1 /\ jobIndex' = 1)
      /\ jobIndex' = jobIndex \/ (jobIndex' = jobIndex + 1 /\ JobRecord)
  BY JobsStay
<1>3. CASE Start
  <2>1. /\ planStack' = RootFrames /\ pc = "idle" /\ pc' \in {"planTop", "none"}
        /\ jobs' = jobs /\ jobIndex' = jobIndex
    BY ONLY <1>3 DEF Start
  <2>2. jobs = <<>>
    BY <2>1 DEF PlanningInv, PlanInv
  <2>3. ASSUME NEW p \in Sources PROVE Awaited(p)'
    <3>1. BelowRoot(p)
      BY <1>1, SourceFacts
    <3>2. PICK i \in 1 .. Len(op.roots) : IsUnder(p, op.roots[i])
      BY <3>1 DEF BelowRoot
    <3>. DEFINE n == Len(op.roots)
                k == n + 1 - i
    <3>3. n \in Nat /\ k \in 1 .. n /\ n + 1 - k = i
      BY <1>1, <3>2, RootsArePaths
    <3>. HIDE DEF k
    <3>4. /\ Len(planStack') = n
          /\ planStack'[k].src = op.roots[n + 1 - k] /\ ~planStack'[k].opened
      BY <1>1, <2>1, <3>3, RootImages
    <3>. QED BY <3>2, <3>3, <3>4 DEF Awaited, Walks
  <2>4. pc' = "planTop" /\ Len(jobs') = 0
    BY <2>1, <2>2 DEF Active, PlanPlaces, Copying, InJob
  <2>. QED BY <2>3, <2>4 DEF PlanPlaces
<1>4. CASE RemoveStep /\ pc = "remove" /\ pc' = "planned"
  <2>1. op.kind = "Move"
    BY <1>4 DEF SafeInv, PlaceInv
  <2>2. Safe'
    BY <1>4, <2>1, RemovalIsSafe DEF LossInv
  <2>3. /\ planStack' = <<>> /\ jobs' = <<>>
        /\ \A p \in Sources : Disk0[p] = Dir /\ Arrived(p)'
    BY <1>1, <1>4, <2>2 DEF Safe, AllArrived
  <2>4. Len(jobs') = 0
    BY <2>3
  <2>. QED BY <2>3, <2>4
<1>5. CASE Active /\ ~Start
  <2>1. pc' \notin PlanPlaces => planStack' = <<>>
    <3>. SUFFICES ASSUME pc' \notin PlanPlaces PROVE planStack' = <<>>
      OBVIOUS
    <3>1. planStack' = planStack
      <4>1. SUFFICES ASSUME planStack' # planStack PROVE FALSE
        OBVIOUS
      <4>2. PlanOpenDirectory \/ PlanDescend \/ PlanLeaveDirectory \/ PlanFile
        BY <1>5, <4>1, NoDeletion, PlanStackChanges
      <4>. QED BY ONLY <4>1, <4>2, pc' \notin PlanPlaces DEF PlanOpenDirectory, PlanDescend,
               PlanLeaveDirectory, PlanFile, PlanPlaces, Fail, Undo
    <3>2. CASE pc \notin PlanPlaces
      BY <1>5, <3>1, <3>2 DEF ProgressInv
    <3>3. CASE pc \in PlanPlaces
      <4>1. CASE PlanTop
        <5>1. pc' \in {"planned", "remove", "frame", "undoTemp"}
          BY ONLY <4>1 DEF PlanTop, CompleteOperation, Fail, Undo
        <5>2. pc' = "planned" /\ ~cancelRequested' /\ state' # "Failed"
          BY <5>1 DEF Active, PlanPlaces, Copying, InJob
        <5>3. planStack = <<>>
          BY ONLY <4>1, <5>2 DEF PlanTop
        <5>. QED BY <3>1, <5>3
      <4>2. CASE Cancel \/ UNCHANGED vars
        BY ONLY <3>3, <4>2, pc' \notin PlanPlaces DEF Cancel, vars
      <4>3. CASE PlanRefused \/ PlanMakeDirectory \/ PlanOpenDirectory \/ PlanDescend
                 \/ PlanLeaveDirectory \/ PlanFile
        <5>1. pc' \in {"planTop", "opendir", "undoTemp"}
          BY ONLY <4>3 DEF PlanRefused, PlanMakeDirectory, PlanOpenDirectory, PlanDescend,
             PlanLeaveDirectory, PlanFile, Fail, Undo
        <5>. QED BY <5>1 DEF Active, PlanPlaces, Copying, InJob
      <4>4. PlanTop \/ Cancel \/ UNCHANGED vars \/ PlanRefused \/ PlanMakeDirectory
            \/ PlanOpenDirectory \/ PlanDescend \/ PlanLeaveDirectory \/ PlanFile
        <5>1. ~(Planned \/ JobStep \/ DeleteTop \/ DeleteItem \/ UndoStep \/ RemoveStep \/ End \/ Gone)
          BY ONLY <3>3 DEF PlanPlaces, Planned, JobStep, JobTop, JobOpenSource, JobOpenTarget,
             JobNoResources, JobTransfer, JobTransferred, JobDiscard, JobFinalize, JobRename,
             JobRecord, DeleteTop, DeleteItem, UndoStep, UndoTemp, UndoFile, UndoDirectory,
             UndoEnd, RemoveStep, RemoveMissing, RemoveOpen, RemoveDescend, RemoveItem,
             RemoveNextRoot, Removing, End, Gone
        <5>. QED BY <1>5, <5>1, NoDeletion DEF Next, WorkerStep, PlanStep
      <4>. QED BY <4>1, <4>2, <4>3, <4>4
    <3>. QED BY <3>2, <3>3
  <2>2. ASSUME NEW p \in Sources
        PROVE  \/ Awaited(p)'
               \/ Disk0[p] = Dir /\ Arrived(p)'
               \/ \E j \in 1 .. Len(jobs') : jobs'[j].src = p
    <3>1. CASE Awaited(p)
      BY <1>5, <3>1, StillAwaited
    <3>2. CASE Disk0[p] = Dir /\ Arrived(p)
      BY <1>5, <3>2, ArrivedStays DEF Settled
    <3>3. CASE \E j \in 1 .. Len(jobs) : jobs[j].src = p
      BY <1>2, <3>3
    <3>. QED BY <1>5, <3>1, <3>2, <3>3 DEF ProgressInv
  <2>3. ASSUME NEW j \in 1 .. Len(jobs'), NEW p \in Sources, p = jobs'[j].src,
               j < jobIndex' \/ (j = jobIndex' /\ pc' = "jobRecord")
        PROVE  Arrived(p)'
    <3>1. CASE JobRename
      <4>1. jobs' = jobs /\ jobIndex' = jobIndex /\ pc = "jobRename"
        BY ONLY <3>1 DEF JobRename
      <4>3. CASE j < jobIndex
        <5>1. Settled(p) /\ Arrived(p)
          BY <1>5, <2>3, <4>1, <4>3 DEF Settled, ProgressInv
        <5>. QED BY <1>5, <2>3, <5>1, ArrivedStays
      <4>4. CASE ~(j < jobIndex)
        <5>1. j = jobIndex /\ pc' = "jobRecord"
          BY <1>2, <2>3, <4>1, <4>4
        <5>2. fs' = Renamed(Temp, Job.dst)
          BY ONLY <3>1, <5>1 DEF JobRename
        <5>3. p = Job.src /\ Job.dst = Image(p) /\ fs[Temp] = Disk0[p]
          BY <2>3, <4>1, <5>1, JobFacts DEF InJob, TempInv, Job
        <5>4. Job.dst \in DOMAIN fs' /\ fs'[Job.dst] = fs[Temp]
          BY ONLY <5>2 DEF Renamed
        <5>5. \A q : Image(q)' = Image(q)
          BY <1>1, SameTargets
        <5>. QED BY <5>3, <5>4, <5>5 DEF Arrived, Exists
      <4>. QED BY <4>3, <4>4
    <3>2. CASE jobs' # jobs
      <4>1. pc = "frame" /\ jobIndex' = 1
        BY <1>2, <3>2
      <4>2. pc' = "jobRecord"
        BY <2>3, <4>1
      <4>. QED BY <3>2, <4>1, <4>2, JobsChange DEF PlanFile, Fail, Undo
    <3>3. CASE ~JobRename /\ jobs' = jobs
      <4>2. Arrived(p) /\ (Settled(p) \/ fs' = fs)
        <5>1. CASE JobRecord
          <6>1. jobIndex' = jobIndex + 1 /\ pc = "jobRecord" /\ pc' # "jobRecord" /\ fs' = fs
            BY ONLY <5>1 DEF JobRecord
          <6>2. j < jobIndex \/ j = jobIndex
            BY <1>2, <2>3, <6>1
          <6>. QED BY <1>5, <2>3, <3>3, <6>1, <6>2 DEF ProgressInv
        <5>2. CASE ~JobRecord
          <6>1. jobIndex' = jobIndex
            BY <1>2, <5>2
          <6>2. CASE j < jobIndex
            BY <1>5, <2>3, <3>3, <6>2 DEF ProgressInv, Settled
          <6>3. CASE ~(j < jobIndex)
            <7>1. pc' = "jobRecord" /\ j = jobIndex
              BY <2>3, <6>1, <6>3
            <7>2. pc = "jobRecord" /\ fs' = fs
              <8>1. CASE Cancel \/ UNCHANGED vars \/ Gone
                BY ONLY <7>1, <8>1 DEF Cancel, vars, Gone
              <8>2. ~(Start \/ PlanStep \/ JobStep \/ DeleteTop \/ DeleteItem \/ UndoStep
                      \/ RemoveStep \/ End)
                <9>1. pc \in Returning => after.pc # "jobRecord"
                  BY DEF SafeInv, PlaceInv
                <9>. QED BY ONLY <3>3, <7>1, <9>1 DEF Start, PlanStep, PlanTop, PlanRefused,
                         PlanMakeDirectory, PlanOpenDirectory, PlanDescend, PlanLeaveDirectory,
                         PlanFile, PlanDeleteLeaf, Planned, JobStep, JobTop, JobOpenSource,
                         JobOpenTarget, JobNoResources, JobTransfer, JobTransferred, JobDiscard,
                         JobFinalize, JobRecord, DeleteTop, DeleteItem, UndoStep, UndoTemp,
                         UndoFile, UndoDirectory, UndoEnd, RemoveStep, RemoveMissing, RemoveOpen,
                         RemoveDescend, RemoveItem, RemoveNextRoot, Removing, End, Fail, Undo,
                         CompleteOperation, Returning
              <8>. QED BY <8>1, <8>2 DEF Next, WorkerStep
            <7>. QED BY <1>5, <2>3, <3>3, <7>1, <7>2 DEF ProgressInv
          <6>. QED BY <6>2, <6>3
        <5>. QED BY <5>1, <5>2
      <4>3. Arrived(p)'
        <5>1. CASE Settled(p)
          BY <1>5, <2>3, <4>2, <5>1, ArrivedStays
        <5>2. CASE fs' = fs
          BY <1>1, <4>2, <5>2, SameKeeps, OthersSame DEF Same
        <5>. QED BY <4>2, <5>1, <5>2
      <4>. QED BY <4>3
    <3>. QED BY <3>1, <3>2, <3>3
  <2>. QED BY <2>1, <2>2, <2>3
<1>. QED BY <1>3, <1>4, <1>5, ActiveSteps

\* The temporary file comes from nothing, and is read from the source.
LEMMA TempSteps ==
    ASSUME SafeInv, Pasting, PlanningInv, ProgressInv, TempInv, LossInv, ReplaceIsAtomic,
           [Next]_vars
    PROVE  TempInv'
<1>. DEFINE Written == {"jobTransfer", "jobTransferred", "jobFinalize", "jobRename"}
<1>1. op' = op /\ op \in Operations /\ Sources' = Sources /\ \A p : Image(p)' = Image(p)
  BY SameOperation, SameTargets DEF SafeInv, PlaceInv
<1>. SUFFICES ASSUME pc' \in Written
              PROVE  /\ \A p \in Sources : Settled(p)' => Image(p) # Temp'
                     /\ \/ pc' \in {"jobFinalize", "jobRename"}
                        \/ pc' = "jobTransferred" /\ ~hasError' /\ ~cancelRequested'
                        => /\ Temp' \in DOMAIN fs'
                           /\ Job.src' \in Sources => fs'[Temp'] = Disk0[Job.src']
  BY <1>1 DEF TempInv, Exists
<1>2. \/ (Cancel \/ UNCHANGED vars) /\ pc \in Written
      \/ JobOpenTarget /\ pc' = "jobTransfer"
      \/ JobTransfer
      \/ JobTransferred /\ pc' = "jobFinalize"
      \/ JobFinalize
  <2>1. pc \in Returning => after.pc \notin Written
    BY DEF SafeInv, PlaceInv
  <2>2. ~(Start \/ PlanStep \/ DeleteTop \/ DeleteItem \/ UndoStep \/ RemoveStep \/ End)
    BY ONLY pc' \in Written, <2>1 DEF Start, PlanStep, PlanTop, PlanRefused, PlanMakeDirectory,
       PlanOpenDirectory, PlanDescend, PlanLeaveDirectory, PlanFile, PlanDeleteLeaf, Planned,
       DeleteTop, DeleteItem, UndoStep, UndoTemp, UndoFile, UndoDirectory, UndoEnd, RemoveStep,
       RemoveMissing, RemoveOpen, RemoveDescend, RemoveItem, RemoveNextRoot, Removing, End, Fail,
       Undo, CompleteOperation, Returning
  <2>3. ~(JobTop \/ JobOpenSource \/ JobNoResources \/ JobDiscard \/ JobRename \/ JobRecord)
    BY ONLY pc' \in Written DEF JobTop, JobOpenSource, JobNoResources, JobDiscard, JobRename,
       JobRecord, Fail, Undo, CompleteOperation
  <2>4. (Cancel \/ Gone \/ UNCHANGED vars) => (Cancel \/ UNCHANGED vars) /\ pc \in Written
    BY ONLY pc' \in Written DEF Cancel, Gone, vars
  <2>5. JobOpenTarget => pc' = "jobTransfer"
    BY ONLY pc' \in Written DEF JobOpenTarget, Fail, Undo
  <2>6. JobTransferred => pc' = "jobFinalize"
    BY ONLY pc' \in Written DEF JobTransferred
  <2>. QED BY <2>2, <2>3, <2>4, <2>5, <2>6 DEF Next, WorkerStep, JobStep
<1>3. pc \in InJob \ {"jobDiscard"} /\ jobs' = jobs /\ jobIndex' = jobIndex
  BY ONLY <1>2 DEF Cancel, vars, JobOpenTarget, JobTransfer, JobTransferred, JobFinalize, InJob
<1>4. Temp' = Temp /\ Job.src' = Job.src /\ \A p : Settled(p)' <=> Settled(p)
  BY <1>3 DEF Temp, Job, Settled
<1>5. ASSUME NEW p \in Sources, Settled(p), ~(JobOpenTarget /\ pc' = "jobTransfer")
      PROVE  Image(p) # Temp
  <2>1. pc \in Written
    BY ONLY <1>2, <1>5 DEF JobTransfer, JobTransferred, JobFinalize
  <2>. QED BY <1>5, <2>1 DEF TempInv
<1>6. ASSUME NEW p \in Sources, Settled(p), JobOpenTarget, pc' = "jobTransfer"
      PROVE  Image(p) # Temp
  <2>1. ~Exists(Temp)
    BY ONLY <1>6 DEF JobOpenTarget, Works, CanCreate, Fail, Undo
  <2>2. Arrived(p)
    <3>1. Active /\ pc \notin PlanPlaces
      BY <1>3 DEF Active, Copying, PlanPlaces, InJob
    <3>2. \A k \in 1 .. Len(jobs) : k < jobIndex /\ jobs[k].src = p => Arrived(p)
      BY <3>1 DEF ProgressInv
    <3>3. CASE Disk0[p] = Dir
      <4>1. ~Awaited(p)
        BY <3>1 DEF ProgressInv, Awaited
      <4>2. \A j \in 1 .. Len(jobs) : jobs[j].src # p
        BY <1>6, <3>3 DEF PlanningInv, JobsInv, Sources
      <4>. QED BY <1>6, <3>1, <4>1, <4>2 DEF ProgressInv
    <3>. QED BY <1>6, <3>2, <3>3 DEF Settled
  <2>. QED BY <2>1, <2>2 DEF Arrived
<1>7. \A p \in Sources : Settled(p)' => Image(p) # Temp'
  BY <1>4, <1>5, <1>6
<1>8. ASSUME \/ pc' \in {"jobFinalize", "jobRename"}
             \/ pc' = "jobTransferred" /\ ~hasError' /\ ~cancelRequested'
      PROVE  Temp \in DOMAIN fs' /\ (Job.src \in Sources => fs'[Temp] = Disk0[Job.src])
  <2>1. CASE JobTransfer
    <3>1. fs' = Put(Temp, fs[Job.src])
      BY ONLY <1>8, <2>1 DEF JobTransfer
    <3>2. Job.src \in Sources => fs[Job.src] = Disk0[Job.src]
      BY <1>3, JobSourceIntact DEF Intact
    <3>. QED BY <3>1, <3>2 DEF Put
  <2>2. CASE ~JobTransfer
    <3>1. /\ fs' = fs
          /\ \/ pc \in {"jobFinalize", "jobRename"}
             \/ pc = "jobTransferred" /\ ~hasError /\ ~cancelRequested
      BY ONLY <1>2, <1>8, <2>2 DEF Cancel, vars, JobOpenTarget, JobTransferred, TransferEnd, JobFinalize
    <3>. QED BY <3>1 DEF TempInv, Exists
  <2>. QED BY <2>1, <2>2
<1>. QED BY <1>4, <1>7, <1>8

(***************************************************************************)
(* What a paste promises.                                                  *)
(***************************************************************************)
\* Before the first step nothing has been copied and nothing is lost.
LEMMA PasteStarts == Init => PasteInv
<1>. SUFFICES ASSUME Init, Pasting
              PROVE  PlanningInv /\ ProgressInv /\ TempInv /\ LossInv /\ ReplaceIsAtomic
  BY DEF PasteInv
<1>1. /\ pc = "idle" /\ fs = Disk0 /\ planStack = <<>> /\ jobs = <<>> /\ jobIndex = 1
      /\ createdFiles = <<>> /\ createdDirectories = <<>> /\ temporaryPath = NoPath
  BY DEF Init
<1>2. \A p \in DOMAIN Disk0 : Intact(p)
  BY <1>1 DEF Intact, Exists
<1>3. WalkInv /\ JobsInv /\ MadeInv /\ SingleInv
  BY <1>1 DEF WalkInv, JobsInv, MadeInv, SingleInv
<1>4. PlanInv /\ UndoInv
  BY <1>1, <1>2 DEF PlanInv, UndoInv
<1>5. ProgressInv /\ TempInv
  BY <1>1 DEF ProgressInv, TempInv, Active, PlanPlaces, Copying, InJob
<1>6. LossInv /\ ReplaceIsAtomic
  BY <1>1, <1>2 DEF LossInv, ReplaceIsAtomic, Sources, Exists
<1>. QED BY <1>3, <1>4, <1>5, <1>6 DEF PlanningInv

\* The invariant is inductive.
LEMMA PasteSteps == SafeInv /\ PasteInv /\ [Next]_vars => PasteInv'
<1>. SUFFICES ASSUME SafeInv, PasteInv, [Next]_vars, Pasting PROVE PasteInv'
  BY SameOperation, SameTargets DEF PasteInv
<1>. QED BY PlanningSteps, ProgressSteps, TempSteps, LossSteps, ReplaceSteps DEF PasteInv

\* What the invariant says of the file that is replaced.
LEMMA OneVersionIsThere == SafeInv /\ PasteInv => ReplaceIsAtomic
<1>. SUFFICES ASSUME SafeInv, PasteInv, ~Pasting PROVE ReplaceIsAtomic
  BY DEF PasteInv
<1>. QED BY RootsArePaths DEF ReplaceIsAtomic, Pasting, Pastes, Kinds, SafeInv, PlaceInv

\* What the invariant says of the items of the clipboard.
LEMMA ItemsAreThere == SafeInv /\ PasteInv => NothingLost
<1>. SUFFICES ASSUME SafeInv, PasteInv, Pasting, ~BeyondUndoing
              PROVE  /\ \A p \in Sources : Intact(p) \/ Arrived(p)
                     /\ op.kind = "Copy" => \A p \in Sources : Intact(p)
  BY DEF NothingLost
<1>1. op \in Operations /\ LossInv /\ ReplaceIsAtomic
  BY DEF SafeInv, PlaceInv, PasteInv
<1>2. CASE op.kind = "Move"
  BY <1>1, <1>2 DEF LossInv, Safe, AllArrived
<1>3. CASE op.kind = "Copy"
  <2>. SUFFICES ASSUME NEW p \in Sources PROVE Intact(p)
    BY <1>3
  <2>1. CASE op.replace /\ p = TargetOf(op.roots[1])
    <3>1. p = op.roots[1] /\ p \in DOMAIN Disk0
      BY <1>1, <2>1, FreshSource DEF Fresh, Sources
    <3>2. ~cancelRequested
      BY <2>1, <3>1 DEF BeyondUndoing
    <3>3. Exists(p) /\ fs[p] \in {Disk0[p], Disk0[op.roots[1]]}
      BY <1>1, <2>1, <3>1, <3>2 DEF ReplaceIsAtomic
    <3>. QED BY <3>1, <3>3 DEF Intact
  <2>. QED BY <1>3, <2>1 DEF SafeInv, BystandersUntouched, Sources
<1>. QED BY <1>2, <1>3 DEF Pasting, Pastes

\* Whatever fails, and whenever the process is killed: the file that a confirmed
\* overwrite replaces is there in its old or its new version, unless the user
\* cancels when it has been replaced.
THEOREM ReplacedAtOnce == Spec => []ReplaceIsAtomic
BY WorkerStarts, SafeSteps, PasteStarts, PasteSteps, OneVersionIsThere, PTL DEF Spec

\* Whatever fails, and whenever it is canceled or the process is killed: every
\* item of the clipboard is whole in its old place or in its new one, and what
\* is copied stays where it is.
THEOREM NoLoss == Spec => []NothingLost
BY WorkerStarts, SafeSteps, PasteStarts, PasteSteps, ItemsAreThere, PTL DEF Spec

(***************************************************************************)
(* What is left on the disk.                                               *)
(***************************************************************************)
\* Where the temporary file of the current job may exist.
TempPlaces == {"jobOpenTarget", "jobTransfer", "jobTransferred", "jobDiscard", "jobFinalize",
               "jobRename"}

\* Nothing has been taken back, and nothing will be before a cancellation.
Forward ==
    \/ pc \in Before \cup Copying \cup {"remove"}
    \/ pc = "planned" /\ state # "Failed"
    \/ pc \in {"end", "done"} /\ state = "Completed"

\* What the rollback finds of p, which this paste has made.
Noted(p) ==
    IF fs[p] = Dir
    THEN \E i \in 1 .. Len(createdDirectories) : createdDirectories[i] = p
    ELSE \/ \E i \in 1 .. Len(createdFiles) : createdFiles[i] = p
         \/ pc \in TempPlaces \cup {"undoTemp"} /\ temporaryPath # NoPath /\ p = temporaryPath
         \/ pc = "jobRecord" /\ p = Job.dst

\* Directories were created from the top down, in folders that were there.
CreatedInv ==
    /\ \A i \in 1 .. Len(createdDirectories) :
          /\ IsSeq(createdDirectories[i])
          /\ \E q \in Sources : createdDirectories[i] = Image(q)
          /\ pc \in Before => Exists(ParentPath(createdDirectories[i]))
    /\ \A j \in 1 .. Len(createdDirectories) : \A i \in 1 .. j :
          ParentPath(createdDirectories[i]) # createdDirectories[j]
    /\ pc \in TempPlaces => temporaryPath = Temp

\* Everything new is known to the worker, unless its cleaning up has failed.
NotedInv ==
    ~Broke({"unlink", "rmdir"}) \/ Forward =>
        \A p \in DOMAIN fs : p \in DOMAIN Disk0 \/ Noted(p)

Undone == createdFiles = <<>> /\ createdDirectories = <<>>

\* What an outcome says of the disk.
OutcomeInv ==
    /\ pc \in {"jobDiscard", "undoTemp", "undo"} => after.state \in {"Failed", "Canceled"}
    /\ pc \in PlanPlaces \cup InJob \cup {"jobTop"} => state # "Failed"
    /\ pc \in {"end", "done"} => state \in {"Canceled", "Failed", "Completed"}
    /\ pc \in {"planned", "end", "done"} /\ state = "Failed" =>
          Undone \/ (op.kind = "Move" /\ AllArrived)
    /\ pc \in {"end", "done"} /\ state = "Canceled" =>
          Undone /\ (op.kind = "Move" => BeyondUndoing \/ \A p \in Sources : Intact(p))
    /\ state = "Completed" /\ ~Locked =>
          /\ AllArrived /\ pc \in {"planned", "jobTop", "end", "done"}
          /\ pc \in {"planned", "jobTop"} => jobs = <<>>

\* While the worker is alone on the disk, the planning finds nothing below the
\* roots that was not there, and every job has a source.
OwnInv ==
    /\ \A i \in 1 .. Len(jobs) : jobs[i].src \in DOMAIN Disk0
    /\ pc \in Before => \A p \in DOMAIN fs : p \in DOMAIN Disk0 \/ ~BelowRoot(p)

TraceInv == IsSeq(faults) /\ (Pasting => OwnInv /\ CreatedInv /\ NotedInv /\ OutcomeInv)

(***************************************************************************)
(* What is gone.                                                           *)
(***************************************************************************)
\* What lies above a path that exists is a directory.
Tree == \A p \in DOMAIN fs : /\ IsSeq(p)
                             /\ \A n \in 0 .. (Len(p) - 1) : IsDir(SubSeq(p, 1, n))

\* The write goes to a file that is there.
TreeInv == Tree /\ (pc = "jobTransfer" => Exists(Temp) /\ ~IsDir(Temp))

RootsGone == \A i \in 1 .. Len(op.roots) : ~Exists(op.roots[i])

\* A move that is completed has removed its roots.
MovedInv ==
    ~Broke({"lstat_removed"}) /\ op.kind = "Move" /\ state = "Completed" /\ ~Locked => RootsGone

\* Where a deletion lists or removes what it has been asked to.
Deleting ==
    \/ pc \in PlanPlaces \cup {"deleteTop", "delete"}
    \/ pc = "planned" /\ state # "Failed" /\ ~cancelRequested

\* The walk comes back to the root of every tree.
Listed(root) ==
    \/ \E k \in 1 .. Len(planStack) : planStack[k].src = root
    \/ \E j \in 1 .. Len(deletePaths) : deletePaths[j] = root

\* A deletion works off its list, on which all its roots are.
DeletionInv ==
    op.kind = "Delete" =>
        /\ pc \notin {"jobTop", "remove"} \cup InJob
        /\ pc \in Before => deleteIndex = 1
        /\ Deleting => \A i \in 1 .. Len(op.roots) : Listed(op.roots[i])
        /\ Deleting /\ pc \notin PlanPlaces => planStack = <<>>
        /\ \A j \in 1 .. Len(deletePaths) : j < deleteIndex => ~Exists(deletePaths[j])
        /\ state = "Completed" => pc \in {"end", "done"} /\ RootsGone
        /\ pc \in {"undoTemp", "undo"} => \/ after.state = "Failed"
                                          \/ after.state = "Canceled" /\ after.pc = "done"

GoneInv == TreeInv /\ MovedInv /\ DeletionInv

(***************************************************************************)
(* Facts about the steps.                                                  *)
(***************************************************************************)
\* A call that breaks is remembered.
LEMMA FaultBreaks ==
    ASSUME IsSeq(faults), NEW calls, NEW call \in calls, Fault(call)
    PROVE  Broke(calls)'
<1>1. faults' = Append(faults, call) /\ Len(faults) \in Nat
  BY LenIsNat DEF Fault
<1>2. Len(faults') = Len(faults) + 1 /\ faults'[Len(faults) + 1] = call
  BY <1>1, AppendFacts
<1>3. Len(faults) + 1 \in 1 .. Len(faults')
  BY <1>1, <1>2
<1>. QED BY <1>2, <1>3 DEF Broke

\* What has been taken back is not shown as done.
LEMMA ForwardSteps ==
    ASSUME PlaceInv, UndoInv, OutcomeInv, Pasting, [Next]_vars, Forward' PROVE Forward
<1>. USE DEF Forward, Before, PlanPlaces, Copying, InJob
<1>1. CASE Start \/ Cancel \/ Gone \/ UNCHANGED vars
  BY <1>1 DEF Start, Cancel, Gone, vars
<1>2. CASE PlanStep
  BY <1>2 DEF PlanStep, PlanTop, PlanRefused, PlanMakeDirectory, PlanOpenDirectory, PlanDescend,
     PlanLeaveDirectory, PlanFile, PlanDeleteLeaf, Planned, Walking, Fail, Undo
<1>3. CASE JobStep
  BY <1>3 DEF JobStep, JobTop, JobOpenSource, JobOpenTarget, JobNoResources, JobTransfer,
     JobTransferred, JobDiscard, JobFinalize, JobRename, JobRecord, Fail, Undo
<1>4. CASE DeleteTop \/ DeleteItem \/ End
  BY <1>4 DEF DeleteTop, DeleteItem, End, UndoInv
<1>5. CASE UndoStep
  BY <1>5 DEF UndoStep, UndoTemp, UndoFile, UndoDirectory, UndoEnd, OutcomeInv, UndoInv,
     PlaceInv, Returning
<1>6. CASE RemoveStep
  BY <1>6 DEF RemoveStep, RemoveMissing, RemoveOpen, RemoveDescend, RemoveItem, RemoveNextRoot,
     Removing
<1>. QED BY <1>1, <1>2, <1>3, <1>4, <1>5, <1>6 DEF Next, WorkerStep

\* The list the rollback works off loses its last item.
LEMMA TakenFacts ==
    ASSUME NEW s, IsSeq(s), s # <<>>, NEW next, next = ButLast(s)
    PROVE  /\ Len(s) \in 1 .. Len(s) /\ Top(s) = s[Len(s)]
           /\ \A i \in 1 .. Len(next) : i \in 1 .. Len(s) /\ next[i] = s[i]
           /\ \A i \in 1 .. Len(s) : i = Len(s) \/ (i \in 1 .. Len(next) /\ next[i] = s[i])
<1>1. Len(next) = Len(s) - 1 /\ Len(s) \in Nat \ {0}
      /\ \A i \in 1 .. Len(s) - 1 : next[i] = s[i]
  BY ButLastFacts
<1>. QED BY ONLY <1>1 DEF Top

\* Before the first job nothing is removed from the disk.
LEMMA PlanningAdds ==
    ASSUME PlaceInv, [Next]_vars, pc \in Before
    PROVE  \A p : Exists(p) => Exists(p)'
<1>1. fs' = fs \/ PlanMakeDirectory
  BY DiskChanges DEF Before, PlanPlaces, UndoTemp, UndoFile, UndoDirectory, RemoveItem, Removing,
     JobOpenTarget, JobTransfer, JobDiscard, JobRename, DeleteItem
<1>2. fs' = fs \/ \E q, node : fs' = Put(q, node)
  BY <1>1 DEF PlanMakeDirectory
<1>. QED BY <1>2 DEF Exists, Put

\* The directories that are created are copies, and come after those above them.
LEMMA CreatedSteps ==
    ASSUME SafeInv, Pasting, PlanningInv, CreatedInv, [Next]_vars PROVE CreatedInv'
<1>. DEFINE dirs == createdDirectories
            Copied(d) == IsSeq(d) /\ \E q \in Sources : d = Image(q)
            Ordered == \A j \in 1 .. Len(dirs) : \A i \in 1 .. j : ParentPath(dirs[i]) # dirs[j]
            Rooted == pc \in Before => \A i \in 1 .. Len(dirs) : Exists(ParentPath(dirs[i]))
<1>1. /\ op' = op /\ op \in Operations /\ PlaceInv /\ WalkInv
      /\ IsSeq(dirs) /\ Len(dirs) \in Nat
  BY SameOperation, LenIsNat DEF SafeInv, PlaceInv, MemoryInv, AllExpendable, PlanningInv
<1>2. Sources' = Sources /\ \A q : Image(q)' = Image(q)
  BY <1>1, SameTargets
<1>3. pc' \in Before => pc \in Before
  BY <1>1, BeforeSteps
<1>4. pc \in Before => \A p : Exists(p) => Exists(p)'
  BY <1>1, PlanningAdds
<1>5. (\A i \in 1 .. Len(dirs) : Copied(dirs[i])) /\ Ordered /\ Rooted
  BY DEF CreatedInv
<1>6. (\A i \in 1 .. Len(dirs') : Copied(dirs'[i])) /\ Ordered' /\ Rooted'
  <2>1. CASE dirs' = dirs
    <3>1. Ordered' /\ \A i \in 1 .. Len(dirs') : Copied(dirs'[i])
      BY <1>5, <2>1
    <3>2. Rooted'
      BY <1>3, <1>4, <1>5, <2>1
    <3>. QED BY <3>1, <3>2
  <2>2. CASE PlanMakeDirectory /\ dirs' # dirs
    <3>. DEFINE new == TopFrame.dst
    <3>1. pc = "frame" /\ fs' = Put(new, Dir) /\ ~Exists(new) /\ Exists(ParentPath(new))
          /\ dirs' = Append(dirs, new)
      BY <2>2 DEF PlanMakeDirectory, Walking, Works, CanCreate, IsDir
    <3>2. fs' # fs
      BY <3>1 DEF Exists, Put
    <3>3. /\ TopFrame.src \in DOMAIN Disk0 /\ BelowRoot(TopFrame.src)
          /\ new = Image(TopFrame.src)
      BY <1>1, <2>2, <3>1, <3>2, MakesDirectory, TopFrameFacts
    <3>4. Copied(new)
      <4>1. TopFrame.src \in Sources
        BY <1>1, <3>3, SourceFacts
      <4>2. PICK i \in 1 .. Len(op.roots) : IsUnder(TopFrame.src, op.roots[i])
        BY <3>3 DEF BelowRoot
      <4>3. IsSeq(Image(TopFrame.src))
        BY <1>1, <3>3, <4>2, ImageFacts DEF BelowRoot
      <4>. QED BY <3>3, <4>1, <4>3
    <3>5. \A i \in 1 .. Len(dirs) : ParentPath(dirs[i]) # new
      BY <1>5, <3>1 DEF Before, PlanPlaces
    <3>6. ParentPath(new) # new
      BY <3>1
    <3>7. \A p : Exists(p) => Exists(p)'
      BY <1>4, <3>1 DEF Before, PlanPlaces
    <3>8. \A i \in 1 .. Len(dirs) : Exists(ParentPath(dirs[i]))
      BY <1>5, <3>1 DEF Before, PlanPlaces
    <3>. HIDE DEF Copied, new
    <3>9. /\ Len(dirs') = Len(dirs) + 1 /\ dirs'[Len(dirs) + 1] = new
          /\ \A i \in 1 .. Len(dirs) : dirs'[i] = dirs[i]
      BY <1>1, <3>1, AppendFacts
    <3>10. \A i \in 1 .. Len(dirs') : Copied(dirs'[i])
      BY <1>1, <1>5, <3>4, <3>9
    <3>11. Ordered'
      BY <1>1, <1>5, <3>5, <3>6, <3>9
    <3>12. \A i \in 1 .. Len(dirs') : ParentPath(dirs'[i]) \in DOMAIN fs'
      <4>1. \A p : p \in DOMAIN fs => p \in DOMAIN fs'
        BY <3>7 DEF Exists
      <4>2. \A i \in 1 .. Len(dirs) : ParentPath(dirs[i]) \in DOMAIN fs'
        BY <3>8, <4>1 DEF Exists
      <4>3. ParentPath(new) \in DOMAIN fs'
        BY <3>1, <4>1 DEF Exists
      <4>. QED BY <1>1, <3>9, <4>2, <4>3
    <3>. QED BY <3>10, <3>11, <3>12 DEF Exists
  <2>3. CASE UndoDirectory
    <3>1. /\ \A i \in 1 .. Len(dirs') : i \in 1 .. Len(dirs) /\ dirs'[i] = dirs[i]
          /\ Len(dirs') \in Nat
      BY <1>1, <2>3, TakenFacts, ButLastFacts, LenIsNat DEF UndoDirectory
    <3>2. pc' \notin Before
      BY <2>3 DEF UndoDirectory, Before, PlanPlaces
    <3>. HIDE DEF Copied
    <3>3. Ordered'
      <4>. SUFFICES ASSUME NEW j \in 1 .. Len(dirs'), NEW i \in 1 .. j
                    PROVE  ParentPath(dirs'[i]) # dirs'[j]
        OBVIOUS
      <4>1. i \in 1 .. Len(dirs')
        BY <3>1
      <4>. QED BY <1>5, <3>1, <4>1
    <3>. QED BY <1>5, <3>1, <3>2, <3>3
  <2>. QED BY <2>1, <2>2, <2>3, CreatedDirectoriesChange
<1>7. pc' \in TempPlaces => temporaryPath' = Temp'
  <2>. SUFFICES ASSUME pc' \in TempPlaces PROVE temporaryPath' = Temp'
    OBVIOUS
  <2>. USE DEF TempPlaces
  <2>1. pc \in TempPlaces => temporaryPath = Temp
    BY DEF CreatedInv
  <2>2. pc \in Returning => after.pc \notin TempPlaces
    BY <1>1 DEF PlaceInv
  <2>3. ~(Start \/ PlanStep \/ DeleteTop \/ DeleteItem \/ UndoStep \/ RemoveStep \/ End)
    BY ONLY pc' \in TempPlaces, <2>2 DEF TempPlaces, Start, PlanStep, PlanTop, PlanRefused, PlanMakeDirectory,
       PlanOpenDirectory, PlanDescend, PlanLeaveDirectory, PlanFile, PlanDeleteLeaf, Planned,
       DeleteTop, DeleteItem, UndoStep, UndoTemp, UndoFile, UndoDirectory, UndoEnd, RemoveStep,
       RemoveMissing, RemoveOpen, RemoveDescend, RemoveItem, RemoveNextRoot, Removing, End, Fail,
       Undo, CompleteOperation, Returning
  <2>4. ~(JobTop \/ JobRecord)
    BY ONLY pc' \in TempPlaces DEF TempPlaces, JobTop, JobRecord, Undo, CompleteOperation
  <2>5. CASE JobOpenSource
    BY ONLY <2>5 DEF JobOpenSource, Temp, Job, plan, cursors
  <2>6. CASE Cancel \/ Gone \/ UNCHANGED vars
    BY ONLY <2>1, <2>6, pc' \in TempPlaces DEF Cancel, Gone, vars, Temp, Job, plan, made, cursors
  <2>7. CASE JobOpenTarget \/ JobNoResources \/ JobTransfer \/ JobTransferred \/ JobDiscard
             \/ JobFinalize \/ JobRename
    <3>1. pc \in TempPlaces
      BY ONLY <2>7 DEF TempPlaces, JobOpenTarget, JobNoResources, JobTransfer, JobTransferred,
         JobDiscard, JobFinalize, JobRename
    <3>2. UNCHANGED <<plan, made, jobIndex>>
      BY ONLY <2>7 DEF JobOpenTarget, JobNoResources, JobTransfer, JobTransferred,
         JobDiscard, JobFinalize, JobRename, plan, made, cursors
    <3>. QED BY ONLY <2>1, <3>1, <3>2 DEF Temp, Job, plan, made
  <2>. QED BY <2>3, <2>4, <2>5, <2>6, <2>7 DEF Next, WorkerStep, JobStep
<1>8. \A i \in 1 .. Len(dirs') : IsSeq(dirs'[i]) /\ \E q \in Sources' : dirs'[i] = Image(q)'
  BY <1>2, <1>6
<1>. QED BY <1>6, <1>7, <1>8 DEF CreatedInv

\* A temporary file has a path.
LEMMA TempIsPath ==
    ASSUME SafeInv, Pasting, PlanningInv, pc \in InJob PROVE Temp # NoPath
<1>. DEFINE up == ButLast(Job.dst)
<1>1. op \in Operations /\ BelowRoot(Job.src) /\ Job.dst = Image(Job.src)
  BY JobFacts DEF SafeInv, PlaceInv
<1>2. PICK i \in 1 .. Len(op.roots) : IsUnder(Job.src, op.roots[i])
  BY <1>1 DEF BelowRoot
<1>3. IsSeq(Job.dst) /\ Len(Job.dst) \in Nat \ {0}
  BY <1>1, <1>2, ImageFacts DEF BelowRoot
<1>4. IsSeq(up)
  BY <1>3, LenIsNat, ButLastFacts
<1>. HIDE DEF up
<1>5. Append(up, TempName(BaseName(Job.dst))) # <<>>
  BY <1>4, JoinFacts DEF JoinPath
<1>. QED BY <1>5 DEF Temp, TempPath, JoinPath, ParentPath, ButLast, NoPath, up

\* The steps that neither change the disk nor what a rollback finds.
LEMMA QuietSteps ==
    ASSUME [Next]_vars
    PROVE  \/ PlanMakeDirectory /\ pc' = "opendir"
           \/ JobOpenSource \/ (JobOpenTarget /\ pc' = "jobTransfer") \/ JobTransfer \/ JobDiscard
           \/ (JobRename /\ pc' = "jobRecord") \/ JobRecord
           \/ UndoTemp \/ UndoFile \/ UndoDirectory \/ RemoveItem \/ DeleteItem
           \/ /\ fs' = fs /\ UNCHANGED <<createdFiles, createdDirectories, temporaryPath>>
              /\ pc \in TempPlaces \cup {"undoTemp"} => pc' \in TempPlaces \cup {"undoTemp"}
              /\ pc = "jobRecord" => pc' = "jobRecord" /\ Job' = Job
<1>. USE DEF TempPlaces
<1>1. CASE Start \/ Cancel \/ Gone \/ UNCHANGED vars
  BY <1>1 DEF Start, Cancel, Gone, vars, Job
<1>2. CASE PlanStep
  BY <1>2 DEF PlanStep, PlanTop, PlanRefused, PlanMakeDirectory, PlanOpenDirectory, PlanDescend,
     PlanLeaveDirectory, PlanFile, PlanDeleteLeaf, Planned, Walking
<1>3. CASE JobStep
  BY <1>3 DEF JobStep, JobTop, JobOpenTarget, JobNoResources, JobTransferred, JobFinalize, JobRename,
     Fail, Undo, Job
<1>4. CASE DeleteTop \/ UndoEnd \/ End
  BY <1>4 DEF DeleteTop, UndoEnd, End
<1>5. CASE RemoveStep
  BY <1>5 DEF RemoveStep, RemoveMissing, RemoveOpen, RemoveDescend, RemoveNextRoot, Removing
<1>. QED BY <1>1, <1>2, <1>3, <1>4, <1>5 DEF Next, WorkerStep, UndoStep

\* What the worker makes itself, it makes outside of the roots.
LEMMA OwnSteps == ASSUME SafeInv, Pasting, PlanningInv, OwnInv, [Next]_vars PROVE OwnInv'
<1>1. op' = op /\ PlaceInv
  BY SameOperation DEF SafeInv, PlaceInv
<1>2. ASSUME pc' \in Before
      PROVE  \A p \in DOMAIN fs' : p \in DOMAIN Disk0 \/ ~BelowRoot(p)'
  <2>1. pc \in Before
    BY <1>1, <1>2, BeforeSteps
  <2>2. \A p \in DOMAIN fs : p \in DOMAIN Disk0 \/ ~BelowRoot(p)
    BY <2>1 DEF OwnInv
  <2>3. \A p : BelowRoot(p)' <=> BelowRoot(p)
    BY <1>1 DEF BelowRoot
  <2>4. CASE PlanMakeDirectory /\ fs' # fs
    <3>1. fs' = Put(TopFrame.dst, Dir) /\ ~BelowRoot(TopFrame.dst)
      BY <2>4, MakesDirectory
    <3>. QED BY <2>2, <2>3, <3>1 DEF Put
  <2>5. fs' = fs \/ PlanMakeDirectory
    BY <2>1, DiskChanges DEF Before, PlanPlaces, UndoTemp, UndoFile, UndoDirectory, RemoveItem,
       Removing, JobOpenTarget, JobTransfer, JobDiscard, JobRename, DeleteItem
  <2>. QED BY <2>2, <2>3, <2>4, <2>5
<1>3. \A i \in 1 .. Len(jobs') : jobs'[i].src \in DOMAIN Disk0
  <2>1. CASE jobs' = jobs
    BY <2>1 DEF OwnInv
  <2>2. CASE PlanFile /\ jobs' # jobs
    <3>1. /\ IsRegular(TopFrame.src) /\ pc = "frame"
          /\ Len(jobs) \in Nat /\ Len(jobs') = Len(jobs) + 1
          /\ \A i \in 1 .. Len(jobs) : jobs'[i] = jobs[i]
          /\ jobs'[Len(jobs) + 1].src = TopFrame.src
      BY <2>2, AddsJob
    <3>2. BelowRoot(TopFrame.src)
      BY <3>1, TopFrameFacts DEF PlanningInv
    <3>3. TopFrame.src \in DOMAIN Disk0
      BY <3>1, <3>2 DEF OwnInv, Before, PlanPlaces, IsRegular, Exists
    <3>4. \A i \in 1 .. Len(jobs') : i \in 1 .. Len(jobs) \/ i = Len(jobs) + 1
      BY <3>1
    <3>. QED BY <3>1, <3>3, <3>4 DEF OwnInv
  <2>. QED BY <2>1, <2>2, JobsChange
<1>. QED BY <1>2, <1>3 DEF OwnInv

\* The job at hand has a source.
LEMMA JobHasSource ==
    ASSUME SafeInv, Pasting, PlanningInv, OwnInv, pc \in InJob
    PROVE  Job.src \in Sources /\ Disk0[Job.src] # Dir
BY JobFacts DEF OwnInv

\* Everything that is new on the disk is known to the rollback.
LEMMA NotedSteps ==
    ASSUME SafeInv, Pasting, PlanningInv, TempInv, LossInv, ReplaceIsAtomic, OwnInv, CreatedInv,
           NotedInv, OutcomeInv, IsSeq(faults), [Next]_vars
    PROVE  NotedInv'
<1>. DEFINE dirs == createdDirectories
            files == createdFiles
            Alive == pc \in TempPlaces \cup {"undoTemp"} /\ temporaryPath # NoPath
            Made(q) == \E i \in 1 .. Len(dirs) : dirs[i] = q
            Filed(q) == \E i \in 1 .. Len(files) : files[i] = q
            FileKnown(q) == \/ Filed(q) \/ (Alive /\ q = temporaryPath)
                            \/ (pc = "jobRecord" /\ q = Job.dst)
            Known(q) == IF fs[q] = Dir THEN Made(q) ELSE FileKnown(q)
<1>1. /\ op' = op /\ op \in Operations /\ PlaceInv /\ IsSeq(dirs) /\ IsSeq(files)
      /\ Len(dirs) \in Nat /\ Len(files) \in Nat
  BY SameOperation, LenIsNat DEF SafeInv, PlaceInv, MemoryInv, AllExpendable
<1>. SUFFICES ASSUME ~Broke({"unlink", "rmdir"})' \/ Forward',
                     NEW p \in DOMAIN fs', p \notin DOMAIN Disk0
              PROVE  Known(p)'
  BY DEF NotedInv, Noted
<1>2. ~Broke({"unlink", "rmdir"}) \/ Forward
  BY <1>1, BrokenStays, ForwardSteps DEF PlanningInv
<1>3. \A q \in DOMAIN fs : q \in DOMAIN Disk0 \/ Known(q)
  BY <1>2 DEF NotedInv, Noted
<1>4. pc \in InJob => Temp # NoPath /\ (pc \in TempPlaces => temporaryPath = Temp)
  BY TempIsPath DEF CreatedInv
<1>5. ASSUME p \in DOMAIN fs, fs'[p] = fs[p], Made(p) => Made(p)',
             fs[p] # Dir /\ FileKnown(p) => FileKnown(p)'
      PROVE  Known(p)'
  BY <1>3, <1>5
<1>6. CASE PlanMakeDirectory /\ pc' = "opendir"
  <2>. DEFINE new == TopFrame.dst
  <2>1. fs' = Put(new, Dir) /\ dirs' = Append(dirs, new) /\ pc = "frame" /\ files' = files
    BY ONLY <1>6 DEF PlanMakeDirectory, Walking, Fail, Undo
  <2>2. /\ Len(dirs') = Len(dirs) + 1 /\ dirs'[Len(dirs) + 1] = new
        /\ \A i \in 1 .. Len(dirs) : dirs'[i] = dirs[i]
    BY <1>1, <2>1, AppendFacts
  <2>3. CASE p = new
    <3>1. fs'[p] = Dir
      BY <2>1, <2>3 DEF Put
    <3>2. Len(dirs) + 1 \in 1 .. Len(dirs')
      BY <1>1, <2>2
    <3>. QED BY <2>2, <2>3, <3>1, <3>2
  <2>4. CASE p # new
    <3>1. p \in DOMAIN fs /\ fs'[p] = fs[p]
      BY <2>1, <2>4 DEF Put
    <3>2. Made(p) => Made(p)'
      <4>1. \A i \in 1 .. Len(dirs) : i \in 1 .. Len(dirs')
        BY <1>1, <2>2
      <4>. QED BY <2>2, <4>1
    <3>3. FileKnown(p) => FileKnown(p)'
      BY <2>1 DEF TempPlaces
    <3>. QED BY <1>5, <3>1, <3>2, <3>3
  <2>. QED BY <2>3, <2>4
<1>7. CASE JobOpenSource
  <2>1. fs' = fs /\ dirs' = dirs /\ files' = files /\ pc = "jobPrepare"
    BY ONLY <1>7 DEF JobOpenSource
  <2>2. FileKnown(p) => FileKnown(p)'
    BY <2>1 DEF TempPlaces
  <2>. QED BY <1>5, <2>1, <2>2
<1>8. CASE (JobOpenTarget /\ pc' = "jobTransfer") \/ JobTransfer
  <2>1. /\ dirs' = dirs /\ files' = files /\ temporaryPath' = temporaryPath /\ pc \in InJob
        /\ pc \in TempPlaces /\ pc' \in TempPlaces
    BY ONLY <1>8 DEF JobOpenTarget, JobTransfer, InJob, TempPlaces
  <2>2. fs' = fs \/ \E node : node # Dir /\ fs' = Put(Temp, node)
    <3>1. CASE JobOpenTarget
      BY ONLY <1>8, <3>1, WorkerAssumption DEF JobOpenTarget, Fail, Undo
    <3>2. CASE JobTransfer
      <4>1. fs[Job.src] # Dir
        BY <2>1, <3>2, JobHasSource, JobSourceIntact DEF Intact, JobTransfer, InJob
      <4>. QED BY ONLY <3>2, <4>1 DEF JobTransfer
    <3>. QED BY <1>8, <3>1, <3>2
  <2>3. Alive' /\ Alive /\ temporaryPath = Temp
    BY <1>4, <2>1 DEF NoPath
  <2>4. CASE p \in DOMAIN fs /\ fs'[p] = fs[p]
    <3>1. FileKnown(p) => FileKnown(p)'
      BY <2>1, <2>3 DEF TempPlaces
    <3>. QED BY <1>5, <2>1, <2>4, <3>1
  <2>5. CASE p = Temp /\ fs'[p] # Dir
    BY <2>1, <2>3, <2>5
  <2>. QED BY <2>2, <2>4, <2>5 DEF Put
<1>9. CASE JobDiscard
  <2>1. /\ dirs' = dirs /\ files' = files /\ temporaryPath' = temporaryPath
        /\ pc = "jobDiscard" /\ pc' = "undoTemp" /\ (fs' = fs \/ fs' = Drop(Temp))
    BY ONLY <1>9 DEF JobDiscard, TryUnlink
  <2>2. p \in DOMAIN fs /\ fs'[p] = fs[p]
    BY <2>1 DEF Drop
  <2>3. FileKnown(p) => FileKnown(p)'
    BY <2>1 DEF TempPlaces
  <2>. QED BY <1>5, <2>1, <2>2, <2>3
<1>10. CASE UndoTemp
  <2>1. /\ dirs' = dirs /\ files' = files /\ pc = "undoTemp" /\ pc' = "undo"
        /\ \/ temporaryPath = NoPath /\ fs' = fs
           \/ TryUnlink(temporaryPath)
    BY ONLY <1>10 DEF UndoTemp
  <2>2. ~Fault("unlink")
    BY <1>1, <2>1, FaultBreaks DEF Forward, Before, PlanPlaces, Copying, InJob
  <2>3. \/ temporaryPath = NoPath /\ fs' = fs
        \/ fs' = IF CanUnlink(temporaryPath) THEN Drop(temporaryPath) ELSE fs
    BY ONLY <2>1, <2>2 DEF TryUnlink
  <2>4. p \in DOMAIN fs /\ fs'[p] = fs[p]
    BY <2>3 DEF Drop
  <2>5. ASSUME fs[p] # Dir, temporaryPath # NoPath PROVE p # temporaryPath
    BY <2>3, <2>4, <2>5 DEF CanUnlink, IsDir, Exists, Drop
  <2>6. fs[p] # Dir /\ FileKnown(p) => FileKnown(p)'
    BY <2>1, <2>5
  <2>. QED BY <1>5, <2>1, <2>4, <2>6
<1>11. CASE JobRename /\ pc' = "jobRecord"
  <2>1. /\ dirs' = dirs /\ files' = files /\ temporaryPath' = temporaryPath /\ Job' = Job
        /\ pc = "jobRename" /\ fs' = Renamed(Temp, Job.dst)
    BY ONLY <1>11 DEF JobRename, Job
  <2>2. fs[Temp] # Dir /\ temporaryPath = Temp
    <3>1. Job.src \in Sources /\ Disk0[Job.src] # Dir
      BY <2>1, JobHasSource DEF InJob
    <3>2. fs[Temp] = Disk0[Job.src]
      BY <2>1, <3>1 DEF TempInv
    <3>. QED BY <1>4, <2>1, <3>1, <3>2 DEF InJob, TempPlaces
  <2>3. CASE p = Job.dst
    <3>1. fs'[p] = fs[Temp]
      BY <2>1, <2>3 DEF Renamed
    <3>. QED BY <1>11, <2>1, <2>2, <2>3, <3>1
  <2>4. CASE p # Job.dst
    <3>1. p \in DOMAIN fs /\ fs'[p] = fs[p] /\ p # Temp
      BY <2>1, <2>4 DEF Renamed
    <3>2. FileKnown(p) => FileKnown(p)'
      BY <2>1, <2>2, <3>1
    <3>. QED BY <1>5, <2>1, <3>1, <3>2
  <2>. QED BY <2>3, <2>4
<1>12. CASE JobRecord
  <2>1. /\ dirs' = dirs /\ files' = Append(files, Job.dst) /\ fs' = fs /\ pc = "jobRecord"
    BY ONLY <1>12 DEF JobRecord, Recorded
  <2>2. /\ Len(files') = Len(files) + 1 /\ files'[Len(files) + 1] = Job.dst
        /\ \A i \in 1 .. Len(files) : files'[i] = files[i]
    BY <1>1, <2>1, AppendFacts
  <2>3. Filed(p) \/ p = Job.dst => Filed(p)'
    <3>1. Len(files) + 1 \in 1 .. Len(files') /\ \A i \in 1 .. Len(files) : i \in 1 .. Len(files')
      BY <1>1, <2>2
    <3>. QED BY <2>2, <3>1
  <2>4. FileKnown(p) => FileKnown(p)'
    BY <2>1, <2>3 DEF TempPlaces
  <2>. QED BY <1>5, <2>1, <2>4
<1>13. CASE UndoFile
  <2>1. /\ dirs' = dirs /\ files # <<>> /\ files' = ButLast(files) /\ pc = "undo" /\ pc' = "undo"
        /\ TryUnlink(Top(files))
    BY ONLY <1>13 DEF UndoFile
  <2>2. ~Fault("unlink")
    BY <1>1, <2>1, FaultBreaks DEF Forward, Before, PlanPlaces, Copying, InJob
  <2>3. fs' = IF CanUnlink(Top(files)) THEN Drop(Top(files)) ELSE fs
    BY ONLY <2>1, <2>2 DEF TryUnlink
  <2>4. p \in DOMAIN fs /\ fs'[p] = fs[p]
    BY <2>3 DEF Drop
  <2>5. ASSUME fs[p] # Dir PROVE p # Top(files)
    BY <2>3, <2>4, <2>5 DEF CanUnlink, IsDir, Exists, Drop
  <2>6. fs[p] # Dir /\ Filed(p) => Filed(p)'
    <3>1. /\ Top(files) = files[Len(files)]
          /\ \A i \in 1 .. Len(files) : i = Len(files) \/ (i \in 1 .. Len(files') /\ files'[i] = files[i])
      BY <1>1, <2>1, TakenFacts
    <3>. QED BY ONLY <2>5, <3>1
  <2>7. fs[p] # Dir /\ FileKnown(p) => FileKnown(p)'
    BY <2>1, <2>6 DEF TempPlaces
  <2>. QED BY <1>5, <2>1, <2>4, <2>7
<1>14. CASE UndoDirectory
  <2>. DEFINE d == Top(dirs)
  <2>1. /\ files = <<>> /\ files' = files /\ dirs # <<>> /\ dirs' = ButLast(dirs)
        /\ pc = "undo" /\ pc' = "undo" /\ TryRmdir(d)
    BY ONLY <1>14 DEF UndoDirectory
  <2>2. ~Fault("rmdir")
    BY <1>1, <2>1, FaultBreaks DEF Forward, Before, PlanPlaces, Copying, InJob
  <2>3. fs' = IF CanRmdir(d) THEN Drop(d) ELSE fs
    BY ONLY <2>1, <2>2 DEF TryRmdir
  <2>4. /\ Len(dirs) \in 1 .. Len(dirs) /\ d = dirs[Len(dirs)]
        /\ \A i \in 1 .. Len(dirs) : i = Len(dirs) \/ (i \in 1 .. Len(dirs') /\ dirs'[i] = dirs[i])
    BY <1>1, <2>1, TakenFacts
  <2>. HIDE DEF d
  <2>5. ASSUME NEW c \in DOMAIN fs, c # <<>>, ParentPath(c) = d PROVE FALSE
    <3>1. c \notin DOMAIN Disk0
      <4>. SUFFICES ASSUME c \in DOMAIN Disk0 PROVE FALSE
        OBVIOUS
      <4>1. c \in Seq(STRING) /\ Len(c) - 1 \in 0 .. (Len(c) - 1)
        BY <2>5, DiskAssumption
      <4>2. d \in DOMAIN Disk0
        BY <2>5, <4>1, DiskAssumption DEF ParentPath
      <4>. QED BY <2>4, <4>2 DEF PlanningInv, MadeInv
    <3>2. Known(c)
      BY <1>3, <3>1
    <3>3. Made(c)
      BY <2>1, <3>2 DEF TempPlaces
    <3>4. PICK i \in 1 .. Len(dirs) : dirs[i] = c
      BY <3>3
    <3>5. i \in 1 .. Len(dirs) /\ ParentPath(dirs[i]) # dirs[Len(dirs)]
      BY <1>1, <2>4 DEF CreatedInv
    <3>. QED BY <2>4, <2>5, <3>4, <3>5
  <2>6. NamesIn(d) = {}
    BY <2>5 DEF NamesIn
  <2>7. p \in DOMAIN fs /\ fs'[p] = fs[p]
    BY <2>3 DEF Drop
  <2>8. ASSUME fs[p] = Dir PROVE p # d
    BY <2>3, <2>6, <2>7, <2>8 DEF CanRmdir, IsDir, Exists, Drop
  <2>9. fs[p] = Dir /\ Made(p) => Made(p)'
    BY ONLY <2>4, <2>8
  <2>10. fs[p] # Dir /\ FileKnown(p) => FileKnown(p)'
    BY <2>1 DEF TempPlaces
  <2>. QED BY <1>3, <2>7, <2>9, <2>10
<1>15. CASE RemoveItem
  <2>1. /\ dirs' = dirs /\ files' = files /\ pc = "remove"
        /\ fs' = fs \/ fs' = Drop(Top(removeStack).src)
    BY ONLY <1>15 DEF RemoveItem, Removing
  <2>2. p \in DOMAIN fs /\ fs'[p] = fs[p]
    BY <2>1 DEF Drop
  <2>3. FileKnown(p) => FileKnown(p)'
    BY <2>1 DEF TempPlaces
  <2>. QED BY <1>5, <2>1, <2>2, <2>3
<1>16. ~DeleteItem
  BY DEF DeleteItem, PlanningInv, UndoInv
<1>17. CASE /\ fs' = fs /\ UNCHANGED <<createdFiles, createdDirectories, temporaryPath>>
            /\ pc \in TempPlaces \cup {"undoTemp"} => pc' \in TempPlaces \cup {"undoTemp"}
            /\ pc = "jobRecord" => pc' = "jobRecord" /\ Job' = Job
  <2>1. FileKnown(p) => FileKnown(p)'
    BY <1>17
  <2>. QED BY <1>5, <1>17, <2>1
<1>. QED BY <1>6, <1>7, <1>8, <1>9, <1>10, <1>11, <1>12, <1>13, <1>14, <1>15, <1>16, <1>17, QuietSteps

\* A paste that goes on has not failed, and one that is over has an outcome.
LEMMA OutcomePlaces ==
    ASSUME PlaceInv, UndoInv, Pasting, OutcomeInv, [Next]_vars
    PROVE  /\ pc' \in {"jobDiscard", "undoTemp", "undo"} => after'.state \in {"Failed", "Canceled"}
           /\ pc' \in PlanPlaces \cup InJob \cup {"jobTop"} => state' # "Failed"
           /\ pc' \in {"end", "done"} => state' \in {"Canceled", "Failed", "Completed"}
<1>. USE DEF PlanPlaces, InJob, OutcomeInv
<1>1. CASE Start \/ Cancel \/ Gone \/ UNCHANGED vars
  BY <1>1 DEF Start, Cancel, Gone, vars
<1>2. CASE PlanTop
  BY <1>2 DEF PlanTop, CompleteOperation, Fail, Undo
<1>3. CASE PlanRefused \/ PlanMakeDirectory \/ PlanOpenDirectory \/ PlanDescend
           \/ PlanLeaveDirectory \/ PlanFile
  BY <1>3 DEF PlanRefused, PlanMakeDirectory, PlanOpenDirectory, PlanDescend,
     PlanLeaveDirectory, PlanFile, Walking, Fail, Undo
<1>4. CASE Planned
  BY <1>4 DEF Planned, Undo, Pasting, Pastes
<1>5. CASE JobTop
  BY <1>5 DEF JobTop, CompleteOperation, Undo
<1>6. CASE JobOpenSource \/ JobOpenTarget \/ JobNoResources \/ JobTransfer
  BY <1>6 DEF JobOpenSource, JobOpenTarget, JobNoResources, JobTransfer, Fail, Undo
<1>7. CASE JobTransferred \/ JobDiscard \/ JobFinalize \/ JobRename \/ JobRecord
  BY <1>7 DEF JobTransferred, TransferEnd, JobDiscard, JobFinalize, JobRename, JobRecord
<1>8. CASE End
  BY <1>8 DEF End
<1>9. CASE UndoStep
  BY <1>9 DEF UndoStep, UndoTemp, UndoFile, UndoDirectory, UndoEnd, PlaceInv, Returning
<1>10. CASE RemoveStep
  BY <1>10 DEF RemoveStep, RemoveMissing, RemoveOpen, RemoveDescend, RemoveItem, RemoveNextRoot,
     Removing, PlaceInv, Returning
<1>11. ~(DeleteTop \/ DeleteItem \/ PlanDeleteLeaf)
  BY NoDeletion DEF DeleteTop, DeleteItem, UndoInv
<1>. QED BY <1>1, <1>2, <1>3, <1>4, <1>5, <1>6, <1>7, <1>8, <1>9, <1>10, <1>11
         DEF Next, WorkerStep, PlanStep, JobStep

\* What has arrived is there as long as the disk is the same.
LEMMA SameDisk ==
    ASSUME op \in Operations, op' = op, fs' = fs
    PROVE  /\ AllArrived => AllArrived'
           /\ (\A p \in Sources : Intact(p)) => \A p \in Sources' : Intact(p)'
           /\ BeyondUndoing /\ cancelRequested' => BeyondUndoing'
BY SameTargets DEF AllArrived, Arrived, Intact, Exists, BeyondUndoing, TargetOf

\* An outcome says what has been done, or that it has been taken back.
LEMMA OutcomeSteps ==
    ASSUME SafeInv, Pasting, PlanningInv, ProgressInv, LossInv, OutcomeInv, [Next]_vars
    PROVE  OutcomeInv'
<1>. DEFINE Over == {"planned", "end", "done"}
            Failing == pc \in Over /\ state = "Failed" =>
                          Undone \/ (op.kind = "Move" /\ AllArrived)
            Canceling == pc \in {"end", "done"} /\ state = "Canceled" =>
                          Undone /\ (op.kind = "Move" => BeyondUndoing \/ \A p \in Sources : Intact(p))
            Completing == state = "Completed" /\ ~Locked =>
                          /\ AllArrived /\ pc \in {"planned", "jobTop", "end", "done"}
                          /\ pc \in {"planned", "jobTop"} => jobs = <<>>
<1>1. /\ op' = op /\ op \in Operations /\ PlaceInv /\ UndoInv
      /\ jobIndex \in Nat \ {0} /\ Len(jobs) \in Nat /\ (jobs = <<>> => Len(jobs) = 0)
  BY SameOperation, LenIsNat DEF SafeInv, PlaceInv, PlanningInv, MemoryInv, JobsExpendable
<1>2. /\ pc' \in {"jobDiscard", "undoTemp", "undo"} => after'.state \in {"Failed", "Canceled"}
      /\ pc' \in PlanPlaces \cup InJob \cup {"jobTop"} => state' # "Failed"
      /\ pc' \in {"end", "done"} => state' \in {"Canceled", "Failed", "Completed"}
  BY <1>1, OutcomePlaces
<1>3. /\ Failing /\ Canceling /\ Completing
      /\ pc \in PlanPlaces \cup InJob \cup {"jobTop"} => state # "Failed"
      /\ pc \in {"jobDiscard", "undoTemp", "undo"} => after.state \in {"Failed", "Canceled"}
      /\ pc \in {"end", "done"} => state \in {"Canceled", "Failed", "Completed"}
  BY DEF OutcomeInv
<1>4. fs' = fs => /\ AllArrived => AllArrived'
                  /\ (\A p \in Sources : Intact(p)) => \A p \in Sources' : Intact(p)'
                  /\ BeyondUndoing /\ cancelRequested' => BeyondUndoing'
  BY <1>1, SameDisk
<1>5. BeyondUndoing => cancelRequested
  BY DEF BeyondUndoing
<1>6. Failing' /\ Canceling' /\ Completing'
  <2>1. CASE Cancel \/ Gone \/ End \/ UNCHANGED vars
    <3>1. /\ fs' = fs /\ UNCHANGED <<createdFiles, createdDirectories, jobs>>
          /\ cancelRequested => cancelRequested'
          /\ pc' = pc \/ (pc = "end" /\ pc' = "done")
          /\ state' = state \/ (pc' = pc /\ state = "Copying" /\ state' = "Canceled")
      BY ONLY <2>1 DEF Cancel, Gone, End, vars, made, plan, public
    <3>2. Undone => Undone'
      BY ONLY <3>1 DEF Undone
    <3>. HIDE DEF Undone
    <3>3. Failing'
      BY ONLY <1>1, <1>3, <1>4, <3>1, <3>2
    <3>4. Canceling'
      BY ONLY <1>1, <1>3, <1>4, <1>5, <3>1, <3>2
    <3>5. Completing'
      BY ONLY <1>3, <1>4, <3>1 DEF Locked
    <3>. QED BY <3>3, <3>4, <3>5
  <2>2. CASE Planned
    <3>1. /\ fs' = fs /\ UNCHANGED <<createdFiles, createdDirectories, jobs, state>> /\ pc = "planned"
          /\ pc' \in {"undoTemp", "jobTop"} \/ (pc' = "end" /\ state = "Failed")
      BY ONLY <2>2, Pasting DEF Planned, Undo, made, plan, public, Pasting, Pastes
    <3>2. Undone => Undone'
      BY ONLY <3>1 DEF Undone
    <3>. QED BY ONLY <1>1, <1>3, <1>4, <3>1, <3>2 DEF Locked
  <2>3. CASE PlanTop
    <3>1. /\ fs' = fs /\ UNCHANGED <<createdFiles, createdDirectories, jobs, planStack>> /\ pc = "planTop"
          /\ \/ state' = state /\ pc' \in {"planned", "frame", "undoTemp", "remove"}
             \/ state' = "Completed" /\ pc' = "planned" /\ jobs = <<>> /\ planStack = <<>>
      BY ONLY <2>3 DEF PlanTop, CompleteOperation, Fail, Undo, made, plan
    <3>2. state \notin {"Failed", "Completed"}
      BY ONLY <1>3, <3>1 DEF Locked, PlanPlaces
    <3>3. planStack = <<>> /\ jobs = <<>> => AllArrived
      BY <1>1, <3>1, AllHaveArrived DEF Active, PlanPlaces
    <3>. QED BY ONLY <1>4, <3>1, <3>2, <3>3
  <2>4. CASE JobTop
    <3>1. /\ fs' = fs /\ UNCHANGED <<createdFiles, createdDirectories, jobs, planStack>> /\ pc = "jobTop"
          /\ \/ state' = state /\ pc' \in {"undoTemp", "remove"}
             \/ state' = "Completed" /\ pc' = "end" /\ jobIndex > Len(jobs)
             \/ state' = state /\ pc' = "jobPrepare" /\ ~(jobIndex > Len(jobs))
      BY ONLY <2>4 DEF JobTop, CompleteOperation, AllJobsDone, Undo, made, plan
    <3>2. state = "Completed" => jobIndex > Len(jobs)
      BY ONLY <1>1, <1>3, <3>1 DEF Locked
    <3>3. jobIndex > Len(jobs) => AllArrived
      <4>1. Active /\ planStack = <<>>
        BY <3>1 DEF ProgressInv, Active, Copying, PlanPlaces
      <4>. QED BY <1>1, <4>1, AllHaveArrived
    <3>. QED BY ONLY <1>4, <3>1, <3>2, <3>3 DEF Locked
  <2>5. CASE RemoveStep
    <3>1. pc = "remove" /\ op.kind = "Move" /\ Safe
      BY <1>1, <2>5 DEF PlaceInv, LossInv, RemoveStep, RemoveMissing, RemoveOpen, RemoveDescend,
         RemoveItem, RemoveNextRoot, Removing
    <3>2. Safe'
      BY <2>5, <3>1, RemovalIsSafe
    <3>3. pc' = "remove" \/ state' \in {"Failed", "Completed"}
      BY ONLY <2>5, <3>1 DEF RemoveStep, RemoveMissing, RemoveOpen, RemoveDescend, RemoveItem,
         RemoveNextRoot
    <3>4. AllArrived' /\ pc' \in SafePlaces /\ (pc' \in {"planned", "jobTop"} => jobs' = <<>>)
      BY ONLY <3>2 DEF Safe
    <3>. QED BY ONLY <1>1, <3>1, <3>3, <3>4 DEF Locked, SafePlaces
  <2>6. CASE UndoEnd
    <3>1. /\ fs' = fs /\ pc = "undo" /\ Undone' /\ state' = after.state
          /\ cancelRequested' = cancelRequested
      BY ONLY <2>6 DEF UndoEnd, Undone, made
    <3>2. state' \in {"Failed", "Canceled"}
      BY ONLY <1>3, <3>1
    <3>3. op.kind = "Move" => BeyondUndoing \/ \A p \in Sources : Intact(p)
      BY <3>1 DEF LossInv, Safe, SafePlaces
    <3>. QED BY ONLY <1>1, <1>4, <1>5, <3>1, <3>2, <3>3
  <2>7. CASE Start \/ UndoTemp \/ UndoFile \/ UndoDirectory
    <3>1. pc' \notin Over /\ (Locked' \/ state' \in {"Copying", "Failed"})
      BY ONLY <2>7 DEF Start, UndoTemp, UndoFile, UndoDirectory, Locked
    <3>. QED BY ONLY <3>1
  <2>8. CASE \/ PlanRefused \/ PlanMakeDirectory \/ PlanOpenDirectory \/ PlanDescend
             \/ PlanLeaveDirectory \/ PlanFile \/ JobOpenSource \/ JobOpenTarget \/ JobNoResources
             \/ JobTransfer \/ JobTransferred \/ JobDiscard \/ JobFinalize \/ JobRename \/ JobRecord
    <3>1. pc' \notin Over /\ state' = state /\ pc \in PlanPlaces \cup InJob
      BY ONLY <2>8, Pasting DEF PlanRefused, PlanMakeDirectory, PlanOpenDirectory, PlanDescend,
         PlanLeaveDirectory, PlanFile, JobOpenSource, JobOpenTarget, JobNoResources, JobTransfer,
         JobTransferred, JobDiscard, JobFinalize, JobRename, JobRecord, Walking, Fail, Undo, public,
         PlanPlaces, InJob, Pasting, Pastes
    <3>2. state # "Completed"
      BY ONLY <1>3, <3>1 DEF Locked, PlanPlaces, InJob
    <3>. QED BY ONLY <3>1, <3>2
  <2>9. ~(DeleteTop \/ DeleteItem \/ PlanDeleteLeaf)
    BY NoDeletion, <1>1 DEF DeleteTop, DeleteItem, UndoInv
  <2>. QED BY <2>1, <2>2, <2>3, <2>4, <2>5, <2>6, <2>7, <2>8, <2>9
           DEF Next, WorkerStep, PlanStep, JobStep, UndoStep
<1>. QED BY ONLY <1>2, <1>6 DEF OutcomeInv

\* Before the first step nothing is new.
LEMMA TraceStarts == Init => TraceInv
<1>. SUFFICES ASSUME Init PROVE TraceInv
  OBVIOUS
<1>1. /\ pc = "idle" /\ state = "Idle" /\ fs = Disk0 /\ faults = <<>> /\ createdDirectories = <<>>
  BY DEF Init
<1>2. IsSeq(faults) /\ Len(createdDirectories) = 0
  BY <1>1, EmptySeq DEF IsSeq
<1>3. CreatedInv
  BY <1>1, <1>2 DEF CreatedInv, TempPlaces
<1>4. NotedInv /\ OwnInv
  BY <1>1 DEF NotedInv, OwnInv, Init
<1>5. OutcomeInv
  BY <1>1 DEF OutcomeInv, PlanPlaces, InJob
<1>. QED BY <1>2, <1>3, <1>4, <1>5 DEF TraceInv

\* The invariant is inductive.
LEMMA TraceSteps == SafeInv /\ PasteInv /\ TraceInv /\ [Next]_vars => TraceInv'
<1>. SUFFICES ASSUME SafeInv, PasteInv, TraceInv, [Next]_vars PROVE TraceInv'
  OBVIOUS
<1>1. IsSeq(faults') /\ (Pasting' => Pasting)
  BY BrokenStays, SameOperation DEF TraceInv, Pasting
<1>2. CASE Pasting
  <2>1. /\ PlanningInv /\ ProgressInv /\ TempInv /\ LossInv /\ ReplaceIsAtomic
        /\ IsSeq(faults) /\ OwnInv /\ CreatedInv /\ NotedInv /\ OutcomeInv
    BY <1>2 DEF PasteInv, TraceInv
  <2>2. OwnInv' /\ CreatedInv' /\ NotedInv' /\ OutcomeInv'
    BY <1>2, <2>1, OwnSteps, CreatedSteps, NotedSteps, OutcomeSteps
  <2>. QED BY <1>1, <2>2 DEF TraceInv
<1>. QED BY <1>1, <1>2 DEF TraceInv

\* A paste that has been taken back has left nothing.
LEMMA NoTrace == SafeInv /\ PasteInv /\ TraceInv => AllOrNothing
<1>. DEFINE replaced == IF op.replace THEN {TargetOf(op.roots[1])} ELSE {}
<1>. SUFFICES ASSUME SafeInv, PasteInv, TraceInv, Pasting, pc = "done",
                     state \in {"Canceled", "Failed"}, ~BeyondUndoing, ~Broke({"unlink", "rmdir"}),
                     ~(op.kind = "Move" /\ state = "Failed" /\ AllArrived)
              PROVE  /\ DOMAIN fs \ replaced = DOMAIN Disk0 \ replaced
                     /\ \A p \in DOMAIN fs \ replaced : fs[p] = Disk0[p]
  BY DEF AllOrNothing
<1>1. LossInv /\ NotedInv /\ OutcomeInv /\ BystandersUntouched
  BY DEF PasteInv, TraceInv, SafeInv
<1>2. createdFiles = <<>> /\ createdDirectories = <<>>
  BY <1>1 DEF OutcomeInv, Undone
<1>3. op.kind = "Move" => \A p \in Sources : Intact(p)
  BY <1>1 DEF LossInv, Safe, OutcomeInv
<1>4. \A p \in DOMAIN fs : p \in DOMAIN Disk0
  <2>1. \A p \in DOMAIN fs : p \in DOMAIN Disk0 \/ Noted(p)
    BY <1>1 DEF NotedInv
  <2>2. Len(createdFiles) = 0 /\ Len(createdDirectories) = 0
    BY <1>2
  <2>3. \A p : ~Noted(p)
    BY <2>2 DEF Noted, TempPlaces
  <2>. QED BY <2>1, <2>3
<1>5. \A p \in DOMAIN Disk0 : p \in replaced \/ Intact(p)
  BY <1>1, <1>3 DEF BystandersUntouched, Pasting, Pastes
<1>. QED BY <1>4, <1>5 DEF Intact, Exists

\* Once a paste has been canceled or has failed, the disk is what it was before,
\* the replaced file aside: whatever was made is in the worker's lists until it
\* has been removed, and the lists are empty when the thread ends.
THEOREM LeavesNoTrace == Spec => []AllOrNothing
BY WorkerStarts, SafeSteps, PasteStarts, PasteSteps, TraceStarts, TraceSteps, NoTrace, PTL DEF Spec

\* A step beside another program is a step of the worker, or it is not alone any more.
LEMMA AloneSteps ==
    ASSUME [OthersNext]_<<vars, others>>, Alone' PROVE Alone /\ [Next]_vars
<1>1. ASSUME OtherWrites PROVE ~Alone'
  BY <1>1 DEF OtherWrites, Alone
<1>. QED BY <1>1 DEF OthersNext, Alone

\* The same for the worker beside another program, as long as that has done nothing.
THEOREM LeavesNoTraceAlone == OthersSpec => []AllOrNothingAlone
<1>. DEFINE Inv == Alone => SafeInv /\ PasteInv /\ TraceInv
<1>1. OthersInit => Inv
  BY WorkerStarts, PasteStarts, TraceStarts DEF OthersInit
<1>2. Inv /\ [OthersNext]_<<vars, others>> => Inv'
  BY AloneSteps, SafeSteps, PasteSteps, TraceSteps
<1>3. Inv => AllOrNothingAlone
  BY NoTrace DEF AllOrNothingAlone
<1>. QED BY <1>1, <1>2, <1>3, PTL DEF OthersSpec

(***************************************************************************)
(* Beside another program.                                                 *)
(***************************************************************************)
\* A folder that shows one name more is a frame of the same item.
LEMMA ShownFrames ==
    ASSUME NEW planning \in BOOLEAN, NEW stack, Frames(stack, planning), NEW p
    PROVE  Frames(Shown(stack, p), planning) /\ (stack # <<>> => Shown(stack, p) # <<>>)
<1>. DEFINE n == Len(stack)
            shown(i) == IF stack[i].opened /\ stack[i].src = ParentPath(p)
                        THEN [stack[i] EXCEPT !.todo = @ \cup {BaseName(p)}] ELSE stack[i]
            next == [i \in 1 .. n |-> shown(i)]
            F == {shown(i) : i \in 1 .. n}
<1>1. IsSeq(stack) /\ n \in Nat /\ DOMAIN stack = 1 .. n /\ (stack # <<>> => n # 0)
  BY LenIsNat DEF Frames, IsSeq
<1>2. Shown(stack, p) = next
  BY <1>1 DEF Shown
<1>3. ASSUME NEW i \in 1 .. n PROVE FrameOK(shown(i), planning)
  BY <1>1 DEF Frames, FrameOK
<1>. HIDE DEF shown, n
<1>4. DOMAIN next = 1 .. n /\ (\A i \in 1 .. n : next[i] = shown(i)) /\ next \in [1 .. n -> F]
  OBVIOUS
<1>. HIDE DEF next, F
<1>5. next \in Seq(F) /\ Len(next) = n
  <2>1. next \in Seq(F)
    BY ONLY <1>1, <1>4
  <2>. QED BY ONLY <1>1, <1>4, <2>1
<1>6. IsSeq(next) /\ (n # 0 => next # <<>>)
  BY <1>5, LenIsNat DEF IsSeq
<1>. QED BY <1>1, <1>2, <1>3, <1>4, <1>5, <1>6 DEF Frames

\* A file of another program disturbs neither the worker's memory nor what was
\* on the disk.
LEMMA OtherWritesSafe == ASSUME SafeInv, OtherWrites PROVE SafeInv'
<1>1. PICK p \in MayAppear(op) : /\ ~Exists(p) /\ fs' = Put(p, Foreign)
                                 /\ planStack' \in {planStack, Shown(planStack, p)}
                                 /\ removeStack' \in {removeStack, Shown(removeStack, p)}
  BY DEF OtherWrites, CanCreate
<1>2. /\ op' = op /\ UNCHANGED <<pc, after, jobs, deletePaths, jobIndex, deleteIndex, removeIndex,
                                 createdFiles, createdDirectories, temporaryPath>>
  BY DEF OtherWrites
<1>3. Frames(planStack', TRUE) /\ (planStack # <<>> => planStack' # <<>>)
  BY <1>1, ShownFrames DEF SafeInv, MemoryInv
<1>4. Frames(removeStack', FALSE)
  BY <1>1, ShownFrames DEF SafeInv, MemoryInv
<1>5. PlaceInv'
  BY <1>2, <1>3 DEF SafeInv, PlaceInv
<1>6. Frames(planStack, TRUE)' /\ Frames(removeStack, FALSE)'
  BY <1>2, <1>3, <1>4 DEF Frames, FrameOK, BelowRoot, TargetOf
<1>7. \A q : Expendable(q)' <=> Expendable(q)
  BY <1>2 DEF Expendable, Sources, Roots, TargetOf
<1>8. MemoryInv'
  BY <1>2, <1>6, <1>7 DEF SafeInv, MemoryInv, JobsExpendable, AllExpendable
<1>9. BystandersUntouched'
  BY <1>1, <1>2, PutKeeps, FreeExpendable DEF SafeInv
<1>. QED BY <1>5, <1>8, <1>9 DEF SafeInv

\* Its files are whole.
LEMMA OtherWritesPartial == ASSUME PartialInv, OtherWrites PROVE PartialInv'
<1>1. \E p : fs' = Put(p, Foreign)
  BY DEF OtherWrites
<1>2. UNCHANGED <<pc, after, jobs, jobIndex, hasError, cancelRequested>>
  BY DEF OtherWrites
<1>. QED BY <1>1, <1>2, OtherWritersAssumption DEF PartialInv, Put, Exists, Temp, Job

\* Also beside another program that puts files into the same folders, nothing is
\* touched that the operation has no right to.
THEOREM UntouchedBesideOthers == OthersSpec => []BystandersUntouched
<1>1. SafeInv /\ [OthersNext]_<<vars, others>> => SafeInv'
  BY SafeSteps, OtherWritesSafe DEF OthersNext
<1>2. OthersInit => SafeInv
  BY WorkerStarts DEF OthersInit
<1>3. SafeInv => BystandersUntouched
  BY DEF SafeInv
<1>. QED BY <1>1, <1>2, <1>3, PTL DEF OthersSpec

\* Also then an unfinished copy is only seen under the temporary name.
THEOREM UnfinishedBesideOthers == OthersSpec => []PartialOnlyTemporary
<1>1. SafeInv /\ PartialInv /\ [OthersNext]_<<vars, others>> => SafeInv' /\ PartialInv'
  BY SafeSteps, PartialSteps, OtherWritesSafe, OtherWritesPartial DEF OthersNext
<1>2. OthersInit => SafeInv /\ PartialInv
  BY WorkerStarts, PartialStarts DEF OthersInit
<1>. QED BY <1>1, <1>2, PartialKept, PTL DEF OthersSpec

\* A walk that is at the same place, with more to find in the folders it has open.
FindsMore(stack, next) ==
    /\ Len(next) = Len(stack) /\ Len(stack) \in Nat
    /\ \A i \in 1 .. Len(stack) :
          /\ next[i].src = stack[i].src /\ next[i].dst = stack[i].dst
          /\ next[i].opened = stack[i].opened
          /\ stack[i].todo \subseteq next[i].todo
          /\ ~stack[i].opened => next[i] = stack[i]

\* A folder that shows one name more is otherwise the same.
LEMMA ShownKeeps ==
    ASSUME NEW planning, NEW stack, Frames(stack, planning), NEW p
    PROVE  FindsMore(stack, Shown(stack, p)) /\ FindsMore(stack, stack)
<1>. DEFINE n == Len(stack)
            next == Shown(stack, p)
<1>1. IsSeq(stack) /\ n \in Nat /\ DOMAIN stack = 1 .. n
  BY LenIsNat DEF Frames, IsSeq
<1>. HIDE DEF n
<1>2. DOMAIN next = 1 .. n /\ \A i \in 1 .. n : next[i] =
          IF stack[i].opened /\ stack[i].src = ParentPath(p)
          THEN [stack[i] EXCEPT !.todo = @ \cup {BaseName(p)}] ELSE stack[i]
  BY ONLY <1>1 DEF Shown
<1>3. IsSeq(next) /\ Len(next) = n
  <2>1. next \in [1 .. n -> {next[i] : i \in 1 .. n}]
    BY <1>2 DEF Shown
  <2>. HIDE DEF next
  <2>2. next \in Seq({next[i] : i \in 1 .. n}) /\ Len(next) = n
    BY ONLY <1>1, <2>1
  <2>. QED BY ONLY <2>2 DEF IsSeq
<1>. HIDE DEF next
<1>4. ASSUME NEW i \in 1 .. n
      PROVE  /\ next[i].src = stack[i].src /\ next[i].dst = stack[i].dst
             /\ next[i].opened = stack[i].opened /\ stack[i].todo \subseteq next[i].todo
             /\ ~stack[i].opened => next[i] = stack[i]
  <2>1. DOMAIN stack[i] = {"src", "dst", "opened", "todo"}
    BY <1>4 DEF Frames, FrameOK, n
  <2>. QED BY <1>2, <2>1
<1>5. FindsMore(stack, next)
  BY <1>1, <1>3, <1>4 DEF FindsMore, n
<1>6. FindsMore(stack, stack)
  BY <1>1 DEF FindsMore, n
<1>. QED BY <1>5, <1>6 DEF next

\* A file of another program takes nothing from the walk, which may find it, and
\* disturbs no copy.
LEMMA OtherWritesPaste == ASSUME SafeInv, PasteInv, OtherWrites PROVE PasteInv'
<1>1. PICK p \in MayAppear(op) : /\ ~Exists(p) /\ fs' = Put(p, Foreign)
                                 /\ planStack' \in {planStack, Shown(planStack, p)}
  BY DEF OtherWrites, CanCreate
<1>2. /\ op' = op /\ op \in Operations
      /\ UNCHANGED <<state, pc, after, jobs, deletePaths, jobIndex, deleteIndex, removeIndex,
                     createdFiles, createdDirectories, temporaryPath, hasError, cancelRequested>>
  BY DEF OtherWrites, SafeInv, PlaceInv, public, made, cursors
<1>3. p \notin DOMAIN Disk0 /\ MayCome(p) /\ Foreign # Dir
  <2>1. op.replace => op.roots[1] \notin MayAppear(op)
    BY <1>2, RootsArePaths, GoneAssumption
  <2>. QED BY <1>1, <1>2, <2>1, OtherWritersAssumption DEF MayCome
<1>. SUFFICES ASSUME Pasting
              PROVE  PlanningInv' /\ ProgressInv' /\ TempInv' /\ LossInv' /\ ReplaceIsAtomic'
  BY <1>2, SameTargets DEF PasteInv
<1>4. PlanningInv /\ ProgressInv /\ TempInv /\ LossInv /\ ReplaceIsAtomic
  BY DEF PasteInv
<1>5. /\ Len(planStack') = Len(planStack) /\ Len(planStack) \in Nat
      /\ \A i \in 1 .. Len(planStack) :
            /\ planStack'[i].src = planStack[i].src /\ planStack'[i].dst = planStack[i].dst
            /\ planStack'[i].opened = planStack[i].opened
            /\ planStack[i].todo \subseteq planStack'[i].todo
            /\ ~planStack[i].opened => planStack'[i] = planStack[i]
  <2>1. Frames(planStack, TRUE)
    BY DEF SafeInv, MemoryInv
  <2>2. FindsMore(planStack, planStack')
    BY <1>1, <2>1, ShownKeeps, Zenon
  <2>. QED BY <2>2 DEF FindsMore
<1>6. planStack = <<>> => planStack' = <<>>
  <2>1. Frames(planStack', TRUE)
    BY <1>1, ShownFrames DEF SafeInv, MemoryInv
  <2>. QED BY <1>5, <2>1, LenIsNat DEF Frames
<1>7. /\ \A q : TargetOf(q)' = TargetOf(q)
      /\ \A q : Image(q)' = Image(q)
      /\ Sources' = Sources
      /\ \A q : BelowRoot(q)' <=> BelowRoot(q)
  BY <1>2, SameTargets DEF BelowRoot
<1>8. \A q : Exists(q) => q \in DOMAIN fs' /\ fs'[q] = fs[q]
  BY <1>1 DEF Put, Exists
<1>9. \A q : (Intact(q) => Intact(q)') /\ (Arrived(q) => Arrived(q)')
  <2>1. ASSUME NEW q, Intact(q) PROVE Intact(q)'
    BY <1>8, <2>1 DEF Intact, Exists
  <2>2. ASSUME NEW q, Arrived(q) PROVE Arrived(q)'
    <3>1. PICK to : to = Image(q)
      OBVIOUS
    <3>2. Exists(to) /\ fs[to] = Disk0[q] /\ to = Image(q)'
      BY <1>7, <2>2, <3>1 DEF Arrived
    <3>. QED BY <1>8, <3>2 DEF Arrived, Exists
  <2>. QED BY <2>1, <2>2
<1>10. WalkInv'
  <2>1. \A i \in 1 .. Len(planStack) : /\ planStack[i].dst = Image(planStack[i].src)
                                       /\ ~planStack[i].opened => planStack[i].todo = {}
    BY <1>4 DEF PlanningInv, WalkInv
  <2>. QED BY <1>5, <1>7, <2>1 DEF WalkInv
<1>11. JobsInv' /\ MadeInv' /\ UndoInv'
  <2>1. JobsInv'
    BY <1>2, <1>4, <1>7 DEF PlanningInv, JobsInv, Fresh, Found, MayCome
  <2>2. MadeInv' /\ UndoInv'
    BY <1>2, <1>4 DEF PlanningInv, MadeInv, UndoInv
  <2>. QED BY <2>1, <2>2
<1>12. SingleInv'
  BY <1>2, <1>4, <1>5 DEF PlanningInv, SingleInv
<1>13. PlanInv'
  <2>1. PlanInv
    BY <1>4 DEF PlanningInv
  <2>2. ASSUME pc \in Before
        PROVE  /\ \A q \in DOMAIN Disk0 : Intact(q)'
               /\ \A q \in DOMAIN fs' :
                     q \in DOMAIN Disk0 \/ ~BelowRoot(q)' \/ (MayCome(q)' /\ fs'[q] # Dir)
               /\ jobIndex' = 1
    <3>1. \A q \in DOMAIN fs : q \in DOMAIN Disk0 \/ ~BelowRoot(q) \/ (MayCome(q) /\ fs[q] # Dir)
      BY <2>1, <2>2 DEF PlanInv
    <3>2. ASSUME NEW q \in DOMAIN fs'
          PROVE  q \in DOMAIN Disk0 \/ ~BelowRoot(q) \/ (MayCome(q) /\ fs'[q] # Dir)
      BY <1>1, <1>3, <3>1, <3>2 DEF Put
    <3>. QED BY <1>2, <1>7, <1>9, <2>1, <2>2, <3>2 DEF PlanInv, MayCome
  <2>3. ASSUME pc = "opendir"
        PROVE  /\ ~TopFrame.opened' /\ Exists(TopFrame.dst)' /\ fs'[TopFrame.dst'] = Dir
               /\ TopFrame.src' \in DOMAIN Disk0 /\ Disk0[TopFrame.src'] = Dir
    <3>1. /\ ~TopFrame.opened /\ Exists(TopFrame.dst) /\ fs[TopFrame.dst] = Dir
          /\ TopFrame.src \in DOMAIN Disk0 /\ Disk0[TopFrame.src] = Dir
      BY <2>1, <2>3 DEF PlanInv
    <3>2. Len(planStack) \in 1 .. Len(planStack) /\ TopFrame = planStack[Len(planStack)]
      BY <1>4, <2>3, TopFrameFacts DEF PlanningInv
    <3>3. TopFrame' = TopFrame
      BY <1>5, <3>1, <3>2 DEF TopFrame, Top
    <3>. QED BY <1>8, <3>1, <3>3 DEF Exists
  <2>. QED BY <1>2, <2>1, <2>2, <2>3 DEF PlanInv
<1>14. ProgressInv'
  <2>1. Active' <=> Active
    BY <1>2 DEF Active
  <2>2. ASSUME NEW q, Awaited(q) PROVE Awaited(q)'
    <3>1. PICK i \in 1 .. Len(planStack) : Walks(planStack[i], q)
      BY <2>2 DEF Awaited
    <3>2. Walks(planStack'[i], q)
      BY <1>5, <3>1 DEF Walks
    <3>. QED BY <1>5, <3>2 DEF Awaited, Walks
  <2>. SUFFICES ASSUME Active
                PROVE  /\ pc \notin PlanPlaces => planStack' = <<>>
                       /\ \A q \in Sources : \/ Awaited(q)'
                                             \/ Disk0[q] = Dir /\ Arrived(q)'
                                             \/ \E j \in 1 .. Len(jobs) : jobs[j].src = q
                       /\ \A j \in 1 .. Len(jobs) :
                             /\ j < jobIndex \/ (j = jobIndex /\ pc = "jobRecord")
                             /\ jobs[j].src \in Sources
                             => Arrived(jobs[j].src)'
    BY <1>2, <1>7, <2>1 DEF ProgressInv
  <2>3. /\ pc \notin PlanPlaces => planStack = <<>>
        /\ \A q \in Sources : \/ Awaited(q)
                              \/ Disk0[q] = Dir /\ Arrived(q)
                              \/ \E j \in 1 .. Len(jobs) : jobs[j].src = q
        /\ \A j \in 1 .. Len(jobs) :
              /\ j < jobIndex \/ (j = jobIndex /\ pc = "jobRecord")
              /\ jobs[j].src \in Sources
              => Arrived(jobs[j].src)
    BY <1>4 DEF ProgressInv
  <2>4. \A q \in Sources : \/ Awaited(q)'
                           \/ Disk0[q] = Dir /\ Arrived(q)'
                           \/ \E j \in 1 .. Len(jobs) : jobs[j].src = q
    <3>. SUFFICES ASSUME NEW q \in Sources, ~Awaited(q)'
                  PROVE  \/ Disk0[q] = Dir /\ Arrived(q)'
                         \/ \E j \in 1 .. Len(jobs) : jobs[j].src = q
      OBVIOUS
    <3>1. ~Awaited(q)
      BY <2>2
    <3>. QED BY <1>9, <2>3, <3>1
  <2>5. \A j \in 1 .. Len(jobs) :
              /\ j < jobIndex \/ (j = jobIndex /\ pc = "jobRecord")
              /\ jobs[j].src \in Sources
              => Arrived(jobs[j].src)'
    BY <1>2, <1>9, <2>3
  <2>. QED BY <1>6, <2>3, <2>4, <2>5
<1>15. TempInv'
  <2>1. Temp' = Temp /\ Job' = Job /\ \A q : Settled(q)' <=> Settled(q)
    BY <1>2 DEF Temp, Job, Settled
  <2>. QED BY <1>2, <1>4, <1>7, <1>8, <2>1 DEF TempInv, Exists
<1>16. LossInv'
  <2>1. (AllArrived => AllArrived') /\ (BeyondUndoing' <=> BeyondUndoing)
    BY <1>2, <1>7, <1>9 DEF AllArrived, BeyondUndoing
  <2>2. Safe => Safe'
    BY <1>2, <1>6, <1>7, <2>1 DEF Safe
  <2>. QED BY <1>2, <1>4, <1>7, <1>9, <2>1, <2>2 DEF LossInv
<1>17. ReplaceIsAtomic'
  BY <1>2, <1>4, <1>7, <1>8 DEF ReplaceIsAtomic, Exists
<1>. QED BY <1>10, <1>11, <1>12, <1>13, <1>14, <1>15, <1>16, <1>17 DEF PlanningInv

\* Also beside another program that puts files into the same folders, also where
\* the operation copies, moves and rolls back, no item of the clipboard is lost.
THEOREM NoLossBesideOthers == OthersSpec => []NothingLost
<1>1. SafeInv /\ PasteInv /\ [OthersNext]_<<vars, others>> => SafeInv' /\ PasteInv'
  BY SafeSteps, PasteSteps, OtherWritesSafe, OtherWritesPaste DEF OthersNext
<1>2. OthersInit => SafeInv /\ PasteInv
  BY WorkerStarts, PasteStarts DEF OthersInit
<1>. QED BY <1>1, <1>2, ItemsAreThere, PTL DEF OthersSpec

\* Also then the file that a confirmed overwrite replaces is there, in its old or
\* its new version, and never in a third one.
THEOREM ReplacedBesideOthers == OthersSpec => []ReplaceIsAtomic
<1>1. SafeInv /\ PasteInv /\ [OthersNext]_<<vars, others>> => SafeInv' /\ PasteInv'
  BY SafeSteps, PasteSteps, OtherWritesSafe, OtherWritesPaste DEF OthersNext
<1>2. OthersInit => SafeInv /\ PasteInv
  BY WorkerStarts, PasteStarts DEF OthersInit
<1>. QED BY <1>1, <1>2, OneVersionIsThere, PTL DEF OthersSpec

\* A removal that is at work finds more, and what has been removed does not come
\* back.
LEMMA OtherWritesPromise == ASSUME SafeInv, PromiseInv, OtherWrites PROVE PromiseInv'
<1>1. PICK p \in MayAppear(op) : /\ ~Exists(p) /\ fs' = Put(p, Foreign)
                                 /\ removeStack' \in {removeStack, Shown(removeStack, p)}
  BY DEF OtherWrites, CanCreate
<1>2. /\ op' = op /\ op \in Operations
      /\ UNCHANGED <<state, threadFinished, pc, after, jobs, jobIndex, removeIndex, cancelRequested,
                     faults>>
  BY DEF OtherWrites, SafeInv, PlaceInv, public, cursors
<1>3. StateInv' /\ AfterInv'
  BY <1>2 DEF PromiseInv, StateInv, AfterInv, AllJobsDone
<1>4. \A i \in 1 .. Len(op.roots) : ~Exists(op.roots[i]) => op.roots[i] \notin DOMAIN fs'
  <2>1. \A i \in 1 .. Len(op.roots) : op.roots[i] # p
    BY <1>1, <1>2, GoneAssumption
  <2>. QED BY <1>1, <2>1 DEF Exists, Put
<1>5. FindsMore(removeStack, removeStack') /\ IsSeq(removeStack) /\ IsSeq(removeStack')
  <2>1. Frames(removeStack, FALSE)
    BY DEF SafeInv, MemoryInv
  <2>2. Frames(removeStack', FALSE)
    BY <1>1, <2>1, ShownFrames
  <2>3. FindsMore(removeStack, removeStack')
    BY <1>1, <2>1, ShownKeeps, Zenon
  <2>. QED BY <2>1, <2>2, <2>3 DEF Frames
<1>6. /\ removeStack' # <<>> <=> removeStack # <<>>
      /\ Len(removeStack') = Len(removeStack)
      /\ removeStack # <<>> => 1 \in 1 .. Len(removeStack)
  BY <1>5, LenIsNat DEF FindsMore
<1>7. removeStack # <<>> => /\ removeStack'[1].src = removeStack[1].src
                            /\ ~removeStack[1].opened => removeStack'[1] = removeStack[1]
  BY <1>5, <1>6 DEF FindsMore
<1>8. RemovedInv'
  <2>. SUFFICES ASSUME ~Broke({"lstat_removed"})
                PROVE  RemovedInv'
    BY <1>2 DEF RemovedInv, Broke
  <2>1. RemovedInv
    BY DEF PromiseInv
  <2>2. ASSUME pc = "remove"
        PROVE  /\ removeStack' # <<>> => removeStack'[1].src = op.roots[removeIndex]
               /\ removeStack' = <<>> => op.roots[removeIndex] \notin DOMAIN fs'
               /\ \A i \in 1 .. removeIndex - 1 : op.roots[i] \notin DOMAIN fs'
    <3>1. removeIndex \in 1 .. Len(op.roots) /\ Len(op.roots) \in Nat
      BY <1>2, <2>2, RootsArePaths DEF SafeInv, PlaceInv
    <3>2. \A i \in 1 .. removeIndex - 1 : i \in 1 .. Len(op.roots)
      BY <3>1
    <3>3. /\ removeStack # <<>> => removeStack[1].src = op.roots[removeIndex]
          /\ removeStack = <<>> => ~Exists(op.roots[removeIndex])
          /\ \A i \in 1 .. removeIndex - 1 : ~Exists(op.roots[i])
      BY <2>1, <2>2 DEF RemovedInv
    <3>4. removeStack' # <<>> => removeStack'[1].src = op.roots[removeIndex]
      BY ONLY <1>6, <1>7, <3>3, Zenon
    <3>. QED BY <1>4, <1>6, <3>1, <3>2, <3>3, <3>4
  <2>3. ASSUME pc = "remove", state = "Completed"
        PROVE  /\ \A i \in 1 .. Len(op.roots) : op.roots[i] \notin DOMAIN fs'
               /\ removeStack' # <<>> => /\ Len(removeStack') = 1
                                         /\ ~removeStack'[1].opened /\ removeStack'[1].todo = {}
    <3>1. /\ \A i \in 1 .. Len(op.roots) : ~Exists(op.roots[i])
          /\ removeStack # <<>> => /\ Len(removeStack) = 1
                                   /\ ~removeStack[1].opened /\ removeStack[1].todo = {}
      BY <2>1, <2>3 DEF RemovedInv
    <3>2. removeStack' # <<>> => /\ Len(removeStack') = 1
                                 /\ ~removeStack'[1].opened /\ removeStack'[1].todo = {}
      BY ONLY <1>6, <1>7, <3>1, Zenon
    <3>. QED BY <1>4, <3>1, <3>2
  <2>4. ASSUME pc \in {"planned", "jobTop"}, state = "Completed", op.kind = "Move"
        PROVE  \A i \in 1 .. Len(op.roots) : op.roots[i] \notin DOMAIN fs'
    BY <1>4, <2>1, <2>4 DEF RemovedInv
  <2>. QED BY <1>2, <2>2, <2>3, <2>4 DEF RemovedInv, Exists
<1>. QED BY <1>3, <1>8 DEF PromiseInv

\* The worker keeps its promise beside another program as well.
THEOREM KeepsPromiseBesideOthers ==
    OthersSpec =>
        BO!Init /\ [][[BO!Next]_(BO!vars) \/ Broke({"lstat_removed"})]_<<vars, others>>
<1>. DEFINE Known == IsSeq(faults)
            Promised == PromiseInv \/ Broke({"lstat_removed"})
<1>1. OthersInit => SafeInv /\ Known /\ Promised /\ BO!Init
  <2>1. IsSeq(<<>>)
    BY EmptySeq DEF IsSeq
  <2>. QED BY <2>1, PromiseStarts, WorkerStarts DEF OthersInit, Init, BO!Init
<1>2. SafeInv /\ Known /\ Promised /\ [OthersNext]_<<vars, others>> => SafeInv' /\ Known' /\ Promised'
  <2>1. CASE OtherWrites
    <3>1. faults' = faults
      BY <2>1 DEF OtherWrites
    <3>. QED BY <2>1, <3>1, OtherWritesSafe, OtherWritesPromise DEF Broke
  <2>. QED BY <2>1, SafeSteps, BrokenStays, PromiseSteps DEF OthersNext
<1>3. SafeInv /\ Promised /\ [OthersNext]_<<vars, others>>
      => [BO!Next]_(BO!vars) \/ Broke({"lstat_removed"})
  <2>1. CASE OtherWrites
    BY <2>1 DEF OtherWrites, public, BO!vars
  <2>. QED BY <2>1, PromiseKept DEF OthersNext
<1>. HIDE DEF Known, Promised
<1>. QED BY <1>1, <1>2, <1>3, PTL DEF OthersSpec

(***************************************************************************)
(* What happens to the files of the other program.                         *)
(***************************************************************************)
Kept(p) == Exists(p) /\ fs[p] = Foreign

\* The rollback unlinks what the jobs have claimed, and a move only removes its
\* sources when the jobs are done.
ClaimInv ==
    /\ \A i \in 1 .. Len(createdFiles) :
          \E k \in 1 .. Len(jobs) : k <= jobIndex /\ createdFiles[i] = jobs[k].dst
    /\ temporaryPath # NoPath =>
          \E k \in 1 .. Len(jobs) : k <= jobIndex /\ temporaryPath = TempPath(jobs[k].dst)
    /\ pc = "remove" => jobIndex > Len(jobs)

OthersInv ==
    /\ ClaimInv
    /\ \A p \in others : \/ Kept(p) \/ Claimed(p) \/ PlannedToDelete(p)
                         \/ pc \notin Before /\ LeftBehind(p)

\* A job keeps its place in the list, and the lists of a deletion only grow.
LEMMA ListsGrow ==
    ASSUME SafeInv, [Next]_vars
    PROVE  /\ Len(jobs) \in Nat /\ Len(jobs') \in Nat /\ Len(jobs) <= Len(jobs')
           /\ \A k \in 1 .. Len(jobs) : jobs'[k] = jobs[k]
           /\ jobIndex \in Nat /\ jobIndex' \in Nat /\ jobIndex <= jobIndex'
           /\ \A j \in 1 .. Len(deletePaths) : /\ j \in 1 .. Len(deletePaths')
                                               /\ deletePaths'[j] = deletePaths[j]
<1>1. /\ IsSeq(jobs) /\ Len(jobs) \in Nat /\ jobIndex \in Nat
      /\ IsSeq(deletePaths) /\ Len(deletePaths) \in Nat
  BY LenIsNat DEF SafeInv, PlaceInv, MemoryInv, JobsExpendable, AllExpendable
<1>2. jobs' = jobs \/ \E job : jobs' = Append(jobs, job)
  BY JobsChange DEF PlanFile
<1>3. Len(jobs') \in Nat /\ Len(jobs) <= Len(jobs') /\ \A k \in 1 .. Len(jobs) : jobs'[k] = jobs[k]
  BY <1>1, <1>2, AppendFacts
<1>4. jobIndex' \in {jobIndex, jobIndex + 1}
  BY JobIndexChanges DEF JobRecord
<1>5. deletePaths' = deletePaths \/ \E path : deletePaths' = Append(deletePaths, path)
  BY DeletePathsChange DEF PlanLeaveDirectory, PlanDeleteLeaf, AfterContents
<1>6. \A j \in 1 .. Len(deletePaths) : /\ j \in 1 .. Len(deletePaths')
                                       /\ deletePaths'[j] = deletePaths[j]
  <2>1. ASSUME NEW path, deletePaths' = Append(deletePaths, path)
        PROVE  /\ Len(deletePaths') = Len(deletePaths) + 1
               /\ \A j \in 1 .. Len(deletePaths) : deletePaths'[j] = deletePaths[j]
    BY <1>1, <2>1, AppendFacts
  <2>. QED BY <1>1, <1>5, <2>1
<1>. QED BY <1>1, <1>3, <1>4, <1>6

\* Once a name is claimed it stays so, and what a move leaves behind once the
\* planning is over.
LEMMA ClaimsStay ==
    ASSUME SafeInv, [Next]_vars, NEW p
    PROVE  /\ Claimed(p) => Claimed(p)'
           /\ PlannedToDelete(p) => PlannedToDelete(p)'
           /\ pc \notin Before /\ LeftBehind(p) => pc' \notin Before /\ LeftBehind(p)'
<1>1. op' = op /\ PlaceInv
  BY SameOperation DEF SafeInv
<1>2. Claimed(p) => Claimed(p)'
  <2>. SUFFICES ASSUME NEW i \in 1 .. Len(jobs), i <= jobIndex, p \in {jobs[i].dst, TempPath(jobs[i].dst)}
                PROVE  Claimed(p)'
    BY DEF Claimed
  <2>1. i \in 1 .. Len(jobs') /\ i <= jobIndex' /\ jobs'[i] = jobs[i]
    BY ListsGrow
  <2>. QED BY <2>1 DEF Claimed
<1>3. PlannedToDelete(p) => PlannedToDelete(p)'
  BY ListsGrow DEF PlannedToDelete
<1>4. ASSUME pc \notin Before, LeftBehind(p) PROVE pc' \notin Before /\ LeftBehind(p)'
  <2>1. jobs' = jobs
    BY <1>4, JobsChange DEF PlanFile, Walking, Before, PlanPlaces
  <2>2. jobIndex' > Len(jobs')
    BY <1>4, <2>1, ListsGrow DEF LeftBehind
  <2>3. Roots' = Roots
    BY <1>1 DEF Roots
  <2>. QED BY <1>1, <1>4, <2>2, <2>3, BeforeSteps DEF LeftBehind
<1>. QED BY <1>2, <1>3, <1>4

\* What a rollback finds has been claimed by a job.
LEMMA ClaimSteps == ASSUME SafeInv, ClaimInv, [Next]_vars PROVE ClaimInv'
<1>1. /\ PlaceInv /\ IsSeq(createdFiles) /\ Len(createdFiles) \in Nat
      /\ jobs = <<>> => Len(jobs) = 0
  BY LenIsNat DEF SafeInv, MemoryInv, AllExpendable
<1>2. \A k \in 1 .. Len(jobs) : k <= jobIndex =>
          k \in 1 .. Len(jobs') /\ k <= jobIndex' /\ jobs'[k] = jobs[k]
  BY ListsGrow
<1>3. \A i \in 1 .. Len(createdFiles) :
          \E k \in 1 .. Len(jobs') : k <= jobIndex' /\ createdFiles[i] = jobs'[k].dst
  BY <1>2 DEF ClaimInv
<1>4. \A i \in 1 .. Len(createdFiles') :
          \E k \in 1 .. Len(jobs') : k <= jobIndex' /\ createdFiles'[i] = jobs'[k].dst
  <2>1. CASE createdFiles' = createdFiles
    BY <1>3, <2>1
  <2>2. CASE UndoFile
    <3>1. \A i \in 1 .. Len(createdFiles') : i \in 1 .. Len(createdFiles) /\ createdFiles'[i] = createdFiles[i]
      BY <1>1, <2>2, TakenFacts DEF UndoFile
    <3>. QED BY <1>3, <3>1
  <2>3. CASE JobRecord
    <3>1. jobIndex \in 1 .. Len(jobs)
      BY <1>1, <2>3 DEF PlaceInv, InJob, JobRecord
    <3>2. \E k \in 1 .. Len(jobs') : k <= jobIndex' /\ Job.dst = jobs'[k].dst
      BY <1>1, <1>2, <3>1 DEF Job, PlaceInv
    <3>3. createdFiles' = Append(createdFiles, Job.dst)
      BY <2>3 DEF JobRecord, Recorded
    <3>4. /\ Len(createdFiles') = Len(createdFiles) + 1
          /\ createdFiles'[Len(createdFiles) + 1] = Job.dst
          /\ \A i \in 1 .. Len(createdFiles) : createdFiles'[i] = createdFiles[i]
      BY <1>1, <3>3, AppendFacts
    <3>. DEFINE Claims(q) == \E k \in 1 .. Len(jobs') : k <= jobIndex' /\ q = jobs'[k].dst
    <3>5. (\A i \in 1 .. Len(createdFiles) : Claims(createdFiles[i])) /\ Claims(Job.dst)
      BY <1>3, <3>2
    <3>. HIDE DEF Claims
    <3>6. \A i \in 1 .. Len(createdFiles') : Claims(createdFiles'[i])
      BY <1>1, <3>4, <3>5
    <3>. QED BY <3>6 DEF Claims
  <2>. QED BY <2>1, <2>2, <2>3, CreatedFilesChange
<1>5. temporaryPath' # NoPath =>
          \E k \in 1 .. Len(jobs') : k <= jobIndex' /\ temporaryPath' = TempPath(jobs'[k].dst)
  <2>1. CASE temporaryPath' = temporaryPath
    BY <1>2, <2>1 DEF ClaimInv
  <2>2. CASE JobOpenSource
    <3>1. jobIndex \in 1 .. Len(jobs) /\ temporaryPath' = TempPath(jobs[jobIndex].dst)
      BY <1>1, <2>2 DEF PlaceInv, InJob, JobOpenSource, Temp, Job
    <3>. QED BY <1>1, <1>2, <3>1 DEF PlaceInv
  <2>3. CASE JobRecord
    BY <2>3 DEF JobRecord
  <2>. QED BY <2>1, <2>2, <2>3, TemporaryPathChanges
<1>6. pc' = "remove" => jobIndex' > Len(jobs')
  <2>. SUFFICES ASSUME pc' = "remove" PROVE jobIndex' > Len(jobs')
    OBVIOUS
  <2>1. CASE PlanTop
    BY <1>1, <2>1 DEF PlanTop, CompleteOperation, Fail, Undo, PlaceInv
  <2>2. CASE JobTop
    BY <2>2 DEF JobTop, CompleteOperation, Undo, AllJobsDone
  <2>3. CASE pc = "remove"
    <3>1. jobs' = jobs
      BY <2>3, JobsChange DEF PlanFile, Walking
    <3>. QED BY <2>3, <3>1, ListsGrow DEF ClaimInv
  <2>4. PlanTop \/ JobTop \/ pc = "remove"
    <3>1. CASE Start \/ Cancel \/ Gone \/ UNCHANGED vars
      BY <3>1 DEF Start, Cancel, Gone, vars
    <3>2. CASE PlanStep
      BY <3>2 DEF PlanStep, PlanRefused, PlanMakeDirectory, PlanOpenDirectory, PlanDescend,
         PlanLeaveDirectory, PlanFile, PlanDeleteLeaf, Planned, Fail, Undo
    <3>3. CASE JobStep
      BY <3>3 DEF JobStep, JobOpenSource, JobOpenTarget, JobNoResources, JobTransfer,
         JobTransferred, JobDiscard, JobFinalize, JobRename, JobRecord, Fail, Undo
    <3>4. CASE DeleteTop \/ DeleteItem \/ UndoStep \/ End
      BY <1>1, <3>4 DEF DeleteTop, DeleteItem, UndoStep, UndoTemp, UndoFile, UndoDirectory,
         UndoEnd, Fail, Undo, End, PlaceInv, Returning
    <3>5. CASE RemoveStep
      BY <3>5 DEF RemoveStep, RemoveMissing, RemoveOpen, RemoveDescend, RemoveItem,
         RemoveNextRoot, Removing
    <3>. QED BY <3>1, <3>2, <3>3, <3>4, <3>5 DEF Next, WorkerStep
  <2>. QED BY <2>1, <2>2, <2>3, <2>4
<1>. QED BY <1>4, <1>5, <1>6 DEF ClaimInv

\* A call of the worker only reaches a foreign file under a name that is claimed,
\* planned to be deleted or below a root that has been moved.
LEMMA KeptSteps ==
    ASSUME SafeInv, ClaimInv, [Next]_vars, NEW p, Kept(p)
    PROVE  \/ Kept(p)' \/ Claimed(p) \/ PlannedToDelete(p)
           \/ pc \notin Before /\ LeftBehind(p)
<1>. SUFFICES ASSUME ~Claimed(p), ~PlannedToDelete(p), ~(pc \notin Before /\ LeftBehind(p))
              PROVE  Same(p)
  BY DEF Kept, Same, Exists
<1>1. /\ PlaceInv /\ IsSeq(createdFiles) /\ Foreign # Dir /\ fs[p] = Foreign /\ Exists(p)
      /\ removeStack # <<>> => BelowRoot(Top(removeStack).src)
  BY OtherWritersAssumption, PopFrames DEF SafeInv, MemoryInv, AllExpendable, Kept, FrameOK
<1>2. ASSUME pc \in InJob PROVE p # Temp /\ p # Job.dst
  <2>1. jobIndex \in 1 .. Len(jobs) /\ jobIndex <= jobIndex
    BY <1>1, <1>2 DEF PlaceInv
  <2>. QED BY <2>1 DEF Claimed, Temp, Job
<1>3. temporaryPath # NoPath => p # temporaryPath
  BY DEF ClaimInv, Claimed
<1>4. CASE UndoTemp
  <2>1. fs' = fs \/ (temporaryPath # NoPath /\ fs' = Drop(temporaryPath))
    BY <1>4 DEF UndoTemp, TryUnlink
  <2>. QED BY <1>3, <2>1, OthersSame
<1>5. CASE UndoFile
  <2>1. createdFiles # <<>> /\ (fs' = fs \/ fs' = Drop(Top(createdFiles)))
    BY <1>5 DEF UndoFile, TryUnlink
  <2>2. Len(createdFiles) \in 1 .. Len(createdFiles) /\ Top(createdFiles) = createdFiles[Len(createdFiles)]
    BY <1>1, <2>1, LenIsNat DEF Top
  <2>3. p # Top(createdFiles)
    BY <2>2 DEF ClaimInv, Claimed
  <2>. QED BY <2>1, <2>3, OthersSame
<1>6. CASE UndoDirectory
  <2>1. fs' = fs \/ (IsDir(Top(createdDirectories)) /\ fs' = Drop(Top(createdDirectories)))
    BY <1>6 DEF UndoDirectory, TryRmdir, CanRmdir
  <2>2. IsDir(Top(createdDirectories)) => p # Top(createdDirectories)
    BY <1>1 DEF IsDir
  <2>. QED BY <2>1, <2>2, OthersSame
<1>7. CASE RemoveItem
  <2>1. pc = "remove" /\ removeStack # <<>> /\ (fs' = fs \/ fs' = Drop(Top(removeStack).src))
    BY <1>7 DEF RemoveItem, Removing
  <2>2. op.kind = "Move" /\ jobIndex > Len(jobs) /\ pc \notin Before
    BY <1>1, <2>1 DEF PlaceInv, ClaimInv, Before, PlanPlaces
  <2>3. p # Top(removeStack).src
    BY <1>1, <2>1, <2>2 DEF LeftBehind, BelowRoot, Roots
  <2>. QED BY <2>1, <2>3, OthersSame
<1>8. CASE PlanMakeDirectory
  <2>1. fs' = fs \/ (~Exists(TopFrame.dst) /\ fs' = Put(TopFrame.dst, Dir))
    BY <1>8 DEF PlanMakeDirectory, Works, CanCreate
  <2>. QED BY <1>1, <2>1, OthersSame
<1>9. CASE JobOpenTarget \/ JobTransfer \/ JobDiscard
  <2>1. pc \in InJob /\ (fs' = fs \/ fs' = Drop(Temp) \/ \E node : fs' = Put(Temp, node))
    BY <1>9 DEF JobOpenTarget, JobTransfer, JobDiscard, TryUnlink, InJob
  <2>. QED BY <1>2, <2>1, OthersSame
<1>10. CASE JobRename
  <2>1. pc \in InJob /\ (fs' = fs \/ fs' = Renamed(Temp, Job.dst))
    BY <1>10 DEF JobRename, InJob
  <2>. QED BY <1>2, <2>1, OthersSame
<1>11. CASE DeleteItem
  <2>1. deleteIndex \in 1 .. Len(deletePaths) /\ (fs' = fs \/ fs' = Drop(deletePaths[deleteIndex]))
    BY <1>1, <1>11 DEF DeleteItem, PlaceInv
  <2>2. p # deletePaths[deleteIndex]
    BY <2>1 DEF PlannedToDelete
  <2>. QED BY <2>1, <2>2, OthersSame
<1>. QED BY <1>4, <1>5, <1>6, <1>7, <1>8, <1>9, <1>10, <1>11, DiskChanges, OthersSame

\* The invariant is inductive: a step of the worker, a step of the other program.
LEMMA OthersSteps ==
    SafeInv /\ OthersInv /\ [OthersNext]_<<vars, others>> => OthersInv'
<1>1. ASSUME SafeInv, OthersInv, [Next]_vars, others' = others PROVE OthersInv'
  <2>1. ClaimInv /\ ClaimInv'
    BY <1>1, ClaimSteps DEF OthersInv
  <2>2. ASSUME NEW p \in others
        PROVE  Kept(p)' \/ Claimed(p)' \/ PlannedToDelete(p)' \/ (pc' \notin Before /\ LeftBehind(p)')
    <3>1. Kept(p)' \/ Claimed(p) \/ PlannedToDelete(p) \/ (pc \notin Before /\ LeftBehind(p))
      BY <1>1, <2>1, KeptSteps DEF OthersInv
    <3>. QED BY <1>1, <3>1, ClaimsStay
  <2>. QED BY <1>1, <2>1, <2>2 DEF OthersInv
<1>2. ASSUME OthersInv, OtherWrites PROVE OthersInv'
  <2>1. PICK q : ~Exists(q) /\ fs' = Put(q, Foreign) /\ others' = others \cup {q}
    BY <1>2 DEF OtherWrites, CanCreate
  <2>2. UNCHANGED <<op, pc, jobs, jobIndex, deletePaths, createdFiles, temporaryPath>>
    BY <1>2 DEF OtherWrites
  <2>3. ClaimInv'
    BY <1>2, <2>2 DEF OthersInv, ClaimInv
  <2>4. Kept(q)' /\ \A p : Kept(p) => Kept(p)'
    BY <2>1 DEF Kept, Exists, Put
  <2>5. \A p : /\ Claimed(p) => Claimed(p)'
               /\ PlannedToDelete(p) => PlannedToDelete(p)'
               /\ LeftBehind(p) => LeftBehind(p)'
    BY <2>2 DEF Claimed, PlannedToDelete, LeftBehind, Roots
  <2>. QED BY <1>2, <2>1, <2>2, <2>3, <2>4, <2>5 DEF OthersInv
<1>. QED BY <1>1, <1>2 DEF OthersNext

\* A file that another program puts into the folders stays, unless it took the
\* name of a copy or of a temporary file, or lies in a tree that is removed.
THEOREM OthersStay == OthersSpec => []OthersKept
<1>1. OthersInit => SafeInv /\ OthersInv
  <2>. SUFFICES ASSUME OthersInit PROVE SafeInv /\ OthersInv
    OBVIOUS
  <2>1. Init /\ others = {} /\ Len(<<>>) = 0
    BY DEF OthersInit
  <2>. QED BY <2>1, WorkerStarts DEF Init, OthersInv, ClaimInv
<1>2. SafeInv /\ [OthersNext]_<<vars, others>> => SafeInv'
  BY SafeSteps, OtherWritesSafe DEF OthersNext
<1>3. OthersInv => OthersKept
  BY DEF OthersInv, OthersKept, Kept
<1>. QED BY <1>1, <1>2, <1>3, OthersSteps, PTL DEF OthersSpec

(***************************************************************************)
(* The tree.                                                               *)
(***************************************************************************)
\* What lies above a path lies above its folder, or is its folder.
LEMMA AboveFacts ==
    ASSUME NEW p, IsSeq(p), NEW n \in 0 .. (Len(p) - 1)
    PROVE  /\ Len(p) \in Nat \ {0} /\ IsSeq(ParentPath(p)) /\ Len(ParentPath(p)) = Len(p) - 1
           /\ n = Len(p) - 1 => SubSeq(p, 1, n) = ParentPath(p)
           /\ n # Len(p) - 1 => /\ n \in 0 .. (Len(ParentPath(p)) - 1)
                                /\ SubSeq(ParentPath(p), 1, n) = SubSeq(p, 1, n)
<1>. DEFINE up == ParentPath(p)
<1>1. PICK S : p \in Seq(S)
  BY DEF IsSeq
<1>2. Len(p) \in Nat \ {0} /\ p # <<>>
  BY <1>1
<1>3. IsSeq(up) /\ Len(up) = Len(p) - 1 /\ \A k \in 1 .. Len(p) - 1 : up[k] = p[k]
  BY <1>2, ButLastFacts DEF ParentPath, ButLast
<1>4. n = Len(p) - 1 => SubSeq(p, 1, n) = up
  BY DEF ParentPath
<1>. HIDE DEF up
<1>5. ASSUME n # Len(p) - 1
      PROVE  n \in 0 .. (Len(up) - 1) /\ SubSeq(up, 1, n) = SubSeq(p, 1, n)
  <2>1. n \in Nat /\ n <= Len(up) /\ n <= Len(p) /\ n \in 0 .. (Len(up) - 1)
    BY <1>2, <1>3, <1>5
  <2>2. \A k \in 1 .. n : up[k] = p[k]
    BY <1>2, <1>3, <2>1
  <2>. QED BY <1>1, <1>2, <1>3, <2>1, <2>2 DEF IsSeq
<1>. QED BY <1>2, <1>3, <1>4, <1>5 DEF up

\* The path that leads from something above p towards p.
LEMMA TowardsFacts ==
    ASSUME NEW p, IsSeq(p), NEW n \in 0 .. (Len(p) - 1)
    PROVE  /\ SubSeq(p, 1, n + 1) # <<>>
           /\ ParentPath(SubSeq(p, 1, n + 1)) = SubSeq(p, 1, n)
           /\ n + 1 = Len(p) => SubSeq(p, 1, n + 1) = p
           /\ n + 1 # Len(p) => n + 1 \in 0 .. (Len(p) - 1)
<1>. DEFINE m == n + 1
            way == SubSeq(p, 1, m)
<1>1. PICK S : p \in Seq(S)
  BY DEF IsSeq
<1>2. Len(p) \in Nat \ {0} /\ n \in Nat /\ m \in Nat /\ m <= Len(p) /\ m = n + 1
  BY <1>1
<1>. HIDE DEF m
<1>3. way \in Seq(S) /\ Len(way) = m /\ \A k \in 1 .. m : way[k] = p[k]
  BY <1>1, <1>2
<1>. HIDE DEF way
<1>4. way # <<>> /\ Len(way) - 1 = n
  BY <1>2, <1>3
<1>5. SubSeq(way, 1, n) = SubSeq(p, 1, n)
  BY <1>1, <1>2, <1>3
<1>6. ParentPath(way) = SubSeq(p, 1, n)
  BY <1>4, <1>5 DEF ParentPath
<1>7. m = Len(p) => SubSeq(p, 1, m) = p
  BY <1>1, <1>2
<1>. QED BY <1>2, <1>4, <1>6, <1>7 DEF way, m

\* An open, a mkdir or a write.
LEMMA PutTree ==
    ASSUME Tree, NEW p, IsSeq(p), p # <<>>, IsDir(ParentPath(p)), ~IsDir(p), NEW node,
           fs' = Put(p, node)
    PROVE  Tree'
<1>1. \A q : IsDir(q) => q \in DOMAIN fs' /\ fs'[q] = Dir
  BY DEF IsDir, Exists, Put
<1>2. ASSUME NEW q \in DOMAIN fs', NEW n \in 0 .. (Len(q) - 1) PROVE IsDir(SubSeq(q, 1, n))
  <2>1. CASE q = p
    <3>1. n = Len(q) - 1 => SubSeq(q, 1, n) = ParentPath(p)
      BY <2>1, AboveFacts
    <3>2. n # Len(q) - 1 => IsDir(SubSeq(ParentPath(p), 1, n)) /\ SubSeq(ParentPath(p), 1, n) = SubSeq(q, 1, n)
      BY <2>1, AboveFacts DEF Tree, IsDir, Exists
    <3>. QED BY <3>1, <3>2
  <2>2. CASE q # p
    BY <2>2 DEF Tree, Put
  <2>. QED BY <2>1, <2>2
<1>3. \A q \in DOMAIN fs' : IsSeq(q)
  BY DEF Tree, Put
<1>. QED BY <1>1, <1>2, <1>3 DEF Tree, IsDir, Exists

\* An unlink or a rmdir, of an empty folder.
LEMMA DropTree ==
    ASSUME Tree, NEW p, CanUnlink(p) \/ CanRmdir(p), fs' = Drop(p)
    PROVE  Tree'
<1>1. ASSUME NEW q \in DOMAIN fs', NEW n \in 0 .. (Len(q) - 1)
      PROVE  IsDir(SubSeq(q, 1, n)) /\ SubSeq(q, 1, n) # p
  <2>1. q \in DOMAIN fs /\ IsSeq(q) /\ q # p /\ IsDir(SubSeq(q, 1, n))
    BY DEF Tree, Drop
  <2>2. SUFFICES ASSUME SubSeq(q, 1, n) = p PROVE FALSE
    BY <2>1
  <2>3. NamesIn(p) = {}
    BY <2>1, <2>2 DEF CanUnlink, CanRmdir
  <2>. DEFINE way == SubSeq(q, 1, n + 1)
  <2>4. way # <<>> /\ ParentPath(way) = p
    BY <2>1, <2>2, TowardsFacts
  <2>5. way \in DOMAIN fs
    <3>1. CASE n + 1 = Len(q)
      BY <2>1, <3>1, TowardsFacts
    <3>2. CASE n + 1 # Len(q)
      <4>1. n + 1 \in 0 .. (Len(q) - 1)
        BY <2>1, <3>2, TowardsFacts
      <4>. QED BY <2>1, <4>1 DEF Tree, IsDir, Exists
    <3>. QED BY <3>1, <3>2
  <2>. HIDE DEF way
  <2>6. BaseName(way) \in NamesIn(p)
    BY <2>4, <2>5 DEF NamesIn
  <2>. QED BY <2>3, <2>6
<1>2. \A q : IsDir(q) /\ q # p => q \in DOMAIN fs' /\ fs'[q] = Dir
  BY DEF IsDir, Exists, Drop
<1>3. \A q \in DOMAIN fs' : IsSeq(q)
  BY DEF Tree, Drop
<1>. QED BY <1>1, <1>2, <1>3 DEF Tree, IsDir, Exists

\* The rename of a file.
LEMMA RenameTree ==
    ASSUME Tree, NEW p, ~IsDir(p), NEW q, IsSeq(q), q # <<>>, CanRename(p, q), fs' = Renamed(p, q)
    PROVE  Tree'
<1>1. \A d : IsDir(d) => d \in DOMAIN fs' /\ fs'[d] = Dir
  BY DEF IsDir, Exists, Renamed, CanRename
<1>2. ASSUME NEW r \in DOMAIN fs', NEW n \in 0 .. (Len(r) - 1) PROVE IsDir(SubSeq(r, 1, n))
  <2>1. CASE r = q
    <3>1. IsDir(ParentPath(q))
      BY DEF CanRename
    <3>2. n = Len(r) - 1 => SubSeq(r, 1, n) = ParentPath(q)
      BY <2>1, AboveFacts
    <3>3. n # Len(r) - 1 => IsDir(SubSeq(ParentPath(q), 1, n)) /\ SubSeq(ParentPath(q), 1, n) = SubSeq(r, 1, n)
      BY <2>1, <3>1, AboveFacts DEF Tree, IsDir, Exists
    <3>. QED BY <3>1, <3>2, <3>3
  <2>2. CASE r # q
    BY <2>2 DEF Tree, Renamed
  <2>. QED BY <2>1, <2>2
<1>3. \A r \in DOMAIN fs' : IsSeq(r)
  BY DEF Tree, Renamed
<1>. QED BY <1>1, <1>2, <1>3 DEF Tree, IsDir, Exists

\* Every call leaves a tree.
LEMMA TreeSteps ==
    ASSUME SafeInv, Pasting => PlanningInv /\ TempInv /\ OwnInv, DeletionInv, TreeInv, [Next]_vars
    PROVE  TreeInv'
<1>1. /\ PlaceInv /\ op \in Operations /\ op.kind \in Kinds /\ (Pasting \/ op.kind = "Delete")
  BY RootsArePaths DEF SafeInv, PlaceInv, Kinds, Pasting, Pastes
<1>2. pc \in InJob => Pasting
  BY <1>1 DEF DeletionInv
<1>3. ASSUME pc \in InJob
      PROVE  /\ IsSeq(Temp) /\ Temp # <<>> /\ IsSeq(Job.dst) /\ Job.dst # <<>>
             /\ Job.src \in Sources /\ Disk0[Job.src] # Dir
  <2>1. /\ BelowRoot(Job.src) /\ Job.dst = Image(Job.src)
        /\ Job.src \in Sources /\ Disk0[Job.src] # Dir
    BY <1>2, <1>3, JobFacts, JobHasSource
  <2>2. PICK i \in 1 .. Len(op.roots) : IsUnder(Job.src, op.roots[i])
    BY <2>1 DEF BelowRoot
  <2>3. IsSeq(Job.dst) /\ Len(Job.dst) \in Nat \ {0}
    BY <1>1, <1>2, <1>3, <2>1, <2>2, ImageFacts DEF BelowRoot
  <2>4. Job.dst # <<>>
    BY <2>3, LenIsNat
  <2>5. IsSeq(ParentPath(Job.dst))
    BY <2>3, <2>4, ButLastFacts DEF ParentPath, ButLast
  <2>. QED BY <2>1, <2>3, <2>4, <2>5, JoinFacts DEF Temp, TempPath
<1>4. Tree
  BY DEF TreeInv
<1>5. Tree'
  <2>1. CASE PlanMakeDirectory /\ fs' # fs
    <3>. DEFINE new == TopFrame.dst
    <3>1. Pasting /\ CanCreate(new) /\ fs' = Put(new, Dir) /\ pc = "frame"
      BY ONLY <2>1 DEF PlanMakeDirectory, Walking, Works, Pasting
    <3>2. BelowRoot(TopFrame.src) /\ new = Image(TopFrame.src)
      BY <1>1, <2>1, <3>1, TopFrameFacts DEF PlanningInv
    <3>3. PICK i \in 1 .. Len(op.roots) : IsUnder(TopFrame.src, op.roots[i])
      BY <3>2 DEF BelowRoot
    <3>4. IsSeq(new) /\ Len(new) \in Nat \ {0}
      BY <1>1, <3>1, <3>2, <3>3, ImageFacts DEF BelowRoot
    <3>5. new # <<>>
      BY <3>4, LenIsNat
    <3>. HIDE DEF new
    <3>. QED BY <1>4, <3>1, <3>4, <3>5, PutTree DEF CanCreate, IsDir
  <2>2. CASE JobOpenTarget /\ fs' # fs
    <3>1. pc \in InJob /\ CanCreate(Temp) /\ fs' = Put(Temp, Partial)
      BY ONLY <2>2 DEF JobOpenTarget, Works, InJob
    <3>. QED BY <1>3, <1>4, <3>1, PutTree DEF CanCreate, IsDir
  <2>3. CASE JobTransfer /\ fs' # fs
    <3>1. pc = "jobTransfer" /\ pc \in InJob /\ fs' = Put(Temp, fs[Job.src])
      BY ONLY <2>3 DEF JobTransfer, InJob
    <3>2. Exists(Temp) /\ ~IsDir(Temp) /\ IsSeq(Temp) /\ Temp # <<>>
      BY <1>3, <3>1 DEF TreeInv
    <3>3. IsDir(ParentPath(Temp))
      <4>1. Len(Temp) - 1 \in 0 .. (Len(Temp) - 1)
        BY <3>2, LenIsNat
      <4>. QED BY <1>4, <3>2, <4>1, AboveFacts DEF Tree, Exists
    <3>. QED BY <1>4, <3>1, <3>2, <3>3, PutTree
  <2>4. CASE JobRename /\ fs' # fs
    <3>1. pc = "jobRename" /\ pc \in InJob /\ CanRename(Temp, Job.dst) /\ fs' = Renamed(Temp, Job.dst)
      BY ONLY <2>4 DEF JobRename, Works, InJob
    <3>2. ~IsDir(Temp)
      BY <1>2, <1>3, <3>1 DEF TempInv, IsDir
    <3>. QED BY <1>3, <1>4, <3>1, <3>2, RenameTree
  <2>5. CASE UndoTemp \/ UndoFile \/ UndoDirectory \/ JobDiscard
    <3>1. fs' = fs \/ \E p : (CanUnlink(p) \/ CanRmdir(p)) /\ fs' = Drop(p)
      BY ONLY <2>5 DEF UndoTemp, UndoFile, UndoDirectory, JobDiscard, TryUnlink, TryRmdir
    <3>. QED BY <1>4, <3>1, DropTree DEF Tree, IsDir, Exists
  <2>6. CASE RemoveItem \/ DeleteItem
    <3>1. fs' = fs \/ \E p : (CanUnlink(p) \/ CanRmdir(p)) /\ fs' = Drop(p)
      BY ONLY <2>6 DEF RemoveItem, DeleteItem, Works
    <3>. QED BY <1>4, <3>1, DropTree DEF Tree, IsDir, Exists
  <2>7. CASE fs' = fs
    BY <1>4, <2>7 DEF Tree, IsDir, Exists
  <2>. QED BY <2>1, <2>2, <2>3, <2>4, <2>5, <2>6, <2>7, DiskChanges
<1>6. pc' = "jobTransfer" => Temp' \in DOMAIN fs' /\ fs'[Temp'] # Dir
  <2>. SUFFICES ASSUME pc' = "jobTransfer" PROVE Temp' \in DOMAIN fs' /\ fs'[Temp'] # Dir
    OBVIOUS
  <2>1. CASE JobOpenTarget
    <3>1. fs' = Put(Temp, Partial) /\ Temp' = Temp
      BY ONLY <2>1, pc' = "jobTransfer" DEF JobOpenTarget, Fail, Undo, Temp, Job
    <3>. QED BY <3>1, WorkerAssumption DEF Put
  <2>2. CASE Cancel \/ Gone \/ UNCHANGED vars
    <3>1. pc = "jobTransfer" /\ fs' = fs /\ Temp' = Temp
      BY ONLY <2>2, pc' = "jobTransfer" DEF Cancel, Gone, vars, Temp, Job
    <3>. QED BY <3>1 DEF TreeInv, Exists, IsDir
  <2>3. ~Start /\ ~PlanStep
    BY ONLY pc' = "jobTransfer" DEF Start, PlanStep, PlanTop, PlanRefused, PlanMakeDirectory,
       PlanOpenDirectory, PlanDescend, PlanLeaveDirectory, PlanFile, PlanDeleteLeaf, Planned,
       Walking, CompleteOperation, Fail, Undo
  <2>4. ~(JobTop \/ JobOpenSource \/ JobNoResources \/ JobTransfer \/ JobTransferred \/ JobDiscard
          \/ JobFinalize \/ JobRename \/ JobRecord)
    BY ONLY pc' = "jobTransfer" DEF JobTop, JobOpenSource, JobNoResources, JobTransfer,
       JobTransferred, JobDiscard, JobFinalize, JobRename, JobRecord, CompleteOperation, Fail, Undo
  <2>5. ~(DeleteTop \/ DeleteItem \/ End \/ UndoStep \/ RemoveStep)
    BY <1>1, pc' = "jobTransfer" DEF DeleteTop, DeleteItem, End, UndoStep, UndoTemp, UndoFile,
       UndoDirectory, UndoEnd, RemoveStep, RemoveMissing, RemoveOpen, RemoveDescend, RemoveItem,
       RemoveNextRoot, Removing, Fail, Undo, PlaceInv, Returning
  <2>. QED BY <2>1, <2>2, <2>3, <2>4, <2>5 DEF Next, WorkerStep, JobStep
<1>7. (pc = "jobTransfer" => Exists(Temp) /\ ~IsDir(Temp))'
  BY <1>6 DEF Exists, IsDir
<1>. QED BY <1>5, <1>7 DEF TreeInv

\* A move that is completed has removed its roots, and nothing brings them back.
LEMMA MovedSteps ==
    ASSUME SafeInv, Pasting, UndoInv, OutcomeInv, MovedInv, RemovedInv, [Next]_vars,
           ~Broke({"lstat_removed"})
    PROVE  MovedInv'
<1>. SUFFICES ASSUME op.kind = "Move", state' = "Completed", ~Locked' PROVE RootsGone'
  BY SameOperation DEF MovedInv
<1>1. op' = op /\ (RootsGone /\ fs' = fs => RootsGone')
  BY SameOperation DEF RootsGone, Exists
<1>2. CASE state = "Completed" /\ ~Locked
  <2>1. RootsGone /\ pc \in {"planned", "jobTop", "end", "done"}
    BY <1>2 DEF MovedInv, OutcomeInv
  <2>2. fs' = fs
    BY <2>1, DiskChanges DEF UndoTemp, UndoFile, UndoDirectory, RemoveItem, Removing,
       PlanMakeDirectory, Walking, JobOpenTarget, JobTransfer, JobDiscard, JobRename, DeleteItem
  <2>. QED BY <1>1, <2>1, <2>2
<1>3. CASE UndoStep
  BY <1>3 DEF UndoStep, UndoTemp, UndoFile, UndoDirectory, UndoEnd, Locked, OutcomeInv
<1>4. CASE RemoveStep
  <2>1. pc = "remove" /\ removeIndex \in 1 .. Len(op.roots)
    BY <1>4 DEF SafeInv, PlaceInv, RemoveStep, RemoveMissing, RemoveOpen, RemoveDescend,
       RemoveItem, RemoveNextRoot, Removing
  <2>2. fs' = fs /\ removeStack = <<>> /\ removeIndex = Len(op.roots)
    BY ONLY <1>4, <2>1, state' = "Completed", ~Locked' DEF RemoveStep, RemoveMissing, RemoveOpen,
       RemoveDescend, RemoveItem, RemoveNextRoot, Removing, Locked, LastRoot
  <2>3. /\ ~Exists(op.roots[removeIndex])
        /\ \A i \in 1 .. removeIndex - 1 : ~Exists(op.roots[i])
    BY <2>1, <2>2 DEF RemovedInv
  <2>4. Len(op.roots) \in Nat
    BY RootsArePaths DEF SafeInv, PlaceInv
  <2>5. RootsGone
    BY <2>2, <2>3, <2>4 DEF RootsGone
  <2>. QED BY <1>1, <2>2, <2>5
<1>5. CASE PlanTop \/ JobTop
  BY <1>2, <1>5, op.kind = "Move" DEF PlanTop, JobTop, CompleteOperation, Fail, Undo, Locked
<1>6. CASE Start \/ Cancel \/ Gone \/ End \/ UNCHANGED vars
  BY <1>2, <1>6 DEF Start, Cancel, Gone, End, vars, Locked
<1>7. CASE PlanStep /\ ~PlanTop
  BY <1>2, <1>7 DEF PlanStep, PlanRefused, PlanMakeDirectory, PlanOpenDirectory, PlanDescend,
     PlanLeaveDirectory, PlanFile, PlanDeleteLeaf, Planned, Walking, Locked
<1>8. CASE JobStep /\ ~JobTop
  BY <1>2, <1>8 DEF JobStep, JobOpenSource, JobOpenTarget, JobNoResources, JobTransfer,
     JobTransferred, JobDiscard, JobFinalize, JobRename, JobRecord, Locked
<1>9. ~(DeleteTop \/ DeleteItem)
  BY DEF DeleteTop, DeleteItem, UndoInv
<1>. QED BY <1>3, <1>4, <1>5, <1>6, <1>7, <1>8, <1>9 DEF Next, WorkerStep

\* The frames of the roots are on the stack when the walk begins.
LEMMA RootsListed ==
    ASSUME op \in Operations, planStack' = RootFrames, op' = op
    PROVE  \A i \in 1 .. Len(op.roots) : Listed(op.roots[i])'
<1>. DEFINE n == Len(op.roots)
            src(k) == op.roots[n + 1 - k]
<1>1. n \in Nat \ {0}
  BY RootsArePaths
<1>2. IsSeq(RootFrames) /\ Len(RootFrames) = n
  BY <1>1, RootFramesOK DEF Frames, RootFrames
<1>3. \A k \in 1 .. n : RootFrames[k].src = src(k)
  BY DEF RootFrames, Frame
<1>4. ASSUME NEW i \in 1 .. n PROVE \E k \in 1 .. n : RootFrames[k].src = op.roots[i]
  <2>1. n + 1 - i \in 1 .. n /\ n + 1 - (n + 1 - i) = i
    BY <1>1
  <2>. QED BY <1>3, <2>1
<1>. QED BY <1>2, <1>4 DEF Listed

\* The walk of a deletion keeps the frame of a root until the root is on the list.
LEMMA ListedSteps ==
    ASSUME SafeInv, op.kind = "Delete", [Next]_vars, pc # "idle", NEW root, Listed(root)
    PROVE  Listed(root)'
<1>1. /\ op \in Operations /\ IsSeq(planStack) /\ Len(planStack) \in Nat
      /\ IsSeq(deletePaths) /\ Len(deletePaths) \in Nat
      /\ pc \in {"frame", "opendir"} => planStack # <<>>
  BY LenIsNat DEF SafeInv, PlaceInv, MemoryInv, Frames, AllExpendable
<1>2. \A j \in 1 .. Len(deletePaths) : j \in 1 .. Len(deletePaths') /\ deletePaths'[j] = deletePaths[j]
  BY ListsGrow
<1>3. CASE \E j \in 1 .. Len(deletePaths) : deletePaths[j] = root
  BY <1>2, <1>3 DEF Listed
<1>4. CASE \E k \in 1 .. Len(planStack) : planStack[k].src = root
  <2>1. PICK k \in 1 .. Len(planStack) : planStack[k].src = root
    BY <1>4
  <2>2. CASE planStack' = planStack
    BY <2>1, <2>2 DEF Listed
  <2>3. CASE PlanOpenDirectory \/ PlanDescend
    <3>1. planStack # <<>>
      BY <1>1, <2>1
    <3>2. planStack' = planStack \/ \E f : /\ f.src = Top(planStack).src
                                           /\ \/ planStack' = SetTop(planStack, f)
                                              \/ \E g : planStack' = Append(SetTop(planStack, f), g)
      <4>1. DOMAIN Top(planStack) = {"src", "dst", "opened", "todo"}
        BY <3>1, PopFrames DEF SafeInv, MemoryInv, FrameOK
      <4>2. \A names : OpenFrame(Top(planStack), names).src = Top(planStack).src
        BY <4>1 DEF OpenFrame
      <4>3. \A names : [Top(planStack) EXCEPT !.todo = names].src = Top(planStack).src
        BY <4>1
      <4>4. CASE PlanOpenDirectory
        BY <4>2, <4>4 DEF PlanOpenDirectory, TopFrame
      <4>5. CASE PlanDescend
        <5>1. planStack' \in NextChild(planStack, SourceChild)
          BY <4>5, op.kind = "Delete" DEF PlanDescend
        <5>2. PICK name \in Top(planStack).todo :
                 planStack' = Push(SetTop(planStack, [Top(planStack) EXCEPT !.todo = @ \ {name}]),
                                   SourceChild(Top(planStack), name))
          BY <5>1 DEF NextChild
        <5>. QED BY <4>3, <5>2 DEF Push
      <4>. QED BY <2>3, <4>4, <4>5
    <3>3. PICK f : /\ f.src = Top(planStack).src
                   /\ \/ planStack' = planStack
                      \/ planStack' = SetTop(planStack, f)
                      \/ \E g : planStack' = Append(SetTop(planStack, f), g)
      BY <3>2
    <3>. DEFINE low == SetTop(planStack, f)
    <3>4. /\ IsSeq(low) /\ Len(low) = Len(planStack)
          /\ \A i \in 1 .. Len(planStack) : low[i] = IF i = Len(planStack) THEN f ELSE planStack[i]
      BY <1>1, <3>1, SetTopFacts
    <3>. HIDE DEF low
    <3>5. low[k].src = root
      BY <2>1, <3>3, <3>4 DEF Top
    <3>6. k \in 1 .. Len(planStack') /\ planStack'[k].src = root
      <4>1. \A g : Len(Append(low, g)) = Len(planStack) + 1 /\ Append(low, g)[k] = low[k]
        BY <3>4, AppendFacts
      <4>. QED BY <1>1, <2>1, <3>3, <3>4, <3>5, <4>1 DEF low
    <3>. QED BY <3>6 DEF Listed
  <2>4. CASE PlanLeaveDirectory \/ PlanDeleteLeaf
    <3>1. planStack # <<>> /\ planStack' = ButLast(planStack) /\ deletePaths' = Append(deletePaths, Top(planStack).src)
      BY <1>1, <2>4, op.kind = "Delete" DEF PlanLeaveDirectory, PlanDeleteLeaf, Walking, Pop,
         AfterContents, TopFrame
    <3>2. CASE k = Len(planStack)
      <4>1. Len(deletePaths) + 1 \in 1 .. Len(deletePaths') /\ deletePaths'[Len(deletePaths) + 1] = root
        BY <1>1, <2>1, <3>1, <3>2, AppendFacts DEF Top
      <4>. QED BY <4>1 DEF Listed
    <3>3. CASE k # Len(planStack)
      <4>1. k \in 1 .. Len(planStack') /\ planStack'[k] = planStack[k]
        BY <1>1, <2>1, <3>1, <3>3, TakenFacts
      <4>. QED BY <2>1, <4>1 DEF Listed
    <3>. QED BY <3>2, <3>3
  <2>5. ~PlanFile /\ ~Start
    BY op.kind = "Delete", pc # "idle" DEF PlanFile, Walking, Pastes, Start
  <2>. QED BY <2>2, <2>3, <2>4, <2>5, PlanStackChanges
<1>. QED BY <1>3, <1>4 DEF Listed

\* A deletion removes, one by one, what it has listed.
LEMMA DeletionSteps ==
    ASSUME SafeInv, DeletionInv, [Next]_vars PROVE DeletionInv'
<1>. SUFFICES ASSUME op.kind = "Delete" PROVE DeletionInv'
  BY SameOperation DEF DeletionInv
<1>. DEFINE Worked == \A j \in 1 .. Len(deletePaths) : j < deleteIndex => ~Exists(deletePaths[j])
            Spread == \A i \in 1 .. Len(op.roots) : Listed(op.roots[i])
            Rolls == after.state = "Failed" \/ (after.state = "Canceled" /\ after.pc = "done")
            Answered == state = "Completed" => pc \in {"end", "done"} /\ RootsGone
<1>1. /\ op' = op /\ op \in Operations /\ PlaceInv /\ deleteIndex \in Nat \ {0}
      /\ IsSeq(deletePaths) /\ Len(deletePaths) \in Nat
  BY SameOperation, LenIsNat DEF SafeInv, PlaceInv, MemoryInv, AllExpendable
<1>2. /\ pc \notin {"jobTop", "remove"} \cup InJob
      /\ pc \in Before => deleteIndex = 1
      /\ Deleting => Spread
      /\ Deleting /\ pc \notin PlanPlaces => planStack = <<>>
      /\ Worked /\ Answered
      /\ pc \in {"undoTemp", "undo"} => Rolls
  BY DEF DeletionInv
<1>3. ~JobStep /\ ~RemoveStep /\ ~PlanMakeDirectory /\ ~PlanFile
  BY <1>2, op.kind = "Delete" DEF InJob, JobStep, JobTop, JobOpenSource, JobOpenTarget, JobNoResources,
     JobTransfer, JobTransferred, JobDiscard, JobFinalize, JobRename, JobRecord, RemoveStep,
     RemoveMissing, RemoveOpen, RemoveDescend, RemoveItem, RemoveNextRoot, Removing,
     PlanMakeDirectory, PlanFile, Walking, Pastes
<1>4. \A p : Exists(p)' => Exists(p)
  <2>1. fs' = fs \/ \E p : fs' = Drop(p)
    BY <1>3, DiskChanges DEF JobStep, RemoveStep, UndoTemp, UndoFile, UndoDirectory, TryUnlink,
       TryRmdir, DeleteItem
  <2>. QED BY <2>1 DEF Exists, Drop
<1>5. \A j \in 1 .. Len(deletePaths) : j \in 1 .. Len(deletePaths') /\ deletePaths'[j] = deletePaths[j]
  BY ListsGrow
<1>6. /\ pc' \notin {"jobTop", "remove"} \cup InJob
      /\ pc' \in {"undoTemp", "undo"} => Rolls'
      /\ pc' \in Before => deleteIndex' = deleteIndex /\ pc \in Before
      /\ Deleting' => \/ pc = "idle" /\ planStack' = RootFrames
                      \/ pc # "idle" /\ Deleting
      /\ Deleting' /\ pc' \notin PlanPlaces => \/ pc = "planTop" /\ planStack = <<>> /\ planStack' = planStack
                                               \/ Deleting /\ pc \notin PlanPlaces /\ planStack' = planStack
      /\ deleteIndex' = deleteIndex \/ DeleteItem
  <2>. USE DEF Deleting, PlanPlaces, Before, InJob
  <2>1. CASE Start \/ Cancel \/ Gone \/ UNCHANGED vars
    BY <1>2, <2>1 DEF Start, Cancel, Gone, vars
  <2>2. CASE PlanTop
    BY <1>2, <2>2, op.kind = "Delete" DEF PlanTop, CompleteOperation, Fail, Undo
  <2>3. CASE PlanRefused \/ PlanOpenDirectory \/ PlanDescend \/ PlanLeaveDirectory \/ PlanDeleteLeaf
    BY <1>2, <2>3 DEF PlanRefused, PlanOpenDirectory, PlanDescend, PlanLeaveDirectory,
       PlanDeleteLeaf, Walking, Fail, Undo
  <2>4. CASE Planned
    BY <1>2, <2>4, op.kind = "Delete" DEF Planned, Undo
  <2>5. CASE DeleteTop \/ DeleteItem
    BY <1>2, <2>5 DEF DeleteTop, DeleteItem, Fail, Undo
  <2>6. CASE UndoStep
    BY <1>1, <1>2, <2>6 DEF UndoStep, UndoTemp, UndoFile, UndoDirectory, UndoEnd, PlaceInv, Returning
  <2>7. CASE End
    BY <1>2, <2>7 DEF End
  <2>. QED BY <1>3, <2>1, <2>2, <2>3, <2>4, <2>5, <2>6, <2>7 DEF Next, WorkerStep, PlanStep
<1>7. Deleting' => Spread'
  <2>1. CASE pc = "idle" /\ planStack' = RootFrames
    BY <1>1, <2>1, RootsListed
  <2>2. CASE pc # "idle" /\ Deleting
    BY <1>1, <1>2, <2>2, ListedSteps
  <2>. QED BY <1>6, <2>1, <2>2
<1>8. Deleting' /\ pc' \notin PlanPlaces => planStack' = <<>>
  BY <1>2, <1>6
<1>9. Worked'
  <2>1. CASE DeleteItem
    <3>1. deletePaths' = deletePaths /\ \/ deleteIndex' = deleteIndex
                                        \/ deleteIndex' = deleteIndex + 1 /\ fs' = Drop(deletePaths[deleteIndex])
      BY <2>1 DEF DeleteItem
    <3>2. ASSUME NEW j \in 1 .. Len(deletePaths'), j < deleteIndex' PROVE deletePaths'[j] \notin DOMAIN fs'
      <4>1. CASE j < deleteIndex
        BY <1>2, <1>4, <3>1, <4>1 DEF Exists
      <4>2. CASE ~(j < deleteIndex)
        <5>1. deletePaths'[j] = deletePaths[deleteIndex] /\ fs' = Drop(deletePaths[deleteIndex])
          BY <1>1, <3>1, <3>2, <4>2
        <5>. QED BY <5>1 DEF Drop
      <4>. QED BY <4>1, <4>2
    <3>. QED BY <3>2 DEF Exists
  <2>2. CASE deleteIndex' = deleteIndex /\ pc \in Before
    <3>1. deleteIndex' = 1
      BY <1>2, <2>2
    <3>. QED BY <3>1
  <2>3. CASE deleteIndex' = deleteIndex /\ pc \notin Before
    <3>1. deletePaths' = deletePaths
      BY <2>3, DeletePathsChange DEF PlanLeaveDirectory, PlanDeleteLeaf, Walking, Before, PlanPlaces
    <3>2. ASSUME NEW j \in 1 .. Len(deletePaths'), j < deleteIndex' PROVE deletePaths'[j] \notin DOMAIN fs'
      BY <1>2, <1>4, <2>3, <3>1, <3>2 DEF Exists
    <3>. QED BY <3>2 DEF Exists
  <2>. QED BY <1>6, <2>1, <2>2, <2>3
<1>10. Answered'
  <2>1. RootsGone => RootsGone'
    BY <1>1, <1>4 DEF RootsGone, Exists
  <2>2. CASE DeleteTop /\ state' = "Completed" /\ state # "Completed"
    <3>1. pc = "deleteTop" /\ pc' = "end" /\ deleteIndex > Len(deletePaths)
      BY ONLY <2>2 DEF DeleteTop
    <3>2. planStack = <<>> /\ Spread
      BY <1>2, <3>1 DEF Deleting, PlanPlaces
    <3>3. \A j \in 1 .. Len(deletePaths) : ~Exists(deletePaths[j])
      BY <1>1, <1>2, <3>1
    <3>4. RootsGone
      BY <3>2, <3>3 DEF RootsGone, Listed
    <3>. QED BY <2>1, <3>1, <3>4
  <2>3. CASE state = "Completed"
    <3>1. pc \in {"end", "done"} /\ RootsGone
      BY <1>2, <2>3
    <3>2. pc' \in {"end", "done"}
      BY <1>3, <3>1 DEF Next, WorkerStep, Start, Cancel, Gone, End, vars, PlanStep, PlanTop,
         PlanRefused, PlanOpenDirectory, PlanDescend, PlanLeaveDirectory, PlanDeleteLeaf,
         Planned, Walking, DeleteTop, DeleteItem, UndoStep, UndoTemp, UndoFile, UndoDirectory,
         UndoEnd
    <3>. QED BY <2>1, <3>1, <3>2
  <2>4. CASE state # "Completed" /\ ~DeleteTop
    <3>1. state' # "Completed"
      BY <1>2, <1>3, <2>4, op.kind = "Delete" DEF Next, WorkerStep, Start, Cancel, Gone, End, vars,
         PlanStep, PlanTop, PlanRefused, PlanOpenDirectory, PlanDescend, PlanLeaveDirectory,
         PlanDeleteLeaf, Planned, CompleteOperation, DeleteItem, UndoStep, UndoTemp, UndoFile,
         UndoDirectory, UndoEnd
    <3>. QED BY <3>1
  <2>. QED BY <2>2, <2>3, <2>4
<1>. QED BY <1>2, <1>6, <1>7, <1>8, <1>9, <1>10 DEF DeletionInv

\* As long as lstat() has not failed in a removal, what is shown is what is there.
Promised == PromiseInv \/ Broke({"lstat_removed"})

\* At first there is the tree that was there.
LEMMA GoneStarts == Init => GoneInv
<1>. SUFFICES ASSUME Init PROVE GoneInv
  OBVIOUS
<1>1. /\ fs = Disk0 /\ pc = "idle" /\ state = "Idle" /\ deleteIndex = 1 /\ deletePaths = <<>>
  BY DEF Init
<1>2. TreeInv
  <2>1. ASSUME NEW p \in DOMAIN Disk0 PROVE IsSeq(p)
    BY DiskAssumption DEF IsSeq
  <2>. QED BY <1>1, <2>1, DiskAssumption DEF TreeInv, Tree, IsDir, Exists
<1>3. MovedInv /\ DeletionInv
  BY <1>1 DEF MovedInv, DeletionInv, Deleting, PlanPlaces, InJob
<1>. QED BY <1>2, <1>3 DEF GoneInv

\* The invariant is inductive.
LEMMA GoneSteps ==
    SafeInv /\ PasteInv /\ TraceInv /\ Promised /\ GoneInv /\ [Next]_vars => GoneInv' /\ Promised'
<1>. SUFFICES ASSUME SafeInv, PasteInv, TraceInv, Promised, GoneInv, [Next]_vars
              PROVE  GoneInv' /\ Promised'
  OBVIOUS
<1>1. /\ IsSeq(faults) /\ op' = op /\ TreeInv /\ MovedInv /\ DeletionInv
      /\ Broke({"lstat_removed"}) => Broke({"lstat_removed"})'
  BY BrokenStays, SameOperation DEF TraceInv, GoneInv
<1>2. Promised'
  BY <1>1, PromiseSteps DEF Promised
<1>3. TreeInv' /\ DeletionInv'
  BY <1>1, TreeSteps, DeletionSteps DEF PasteInv, TraceInv
<1>4. MovedInv'
  <2>1. CASE ~Broke({"lstat_removed"})' /\ Pasting
    <3>1. UndoInv /\ OutcomeInv /\ RemovedInv /\ ~Broke({"lstat_removed"})
      BY <1>1, <2>1 DEF PasteInv, PlanningInv, TraceInv, Promised, PromiseInv
    <3>. QED BY <1>1, <2>1, <3>1, MovedSteps
  <2>2. CASE Broke({"lstat_removed"})'
    BY <2>2 DEF MovedInv
  <2>3. CASE ~Pasting
    BY <1>1, <2>3 DEF MovedInv, Pasting, Pastes
  <2>. QED BY <2>1, <2>2, <2>3
<1>. QED BY <1>2, <1>3, <1>4 DEF GoneInv

\* When the root of a tree is gone the tree is gone.
LEMMA GoneWithRoot ==
    ASSUME Tree, RootsGone, op \in Operations, NEW p \in Sources PROVE ~Exists(p)
<1>. SUFFICES ASSUME Exists(p) PROVE FALSE
  OBVIOUS
<1>1. PICK i \in 1 .. Len(op.roots) : IsUnder(p, op.roots[i])
  BY DEF Sources, Roots
<1>. DEFINE root == op.roots[i]
            n == Len(root)
<1>2. IsSeq(p) /\ Len(p) \in Nat /\ n \in Nat /\ n <= Len(p) /\ SubSeq(p, 1, n) = root /\ ~Exists(root)
  BY <1>1, LenIsNat, RootsArePaths DEF Tree, Exists, IsUnder, RootsGone
<1>. HIDE DEF root, n
<1>3. CASE n = Len(p)
  <2>1. SubSeq(p, 1, n) = p
    BY <1>2, <1>3, SubSeqFull DEF IsSeq
  <2>. QED BY <1>2, <2>1
<1>4. CASE n # Len(p)
  <2>1. n \in 0 .. (Len(p) - 1)
    BY <1>2, <1>4
  <2>. QED BY <1>2, <2>1 DEF Tree, IsDir, Exists
<1>. QED BY <1>3, <1>4

\* What is shown as completed has been done.
LEMMA AllDone == SafeInv /\ PasteInv /\ TraceInv /\ Promised /\ GoneInv => CompletedIsComplete
<1>. SUFFICES ASSUME SafeInv, PasteInv, TraceInv, Promised, GoneInv, state = "Completed", ~Locked,
                     ~Broke({"lstat_removed"})
              PROVE  /\ Pasting => AllArrived
                     /\ op.kind # "Copy" => \A p \in Sources : ~Exists(p)
                     /\ Pasting => \A p \in DOMAIN fs : p \notin DOMAIN Disk0 => \E q \in Sources : p = Image(q)
  BY DEF CompletedIsComplete
<1>1. /\ op \in Operations /\ op.kind \in Kinds /\ Tree /\ MovedInv /\ DeletionInv
      /\ Pasting => OutcomeInv /\ NotedInv /\ CreatedInv /\ MadeInv /\ JobsInv /\ OwnInv
  BY RootsArePaths DEF SafeInv, PlaceInv, GoneInv, TreeInv, TraceInv, PasteInv, PlanningInv
<1>2. Pasting => AllArrived /\ pc \in {"planned", "jobTop", "end", "done"}
  BY <1>1 DEF OutcomeInv
<1>3. op.kind # "Copy" => \A p \in Sources : ~Exists(p)
  <2>1. op.kind # "Copy" => RootsGone
    BY <1>1 DEF MovedInv, DeletionInv, Kinds
  <2>. QED BY <1>1, <2>1, GoneWithRoot
<1>4. ASSUME Pasting, NEW p \in DOMAIN fs, p \notin DOMAIN Disk0 PROVE \E q \in Sources : p = Image(q)
  <2>1. Forward
    BY <1>2, <1>4 DEF Forward, Copying
  <2>2. Noted(p)
    BY <1>1, <1>4, <2>1 DEF NotedInv
  <2>3. CASE \E i \in 1 .. Len(createdDirectories) : createdDirectories[i] = p
    BY <1>1, <1>4, <2>3 DEF CreatedInv
  <2>4. CASE \E i \in 1 .. Len(createdFiles) : createdFiles[i] = p
    BY <1>1, <1>4, <2>4, SourceFacts DEF MadeInv, JobsInv, OwnInv
  <2>. QED BY <1>2, <1>4, <2>2, <2>3, <2>4 DEF Noted, TempPlaces
<1>. QED BY <1>2, <1>3, <1>4

\* What is reported as completed is complete: every item has its copy, the sources
\* of a move and of a deletion are gone, with all that was below them, and nothing
\* is left that is not a copy, unless an lstat() failed while a move removed its
\* sources or a cancellation came too late.
THEOREM Completed == Spec => []CompletedIsComplete
<1>1. Init => Promised
  BY PromiseStarts DEF Promised
<1>. QED BY <1>1, WorkerStarts, SafeSteps, PasteStarts, PasteSteps, TraceStarts, TraceSteps,
            GoneStarts, GoneSteps, AllDone, PTL DEF Spec

\* The same for the worker beside another program, as long as that has done nothing.
THEOREM CompletedAlone == OthersSpec => []CompletedIsCompleteAlone
<1>. DEFINE Inv == Alone => SafeInv /\ PasteInv /\ TraceInv /\ Promised /\ GoneInv
<1>1. OthersInit => Inv
  BY WorkerStarts, PasteStarts, TraceStarts, PromiseStarts, GoneStarts DEF OthersInit, Promised
<1>2. Inv /\ [OthersNext]_<<vars, others>> => Inv'
  BY AloneSteps, SafeSteps, PasteSteps, TraceSteps, GoneSteps
<1>3. Inv => CompletedIsCompleteAlone
  BY AllDone DEF CompletedIsCompleteAlone
<1>. QED BY <1>1, <1>2, <1>3, PTL DEF OthersSpec

(***************************************************************************)
(* Why an operation fails.                                                 *)
(***************************************************************************)
\* No call has broken, and nothing was in the way.
Clear == faults = <<>> /\ ~Obstacle

\* Then there is nothing to report.
FineInv ==
    /\ state # "Failed" /\ hasError = FALSE
    /\ pc \in {"jobDiscard", "undoTemp", "undo"} => after.state # "Failed"

\* The walk has come to p and not left it, or is still to come to it.
Covers(f, p) == p = f.src \/ Walks(f, p)

\* A frame is that of an item that was there, and only an open folder has items left.
WayFrame(f) ==
    /\ f.src \in DOMAIN Disk0
    /\ \A name \in f.todo : JoinPath(f.src, name) \in DOMAIN Disk0
    /\ f.opened => Disk0[f.src] = Dir
    /\ ~f.opened => f.todo = {}

\* What lies below q is not ahead of the frame.
Past(f, q) == \A p \in DOMAIN Disk0 : IsUnder(p, q) => ~Covers(f, p)

\* A walk finds what was there and comes to each item once: what lies below a
\* frame is not ahead of the frames under it.
WayInv ==
    pc \in PlanPlaces =>
        /\ \A i \in 1 .. Len(planStack) : WayFrame(planStack[i])
        /\ \A j \in 1 .. Len(planStack) : \A i \in 1 .. (j - 1) : Past(planStack[i], planStack[j].src)
        /\ pc = "opendir" => ~TopFrame.opened

\* The copy of p has been created.
HasFolder(p) == \E k \in 1 .. Len(createdDirectories) : createdDirectories[k] = Image(p)

\* The folder a copy is to be made in.
RoomFor(f) == IsDir(ParentPath(f.dst)) /\ (f.opened => IsDir(f.dst))

\* The copy of a folder is only there when the walk is in the folder or has left it.
FolderInTime ==
    \A q \in Sources : HasFolder(q) =>
        \A i \in 1 .. Len(planStack) : Covers(planStack[i], q) =>
            /\ q = planStack[i].src
            /\ planStack[i].opened \/ (pc = "opendir" /\ i = Len(planStack))

\* A paste has a folder for each copy before it is made, and its place is free.
RoomInv ==
    /\ pc \in PlanPlaces => \A i \in 1 .. Len(planStack) : RoomFor(planStack[i])
    /\ Active => \A k \in 1 .. Len(jobs) : IsDir(ParentPath(jobs[k].dst))
    /\ \A k \in 1 .. Len(createdDirectories) :
          \E q \in Sources : Disk0[q] = Dir /\ createdDirectories[k] = Image(q)
    /\ pc = "idle" => createdDirectories = <<>>
    /\ pc \in PlanPlaces => FolderInTime
    /\ pc = "jobOpenTarget" => ~Exists(Temp)

\* The walk is still to come to p, or to come back to it.
Ahead(p) == \E i \in 1 .. Len(planStack) : Covers(planStack[i], p)

\* The item p has been listed before the j-th one.
ListedBefore(p, j) == \E i \in 1 .. (j - 1) : deletePaths[i] = p

\* A deletion lists every item once, after all that lies below it.
ListInv ==
    /\ pc \in Before => fs = Disk0
    /\ pc = "idle" => deletePaths = <<>>
    /\ pc # "opendir"
    /\ Deleting =>
          /\ DOMAIN fs \subseteq DOMAIN Disk0
          /\ \A j \in 1 .. Len(deletePaths) :
                /\ deletePaths[j] \in DOMAIN Disk0
                /\ ~ListedBefore(deletePaths[j], j)
                /\ \A p \in DOMAIN Disk0 : IsUnder(p, deletePaths[j]) /\ p # deletePaths[j] =>
                      ListedBefore(p, j)
          /\ \A p \in DOMAIN Disk0 : Intact(p) \/ ListedBefore(p, deleteIndex)
    /\ pc \in PlanPlaces => \A p \in Sources : Ahead(p) <=> ~PlannedToDelete(p)

\* What is in a folder whose removal is under way is still to be removed, or is
\* being removed.
Emptying(stack, i) ==
    /\ ~stack[i].opened => stack[i].todo = {} /\ i = Len(stack)
    /\ stack[i].opened =>
          /\ IsDir(stack[i].src)
          /\ \A name \in NamesIn(stack[i].src) :
                \/ name \in stack[i].todo
                \/ i < Len(stack) /\ stack[i + 1].src = JoinPath(stack[i].src, name)
    /\ i < Len(stack) => \E name : stack[i + 1].src = JoinPath(stack[i].src, name)

\* The removal of a move empties a folder before it removes it.
EmptyingInv == pc = "remove" => \A i \in 1 .. Len(removeStack) : Emptying(removeStack, i)

ReasonInv ==
    Clear => /\ FineInv /\ WayInv
             /\ Pasting => RoomInv
             /\ op.kind = "Delete" => ListInv
             /\ op.kind = "Move" => EmptyingInv

\* What a clear way means.
LEMMA ClearFacts ==
    ASSUME op \in Operations, Clear
    PROVE  /\ \A i \in 1 .. Len(op.roots) : op.roots[i] \in DOMAIN Disk0
           /\ Pasting =>
                 /\ op.dest \in DOMAIN Disk0 /\ Disk0[op.dest] = Dir
                 /\ \A p \in Sources :
                       /\ Disk0[p] # Irregular
                       /\ Image(p) \notin DOMAIN Disk0 \/ Replaced(p)
                       /\ Disk0[p] # Dir =>
                             /\ TempPath(Image(p)) \notin DOMAIN Disk0
                             /\ \A q \in Sources : TempPath(Image(p)) # Image(q)
BY DEF Clear, Obstacle, Roots

\* No call breaks in a step that leaves the way clear, and the way was clear before.
LEMMA ClearSteps ==
    ASSUME IsSeq(faults), [Next]_vars, Clear'
    PROVE  Clear /\ \A call : ~Fault(call)
<1>1. op' = op /\ \A p : Image(p)' = Image(p)
  BY SameOperation, SameTargets
<1>2. Roots' = Roots /\ Sources' = Sources /\ (Pasting' <=> Pasting)
      /\ \A p : Replaced(p)' <=> Replaced(p)
  BY <1>1, SameTargets DEF Roots, Replaced
<1>3. Obstacle' <=> Obstacle
  BY <1>1, <1>2 DEF Obstacle
<1>4. ASSUME NEW call PROVE Append(faults, call) # <<>>
  BY AppendFacts, LenIsNat
<1>5. \A call : ~Fault(call)
  BY <1>4 DEF Fault, Clear
<1>6. faults' = faults
  BY <1>5 DEF Next, vars, WorkerStep, PlanStep, JobStep, UndoStep, RemoveStep, Start, Cancel, Gone,
     PlanTop, PlanRefused, PlanMakeDirectory, PlanOpenDirectory, PlanDescend,
     PlanLeaveDirectory, PlanFile, PlanDeleteLeaf, Planned, JobTop, JobOpenSource,
     JobOpenTarget, JobNoResources, JobTransfer, JobTransferred, JobDiscard, JobFinalize,
     JobRename, JobRecord, DeleteTop, DeleteItem, UndoTemp, UndoFile, UndoDirectory, UndoEnd,
     TryUnlink, TryRmdir, RemoveMissing, RemoveOpen, RemoveDescend, RemoveItem,
     RemoveNextRoot, End, Works, Breaks, NoFault
<1>. QED BY <1>3, <1>5, <1>6 DEF Clear

\* What is below an item of a folder is below the folder, and no item of it is
\* below another.
LEMMA BelowChild ==
    ASSUME NEW q, IsSeq(q), NEW p, IsSeq(p), NEW name, IsUnder(p, JoinPath(q, name))
    PROVE  /\ IsUnder(p, q) /\ p # q
           /\ \A other : IsUnder(p, JoinPath(q, other)) => other = name
<1>1. IsSeq(JoinPath(q, name)) /\ Len(JoinPath(q, name)) = Len(q) + 1 /\ Len(q) \in Nat /\ Len(p) \in Nat
      /\ \A k \in 1 .. Len(q) : JoinPath(q, name)[k] = q[k]
  BY JoinFacts, LenIsNat
<1>2. \A other : IsUnder(p, JoinPath(q, other)) => Len(q) + 1 <= Len(p) /\ p[Len(q) + 1] = other
  <2>1. ASSUME NEW other, IsUnder(p, JoinPath(q, other)) PROVE Len(q) + 1 <= Len(p) /\ p[Len(q) + 1] = other
    <3>1. IsSeq(JoinPath(q, other)) /\ Len(JoinPath(q, other)) = Len(q) + 1
          /\ JoinPath(q, other)[Len(q) + 1] = other
      BY AppendFacts DEF JoinPath
    <3>2. Len(q) + 1 \in 1 .. Len(q) + 1
      BY <1>1
    <3>. QED BY <2>1, <3>1, <3>2, UnderByName
  <2>. QED BY <2>1
<1>3. /\ Len(q) + 1 <= Len(p)
      /\ \A k \in 1 .. Len(q) + 1 : p[k] = JoinPath(q, name)[k]
  BY <1>1, UnderByName
<1>4. Len(q) <= Len(p) /\ (\A k \in 1 .. Len(q) : p[k] = q[k]) /\ Len(q) # Len(p)
  BY ONLY <1>1, <1>3
<1>5. IsUnder(p, q)
  BY <1>4, UnderByName
<1>. QED BY <1>2, <1>4, <1>5

\* What is below something below a folder is below the folder.
LEMMA UnderUnder ==
    ASSUME NEW p, IsSeq(p), NEW a, IsSeq(a), NEW b, IsSeq(b), IsUnder(p, a), IsUnder(a, b)
    PROVE  IsUnder(p, b)
BY UnderByName, LenIsNat

\* A path that is not empty is a name put behind its folder.
LEMMA SplitPath ==
    ASSUME NEW p, IsSeq(p), p # <<>>
    PROVE  p = JoinPath(ParentPath(p), BaseName(p))
<1>. DEFINE up == ParentPath(p)
            q == JoinPath(up, BaseName(p))
<1>1. IsSeq(up) /\ Len(up) = Len(p) - 1 /\ Len(p) \in Nat \ {0}
      /\ \A k \in 1 .. Len(p) - 1 : up[k] = p[k]
  BY ButLastFacts DEF ParentPath, ButLast
<1>. HIDE DEF up
<1>2. IsSeq(q) /\ Len(q) = Len(up) + 1 /\ (\A k \in 1 .. Len(up) : q[k] = up[k])
      /\ q[Len(up) + 1] = BaseName(p)
  BY <1>1, AppendFacts DEF JoinPath
<1>. HIDE DEF q
<1>3. Len(q) = Len(p) /\ \A k \in 1 .. Len(p) : p[k] = q[k]
  BY ONLY <1>1, <1>2 DEF BaseName
<1>. QED BY <1>2, <1>3, SamePath DEF q, up

\* readdir() returns what is in the folder.
LEMMA NamesAreThere ==
    ASSUME Tree, NEW q, NEW name \in NamesIn(q)
    PROVE  JoinPath(q, name) \in DOMAIN fs
<1>1. PICK r \in DOMAIN fs : r # <<>> /\ ParentPath(r) = q /\ BaseName(r) = name
  BY DEF NamesIn
<1>2. IsSeq(r)
  BY DEF Tree
<1>. QED BY <1>1, <1>2, SplitPath

(***************************************************************************)
(* The walk, of a paste or of a deletion.                                  *)
(***************************************************************************)
\* The frame on top is done with.
Popped ==
    /\ IsSeq(planStack') /\ Len(planStack') = Len(planStack) - 1
    /\ \A i \in 1 .. Len(planStack) - 1 : planStack'[i] = planStack[i]

\* The folder on top has been opened.
OpenedTop ==
    /\ ~TopFrame.opened
    /\ IsSeq(planStack') /\ Len(planStack') = Len(planStack)
    /\ \A i \in 1 .. Len(planStack) - 1 : planStack'[i] = planStack[i]
    /\ LET f == planStack'[Len(planStack)]
       IN  /\ f.src = TopFrame.src /\ f.dst = TopFrame.dst
           /\ f.opened /\ f.todo = NamesIn(TopFrame.src)

\* The folder on top has shown a name.
Descended(name) ==
    /\ name \in TopFrame.todo
    /\ IsSeq(planStack') /\ Len(planStack') = Len(planStack) + 1
    /\ \A i \in 1 .. Len(planStack) - 1 : planStack'[i] = planStack[i]
    /\ LET f == planStack'[Len(planStack)]
       IN  /\ f.src = TopFrame.src /\ f.dst = TopFrame.dst
           /\ f.opened = TopFrame.opened /\ f.todo = TopFrame.todo \ {name}
    /\ LET f == planStack'[Len(planStack) + 1]
       IN  f.src = JoinPath(TopFrame.src, name) /\ ~f.opened /\ f.todo = {}

\* The frame on top.
LEMMA OnTop ==
    ASSUME SafeInv, pc \in {"frame", "opendir"}
    PROVE  /\ planStack # <<>> /\ IsSeq(planStack) /\ Len(planStack) \in Nat \ {0}
           /\ TopFrame = planStack[Len(planStack)] /\ Len(planStack) \in 1 .. Len(planStack)
           /\ DOMAIN TopFrame = {"src", "dst", "opened", "todo"}
           /\ BelowRoot(TopFrame.src) /\ IsSeq(TopFrame.src)
<1>1. planStack # <<>> /\ Frames(planStack, TRUE)
  BY DEF SafeInv, PlaceInv, MemoryInv
<1>2. IsSeq(planStack) /\ Len(planStack) \in Nat \ {0} /\ Len(planStack) \in 1 .. Len(planStack)
  BY <1>1, LenIsNat DEF Frames
<1>. QED BY <1>1, <1>2 DEF Frames, FrameOK, TopFrame, Top, BelowRoot

\* The three ways the walk moves on, when no call breaks.
LEMMA WalkMoves ==
    ASSUME SafeInv, WayInv, [Next]_vars, \A call : ~Fault(call), pc' \in PlanPlaces
    PROVE  \/ Start /\ pc = "idle" /\ planStack' = RootFrames
           \/ planStack' = planStack /\ pc \in PlanPlaces /\ ~PlanOpenDirectory
           \/ (PlanLeaveDirectory \/ PlanFile \/ PlanDeleteLeaf) /\ pc = "frame" /\ Popped
           \/ PlanOpenDirectory /\ pc \in {"frame", "opendir"} /\ pc' = "planTop" /\ OpenedTop
           \/ PlanDescend /\ pc = "frame" /\ pc' = "planTop" /\ \E name : Descended(name)
<1>. DEFINE n == Len(planStack)
<1>1. CASE Start
  BY <1>1 DEF Start
<1>2. CASE PlanLeaveDirectory \/ PlanFile \/ PlanDeleteLeaf
  <2>1. pc = "frame" /\ (planStack' = ButLast(planStack) \/ pc' = "undoTemp")
    BY <1>2 DEF PlanLeaveDirectory, PlanFile, PlanDeleteLeaf, Walking, Pop, Fail, Undo
  <2>2. planStack' = ButLast(planStack)
    BY <2>1 DEF PlanPlaces
  <2>. QED BY <1>2, <2>1, <2>2, OnTop, ButLastFacts DEF Popped
<1>3. CASE PlanOpenDirectory
  <2>. DEFINE f == OpenFrame(TopFrame, NamesIn(TopFrame.src))
  <2>1. pc \in {"frame", "opendir"}
    BY <1>3 DEF PlanOpenDirectory, Walking
  <2>2. planStack' = SetTop(planStack, f) /\ pc' = "planTop"
    BY <1>3 DEF PlanOpenDirectory, Works, Breaks, Fail, Undo, PlanPlaces
  <2>3. f.src = TopFrame.src /\ f.dst = TopFrame.dst /\ f.opened /\ f.todo = NamesIn(TopFrame.src)
    BY <2>1, OnTop DEF OpenFrame
  <2>4. ~TopFrame.opened
    BY <1>3, <2>1 DEF PlanOpenDirectory, Walking, WayInv, PlanPlaces
  <2>. HIDE DEF f
  <2>. QED BY <1>3, <2>1, <2>2, <2>3, <2>4, OnTop, SetTopFacts DEF OpenedTop
<1>4. CASE PlanDescend
  <2>. DEFINE child(frame, name) == IF op.kind = "Delete" THEN SourceChild(frame, name)
                                                          ELSE PasteChild(frame, name)
  <2>1. pc = "frame" /\ pc' = "planTop"
    BY <1>4 DEF PlanDescend
  <2>2. PICK name \in TopFrame.todo :
            planStack' = Push(SetTop(planStack, [TopFrame EXCEPT !.todo = @ \ {name}]),
                              child(TopFrame, name))
    BY <1>4 DEF PlanDescend, NextChild, TopFrame
  <2>. DEFINE f == [TopFrame EXCEPT !.todo = @ \ {name}]
              low == SetTop(planStack, f)
              g == child(TopFrame, name)
  <2>3. f.src = TopFrame.src /\ f.dst = TopFrame.dst /\ f.opened = TopFrame.opened
        /\ f.todo = TopFrame.todo \ {name}
    BY <2>1, OnTop
  <2>4. g.src = JoinPath(TopFrame.src, name) /\ ~g.opened /\ g.todo = {}
    BY DEF SourceChild, PasteChild, Frame
  <2>. HIDE DEF f, g
  <2>5. IsSeq(low) /\ Len(low) = n /\ (\A i \in 1 .. n : low[i] = IF i = n THEN f ELSE planStack[i])
        /\ n \in Nat \ {0}
    BY <2>1, OnTop, SetTopFacts
  <2>. HIDE DEF low
  <2>6. planStack' = Append(low, g)
    BY <2>2 DEF Push, low, f, g
  <2>7. IsSeq(planStack') /\ Len(planStack') = n + 1
        /\ (\A i \in 1 .. n : planStack'[i] = low[i]) /\ planStack'[n + 1] = g
    BY <2>5, <2>6, AppendFacts
  <2>. HIDE DEF n
  <2>8. (\A i \in 1 .. n - 1 : planStack'[i] = planStack[i]) /\ planStack'[n] = f
    BY <2>5, <2>7
  <2>9. Descended(name)
    BY <2>2, <2>3, <2>4, <2>7, <2>8 DEF Descended, n
  <2>. QED BY <1>4, <2>1, <2>9
<1>5. pc' \in Before => pc \in Before
  BY BeforeSteps DEF SafeInv
<1>6. CASE planStack' = planStack /\ ~Start /\ ~PlanOpenDirectory
  <2>1. pc = "idle" \/ pc = "none" => FALSE
    BY <1>6 DEF PlanPlaces, Next, vars, WorkerStep, PlanStep, JobStep, UndoStep, RemoveStep, Cancel, Gone,
     PlanTop, PlanRefused, PlanMakeDirectory, PlanOpenDirectory, PlanDescend, Walking,
     PlanLeaveDirectory, PlanFile, PlanDeleteLeaf, Planned, JobTop, JobOpenSource,
     JobOpenTarget, JobNoResources, JobTransfer, JobTransferred, JobDiscard, JobFinalize,
     JobRename, JobRecord, DeleteTop, DeleteItem, UndoTemp, UndoFile, UndoDirectory, UndoEnd,
     RemoveMissing, RemoveOpen, RemoveDescend, RemoveItem, Removing, RemoveNextRoot, End
  <2>. QED BY <1>5, <1>6, <2>1 DEF Before, PlanPlaces
<1>. QED BY <1>1, <1>2, <1>3, <1>4, <1>6, PlanStackChanges

\* What is not ahead of a frame is not ahead of it when a name has been taken.
LEMMA CoversLess ==
    ASSUME NEW f, NEW g, g.src = f.src, g.opened = f.opened, g.todo \subseteq f.todo, NEW p, Covers(g, p)
    PROVE  Covers(f, p)
BY DEF Covers, Walks

\* The frames of the roots, and those of the items a folder has.
LEMMA RootsAtFirst ==
    ASSUME op \in Operations
    PROVE  /\ IsSeq(RootFrames) /\ Len(RootFrames) = Len(op.roots) /\ Len(op.roots) \in Nat \ {0}
           /\ \A i \in 1 .. Len(op.roots) :
                 /\ Len(op.roots) + 1 - i \in 1 .. Len(op.roots)
                 /\ RootFrames[i].src = op.roots[Len(op.roots) + 1 - i]
                 /\ ~RootFrames[i].opened /\ RootFrames[i].todo = {}
<1>. DEFINE n == Len(op.roots)
            R == {RootFrames[i] : i \in 1 .. n}
<1>1. n \in Nat \ {0}
  BY RootsArePaths
<1>2. RootFrames \in Seq(R) /\ Len(RootFrames) = n
  BY <1>1 DEF RootFrames
<1>3. ASSUME NEW i \in 1 .. n
      PROVE  /\ n + 1 - i \in 1 .. n
             /\ RootFrames[i].src = op.roots[n + 1 - i]
             /\ ~RootFrames[i].opened /\ RootFrames[i].todo = {}
  BY <1>1 DEF RootFrames, Frame
<1>. QED BY <1>1, <1>2, <1>3 DEF IsSeq

\* What the listing of a folder finds while nothing has been removed.
LEMMA ListingFinds ==
    ASSUME SafeInv, Pasting => OwnInv, Tree, op.kind = "Delete" => fs = Disk0, pc \in Before,
           NEW q, BelowRoot(q), NEW name \in NamesIn(q)
    PROVE  JoinPath(q, name) \in DOMAIN Disk0
<1>1. JoinPath(q, name) \in DOMAIN fs /\ op \in Operations
  BY NamesAreThere DEF SafeInv, PlaceInv
<1>2. CASE Pasting
  <2>1. BelowRoot(JoinPath(q, name))
    BY <1>1, UnderChild, RootsArePaths DEF BelowRoot
  <2>. QED BY <1>1, <1>2, <2>1 DEF OwnInv
<1>3. CASE ~Pasting
  BY <1>1, <1>3, RootsArePaths DEF Pasting, Pastes, Kinds
<1>. QED BY <1>2, <1>3

\* The folder that is opened was there.
LEMMA OpensAFolder ==
    ASSUME SafeInv, PasteInv, op.kind = "Delete" => fs = Disk0, WayInv,
           PlanOpenDirectory, pc \in {"frame", "opendir"}, \A call : ~Fault(call), pc' = "planTop"
    PROVE  Disk0[TopFrame.src] = Dir
<1>1. IsDir(TopFrame.src)
  BY DEF PlanOpenDirectory, Works, Breaks, Fail, Undo
<1>2. TopFrame.src \in DOMAIN Disk0
  BY OnTop DEF WayInv, PlanPlaces, WayFrame
<1>3. CASE Pasting
  BY <1>1, <1>2, <1>3 DEF PasteInv, PlanningInv, PlanInv, Before, PlanPlaces, Intact, IsDir
<1>4. CASE ~Pasting
  BY <1>1, <1>4, RootsArePaths DEF Pasting, Pastes, Kinds, IsDir, SafeInv, PlaceInv
<1>. QED BY <1>3, <1>4

\* Every step of the walk goes down a way that was there, and comes to nothing twice.
LEMMA WaySteps ==
    ASSUME SafeInv, PasteInv, Pasting => OwnInv, Tree, Clear, op.kind = "Delete" => ListInv, WayInv, [Next]_vars,
           \A call : ~Fault(call)
    PROVE  WayInv'
<1>. DEFINE n == Len(planStack)
            Fine == \A i \in 1 .. n : WayFrame(planStack[i])
            Apart == \A j \in 1 .. n : \A i \in 1 .. (j - 1) : Past(planStack[i], planStack[j].src)
<1>. SUFFICES ASSUME pc' \in PlanPlaces
              PROVE  Fine' /\ Apart' /\ (pc' = "opendir" => ~TopFrame'.opened)
  BY DEF WayInv
<1>1. op \in Operations /\ op' = op /\ PlaceInv
  BY SameOperation DEF SafeInv, PlaceInv
<1>2. pc \in PlanPlaces => Fine /\ Apart /\ (pc = "opendir" => ~TopFrame.opened)
  BY DEF WayInv
<1>3. op.kind = "Delete" /\ pc \in Before => fs = Disk0
  BY DEF ListInv
<1>4. \A p \in DOMAIN Disk0 : IsSeq(p)
  BY DiskAssumption DEF IsSeq
<1>5. pc' = "opendir" => ~TopFrame'.opened
  <2>1. CASE PlanMakeDirectory
    BY <2>1 DEF PlanMakeDirectory, TopFrame
  <2>2. CASE pc = "opendir" /\ ~PlanMakeDirectory
    <3>1. pc' = "opendir" => planStack' = planStack
      BY <2>2, PlanStackChanges DEF Start, PlanOpenDirectory, PlanDescend, PlanLeaveDirectory, PlanFile,
         PlanDeleteLeaf, Walking, Fail, Undo
    <3>. QED BY <1>2, <2>2, <3>1 DEF PlanPlaces, TopFrame
  <2>. QED BY <1>1, <2>1, <2>2, BeforeSteps
<1>6. CASE Start /\ planStack' = RootFrames
  <2>. DEFINE m == Len(op.roots)
  <2>1. /\ Len(planStack') = m /\ m \in Nat
        /\ \A i \in 1 .. m : /\ m + 1 - i \in 1 .. m /\ planStack'[i].src = op.roots[m + 1 - i]
                             /\ ~planStack'[i].opened /\ planStack'[i].todo = {}
    BY <1>1, <1>6, RootsAtFirst
  <2>2. \A i \in 1 .. m : op.roots[i] \in DOMAIN Disk0
    BY <1>1, ClearFacts
  <2>3. Fine'
    BY <2>1, <2>2 DEF WayFrame
  <2>4. ASSUME NEW j \in 1 .. m, NEW i \in 1 .. (j - 1), NEW p \in DOMAIN Disk0,
               IsUnder(p, op.roots[m + 1 - j]), Covers(planStack'[i], p)
        PROVE  FALSE
    <3>0. /\ m \in Nat /\ i \in 1 .. m /\ m + 1 - i \in 1 .. m /\ m + 1 - j \in 1 .. m
          /\ m + 1 - i # m + 1 - j
      <4>. HIDE DEF m
      <4>. QED BY ONLY <2>1, j \in 1 .. m, i \in 1 .. (j - 1)
    <3>1. /\ i \in 1 .. m /\ m + 1 - i \in 1 .. m /\ m + 1 - j \in 1 .. m /\ m + 1 - i # m + 1 - j
          /\ IsSeq(op.roots[m + 1 - i]) /\ IsSeq(op.roots[m + 1 - j]) /\ IsSeq(p)
      BY <1>1, <1>4, <3>0, RootsArePaths
    <3>2. IsUnder(p, op.roots[m + 1 - i])
      BY <2>1, <2>4, <3>1, UnderSelf DEF Covers, Walks
    <3>. QED BY <1>1, <2>4, <3>1, <3>2, Nested, RootsAssumption
  <2>. QED BY <1>5, <2>1, <2>3, <2>4 DEF Past
<1>7. CASE planStack' = planStack /\ pc \in PlanPlaces
  BY <1>2, <1>5, <1>7
<1>8. CASE Popped /\ pc = "frame"
  <2>1. n \in Nat \ {0} /\ Fine /\ Apart
    BY <1>2, <1>8, OnTop DEF PlanPlaces
  <2>2. \A i \in 1 .. Len(planStack') : i \in 1 .. n /\ planStack'[i] = planStack[i]
    BY <1>8, <2>1 DEF Popped
  <2>3. \A j \in 1 .. Len(planStack') : \A i \in 1 .. (j - 1) : i \in 1 .. Len(planStack')
    BY <1>8, <2>1 DEF Popped
  <2>. QED BY <1>5, <2>1, <2>2, <2>3
<1>9. CASE PlanOpenDirectory /\ pc \in {"frame", "opendir"} /\ pc' = "planTop" /\ OpenedTop
  <2>1. n \in Nat \ {0} /\ Fine /\ Apart /\ TopFrame = planStack[n] /\ n \in 1 .. n /\ BelowRoot(TopFrame.src)
    BY <1>2, <1>9, OnTop DEF PlanPlaces
  <2>2. Disk0[TopFrame.src] = Dir
    BY <1>3, <1>9, OpensAFolder DEF Before, PlanPlaces
  <2>3. \A name \in NamesIn(TopFrame.src) : JoinPath(TopFrame.src, name) \in DOMAIN Disk0
    BY <1>3, <1>9, <2>1, ListingFinds DEF Before, PlanPlaces
  <2>4. WayFrame(planStack'[n])
    BY <1>9, <2>1, <2>2, <2>3 DEF OpenedTop, WayFrame
  <2>5. \A i \in 1 .. n : i = n \/ planStack'[i] = planStack[i]
    BY <1>9, <2>1 DEF OpenedTop
  <2>6. \A i \in 1 .. n : planStack'[i].src = planStack[i].src
    BY <1>9, <2>1, <2>5 DEF OpenedTop
  <2>7. \A j \in 1 .. n : \A i \in 1 .. (j - 1) : planStack'[i] = planStack[i] /\ i \in 1 .. n
    BY <2>1, <2>5
  <2>8. Len(planStack') = n
    BY <1>9 DEF OpenedTop
  <2>9. Fine'
    BY <2>1, <2>4, <2>5, <2>8
  <2>10. Apart'
    BY <2>1, <2>6, <2>7, <2>8
  <2>. QED BY <1>5, <2>9, <2>10
<1>10. CASE pc = "frame" /\ \E name : Descended(name)
  <2>1. n \in Nat \ {0} /\ Fine /\ Apart /\ TopFrame = planStack[n] /\ n \in 1 .. n /\ IsSeq(TopFrame.src)
    BY <1>2, <1>10, OnTop DEF PlanPlaces
  <2>2. PICK name : Descended(name)
    BY <1>10
  <2>. DEFINE child == JoinPath(TopFrame.src, name)
  <2>3. /\ Len(planStack') = n + 1 /\ name \in TopFrame.todo
        /\ \A i \in 1 .. n - 1 : planStack'[i] = planStack[i]
        /\ planStack'[n].src = TopFrame.src /\ planStack'[n].opened = TopFrame.opened
        /\ planStack'[n].todo = TopFrame.todo \ {name}
        /\ planStack'[n + 1].src = child /\ ~planStack'[n + 1].opened /\ planStack'[n + 1].todo = {}
    BY <2>2 DEF Descended
  <2>4. WayFrame(TopFrame) /\ child \in DOMAIN Disk0 /\ IsSeq(child)
    BY <1>4, <2>1, <2>3 DEF WayFrame
  <2>5. WayFrame(planStack'[n]) /\ WayFrame(planStack'[n + 1])
    BY <2>3, <2>4 DEF WayFrame
  <2>. HIDE DEF child
  <2>6. Fine'
    BY <2>1, <2>3, <2>5
  <2>7. \A i \in 1 .. n - 1 : Past(planStack[i], TopFrame.src)
    BY <2>1
  <2>8. \A i \in 1 .. n - 1 : Past(planStack[i], child)
    <3>1. \A p \in DOMAIN Disk0 : IsUnder(p, child) => IsUnder(p, TopFrame.src)
      BY <1>4, <2>1, BelowChild DEF child
    <3>. QED BY <2>7, <3>1 DEF Past
  <2>9. Past(planStack'[n], child)
    <3>1. ASSUME NEW p \in DOMAIN Disk0, IsUnder(p, child), Covers(planStack'[n], p) PROVE FALSE
      <4>1. IsSeq(p) /\ p # TopFrame.src /\ \A other : IsUnder(p, JoinPath(TopFrame.src, other)) => other = name
        BY <1>4, <2>1, <3>1, BelowChild DEF child
      <4>2. TopFrame.opened
        BY <2>3, <2>4 DEF WayFrame
      <4>. QED BY <2>3, <3>1, <4>1, <4>2 DEF Covers, Walks
    <3>. QED BY <3>1 DEF Past
  <2>10. ASSUME NEW j \in 1 .. n + 1, NEW i \in 1 .. (j - 1) PROVE Past(planStack'[i], planStack'[j].src)
    <3>1. CASE j = n + 1 /\ i = n
      BY <2>3, <2>9, <3>1
    <3>2. CASE j = n + 1 /\ i # n
      <4>1. i \in 1 .. n - 1
        BY <2>1, <3>2
      <4>. QED BY <2>3, <2>8, <3>2, <4>1
    <3>3. CASE j # n + 1
      <4>1. i \in 1 .. n - 1 /\ j \in 1 .. n
        BY <2>1, <3>3
      <4>2. planStack'[j].src = planStack[j].src
        BY <2>1, <2>3, <4>1
      <4>. QED BY <2>1, <2>3, <4>1, <4>2
    <3>. QED BY <3>1, <3>2, <3>3
  <2>. QED BY <1>5, <2>3, <2>6, <2>10
<1>. QED BY <1>6, <1>7, <1>8, <1>9, <1>10, WalkMoves

\* The walk has the same ahead when it opens a folder or goes down into it.
LEMMA AheadStays ==
    ASSUME SafeInv, WayInv, WayInv', pc \in {"frame", "opendir"}, pc' \in PlanPlaces,
           OpenedTop \/ (\E name : Descended(name)),
           \A q : OpenedTop /\ JoinPath(TopFrame.src, q) \in DOMAIN Disk0 => q \in NamesIn(TopFrame.src),
           NEW p \in DOMAIN Disk0
    PROVE  Ahead(p)' <=> Ahead(p)
<1>. DEFINE n == Len(planStack)
            src == TopFrame.src
<1>1. n \in Nat \ {0} /\ TopFrame = planStack[n] /\ n \in 1 .. n /\ IsSeq(src) /\ IsSeq(p)
  BY OnTop, DiskAssumption DEF IsSeq
<1>2. WayFrame(TopFrame)
  BY <1>1 DEF WayInv, PlanPlaces
<1>. HIDE DEF n, src
<1>3. CASE OpenedTop
  <2>. DEFINE g == planStack'[n]
  <2>1. /\ Len(planStack') = n /\ (\A i \in 1 .. n - 1 : planStack'[i] = planStack[i])
        /\ g.src = src /\ g.opened /\ g.todo = NamesIn(src) /\ ~TopFrame.opened /\ TopFrame.src = src
    BY <1>3 DEF OpenedTop, n, src
  <2>. HIDE DEF g
  <2>2. Covers(g, p) <=> Covers(TopFrame, p)
    <3>1. ASSUME Covers(g, p) PROVE Covers(TopFrame, p)
      <4>1. CASE p = src
        BY <2>1, <4>1 DEF Covers
      <4>2. CASE p # src
        <5>1. PICK name : IsUnder(p, JoinPath(src, name))
          BY <2>1, <3>1, <4>2 DEF Covers, Walks
        <5>2. IsUnder(p, src)
          BY <1>1, <5>1, BelowChild
        <5>. QED BY <2>1, <5>2 DEF Covers, Walks
      <4>. QED BY <4>1, <4>2
    <3>2. ASSUME Covers(TopFrame, p) PROVE Covers(g, p)
      <4>1. CASE p = src
        BY <2>1, <4>1 DEF Covers
      <4>2. CASE p # src
        <5>1. IsUnder(p, src)
          BY <2>1, <3>2, <4>2 DEF Covers, Walks
        <5>2. PICK name : IsUnder(p, JoinPath(src, name)) /\ JoinPath(src, name) \in DOMAIN Disk0
          BY <1>1, <4>2, <5>1, WayDown
        <5>3. name \in NamesIn(src)
          BY <1>3, <5>2 DEF src
        <5>. QED BY <2>1, <5>1, <5>2, <5>3 DEF Covers, Walks
      <4>. QED BY <4>1, <4>2
    <3>. QED BY <3>1, <3>2
  <2>3. \A i \in 1 .. n : Covers(planStack'[i], p) <=> Covers(planStack[i], p)
    <3>1. ASSUME NEW i \in 1 .. n PROVE i = n \/ planStack'[i] = planStack[i]
      BY <1>1, <2>1
    <3>. QED BY <1>1, <2>2, <3>1 DEF g
  <2>. QED BY <2>1, <2>3 DEF Ahead, n
<1>4. CASE \E name : Descended(name)
  <2>1. PICK name : Descended(name)
    BY <1>4
  <2>. DEFINE g == planStack'[n]
              c == planStack'[n + 1]
  <2>2. /\ Len(planStack') = n + 1 /\ (\A i \in 1 .. n - 1 : planStack'[i] = planStack[i])
        /\ name \in TopFrame.todo /\ TopFrame.src = src
        /\ g.src = src /\ g.opened = TopFrame.opened /\ g.todo = TopFrame.todo \ {name}
        /\ c.src = JoinPath(src, name) /\ ~c.opened /\ c.todo = {}
    BY <2>1 DEF Descended, n, src
  <2>. HIDE DEF g, c
  <2>3. TopFrame.opened
    BY <1>2, <2>2 DEF WayFrame
  <2>4. Covers(g, p) \/ Covers(c, p) <=> Covers(TopFrame, p)
    <3>1. Covers(g, p) => Covers(TopFrame, p)
      BY <2>2, <2>3 DEF Covers, Walks
    <3>2. ASSUME Covers(c, p) PROVE Covers(TopFrame, p)
      <4>1. IsUnder(p, JoinPath(src, name))
        BY <1>1, <2>2, <3>2, JoinFacts, UnderSelf DEF Covers, Walks
      <4>2. IsUnder(p, src)
        BY <1>1, <4>1, BelowChild
      <4>. QED BY <2>2, <4>1, <4>2 DEF Covers, Walks
    <3>3. Covers(TopFrame, p) => Covers(g, p) \/ Covers(c, p)
      BY <2>2, <2>3 DEF Covers, Walks
    <3>. QED BY <3>1, <3>2, <3>3
  <2>5. ASSUME Ahead(p) PROVE Ahead(p)'
    <3>1. PICK i \in 1 .. n : Covers(planStack[i], p)
      BY <2>5 DEF Ahead, n
    <3>2. CASE i = n
      <4>1. n \in 1 .. Len(planStack') /\ n + 1 \in 1 .. Len(planStack')
        BY <1>1, <2>2
      <4>2. Covers(planStack'[n], p) \/ Covers(planStack'[n + 1], p)
        BY <1>1, <2>4, <3>1, <3>2 DEF g, c
      <4>. QED BY <4>1, <4>2 DEF Ahead
    <3>3. CASE i # n
      <4>1. i \in 1 .. Len(planStack') /\ planStack'[i] = planStack[i]
        BY <1>1, <2>2, <3>3
      <4>. QED BY <3>1, <4>1 DEF Ahead
    <3>. QED BY <3>2, <3>3
  <2>6. ASSUME Ahead(p)' PROVE Ahead(p)
    <3>1. PICK i \in 1 .. n + 1 : Covers(planStack'[i], p)
      BY <2>2, <2>6 DEF Ahead
    <3>2. CASE i = n \/ i = n + 1
      <4>1. Covers(planStack[n], p)
        BY <1>1, <2>4, <3>1, <3>2 DEF g, c
      <4>. QED BY <1>1, <4>1 DEF Ahead, n
    <3>3. CASE ~(i = n \/ i = n + 1)
      <4>1. i \in 1 .. n /\ planStack'[i] = planStack[i]
        BY <1>1, <2>2, <3>3
      <4>. QED BY <3>1, <4>1 DEF Ahead, n
    <3>. QED BY <3>2, <3>3
  <2>. QED BY <2>5, <2>6
<1>. QED BY <1>3, <1>4

(***************************************************************************)
(* A deletion.                                                             *)
(***************************************************************************)
\* What a deletion does to the disk while it lists and removes.
LEMMA DeletingSteps ==
    ASSUME SafeInv, DeletionInv, op.kind = "Delete", [Next]_vars, \A call : ~Fault(call)
    PROVE  /\ pc' \in Before => pc \in Before /\ fs' = fs
           /\ Deleting' => Start \/ Deleting
           /\ Deleting' => \/ UNCHANGED <<fs, deleteIndex>>
                           \/ /\ DeleteItem /\ pc = "delete" /\ UNCHANGED <<deletePaths, planStack>>
                              /\ fs' = Drop(deletePaths[deleteIndex])
                              /\ deleteIndex' = deleteIndex + 1 /\ pc' = "deleteTop"
           /\ ~PlanFile /\ ~PlanMakeDirectory
<1>. USE DEF Deleting, PlanPlaces, Before, InJob
<1>1. /\ pc \notin {"jobTop", "remove"} \cup InJob
      /\ pc \in {"undoTemp", "undo"} => after.state = "Failed" \/ (after.state = "Canceled" /\ after.pc = "done")
      /\ pc \in {"undoTemp", "undo"} => after.pc \in {"planned", "end", "done"}
  BY DEF DeletionInv, SafeInv, PlaceInv, Returning
<1>2. ~JobStep /\ ~RemoveStep /\ ~PlanMakeDirectory /\ ~PlanFile
  BY <1>1, op.kind = "Delete" DEF JobStep, JobTop, JobOpenSource, JobOpenTarget, JobNoResources,
     JobTransfer, JobTransferred, JobDiscard, JobFinalize, JobRename, JobRecord, RemoveStep,
     RemoveMissing, RemoveOpen, RemoveDescend, RemoveItem, RemoveNextRoot, Removing,
     PlanMakeDirectory, PlanFile, Walking, Pastes
<1>3. CASE Start \/ Cancel \/ Gone \/ UNCHANGED vars
  BY <1>2, <1>3 DEF Start, Cancel, Gone, vars
<1>4. CASE PlanTop
  BY <1>2, <1>4, op.kind = "Delete" DEF PlanTop, CompleteOperation, Fail, Undo
<1>5. CASE PlanRefused \/ PlanOpenDirectory \/ PlanDescend \/ PlanLeaveDirectory \/ PlanDeleteLeaf
  BY <1>2, <1>5 DEF PlanRefused, PlanOpenDirectory, PlanDescend, PlanLeaveDirectory,
     PlanDeleteLeaf, Walking, Fail, Undo
<1>6. CASE Planned
  BY <1>2, <1>6, op.kind = "Delete" DEF Planned, Undo
<1>7. CASE DeleteTop
  BY <1>2, <1>7 DEF DeleteTop
<1>8. CASE DeleteItem
  BY <1>2, <1>8 DEF DeleteItem, Fail, Undo, Works
<1>9. CASE UndoStep
  BY <1>1, <1>2, <1>9 DEF UndoStep, UndoTemp, UndoFile, UndoDirectory, UndoEnd
<1>10. CASE End
  BY <1>2, <1>10 DEF End
<1>. QED BY <1>2, <1>3, <1>4, <1>5, <1>6, <1>7, <1>8, <1>9, <1>10 DEF Next, WorkerStep, PlanStep

\* What has been listed is on the list.
LEMMA OnTheList ==
    ASSUME NEW p, IsSeq(deletePaths)
    PROVE  /\ Len(deletePaths) \in Nat
           /\ PlannedToDelete(p) <=> ListedBefore(p, Len(deletePaths) + 1)
BY LenIsNat DEF PlannedToDelete, ListedBefore

\* The item on top of the walk has not been listed, but all that was below it has.
LEMMA ListsInOrder ==
    ASSUME SafeInv, WayInv, ListInv, op.kind = "Delete", PlanLeaveDirectory \/ PlanDeleteLeaf, Popped
    PROVE  /\ TopFrame.src \in Sources /\ ~PlannedToDelete(TopFrame.src)
           /\ \A p \in DOMAIN Disk0 : IsUnder(p, TopFrame.src) /\ p # TopFrame.src => PlannedToDelete(p)
           /\ \A p \in Sources : Ahead(p)' <=> Ahead(p) /\ p # TopFrame.src
<1>. DEFINE n == Len(planStack)
            src == TopFrame.src
<1>1. pc = "frame" /\ op \in Operations
  BY DEF PlanLeaveDirectory, PlanDeleteLeaf, Walking, SafeInv, PlaceInv
<1>2. /\ n \in Nat \ {0} /\ TopFrame = planStack[n] /\ n \in 1 .. n /\ BelowRoot(src) /\ IsSeq(src)
  BY <1>1, OnTop
<1>3. /\ src \in DOMAIN Disk0 /\ fs = Disk0
      /\ \A p \in Sources : Ahead(p) <=> ~PlannedToDelete(p)
      /\ \A i \in 1 .. n - 1 : Past(planStack[i], src)
  BY <1>1, <1>2 DEF WayInv, ListInv, PlanPlaces, Before, WayFrame
<1>4. src \in Sources
  BY <1>1, <1>2, <1>3, SourceFacts
<1>5. Ahead(src)
  BY <1>2 DEF Ahead, Covers
<1>6. ASSUME NEW p \in DOMAIN Disk0, IsUnder(p, src), p # src PROVE ~Covers(TopFrame, p)
  <2>1. Disk0[src] = Dir
    BY <1>2, <1>6, WayDown
  <2>2. PlanLeaveDirectory
    BY <1>3, <2>1 DEF PlanDeleteLeaf, CanUnlink, IsDir, Exists
  <2>3. TopFrame.opened /\ TopFrame.todo = {}
    BY <2>2 DEF PlanLeaveDirectory, Walked
  <2>. QED BY <1>6, <2>3 DEF Covers, Walks
<1>7. ASSUME NEW p \in DOMAIN Disk0, IsUnder(p, src), p # src PROVE p \in Sources /\ ~Ahead(p)
  <2>1. IsSeq(p) /\ \A i \in 1 .. Len(op.roots) : IsSeq(op.roots[i])
    BY <1>1, DiskAssumption, RootsArePaths DEF IsSeq
  <2>2. BelowRoot(p)
    BY <1>2, <1>7, <2>1, UnderUnder DEF BelowRoot
  <2>3. ASSUME NEW i \in 1 .. n PROVE ~Covers(planStack[i], p)
    <3>1. i = n \/ i \in 1 .. n - 1
      BY <1>2
    <3>. QED BY <1>2, <1>3, <1>6, <1>7, <3>1 DEF Past
  <2>. QED BY <1>1, <2>2, <2>3, SourceFacts DEF Ahead
<1>8. ASSUME NEW p \in Sources PROVE Ahead(p)' <=> Ahead(p) /\ p # src
  <2>1. p \in DOMAIN Disk0
    BY DEF Sources
  <2>2. Len(planStack') = n - 1 /\ \A i \in 1 .. n - 1 : planStack'[i] = planStack[i]
    BY DEF Popped
  <2>3. Ahead(p)' <=> \E i \in 1 .. n - 1 : Covers(planStack[i], p)
    BY <2>2 DEF Ahead
  <2>4. Ahead(p) <=> Covers(TopFrame, p) \/ \E i \in 1 .. n - 1 : Covers(planStack[i], p)
    BY <1>2 DEF Ahead
  <2>5. CASE p = src
    <3>1. IsUnder(p, src)
      BY <1>2, <2>5, UnderSelf
    <3>. QED BY <1>3, <2>1, <2>3, <2>5, <3>1 DEF Past
  <2>6. CASE p # src
    <3>1. Covers(TopFrame, p) => IsUnder(p, src)
      BY <2>6 DEF Covers, Walks
    <3>. QED BY <1>6, <2>1, <2>3, <2>4, <2>6, <3>1
  <2>. QED BY <2>5, <2>6
<1>. QED BY <1>3, <1>4, <1>5, <1>7, <1>8

\* The list stays in order, and what is not done of it is still there.
LEMMA ListSteps ==
    ASSUME SafeInv, PasteInv, GoneInv, Clear, WayInv, WayInv', ListInv, op.kind = "Delete",
           [Next]_vars, \A call : ~Fault(call)
    PROVE  ListInv'
<1>. DEFINE paths == deletePaths
            Ordered == \A j \in 1 .. Len(paths) :
                          /\ paths[j] \in DOMAIN Disk0
                          /\ ~ListedBefore(paths[j], j)
                          /\ \A p \in DOMAIN Disk0 : IsUnder(p, paths[j]) /\ p # paths[j] =>
                                ListedBefore(p, j)
            There == \A p \in DOMAIN Disk0 : Intact(p) \/ ListedBefore(p, deleteIndex)
            Known == DOMAIN fs \subseteq DOMAIN Disk0
            Sorted == \A p \in Sources : Ahead(p) <=> ~PlannedToDelete(p)
<1>1. op \in Operations /\ op' = op /\ PlaceInv /\ IsSeq(paths) /\ DeletionInv /\ Sources' = Sources /\ Tree
      /\ deleteIndex \in Nat
  BY SameOperation, SameTargets DEF SafeInv, PlaceInv, MemoryInv, AllExpendable, GoneInv, TreeInv
<1>2. /\ pc' \in Before => pc \in Before /\ fs' = fs
      /\ Deleting' => Start \/ Deleting
      /\ Deleting' => \/ UNCHANGED <<fs, deleteIndex>>
                      \/ /\ DeleteItem /\ pc = "delete" /\ UNCHANGED <<paths, planStack>>
                         /\ fs' = Drop(paths[deleteIndex])
                         /\ deleteIndex' = deleteIndex + 1 /\ pc' = "deleteTop"
      /\ ~PlanFile /\ ~PlanMakeDirectory
  BY <1>1, DeletingSteps
<1>3. /\ pc \in Before => fs = Disk0
      /\ pc = "idle" => paths = <<>>
      /\ Deleting => Known /\ Ordered /\ There
      /\ pc \in PlanPlaces => Sorted
  BY DEF ListInv
<1>4. pc' = "idle" => paths' = <<>>
  BY <1>1, <1>3, BeforeSteps, DeletePathsChange DEF PlanLeaveDirectory, PlanDeleteLeaf, Walking
<1>5. \A p \in DOMAIN Disk0 : IsSeq(p)
  BY DiskAssumption DEF IsSeq
<1>6. ASSUME Start PROVE Deleting' => Known' /\ Ordered' /\ There' /\ Sorted'
  <2>1. paths' = <<>> /\ fs' = fs /\ fs = Disk0 /\ planStack' = RootFrames
    BY <1>3, <1>6 DEF Start, Before
  <2>2. Known' /\ There'
    BY <2>1 DEF Intact, Exists
  <2>3. Len(paths') = 0 /\ Ordered' /\ \A p : ~PlannedToDelete(p)'
    BY <2>1 DEF PlannedToDelete
  <2>4. ASSUME NEW p \in Sources PROVE Ahead(p)'
    <3>. DEFINE m == Len(op.roots)
    <3>1. PICK k \in 1 .. m : IsUnder(p, op.roots[k])
      BY DEF Sources, Roots
    <3>2. /\ m + 1 - k \in 1 .. m /\ m + 1 - (m + 1 - k) = k /\ Len(planStack') = m
          /\ planStack'[m + 1 - k].src = op.roots[m + 1 - (m + 1 - k)] /\ ~planStack'[m + 1 - k].opened
      <4>1. \A i \in 1 .. m : m + 1 - i \in 1 .. m /\ planStack'[i].src = op.roots[m + 1 - i] /\ ~planStack'[i].opened
        BY <1>1, <2>1, RootsAtFirst
      <4>2. Len(planStack') = m /\ m \in Nat
        BY <1>1, <2>1, RootsAtFirst
      <4>. HIDE DEF m
      <4>3. m + 1 - k \in 1 .. m /\ m + 1 - (m + 1 - k) = k
        BY <4>2
      <4>. QED BY <4>1, <4>2, <4>3
    <3>. QED BY <3>1, <3>2 DEF Ahead, Covers, Walks
  <2>. QED BY <1>1, <2>2, <2>3, <2>4
<1>7. ASSUME Deleting, Deleting', PlanLeaveDirectory \/ PlanDeleteLeaf
      PROVE  Known' /\ Ordered' /\ There' /\ (pc' \in PlanPlaces => Sorted')
  <2>. DEFINE n == Len(paths)
              src == TopFrame.src
  <2>1. pc = "frame" /\ pc' = "planTop" /\ fs' = fs /\ deleteIndex' = deleteIndex
        /\ paths' = Append(paths, src) /\ planStack' = ButLast(planStack)
    BY <1>7, op.kind = "Delete" DEF PlanLeaveDirectory, PlanDeleteLeaf, Walking, AfterContents, Pop
  <2>2. Popped
    BY <2>1, OnTop, ButLastFacts DEF Popped
  <2>3. /\ src \in Sources /\ ~PlannedToDelete(src)
        /\ \A p \in DOMAIN Disk0 : IsUnder(p, src) /\ p # src => PlannedToDelete(p)
        /\ \A p \in Sources : Ahead(p)' <=> Ahead(p) /\ p # src
    BY <1>7, <2>2, ListsInOrder
  <2>4. n \in Nat /\ Len(paths') = n + 1 /\ paths'[n + 1] = src
        /\ \A i \in 1 .. n : paths'[i] = paths[i]
    BY <1>1, <2>1, LenIsNat, AppendFacts
  <2>5. src \in DOMAIN Disk0
    BY <2>3 DEF Sources
  <2>. HIDE DEF n, src
  <2>6. \A p : \A j \in 1 .. n + 1 : ListedBefore(p, j)' <=> ListedBefore(p, j)
    <3>1. ASSUME NEW p, NEW j \in 1 .. n + 1 PROVE ListedBefore(p, j)' <=> ListedBefore(p, j)
      <4>1. \A i \in 1 .. (j - 1) : paths'[i] = paths[i]
        BY <2>4
      <4>. QED BY <4>1 DEF ListedBefore
    <3>. QED BY <3>1
  <2>7. \A p : PlannedToDelete(p) <=> ListedBefore(p, n + 1)
    BY <1>1, OnTheList DEF n
  <2>8. \A p : PlannedToDelete(p)' <=> PlannedToDelete(p) \/ p = src
    BY <2>4 DEF PlannedToDelete, n
  <2>9. Ordered'
    <3>1. ASSUME NEW j \in 1 .. n + 1
          PROVE  LET q == IF j = n + 1 THEN src ELSE paths[j]
                 IN  /\ paths'[j] = q /\ q \in DOMAIN Disk0
                     /\ ~ListedBefore(q, j)
                     /\ \A p \in DOMAIN Disk0 : IsUnder(p, q) /\ p # q => ListedBefore(p, j)
      <4>1. CASE j = n + 1
        BY <2>3, <2>4, <2>5, <2>7, <4>1
      <4>2. CASE j # n + 1
        <5>1. j \in 1 .. n
          BY <2>4, <4>2
        <5>2. /\ paths[j] \in DOMAIN Disk0
              /\ ~ListedBefore(paths[j], j)
              /\ \A p \in DOMAIN Disk0 : IsUnder(p, paths[j]) /\ p # paths[j] => ListedBefore(p, j)
          BY <1>3, <1>7, <5>1 DEF n
        <5>. QED BY <2>4, <4>2, <5>1, <5>2
      <4>. QED BY <4>1, <4>2
    <3>. DEFINE Fits(q, j) == /\ q \in DOMAIN Disk0
                              /\ ~(\E i \in 1 .. (j - 1) : paths'[i] = q)
                             /\ \A p \in DOMAIN Disk0 : IsUnder(p, q) /\ p # q =>
                                   \E i \in 1 .. (j - 1) : paths'[i] = p
    <3>2. ASSUME NEW j \in 1 .. n + 1 PROVE Fits(paths'[j], j)
      <4>1. \A p : ListedBefore(p, j) <=> \E i \in 1 .. (j - 1) : paths'[i] = p
        BY <2>6 DEF ListedBefore
      <4>. QED BY <3>1, <4>1
    <3>3. \A j \in 1 .. Len(paths') : Fits(paths'[j], j)
      BY <2>4, <3>2
    <3>. QED BY <3>3 DEF ListedBefore
  <2>10. There'
    <3>1. \A p \in DOMAIN Disk0 : Intact(p)
      BY <1>3, <2>1 DEF Before, PlanPlaces, Intact, Exists
    <3>. QED BY <2>1, <3>1 DEF Intact, Exists
  <2>11. Sorted'
    BY <1>1, <1>3, <2>1, <2>3, <2>8 DEF PlanPlaces
  <2>. QED BY <1>3, <1>7, <2>1, <2>9, <2>10, <2>11
<1>8. ASSUME Deleting, Deleting', ~Start, ~PlanLeaveDirectory, ~PlanDeleteLeaf
      PROVE  Known' /\ Ordered' /\ There' /\ (pc' \in PlanPlaces => Sorted')
  <2>1. paths' = paths /\ \A p, j : ListedBefore(p, j)' <=> ListedBefore(p, j)
    BY <1>8, DeletePathsChange DEF ListedBefore
  <2>2. Ordered'
    BY <1>3, <1>8, <2>1
  <2>3. Known' /\ There'
    <3>1. CASE UNCHANGED <<fs, deleteIndex>>
      BY <1>3, <1>8, <2>1, <3>1 DEF Intact, Exists
    <3>2. CASE /\ fs' = Drop(paths[deleteIndex]) /\ deleteIndex' = deleteIndex + 1
      <4>1. Known'
        BY <1>3, <1>8, <3>2 DEF Drop
      <4>2. ASSUME NEW p \in DOMAIN Disk0 PROVE Intact(p)' \/ ListedBefore(p, deleteIndex + 1)
        <5>1. ListedBefore(p, deleteIndex) => ListedBefore(p, deleteIndex + 1)
          BY <1>1 DEF ListedBefore
        <5>2. p = paths[deleteIndex] /\ deleteIndex # 0 => ListedBefore(p, deleteIndex + 1)
          BY <1>1 DEF ListedBefore
        <5>3. p # paths[deleteIndex] /\ Intact(p) => Intact(p)'
          BY <3>2 DEF Drop, Intact, Exists
        <5>4. deleteIndex # 0
          BY <1>1 DEF PlaceInv
        <5>. QED BY <1>3, <1>8, <5>1, <5>2, <5>3, <5>4
      <4>. QED BY <2>1, <3>2, <4>1, <4>2 DEF ListedBefore
    <3>. QED BY <1>2, <1>8, <3>1, <3>2
  <2>4. ASSUME pc' \in PlanPlaces PROVE Sorted'
    <3>1. \A p : PlannedToDelete(p)' <=> PlannedToDelete(p)
      BY <2>1 DEF PlannedToDelete
    <3>2. CASE planStack' = planStack /\ pc \in PlanPlaces
      BY <1>1, <1>3, <3>1, <3>2 DEF Ahead
    <3>3. CASE pc \in {"frame", "opendir"} /\ (OpenedTop \/ \E name : Descended(name))
      <4>1. fs = Disk0 /\ IsSeq(TopFrame.src)
        BY <1>3, <3>3, OnTop DEF Before, PlanPlaces
      <4>2. \A q : JoinPath(TopFrame.src, q) \in DOMAIN Disk0 => q \in NamesIn(TopFrame.src)
        BY <4>1, NameFound
      <4>3. \A p \in DOMAIN Disk0 : Ahead(p)' <=> Ahead(p)
        BY <2>4, <3>3, <4>2, AheadStays
      <4>. QED BY <1>1, <1>3, <3>1, <3>3, <4>3 DEF PlanPlaces, Sources
    <3>. QED BY <1>2, <1>8, <2>4, <3>2, <3>3, WalkMoves
  <2>. QED BY <2>2, <2>3, <2>4
<1>9. pc' \in PlanPlaces => Deleting'
  BY DEF Deleting
<1>10. Deleting' => Known' /\ Ordered' /\ There' /\ (pc' \in PlanPlaces => Sorted')
  BY <1>2, <1>6, <1>7, <1>8
<1>11. pc' \in Before => fs' = Disk0
  BY <1>2, <1>3
<1>12. pc' # "opendir"
  BY <1>1, <1>2, BeforeSteps DEF ListInv
<1>. HIDE DEF Ordered, There, Known, Sorted
<1>13. /\ pc' \in Before => fs' = Disk0
       /\ pc' = "idle" => paths' = <<>>
       /\ pc' # "opendir"
       /\ Deleting' => Known' /\ Ordered' /\ There'
       /\ pc' \in PlanPlaces => Sorted'
  BY ONLY <1>4, <1>9, <1>10, <1>11, <1>12
<1>. QED BY ONLY <1>13 DEF ListInv, Ordered, There, Known, Sorted, paths

(***************************************************************************)
(* A paste.                                                                *)
(***************************************************************************)
\* There is a folder after the step.
DirThen(p) == p \in DOMAIN fs' /\ fs'[p] = Dir

\* A folder stays while a paste goes on.
LEMMA FoldersStay ==
    ASSUME SafeInv, Pasting, PlanningInv, TempInv, OwnInv, TreeInv, [Next]_vars, Active, NEW p, IsDir(p)
    PROVE  DirThen(p)
<1>. USE DEF DirThen, Active, PlanPlaces, Copying, InJob
<1>1. CASE fs' = fs
  BY <1>1 DEF IsDir, Exists
<1>2. CASE PlanMakeDirectory /\ fs' # fs
  <2>1. ~Exists(TopFrame.dst) /\ fs' = Put(TopFrame.dst, Dir)
    BY <1>2, MakesDirectory
  <2>. QED BY <2>1 DEF IsDir, Exists, Put
<1>3. CASE JobOpenTarget /\ fs' # fs
  <2>1. ~Exists(Temp) /\ fs' = Put(Temp, Partial)
    BY <1>3 DEF JobOpenTarget, Works, CanCreate
  <2>. QED BY <2>1 DEF IsDir, Exists, Put
<1>4. CASE JobTransfer /\ fs' # fs
  <2>1. ~IsDir(Temp) /\ fs' = Put(Temp, fs[Job.src])
    BY <1>4 DEF JobTransfer, TreeInv
  <2>. QED BY <2>1 DEF IsDir, Exists, Put
<1>5. CASE JobRename /\ fs' # fs
  <2>1. ~IsDir(Job.dst) /\ fs' = Renamed(Temp, Job.dst)
    BY <1>5 DEF JobRename, Works, CanRename
  <2>2. ~IsDir(Temp)
    BY <1>5, JobHasSource DEF JobRename, TempInv, IsDir
  <2>. QED BY <2>1, <2>2 DEF IsDir, Exists, Renamed
<1>6. ~UndoTemp /\ ~UndoFile /\ ~UndoDirectory /\ ~RemoveItem /\ ~JobDiscard /\ ~DeleteItem
  BY DEF UndoTemp, UndoFile, UndoDirectory, RemoveItem, Removing, JobDiscard, DeleteItem
<1>. QED BY <1>1, <1>2, <1>3, <1>4, <1>5, <1>6, DiskChanges

\* The folder of a frame is there, and stays as the walk goes on.
LEMMA RoomWhileWalking ==
    ASSUME SafeInv, Pasting, PlanningInv, TempInv, OwnInv, TreeInv, WayInv, RoomInv, Clear,
           [Next]_vars, \A call : ~Fault(call), pc' \in PlanPlaces
    PROVE  \A i \in 1 .. Len(planStack') : /\ DirThen(ParentPath(planStack'[i].dst))
                                           /\ planStack'[i].opened => DirThen(planStack'[i].dst)
<1>. DEFINE n == Len(planStack)
<1>1. op \in Operations /\ op' = op /\ WalkInv /\ PlanInv
  BY SameOperation DEF SafeInv, PlaceInv, PlanningInv
<1>2. ASSUME pc \in PlanPlaces
      PROVE  \A p : IsDir(p) => DirThen(p)
  BY <1>2, FoldersStay DEF Active
<1>3. pc \in PlanPlaces => \A i \in 1 .. n : RoomFor(planStack[i])
  BY DEF RoomInv
<1>4. CASE Start /\ pc = "idle" /\ planStack' = RootFrames
  <2>1. IsDir(op.dest) /\ fs' = fs
    <3>1. op.dest \in DOMAIN Disk0 /\ Disk0[op.dest] = Dir
      BY <1>1, ClearFacts
    <3>2. Intact(op.dest)
      BY <1>1, <1>4, <3>1 DEF PlanInv, Before
    <3>. QED BY <1>4, <3>1, <3>2 DEF Start, Intact, IsDir
  <2>2. ASSUME NEW i \in 1 .. Len(planStack')
        PROVE  ~planStack'[i].opened /\ ParentPath(planStack'[i].dst) = op.dest
    <3>1. /\ Len(planStack') = Len(op.roots) /\ planStack'[i].src = op.roots[Len(op.roots) + 1 - i]
          /\ planStack'[i].dst = Image(planStack'[i].src) /\ ~planStack'[i].opened
          /\ Len(op.roots) + 1 - i \in 1 .. Len(op.roots)
      BY <1>1, <1>4, <2>2, RootImages, RootsAtFirst
    <3>2. planStack'[i].dst = TargetOf(op.roots[Len(op.roots) + 1 - i])
      BY <1>1, <3>1, ImageOfRoot
    <3>. QED BY <1>1, <3>1, <3>2, PasteFacts, JoinFacts DEF TargetOf
  <2>. QED BY <2>1, <2>2 DEF IsDir, Exists, DirThen
<1>5. CASE planStack' = planStack /\ pc \in PlanPlaces
  BY <1>2, <1>3, <1>5 DEF RoomFor
<1>6. CASE pc = "frame" /\ Popped
  <2>1. \A i \in 1 .. Len(planStack') : i \in 1 .. n /\ planStack'[i] = planStack[i]
    BY <1>6, OnTop DEF Popped
  <2>. QED BY <1>2, <1>3, <1>6, <2>1 DEF RoomFor, PlanPlaces
<1>7. CASE PlanOpenDirectory /\ pc \in {"frame", "opendir"} /\ OpenedTop
  <2>1. n \in Nat \ {0} /\ TopFrame = planStack[n] /\ n \in 1 .. n
    BY <1>7, OnTop
  <2>2. pc = "opendir"
    BY <1>7 DEF PlanOpenDirectory, Walking, Pasting, Pastes
  <2>3. IsDir(TopFrame.dst) /\ RoomFor(TopFrame)
    BY <1>1, <1>3, <2>1, <2>2 DEF PlanInv, IsDir, PlanPlaces
  <2>4. /\ Len(planStack') = n /\ planStack'[n].dst = TopFrame.dst
        /\ \A i \in 1 .. n : i = n \/ planStack'[i] = planStack[i]
    BY <1>7, <2>1 DEF OpenedTop
  <2>. QED BY <1>2, <1>3, <2>2, <2>3, <2>4 DEF RoomFor, PlanPlaces
<1>8. CASE pc = "frame" /\ PlanDescend
  <2>1. n \in Nat \ {0} /\ TopFrame = planStack[n] /\ n \in 1 .. n /\ BelowRoot(TopFrame.src)
        /\ TopFrame.dst = Image(TopFrame.src) /\ IsSeq(TopFrame.src) /\ WayFrame(TopFrame)
    BY <1>1, <1>8, OnTop, TopFrameFacts DEF WayInv, PlanPlaces
  <2>2. PICK name \in TopFrame.todo :
              /\ Len(planStack') = n + 1
              /\ \A i \in 1 .. n - 1 : planStack'[i] = planStack[i]
              /\ planStack'[n].dst = TopFrame.dst /\ planStack'[n].opened = TopFrame.opened
              /\ planStack'[n + 1].src = JoinPath(TopFrame.src, name)
              /\ planStack'[n + 1].dst = Image(planStack'[n + 1].src) /\ ~planStack'[n + 1].opened
    BY <1>1, <1>8, Descends
  <2>3. planStack'[n + 1].dst = JoinPath(TopFrame.dst, name)
    BY <1>1, <2>1, <2>2, ImageOfChild
  <2>4. IsSeq(TopFrame.dst)
    BY <1>1, <2>1, ImageFacts DEF BelowRoot
  <2>5. ParentPath(planStack'[n + 1].dst) = TopFrame.dst
    BY <2>3, <2>4, JoinFacts
  <2>6. TopFrame.opened
    BY <2>1 DEF WayFrame
  <2>7. RoomFor(TopFrame) /\ IsDir(TopFrame.dst)
    BY <1>3, <1>8, <2>1, <2>6 DEF RoomFor, PlanPlaces
  <2>8. \A i \in 1 .. n + 1 : i = n + 1 \/ i = n \/ (i \in 1 .. n /\ i \in 1 .. n - 1)
    BY <2>1
  <2>. QED BY <1>2, <1>3, <1>8, <2>2, <2>5, <2>7, <2>8 DEF RoomFor, PlanPlaces
<1>. QED BY <1>4, <1>5, <1>6, <1>7, <1>8, WalkMoves

\* The folder of a job is there, and stays.
LEMMA RoomForJobs ==
    ASSUME SafeInv, PasteInv, Pasting, OwnInv, TreeInv, RoomInv, [Next]_vars, Active'
    PROVE  \A k \in 1 .. Len(jobs') : DirThen(ParentPath(jobs'[k].dst))
<1>1. op \in Operations /\ PlanningInv /\ TempInv /\ LossInv /\ PlaceInv /\ PlanInv
  BY DEF SafeInv, PlaceInv, PasteInv, PlanningInv
<1>2. CASE Start
  <2>1. jobs' = <<>>
    BY <1>1, <1>2 DEF Start, PlanInv
  <2>. QED BY <2>1
<1>3. CASE RemoveStep /\ pc = "remove" /\ pc' = "planned"
  <2>1. after.pc = "planned" /\ jobs' = jobs
    BY <1>3 DEF RemoveStep, RemoveMissing, RemoveOpen, RemoveDescend, RemoveItem, RemoveNextRoot
  <2>2. jobs = <<>>
    BY <1>1, <1>3, <2>1 DEF LossInv, Safe, PlaceInv
  <2>. QED BY <2>1, <2>2
<1>4. CASE Active
  <2>1. \A p : IsDir(p) => DirThen(p)
    BY <1>1, <1>4, FoldersStay
  <2>2. \A k \in 1 .. Len(jobs) : IsDir(ParentPath(jobs[k].dst))
    BY <1>4 DEF RoomInv
  <2>3. CASE jobs' = jobs
    BY <2>1, <2>2, <2>3
  <2>4. CASE PlanFile /\ jobs' # jobs
    <3>1. /\ Len(jobs) \in Nat /\ Len(jobs') = Len(jobs) + 1 /\ pc = "frame"
          /\ \A i \in 1 .. Len(jobs) : jobs'[i] = jobs[i]
          /\ jobs'[Len(jobs) + 1].dst = TopFrame.dst
      BY <1>1, <2>4, AddsJob
    <3>2. IsDir(ParentPath(TopFrame.dst))
      BY <3>1, OnTop DEF RoomInv, RoomFor, PlanPlaces
    <3>3. \A k \in 1 .. Len(jobs') : k \in 1 .. Len(jobs) \/ k = Len(jobs) + 1
      BY <3>1
    <3>. QED BY <2>1, <2>2, <3>1, <3>2, <3>3
  <2>. QED BY <2>3, <2>4, JobsChange
<1>. QED BY <1>1, <1>2, <1>3, <1>4, ActiveSteps

\* A folder that is created is the copy of one.
LEMMA FoldersAreCopies ==
    ASSUME SafeInv, PlanningInv, Pasting, RoomInv, [Next]_vars
    PROVE  \A k \in 1 .. Len(createdDirectories') :
              \E q \in Sources : Disk0[q] = Dir /\ createdDirectories'[k] = Image(q)
<1>. DEFINE dirs == createdDirectories
<1>1. op \in Operations /\ WalkInv /\ IsSeq(dirs)
  BY DEF SafeInv, PlaceInv, PlanningInv, MemoryInv, AllExpendable
<1>2. Len(dirs) \in Nat /\ \A k \in 1 .. Len(dirs) : \E q \in Sources : Disk0[q] = Dir /\ dirs[k] = Image(q)
  BY <1>1, LenIsNat DEF RoomInv
<1>3. CASE dirs' = dirs
  BY <1>2, <1>3
<1>4. CASE PlanMakeDirectory /\ dirs' # dirs
  <2>1. dirs' = Append(dirs, TopFrame.dst) /\ pc' = "opendir"
    BY <1>4 DEF PlanMakeDirectory
  <2>2. TopFrame.src \in DOMAIN Disk0 /\ Disk0[TopFrame.src] = Dir /\ pc = "frame"
    BY <1>4, <2>1, MakesDirectory
  <2>3. TopFrame.src \in Sources /\ TopFrame.dst = Image(TopFrame.src)
    BY <1>1, <2>2, SourceFacts, TopFrameFacts
  <2>4. /\ Len(dirs') = Len(dirs) + 1 /\ dirs'[Len(dirs) + 1] = TopFrame.dst
        /\ \A i \in 1 .. Len(dirs) : dirs'[i] = dirs[i]
    BY <1>1, <2>1, AppendFacts
  <2>5. \A k \in 1 .. Len(dirs') : k \in 1 .. Len(dirs) \/ k = Len(dirs) + 1
    BY <1>2, <2>4
  <2>. QED BY <1>2, <2>2, <2>3, <2>4, <2>5
<1>5. CASE UndoDirectory
  <2>1. Len(dirs') = Len(dirs) - 1 /\ \A i \in 1 .. Len(dirs) - 1 : dirs'[i] = dirs[i]
    BY <1>1, <1>5, ButLastFacts DEF UndoDirectory
  <2>2. \A i \in 1 .. Len(dirs') : i \in 1 .. Len(dirs) /\ dirs'[i] = dirs[i]
    BY <1>2, <2>1
  <2>. QED BY <1>2, <2>2
<1>. QED BY <1>3, <1>4, <1>5, CreatedDirectoriesChange

\* The name of the temporary file is free when it is needed.
LEMMA TempIsFree ==
    ASSUME SafeInv, PasteInv, TraceInv, Pasting, RoomInv, Clear, pc = "jobPrepare"
    PROVE  ~Exists(Temp)
<1>1. op \in Operations /\ PlanningInv /\ OwnInv /\ NotedInv
  BY DEF SafeInv, PlaceInv, PasteInv, TraceInv
<1>2. /\ Temp \notin DOMAIN Disk0 /\ Temp = TempPath(Image(Job.src)) /\ Job.src \in Sources
      /\ Disk0[Job.src] # Dir
  BY <1>1, JobFacts, JobHasSource DEF InJob, Temp
<1>3. \A q \in Sources : Temp # Image(q)
  BY <1>1, <1>2, ClearFacts
<1>4. ~Broke({"unlink", "rmdir"})
  <2>1. Len(faults) = 0
    BY DEF Clear
  <2>. QED BY <2>1 DEF Broke
<1>5. \A i \in 1 .. Len(createdDirectories) : createdDirectories[i] # Temp
  BY <1>3 DEF RoomInv
<1>6. \A i \in 1 .. Len(createdFiles) : createdFiles[i] # Temp
  BY <1>1, <1>3, SourceFacts DEF PlanningInv, MadeInv, JobsInv, OwnInv
<1>7. ~Noted(Temp)
  BY <1>5, <1>6 DEF Noted, TempPlaces
<1>. QED BY <1>1, <1>2, <1>4, <1>7 DEF NotedInv, Exists

\* A folder gets its copy when the walk goes into it.
LEMMA CopiesInTime ==
    ASSUME SafeInv, Pasting, PlanningInv, WayInv, RoomInv, Clear, [Next]_vars,
           \A call : ~Fault(call), pc' \in PlanPlaces,
           NEW q \in Sources, HasFolder(q)', NEW i \in 1 .. Len(planStack'), Covers(planStack'[i], q)
    PROVE  /\ q = planStack'[i].src
           /\ planStack'[i].opened \/ (pc' = "opendir" /\ i = Len(planStack'))
<1>. DEFINE n == Len(planStack)
            dirs == createdDirectories
<1>1. op \in Operations /\ op' = op /\ WalkInv /\ PlanInv /\ IsSeq(dirs) /\ Image(q)' = Image(q)
      /\ q \in DOMAIN Disk0 /\ BelowRoot(q) /\ IsSeq(q) /\ Len(dirs) \in Nat
  <2>1. op \in Operations /\ op' = op /\ WalkInv /\ PlanInv /\ IsSeq(dirs)
    BY SameOperation DEF SafeInv, PlaceInv, PlanningInv, MemoryInv, AllExpendable
  <2>2. Image(q)' = Image(q) /\ q \in DOMAIN Disk0 /\ BelowRoot(q)
    BY <2>1, SameTargets, SourceFacts
  <2>. QED BY <2>1, <2>2, LenIsNat DEF BelowRoot
<1>2. \E k \in 1 .. Len(dirs') : dirs'[k] = Image(q)
  BY <1>1 DEF HasFolder
<1>3. ASSUME pc \in PlanPlaces, HasFolder(q), NEW j \in 1 .. n, Covers(planStack[j], q)
      PROVE  q = planStack[j].src /\ (planStack[j].opened \/ (pc = "opendir" /\ j = n))
  BY <1>3 DEF RoomInv, FolderInTime
<1>4. CASE Start /\ pc = "idle"
  <2>1. dirs' = <<>>
    BY <1>4 DEF Start, RoomInv
  <2>. QED BY <1>2, <2>1
<1>5. CASE PlanMakeDirectory
  <2>1. pc = "frame" /\ pc' = "opendir" /\ planStack' = planStack
    <3>1. pc' = "opendir"
      BY <1>5 DEF PlanMakeDirectory, Fail, Undo, PlanPlaces
    <3>. QED BY <1>5, <3>1, MakesDirectory
  <2>2. dirs' = Append(dirs, TopFrame.dst)
    BY <1>5, <2>1 DEF PlanMakeDirectory, Fail, Undo
  <2>3. /\ Len(dirs') = Len(dirs) + 1 /\ dirs'[Len(dirs) + 1] = TopFrame.dst
        /\ \A k \in 1 .. Len(dirs) : dirs'[k] = dirs[k]
    BY <1>1, <2>2, AppendFacts
  <2>4. /\ n \in Nat \ {0} /\ TopFrame = planStack[n] /\ n \in 1 .. n /\ IsSeq(TopFrame.src)
        /\ TopFrame.dst = Image(TopFrame.src) /\ BelowRoot(TopFrame.src)
    BY <1>1, <2>1, OnTop, TopFrameFacts
  <2>5. CASE HasFolder(q)
    BY <1>3, <2>1, <2>5 DEF PlanPlaces
  <2>6. CASE ~HasFolder(q)
    <3>1. Image(q) = TopFrame.dst
      <4>1. PICK k \in 1 .. Len(dirs') : dirs'[k] = Image(q)
        BY <1>2
      <4>2. k \notin 1 .. Len(dirs)
        BY <2>3, <2>6, <4>1 DEF HasFolder
      <4>3. k = Len(dirs) + 1
        BY <1>1, <2>3, <4>1, <4>2
      <4>. QED BY <2>3, <4>1, <4>3
    <3>2. q = TopFrame.src
      BY <1>1, <2>4, <3>1, ImagesDiffer
    <3>3. CASE i = n
      BY <2>1, <2>4, <3>2, <3>3
    <3>4. CASE i # n
      <4>1. i \in 1 .. n - 1
        BY <2>1, <2>4, <3>4
      <4>2. Past(planStack[i], TopFrame.src)
        BY <2>1, <2>4, <4>1 DEF WayInv, PlanPlaces
      <4>3. IsUnder(q, TopFrame.src)
        BY <2>4, <3>2, UnderSelf
      <4>. QED BY <1>1, <2>1, <4>2, <4>3 DEF Past
    <3>. QED BY <3>3, <3>4
  <2>. QED BY <2>5, <2>6
<1>6. pc \in PlanPlaces /\ ~PlanMakeDirectory => dirs' = dirs
  BY CreatedDirectoriesChange DEF UndoDirectory, PlanPlaces
<1>7. pc \in PlanPlaces /\ ~PlanMakeDirectory => HasFolder(q)
  BY <1>2, <1>6 DEF HasFolder
<1>8. CASE planStack' = planStack /\ pc \in PlanPlaces /\ ~PlanOpenDirectory /\ ~PlanMakeDirectory
  <2>1. pc = "opendir" => pc' = "opendir"
    BY <1>8, pc' \in PlanPlaces DEF PlanPlaces, Next, vars, WorkerStep, PlanStep, JobStep, UndoStep, RemoveStep, Start,
     Cancel, Gone, PlanTop, PlanRefused, PlanDescend, Walking, PlanLeaveDirectory, PlanFile, PlanDeleteLeaf,
     Planned, JobTop, JobOpenSource, JobOpenTarget, JobNoResources, JobTransfer, JobTransferred, JobDiscard,
     JobFinalize, JobRename, JobRecord, DeleteTop, DeleteItem, UndoTemp, UndoFile, UndoDirectory, UndoEnd,
     RemoveMissing, RemoveOpen, RemoveDescend, RemoveItem, Removing, RemoveNextRoot, End
  <2>. QED BY <1>3, <1>7, <1>8, <2>1
<1>9. CASE pc = "frame" /\ Popped /\ ~PlanMakeDirectory
  <2>1. i \in 1 .. n /\ planStack'[i] = planStack[i]
    BY <1>9, OnTop DEF Popped
  <2>. QED BY <1>3, <1>7, <1>9, <2>1 DEF PlanPlaces
<1>10. CASE PlanOpenDirectory /\ pc \in {"frame", "opendir"} /\ OpenedTop /\ ~PlanMakeDirectory
  <2>1. n \in Nat \ {0} /\ TopFrame = planStack[n] /\ n \in 1 .. n /\ IsSeq(TopFrame.src)
    BY <1>10, OnTop
  <2>2. /\ Len(planStack') = n /\ planStack'[n].src = TopFrame.src /\ planStack'[n].opened /\ ~TopFrame.opened
        /\ \A j \in 1 .. n - 1 : planStack'[j] = planStack[j]
    BY <1>10 DEF OpenedTop
  <2>3. CASE i = n
    <3>1. Covers(TopFrame, q)
      <4>1. CASE q = TopFrame.src
        BY <4>1 DEF Covers
      <4>2. CASE q # TopFrame.src
        <5>1. PICK name : IsUnder(q, JoinPath(TopFrame.src, name))
          BY <2>2, <2>3, <4>2 DEF Covers, Walks
        <5>2. IsUnder(q, TopFrame.src)
          BY <1>1, <2>1, <5>1, BelowChild
        <5>. QED BY <2>2, <5>2 DEF Covers, Walks
      <4>. QED BY <4>1, <4>2
    <3>2. q = TopFrame.src
      BY <1>3, <1>7, <1>10, <2>1, <3>1 DEF PlanPlaces
    <3>. QED BY <2>2, <2>3, <3>2
  <2>4. CASE i # n
    <3>1. i \in 1 .. n /\ planStack'[i] = planStack[i]
      BY <2>1, <2>2, <2>4
    <3>. QED BY <1>3, <1>7, <1>10, <2>4, <3>1 DEF PlanPlaces
  <2>. QED BY <2>3, <2>4
<1>11. CASE pc = "frame" /\ (\E name : Descended(name)) /\ ~PlanMakeDirectory
  <2>1. n \in Nat \ {0} /\ TopFrame = planStack[n] /\ n \in 1 .. n /\ IsSeq(TopFrame.src) /\ WayFrame(TopFrame)
    BY <1>11, OnTop DEF WayInv, PlanPlaces
  <2>2. PICK name : Descended(name)
    BY <1>11
  <2>3. /\ Len(planStack') = n + 1 /\ name \in TopFrame.todo
        /\ \A j \in 1 .. n - 1 : planStack'[j] = planStack[j]
        /\ planStack'[n].src = TopFrame.src /\ planStack'[n].opened = TopFrame.opened
        /\ planStack'[n].todo = TopFrame.todo \ {name}
        /\ planStack'[n + 1].src = JoinPath(TopFrame.src, name) /\ ~planStack'[n + 1].opened
    BY <2>2 DEF Descended
  <2>4. Covers(TopFrame, q) => q = TopFrame.src /\ TopFrame.opened
    BY <1>3, <1>7, <1>11, <2>1 DEF PlanPlaces
  <2>5. CASE i = n + 1
    <3>1. IsUnder(q, JoinPath(TopFrame.src, name))
      BY <2>1, <2>3, <2>5, JoinFacts, UnderSelf DEF Covers, Walks
    <3>2. IsUnder(q, TopFrame.src) /\ q # TopFrame.src
      BY <1>1, <2>1, <3>1, BelowChild
    <3>3. Covers(TopFrame, q)
      BY <2>3, <3>1, <3>2 DEF Covers, Walks
    <3>. QED BY <2>4, <3>2, <3>3
  <2>6. CASE i = n
    <3>1. Covers(TopFrame, q)
      BY <2>3, <2>6, CoversLess
    <3>. QED BY <2>3, <2>4, <2>6, <3>1
  <2>7. CASE i # n /\ i # n + 1
    <3>1. i \in 1 .. n /\ i # n /\ planStack'[i] = planStack[i]
      BY <2>1, <2>3, <2>7
    <3>. QED BY <1>3, <1>7, <1>11, <3>1 DEF PlanPlaces
  <2>. QED BY <2>5, <2>6, <2>7
<1>. QED BY <1>4, <1>5, <1>8, <1>9, <1>10, <1>11, WalkMoves

\* A paste has its folders in time, and no other folders than it needs.
LEMMA RoomSteps ==
    ASSUME SafeInv, PasteInv, TraceInv, GoneInv, Pasting, WayInv, RoomInv, Clear, [Next]_vars,
           \A call : ~Fault(call)
    PROVE  RoomInv'
<1>1. op \in Operations /\ op' = op /\ PlanningInv /\ TempInv /\ OwnInv /\ TreeInv /\ PlaceInv
      /\ Sources' = Sources /\ \A p : Image(p)' = Image(p)
  BY SameOperation, SameTargets DEF SafeInv, PlaceInv, PasteInv, TraceInv, GoneInv
<1>2. \A p : IsDir(p)' <=> DirThen(p)
  BY DEF IsDir, Exists, DirThen
<1>3. ASSUME pc' \in PlanPlaces PROVE \A i \in 1 .. Len(planStack') : RoomFor(planStack[i])'
  <2>1. \A i \in 1 .. Len(planStack') : /\ DirThen(ParentPath(planStack'[i].dst))
                                        /\ planStack'[i].opened => DirThen(planStack'[i].dst)
    BY <1>1, <1>3, RoomWhileWalking
  <2>. QED BY <2>1 DEF RoomFor, IsDir, Exists, DirThen
<1>4. ASSUME Active' PROVE \A k \in 1 .. Len(jobs') : IsDir(ParentPath(jobs[k].dst))'
  <2>1. \A k \in 1 .. Len(jobs') : DirThen(ParentPath(jobs'[k].dst))
    BY <1>1, <1>4, RoomForJobs
  <2>. QED BY <2>1 DEF IsDir, Exists, DirThen
<1>5. \A k \in 1 .. Len(createdDirectories') :
         \E q \in Sources : Disk0[q] = Dir /\ createdDirectories'[k] = Image(q)
  BY <1>1, FoldersAreCopies
<1>6. pc' = "idle" => createdDirectories' = <<>>
  BY <1>1, BeforeSteps, CreatedDirectoriesChange DEF RoomInv, PlanMakeDirectory, UndoDirectory, Walking
<1>7. pc' \in PlanPlaces => FolderInTime'
  BY <1>1, CopiesInTime DEF FolderInTime, Covers, Walks
<1>8. pc' = "jobOpenTarget" => ~Exists(Temp)'
  <2>1. CASE JobOpenSource
    <3>1. ~Exists(Temp) /\ fs' = fs /\ Temp' = Temp
      BY <2>1, TempIsFree DEF JobOpenSource, Temp, Job
    <3>. QED BY <3>1 DEF Exists
  <2>2. CASE pc' = "jobOpenTarget" /\ ~JobOpenSource
    <3>1. pc = "jobOpenTarget" /\ fs' = fs /\ jobs' = jobs /\ jobIndex' = jobIndex
      <4>1. pc = "jobOpenTarget"
        BY <2>2, <1>1 DEF PlaceInv, Returning, Next, vars, WorkerStep, PlanStep, JobStep, UndoStep, RemoveStep, Start,
     Cancel, Gone, PlanTop, PlanRefused, PlanMakeDirectory, PlanOpenDirectory, PlanDescend, Walking,
     PlanLeaveDirectory, PlanFile, PlanDeleteLeaf, CompleteOperation, Fail, Undo,
     Planned, JobTop, JobOpenTarget, JobNoResources, JobTransfer, JobTransferred, JobDiscard,
     JobFinalize, JobRename, JobRecord, DeleteTop, DeleteItem, UndoTemp, UndoFile, UndoDirectory, UndoEnd,
     RemoveMissing, RemoveOpen, RemoveDescend, RemoveItem, Removing, RemoveNextRoot, End
      <4>2. fs' = fs
        BY <2>2, <4>1, DiskChanges DEF UndoTemp, UndoFile, UndoDirectory, RemoveItem, Removing,
           PlanMakeDirectory, Walking, JobOpenTarget, Fail, Undo, JobTransfer, JobDiscard, JobRename, DeleteItem
      <4>3. jobs' = jobs /\ jobIndex' = jobIndex
        BY <4>1, JobsChange, JobIndexChanges DEF PlanFile, Walking, JobRecord
      <4>. QED BY <4>1, <4>2, <4>3
    <3>2. ~Exists(Temp) /\ Temp' = Temp
      BY <3>1 DEF RoomInv, Temp, Job
    <3>. QED BY <3>1, <3>2 DEF Exists
  <2>. QED BY <2>1, <2>2
<1>. HIDE DEF RoomFor
<1>. QED BY <1>1, <1>3, <1>4, <1>5, <1>6, <1>7, <1>8 DEF RoomInv

(***************************************************************************)
(* The removal of the sources of a move.                                   *)
(***************************************************************************)
\* What is in a folder after the step.
NamesThen(p) == {BaseName(q) : q \in {r \in DOMAIN fs' : r # <<>> /\ ParentPath(r) = p}}

\* What is still to be removed, or is being removed, after the step.
EmptyingThen(stack, i) ==
    /\ ~stack[i].opened => stack[i].todo = {} /\ i = Len(stack)
    /\ stack[i].opened =>
          /\ DirThen(stack[i].src)
          /\ \A name \in NamesThen(stack[i].src) :
                \/ name \in stack[i].todo
                \/ i < Len(stack) /\ stack[i + 1].src = JoinPath(stack[i].src, name)
    /\ i < Len(stack) => \E name : stack[i + 1].src = JoinPath(stack[i].src, name)

\* A call that takes one item away takes no other.
LEMMA NamesLeft ==
    ASSUME Tree, NEW q, fs' = Drop(q), NEW p, NEW name \in NamesThen(p)
    PROVE  name \in NamesIn(p) /\ JoinPath(p, name) # q
<1>1. PICK r \in DOMAIN fs' : r # <<>> /\ ParentPath(r) = p /\ BaseName(r) = name
  BY DEF NamesThen
<1>2. r \in DOMAIN fs /\ r # q
  BY <1>1 DEF Drop
<1>3. IsSeq(r) /\ name \in NamesIn(p)
  BY <1>1, <1>2 DEF Tree, NamesIn
<1>. QED BY <1>1, <1>2, <1>3, SplitPath

\* A removal that begins has not opened anything.
LEMMA EmptyingBegins ==
    ASSUME NEW root
    PROVE  \A i \in 1 .. Len(<<Frame(root, NoPath)>>) : EmptyingThen(<<Frame(root, NoPath)>>, i)
<1>. DEFINE s == <<Frame(root, NoPath)>>
<1>1. Len(s) = 1 /\ ~s[1].opened /\ s[1].todo = {}
  BY DEF Frame
<1>. HIDE DEF s
<1>2. \A i \in 1 .. Len(s) : i = 1
  BY <1>1
<1>3. \A i \in 1 .. Len(s) : EmptyingThen(s, i)
  BY <1>1, <1>2 DEF EmptyingThen
<1>. QED BY <1>3 DEF s

\* The item on top has been removed, or is not there.
LEMMA EmptyingPops ==
    ASSUME SafeInv, Tree, Tree', EmptyingInv, Removing, removeStack' = Pop(removeStack),
           \/ fs' = fs /\ ~Exists(Top(removeStack).src)
           \/ /\ fs' = Drop(Top(removeStack).src)
              /\ CanRmdir(Top(removeStack).src) \/ CanUnlink(Top(removeStack).src)
    PROVE  \A i \in 1 .. Len(removeStack') : EmptyingThen(removeStack', i)
<1>. DEFINE n == Len(removeStack)
            q == removeStack[n].src
<1>1. IsSeq(removeStack) /\ removeStack # <<>> /\ pc = "remove"
      /\ \A i \in 1 .. n : IsSeq(removeStack[i].src)
  BY DEF SafeInv, MemoryInv, Frames, FrameOK, BelowRoot, Removing
<1>2. /\ n \in Nat \ {0} /\ Len(removeStack') = n - 1 /\ Top(removeStack).src = q
      /\ \A i \in 1 .. n - 1 : removeStack'[i] = removeStack[i]
  BY <1>1, ButLastFacts DEF Pop, Top
<1>3. \A i \in 1 .. n : Emptying(removeStack, i)
  BY <1>1 DEF EmptyingInv
<1>4. \/ fs' = fs /\ ~Exists(q)
      \/ fs' = Drop(q) /\ (CanRmdir(q) \/ CanUnlink(q))
  BY <1>2
<1>5. \A p : \A name \in NamesThen(p) : name \in NamesIn(p) /\ JoinPath(p, name) # q
  <2>1. CASE fs' = fs /\ ~Exists(q)
    <3>1. \A p : NamesThen(p) = NamesIn(p)
      BY <2>1 DEF NamesThen, NamesIn
    <3>. QED BY <2>1, <3>1, NamesAreThere DEF Exists
  <2>2. CASE fs' = Drop(q)
    BY <2>2, NamesLeft
  <2>. QED BY <1>4, <2>1, <2>2
<1>6. ASSUME NEW i \in 1 .. n - 1
      PROVE  /\ removeStack[i].opened /\ IsDir(removeStack[i].src)
             /\ \E name : removeStack[i + 1].src = JoinPath(removeStack[i].src, name)
  <2>1. i \in 1 .. n /\ i # n /\ i < n
    BY <1>2
  <2>. QED BY <1>3, <2>1 DEF Emptying
<1>7. ASSUME NEW i \in 1 .. n - 1 PROVE removeStack[i].src # q
  <2>. DEFINE p == removeStack[i].src
  <2>1. PICK name : removeStack[i + 1].src = JoinPath(p, name)
    BY <1>6
  <2>2. IsSeq(p) /\ Len(p) \in Nat /\ IsDir(p)
    BY <1>1, <1>2, <1>6, LenIsNat
  <2>3. JoinPath(p, name) # p
    BY <2>2, JoinFacts
  <2>4. CASE i + 1 = n
    BY <2>1, <2>3, <2>4
  <2>5. CASE i + 1 # n
    <3>1. i + 1 \in 1 .. n - 1
      BY <1>2, <2>5
    <3>2. JoinPath(p, name) \in DOMAIN fs
      BY <1>6, <2>1, <3>1 DEF IsDir, Exists
    <3>3. NamesIn(p) # {}
      BY <2>2, <3>2, NameFound
    <3>. QED BY <1>4, <2>2, <3>3 DEF CanRmdir, CanUnlink, IsDir
  <2>. QED BY <2>4, <2>5
<1>8. ASSUME NEW i \in 1 .. n - 1 PROVE DirThen(removeStack[i].src)
  BY <1>4, <1>6, <1>7 DEF DirThen, IsDir, Exists, Drop
<1>9. ASSUME NEW i \in 1 .. n - 1, NEW name \in NamesThen(removeStack[i].src)
      PROVE  \/ name \in removeStack[i].todo
             \/ i < n - 1 /\ removeStack[i + 1].src = JoinPath(removeStack[i].src, name)
  <2>1. name \in NamesIn(removeStack[i].src) /\ JoinPath(removeStack[i].src, name) # q
    BY <1>5
  <2>2. name \in removeStack[i].todo \/ removeStack[i + 1].src = JoinPath(removeStack[i].src, name)
    <3>1. i \in 1 .. n
      BY <1>2
    <3>. QED BY <1>3, <1>6, <2>1, <3>1 DEF Emptying
  <2>. QED BY <1>2, <2>1, <2>2
<1>10. ASSUME NEW i \in 1 .. n - 1 PROVE EmptyingThen(removeStack', i)
  <2>1. i < n - 1 => removeStack'[i + 1] = removeStack[i + 1]
    BY <1>2
  <2>. QED BY <1>2, <1>6, <1>8, <1>9, <2>1 DEF EmptyingThen
<1>. QED BY <1>2, <1>10

\* Every step of the removal goes on from the top down and back.
LEMMA EmptyingSteps ==
    ASSUME SafeInv, GoneInv, GoneInv', EmptyingInv, [Next]_vars, \A call : ~Fault(call)
    PROVE  EmptyingInv'
<1>. DEFINE n == Len(removeStack)
            top == Top(removeStack)
<1>1. /\ op' = op /\ op \in Operations /\ PlaceInv /\ Tree /\ Tree' /\ IsSeq(removeStack)
      /\ \A i \in 1 .. n : DOMAIN removeStack[i] = {"src", "dst", "opened", "todo"}
  BY SameOperation DEF SafeInv, PlaceInv, MemoryInv, Frames, FrameOK, GoneInv, TreeInv
<1>2. n \in Nat /\ (removeStack # <<>> => n \in 1 .. n /\ top = removeStack[n] /\ n # 0)
  BY <1>1, LenIsNat DEF Top
<1>3. pc = "remove" => \A i \in 1 .. n : Emptying(removeStack, i)
  BY DEF EmptyingInv
<1>4. fs' = fs => \A p : (DirThen(p) <=> IsDir(p)) /\ NamesThen(p) = NamesIn(p)
  BY DEF DirThen, IsDir, Exists, NamesThen, NamesIn
<1>5. SUFFICES ASSUME pc' = "remove"
               PROVE  \A i \in 1 .. Len(removeStack') : EmptyingThen(removeStack', i)
  BY DEF EmptyingInv, Emptying, EmptyingThen, DirThen, NamesThen, IsDir, Exists, NamesIn
<1>6. CASE RemoveNextRoot \/ CompleteOperation("planned") \/ CompleteOperation("end")
  <2>1. \E root : removeStack' = <<Frame(root, NoPath)>>
    BY <1>1, <1>5, <1>6 DEF RemoveNextRoot, CompleteOperation, PlaceInv, Returning
  <2>. QED BY <2>1, EmptyingBegins
<1>7. CASE pc = "remove" /\ removeStack' = removeStack /\ fs' = fs
  BY <1>3, <1>4, <1>7 DEF Emptying, EmptyingThen
<1>8. CASE RemoveMissing
  <2>1. Removing /\ removeStack' = Pop(removeStack) /\ fs' = fs /\ ~Exists(top.src)
    BY <1>8 DEF RemoveMissing, Breaks
  <2>. QED BY <1>1, <2>1, EmptyingPops
<1>9. CASE RemoveItem
  <2>1. pc' # after.pc
    BY <1>1, <1>5, <1>9 DEF RemoveItem, Removing, PlaceInv, Returning
  <2>2. Removing /\ removeStack' = Pop(removeStack) /\ fs' = Drop(top.src)
        /\ (CanRmdir(top.src) \/ CanUnlink(top.src))
    BY <1>9, <2>1 DEF RemoveItem, Works
  <2>. QED BY <1>1, <2>2, EmptyingPops
<1>10. CASE RemoveOpen
  <2>. DEFINE f == OpenFrame(top, NamesIn(top.src))
  <2>1. pc = "remove" /\ removeStack # <<>> /\ ~top.opened /\ IsDir(top.src) /\ fs' = fs
        /\ removeStack' = SetTop(removeStack, f)
    BY <1>10 DEF RemoveOpen, Removing
  <2>2. f.src = top.src /\ f.opened /\ f.todo = NamesIn(top.src)
    BY <1>1, <1>2, <2>1 DEF OpenFrame
  <2>. HIDE DEF f
  <2>3. Len(removeStack') = n /\ \A i \in 1 .. n : removeStack'[i] = IF i = n THEN f ELSE removeStack[i]
    BY <1>1, <2>1, SetTopFacts
  <2>4. \A i \in 1 .. n : removeStack'[i].src = removeStack[i].src
    BY <1>2, <2>1, <2>2, <2>3
  <2>5. ASSUME NEW i \in 1 .. n PROVE EmptyingThen(removeStack', i)
    <3>1. CASE i = n
      <4>1. removeStack'[n] = f /\ Len(removeStack') = n
        BY <2>3, <3>1
      <4>. QED BY <1>2, <1>4, <2>1, <2>2, <3>1, <4>1 DEF EmptyingThen
    <3>2. CASE i # n
      <4>1. removeStack'[i] = removeStack[i] /\ i < n /\ i + 1 \in 1 .. n
        BY <1>2, <2>3, <3>2
      <4>2. Emptying(removeStack, i) /\ removeStack'[i + 1].src = removeStack[i + 1].src
        BY <1>3, <2>1, <2>4, <4>1
      <4>. QED BY <1>4, <2>1, <2>3, <4>1, <4>2 DEF Emptying, EmptyingThen
    <3>. QED BY <3>1, <3>2
  <2>. QED BY <2>3, <2>5
<1>11. CASE RemoveDescend
  <2>1. pc = "remove" /\ removeStack # <<>> /\ fs' = fs
    BY <1>11 DEF RemoveDescend, Removing
  <2>2. PICK name \in top.todo :
            removeStack' = Push(SetTop(removeStack, [top EXCEPT !.todo = @ \ {name}]), SourceChild(top, name))
    BY <1>11 DEF RemoveDescend, NextChild
  <2>. DEFINE f == [top EXCEPT !.todo = @ \ {name}]
              low == SetTop(removeStack, f)
              g == SourceChild(top, name)
  <2>3. f.src = top.src /\ f.opened = top.opened /\ f.todo = top.todo \ {name}
    BY <1>1, <1>2, <2>1
  <2>4. g.src = JoinPath(top.src, name) /\ ~g.opened /\ g.todo = {}
    BY DEF SourceChild, Frame
  <2>. HIDE DEF f, g
  <2>5. IsSeq(low) /\ Len(low) = n /\ \A i \in 1 .. n : low[i] = IF i = n THEN f ELSE removeStack[i]
    BY <1>1, <2>1, SetTopFacts
  <2>. HIDE DEF low
  <2>6. removeStack' = Append(low, g)
    BY <2>2 DEF Push, low, f, g
  <2>7. /\ Len(removeStack') = n + 1 /\ removeStack'[n + 1] = g
        /\ \A i \in 1 .. n : removeStack'[i] = IF i = n THEN f ELSE removeStack[i]
    BY <2>5, <2>6, AppendFacts
  <2>8. top.opened
    BY <1>2, <1>3, <2>1, <2>2 DEF Emptying
  <2>9. ASSUME NEW i \in 1 .. n + 1 PROVE EmptyingThen(removeStack', i)
    <3>1. CASE i = n + 1
      <4>1. removeStack'[n + 1] = g /\ Len(removeStack') = n + 1
        BY <2>7
      <4>. QED BY <1>2, <2>4, <3>1, <4>1 DEF EmptyingThen
    <3>2. CASE i = n
      <4>1. removeStack'[n] = f /\ removeStack'[n + 1] = g /\ Len(removeStack') = n + 1 /\ n < n + 1
        BY <1>2, <2>1, <2>7
      <4>2. Emptying(removeStack, n)
        BY <1>2, <1>3, <2>1
      <4>3. IsDir(top.src) /\ \A other \in NamesIn(top.src) : other \in top.todo
        BY <1>2, <2>1, <2>8, <4>2 DEF Emptying
      <4>4. DirThen(f.src) /\ \A other \in NamesThen(f.src) : other \in f.todo \/ other = name
        BY <1>4, <2>1, <2>3, <4>3
      <4>5. f.opened /\ g.src = JoinPath(f.src, name)
        BY <2>3, <2>4, <2>8
      <4>. QED BY ONLY <3>2, <4>1, <4>4, <4>5 DEF EmptyingThen
    <3>3. CASE i # n /\ i # n + 1
      <4>1. i \in 1 .. n /\ i + 1 \in 1 .. n /\ i < n /\ removeStack'[i] = removeStack[i] /\ i < Len(removeStack')
        BY <1>2, <2>7, <3>3
      <4>2. removeStack'[i + 1].src = removeStack[i + 1].src
        BY <1>2, <2>1, <2>3, <2>7, <4>1
      <4>3. Emptying(removeStack, i) /\ i # Len(removeStack)
        BY <1>3, <2>1, <4>1
      <4>. QED BY <1>4, <2>1, <4>1, <4>2, <4>3 DEF Emptying, EmptyingThen
    <3>. QED BY <3>1, <3>2, <3>3
  <2>. QED BY <2>7, <2>9
<1>12. CASE UNCHANGED vars \/ Gone \/ Cancel
  BY <1>5, <1>7, <1>12 DEF vars, removal, Gone, Cancel, Locked
<1>13. ASSUME PlanStep \/ JobStep \/ DeleteTop \/ DeleteItem \/ UndoStep \/ End \/ Start
       PROVE  CompleteOperation("planned") \/ CompleteOperation("end")
  BY <1>1, <1>5, <1>13 DEF PlaceInv, Returning, PlanStep, JobStep, UndoStep, Start, PlanTop, PlanRefused,
     PlanMakeDirectory, PlanOpenDirectory, PlanDescend, Walking, PlanLeaveDirectory, PlanFile, PlanDeleteLeaf,
     Fail, Undo, Planned, JobTop, JobOpenSource, JobOpenTarget, JobNoResources, JobTransfer, JobTransferred,
     JobDiscard, JobFinalize, JobRename, JobRecord, DeleteTop, DeleteItem, UndoTemp, UndoFile, UndoDirectory,
     UndoEnd, End
<1>. QED BY <1>6, <1>8, <1>9, <1>10, <1>11, <1>12, <1>13 DEF Next, WorkerStep, RemoveStep

(***************************************************************************)
(* Nothing fails on a clear way.                                           *)
(***************************************************************************)
\* What is new while a paste goes on is a copy of a folder, a copy of a file that
\* is done with, or the temporary file.
LEMMA NewIsKnown ==
    ASSUME SafeInv, PasteInv, TraceInv, Pasting, RoomInv, Clear, NEW p, Exists(p), p \notin DOMAIN Disk0
    PROVE  \/ \E q \in Sources : Disk0[q] = Dir /\ p = Image(q) /\ HasFolder(q)
           \/ fs[p] # Dir /\ \E k \in 1 .. Len(jobs) : k < jobIndex /\ p = jobs[k].dst
           \/ fs[p] # Dir /\ pc \in TempPlaces \cup {"undoTemp", "jobRecord"}
<1>1. PlanningInv /\ NotedInv
  BY DEF PasteInv, TraceInv
<1>2. ~Broke({"unlink", "rmdir"})
  <2>1. Len(faults) = 0
    BY DEF Clear
  <2>. QED BY <2>1 DEF Broke
<1>3. Noted(p)
  BY <1>1, <1>2 DEF NotedInv, Exists
<1>4. CASE fs[p] = Dir
  <2>1. PICK k \in 1 .. Len(createdDirectories) : createdDirectories[k] = p
    BY <1>3, <1>4 DEF Noted
  <2>2. PICK q \in Sources : Disk0[q] = Dir /\ p = Image(q)
    BY <2>1 DEF RoomInv
  <2>. QED BY <2>1, <2>2 DEF HasFolder
<1>5. CASE fs[p] # Dir
  BY <1>1, <1>3, <1>5 DEF Noted, PlanningInv, MadeInv
<1>. QED BY <1>4, <1>5

\* The item at hand is there while nothing has been removed.
LEMMA ItemIsThere ==
    ASSUME SafeInv, PasteInv, Clear, WayInv, op.kind = "Delete" => ListInv, pc \in {"frame", "opendir"}
    PROVE  /\ TopFrame.src \in Sources /\ Intact(TopFrame.src)
           /\ Pasting => Disk0[TopFrame.src] # Irregular
<1>1. op \in Operations /\ BelowRoot(TopFrame.src) /\ TopFrame.src \in DOMAIN Disk0
  BY OnTop DEF SafeInv, PlaceInv, WayInv, PlanPlaces, WayFrame
<1>2. TopFrame.src \in Sources
  BY <1>1, SourceFacts
<1>3. Pasting => Intact(TopFrame.src)
  BY <1>1 DEF PasteInv, PlanningInv, PlanInv, Before, PlanPlaces
<1>4. ~Pasting => op.kind = "Delete"
  BY <1>1, RootsArePaths DEF Pasting, Pastes, Kinds
<1>5. ~Pasting => Intact(TopFrame.src)
  BY <1>1, <1>4 DEF ListInv, Before, PlanPlaces, Intact, Exists
<1>. QED BY <1>1, <1>2, <1>3, <1>5, ClearFacts

\* lstat() and opendir() find what they look for.
LEMMA NothingRefused ==
    ASSUME SafeInv, PasteInv, Clear, WayInv, op.kind = "Delete" => ListInv, \A call : ~Fault(call)
    PROVE  ~PlanRefused /\ (PlanOpenDirectory => pc' = "planTop" /\ UNCHANGED state)
<1>1. ~PlanRefused
  <2>1. SUFFICES ASSUME PlanRefused PROVE FALSE
    OBVIOUS
  <2>2. pc = "frame" /\ Intact(TopFrame.src) /\ (Pasting => Disk0[TopFrame.src] # Irregular)
    BY <2>1, ItemIsThere DEF PlanRefused
  <2>3. IF op.kind = "Delete" THEN Exists(TopFrame.src) ELSE IsDir(TopFrame.src) \/ IsRegular(TopFrame.src)
    <3>1. op.kind # "Delete" => Pasting
      BY RootsArePaths DEF SafeInv, PlaceInv, Pasting, Pastes, Kinds
    <3>. QED BY <2>2, <3>1 DEF Intact, IsDir, IsRegular
  <2>. QED BY <2>1, <2>3 DEF PlanRefused, Breaks
<1>2. ASSUME PlanOpenDirectory PROVE IsDir(TopFrame.src)
  <2>1. CASE pc = "opendir"
    <3>1. Pasting
      BY <2>1, RootsArePaths DEF ListInv, SafeInv, PlaceInv, Pasting, Pastes, Kinds
    <3>. QED BY <2>1, <3>1, ItemIsThere DEF PasteInv, PlanningInv, PlanInv, Intact, IsDir
  <2>2. CASE pc # "opendir"
    BY <1>2, <2>2 DEF PlanOpenDirectory
  <2>. QED BY <2>1, <2>2
<1>. QED BY <1>1, <1>2 DEF PlanOpenDirectory, Breaks, public

\* The place of a copy is free, and so is the name of the temporary file.
LEMMA NothingTaken ==
    ASSUME SafeInv, PasteInv, TraceInv, Pasting, Clear, WayInv, RoomInv, \A call : ~Fault(call)
    PROVE  /\ PlanMakeDirectory => pc' = "opendir"
           /\ PlanFile => pc' = "planTop"
<1>. DEFINE src == TopFrame.src
            dst == TopFrame.dst
<1>. SUFFICES ASSUME pc = "frame", ~TopFrame.opened, PlanMakeDirectory \/ PlanFile
              PROVE  /\ PlanMakeDirectory => pc' = "opendir"
                     /\ PlanFile => pc' = "planTop"
  BY DEF PlanMakeDirectory, PlanFile, Walking
<1>1. op \in Operations /\ PlanningInv /\ op.kind # "Delete"
  BY DEF SafeInv, PlaceInv, PasteInv, Pasting, Pastes
<1>2. /\ src \in Sources /\ Intact(src) /\ Disk0[src] # Irregular /\ BelowRoot(src) /\ dst = Image(src)
      /\ Len(planStack) \in 1 .. Len(planStack) /\ TopFrame = planStack[Len(planStack)]
  BY <1>1, ItemIsThere, OnTop, TopFrameFacts DEF PlanningInv
<1>3. Len(jobs) \in Nat /\ jobIndex = 1
  BY <1>1, LenIsNat DEF SafeInv, MemoryInv, JobsExpendable, PlanningInv, PlanInv, Before, PlanPlaces
<1>4. ASSUME NEW p, Exists(p)
      PROVE  p \in DOMAIN Disk0 \/ \E q \in Sources : Disk0[q] = Dir /\ p = Image(q) /\ HasFolder(q)
  <2>1. pc \notin TempPlaces \cup {"undoTemp", "jobRecord"}
    BY DEF TempPlaces
  <2>2. ~\E k \in 1 .. Len(jobs) : k < jobIndex
    BY <1>3
  <2>. QED BY <1>4, <2>1, <2>2, NewIsKnown
<1>5. ~HasFolder(src)
  <2>1. Covers(TopFrame, src)
    BY DEF Covers
  <2>. QED BY <1>2, <2>1 DEF RoomInv, FolderInTime, PlanPlaces
<1>6. \A q \in Sources : dst = Image(q) => ~HasFolder(q)
  <2>1. \A q \in Sources : dst = Image(q) => q = src
    BY <1>1, <1>2, ImagesDiffer, SourceFacts
  <2>. QED BY <1>5, <2>1
<1>7. Exists(dst) => Replaced(src)
  BY <1>1, <1>2, <1>4, <1>6, ClearFacts
<1>8. ASSUME PlanMakeDirectory PROVE pc' = "opendir"
  <2>1. Disk0[src] = Dir
    BY <1>2, <1>8 DEF PlanMakeDirectory, IsDir, Intact
  <2>2. CanCreate(dst)
    BY <1>2, <1>7, <2>1 DEF Replaced, CanCreate, RoomInv, RoomFor, PlanPlaces
  <2>. QED BY <1>8, <2>2 DEF PlanMakeDirectory, Breaks
<1>9. ASSUME PlanFile PROVE pc' = "planTop"
  <2>1. Disk0[src] # Dir
    BY <1>2, <1>9 DEF PlanFile, IsRegular, Intact
  <2>2. ASSUME Exists(dst) PROVE op.replace /\ src = op.roots[1] /\ IsRegular(dst)
    <3>1. Replaced(src) /\ dst \in DOMAIN Disk0
      BY <1>4, <1>6, <1>7, <2>2
    <3>2. Intact(dst)
      BY <1>1, <3>1 DEF PlanningInv, PlanInv, Before, PlanPlaces
    <3>. QED BY <1>2, <3>1, <3>2 DEF Replaced, Intact, IsRegular
  <2>3. ~Exists(TempPath(dst))
    <3>1. TempPath(dst) \notin DOMAIN Disk0 /\ \A q \in Sources : TempPath(dst) # Image(q)
      BY <1>1, <1>2, <2>1, ClearFacts
    <3>. QED BY <1>4, <3>1
  <2>4. ~TargetTaken(src, dst)
    BY <2>2, <2>3 DEF TargetTaken
  <2>. QED BY <1>9, <2>4 DEF PlanFile
<1>. QED BY <1>8, <1>9

\* The calls of a job find what they need.
LEMMA NoJobFails ==
    ASSUME SafeInv, PasteInv, TraceInv, Pasting, Clear, RoomInv, \A call : ~Fault(call)
    PROVE  /\ JobOpenSource => pc' = "jobOpenTarget"
           /\ JobOpenTarget => pc' = "jobTransfer"
           /\ JobRename => pc' = "jobRecord"
<1>. SUFFICES ASSUME pc \in {"jobPrepare", "jobOpenTarget", "jobRename"}
              PROVE  /\ JobOpenSource => pc' = "jobOpenTarget"
                     /\ JobOpenTarget => pc' = "jobTransfer"
                     /\ JobRename => pc' = "jobRecord"
  BY DEF JobOpenSource, JobOpenTarget, JobRename
<1>1. /\ op \in Operations /\ PlanningInv /\ LossInv /\ ReplaceIsAtomic /\ TempInv /\ OwnInv
      /\ pc \in InJob /\ Active
  BY DEF SafeInv, PlaceInv, PasteInv, TraceInv, InJob, Active, Copying
<1>2. /\ jobIndex \in 1 .. Len(jobs) /\ Len(jobs) \in Nat /\ Job = jobs[jobIndex]
      /\ Job.src \in Sources /\ Disk0[Job.src] # Dir /\ BelowRoot(Job.src)
      /\ Job.dst = Image(Job.src)
  BY <1>1, JobFacts, JobHasSource
<1>3. IsDir(ParentPath(Job.dst))
  BY <1>1, <1>2 DEF RoomInv
<1>4. Intact(Job.src) /\ Disk0[Job.src] # Irregular
  BY <1>1, <1>2, JobSourceIntact, ClearFacts
<1>5. ASSUME JobOpenSource PROVE pc' = "jobOpenTarget"
  <2>1. IsRegular(Job.src)
    BY <1>2, <1>4 DEF IsRegular, Intact
  <2>. QED BY <1>5, <2>1 DEF JobOpenSource, Breaks
<1>6. ASSUME JobOpenTarget PROVE pc' = "jobTransfer"
  <2>1. IsSeq(Job.dst) /\ Job.dst # <<>>
    <3>1. PICK i \in 1 .. Len(op.roots) : IsUnder(Job.src, op.roots[i])
      BY <1>2 DEF BelowRoot
    <3>2. IsSeq(Job.dst) /\ Len(Job.dst) \in Nat \ {0}
      BY <1>1, <1>2, <3>1, ImageFacts DEF BelowRoot
    <3>. QED BY <3>2, LenIsNat
  <2>2. IsSeq(ParentPath(Job.dst))
    BY <2>1, ButLastFacts DEF ParentPath, ButLast
  <2>3. ParentPath(Temp) = ParentPath(Job.dst)
    BY <2>2, JoinFacts DEF Temp, TempPath
  <2>4. CanCreate(Temp)
    BY <1>3, <1>6, <2>3 DEF CanCreate, RoomInv, JobOpenTarget
  <2>. QED BY <1>6, <2>4 DEF JobOpenTarget, Breaks
<1>7. ASSUME JobRename PROVE pc' = "jobRecord"
  <2>1. Exists(Temp) /\ pc = "jobRename"
    BY <1>1, <1>7 DEF TempInv, JobRename
  <2>2. ASSUME IsDir(Job.dst) PROVE FALSE
    <3>1. CASE Job.dst \in DOMAIN Disk0
      <4>1. Replaced(Job.src)
        BY <1>1, <1>2, <3>1, ClearFacts
      <4>2. op.replace /\ Job.src = op.roots[1] /\ Job.dst = TargetOf(op.roots[1])
        BY <1>1, <1>2, <4>1, ImageOfRoot, RootsArePaths DEF Replaced
      <4>3. fs[Job.dst] \in {Disk0[Job.dst], Disk0[op.roots[1]]}
        BY <1>2, <3>1, <4>2 DEF ReplaceIsAtomic, PasteInv
      <4>. QED BY <1>2, <2>2, <4>1, <4>2, <4>3 DEF Replaced, IsDir
    <3>2. CASE Job.dst \notin DOMAIN Disk0
      <4>1. PICK q \in Sources : Disk0[q] = Dir /\ Job.dst = Image(q)
        BY <2>2, <3>2, NewIsKnown DEF IsDir
      <4>2. q = Job.src
        BY <1>1, <1>2, <4>1, ImagesDiffer, SourceFacts
      <4>. QED BY <1>2, <4>1, <4>2
    <3>. QED BY <3>1, <3>2
  <2>3. CanRename(Temp, Job.dst)
    BY <1>3, <2>1, <2>2 DEF CanRename
  <2>. QED BY <1>7, <2>3 DEF JobRename, Breaks
<1>. QED BY <1>5, <1>6, <1>7

\* A deletion finds every item, and a folder only when it is empty; so does the
\* removal of a move.
LEMMA NoRemovalFails ==
    ASSUME SafeInv, GoneInv, op.kind = "Delete" => ListInv, op.kind = "Move" => EmptyingInv,
           \A call : ~Fault(call)
    PROVE  /\ DeleteItem /\ op.kind = "Delete" => pc' = "deleteTop"
           /\ RemoveItem => UNCHANGED <<state, pc>>
<1>1. ASSUME DeleteItem, op.kind = "Delete" PROVE pc' = "deleteTop"
  <2>. DEFINE path == deletePaths[deleteIndex]
  <2>1. /\ pc = "delete" /\ deleteIndex \in 1 .. Len(deletePaths) /\ Deleting /\ Tree
        /\ \A p \in DOMAIN fs : IsSeq(p)
    BY <1>1 DEF DeleteItem, SafeInv, PlaceInv, Deleting, GoneInv, TreeInv, Tree
  <2>2. /\ path \in DOMAIN Disk0 /\ ~ListedBefore(path, deleteIndex)
        /\ \A p \in DOMAIN Disk0 : IsUnder(p, path) /\ p # path => ListedBefore(p, deleteIndex)
        /\ \A p \in DOMAIN Disk0 : Intact(p) \/ ListedBefore(p, deleteIndex)
        /\ DOMAIN fs \subseteq DOMAIN Disk0
    BY <1>1, <2>1 DEF ListInv
  <2>3. IsSeq(path)
    BY <2>2, DiskAssumption DEF IsSeq
  <2>. HIDE DEF path
  <2>4. Exists(path)
    BY <2>2 DEF Intact
  <2>5. ASSUME NEW name \in NamesIn(path) PROVE FALSE
    <3>1. JoinPath(path, name) \in DOMAIN fs
      BY <2>1, <2>5, NamesAreThere
    <3>2. IsUnder(JoinPath(path, name), JoinPath(path, name)) /\ IsSeq(JoinPath(path, name))
      BY <2>3, JoinFacts, UnderSelf
    <3>3. IsUnder(JoinPath(path, name), path) /\ JoinPath(path, name) # path
      BY <2>3, <3>2, BelowChild
    <3>4. ListedBefore(JoinPath(path, name), deleteIndex)
      BY <2>2, <3>1, <3>3
    <3>5. PICK i \in 1 .. (deleteIndex - 1) : deletePaths[i] = JoinPath(path, name)
      BY <3>4 DEF ListedBefore
    <3>6. i \in 1 .. Len(deletePaths) /\ i < deleteIndex
      BY <2>1
    <3>7. ~Exists(deletePaths[i])
      BY <1>1, <3>6 DEF GoneInv, DeletionInv
    <3>. QED BY <3>1, <3>5, <3>7 DEF Exists
  <2>6. IF IsDir(path) THEN CanRmdir(path) ELSE CanUnlink(path)
    BY <2>4, <2>5 DEF CanRmdir, CanUnlink
  <2>. QED BY <1>1, <2>6 DEF DeleteItem, Breaks, path
<1>2. ASSUME RemoveItem PROVE UNCHANGED <<state, pc>>
  <2>. DEFINE n == Len(removeStack)
  <2>1. pc = "remove" /\ removeStack # <<>> /\ IsSeq(removeStack) /\ op.kind = "Move"
    BY <1>2 DEF RemoveItem, Removing, SafeInv, PlaceInv, MemoryInv, Frames
  <2>2. n \in 1 .. n /\ Top(removeStack) = removeStack[n] /\ n \in Nat
    BY <2>1, LenIsNat DEF Top
  <2>3. Emptying(removeStack, n)
    BY <2>1, <2>2 DEF EmptyingInv
  <2>4. Top(removeStack).opened /\ Top(removeStack).todo = {} => CanRmdir(Top(removeStack).src)
    BY <2>2, <2>3 DEF Emptying, CanRmdir
  <2>. QED BY <1>2, <2>4 DEF RemoveItem, Breaks
<1>. QED BY <1>1, <1>2

\* On a clear way no step reports an error.
LEMMA FineSteps ==
    ASSUME SafeInv, PasteInv, TraceInv, GoneInv, Clear, FineInv, WayInv, Pasting => RoomInv,
           op.kind = "Delete" => ListInv, op.kind = "Move" => EmptyingInv, [Next]_vars,
           \A call : ~Fault(call)
    PROVE  FineInv'
<1>. DEFINE Goes == /\ state' # "Failed" /\ hasError' = FALSE
                    /\ pc' \in {"jobDiscard", "undoTemp", "undo"} => after'.state # "Failed"
<1>. SUFFICES Goes
  BY DEF FineInv
<1>1. /\ state # "Failed" /\ hasError = FALSE
      /\ pc \in {"jobDiscard", "undoTemp", "undo"} => after.state # "Failed"
  BY DEF FineInv
<1>2. /\ PlaceInv /\ (Pasting \/ op.kind = "Delete")
      /\ op.kind = "Delete" => pc \notin {"jobTop", "remove"} \cup InJob
      /\ Pasting => pc \notin {"deleteTop", "delete"}
      /\ pc \in Returning => after.pc \in {"planned", "end", "done"}
  BY RootsArePaths DEF SafeInv, PlaceInv, Pasting, Pastes, Kinds, GoneInv, DeletionInv, PasteInv, PlanningInv,
     UndoInv
<1>3. CASE Start \/ Cancel \/ Gone \/ UNCHANGED vars
  BY <1>1, <1>3 DEF Start, Cancel, Gone, vars, public, cursors
<1>4. CASE PlanTop \/ Planned
  BY <1>1, <1>4 DEF PlanTop, Planned, CompleteOperation, Undo, public, cursors
<1>5. CASE PlanRefused \/ PlanOpenDirectory
  BY <1>1, <1>5, NothingRefused DEF PlanOpenDirectory, public, cursors
<1>6. CASE PlanMakeDirectory \/ PlanFile
  <2>1. Pasting
    BY <1>6 DEF PlanMakeDirectory, PlanFile, Walking, Pasting
  <2>2. pc' \in {"opendir", "planTop"}
    BY <1>6, <2>1, NothingTaken
  <2>. QED BY <1>1, <1>6, <2>2 DEF PlanMakeDirectory, PlanFile, public, cursors
<1>7. CASE PlanDescend \/ PlanLeaveDirectory \/ PlanDeleteLeaf
  BY <1>1, <1>7 DEF PlanDescend, PlanLeaveDirectory, PlanDeleteLeaf, public, cursors
<1>8. CASE JobOpenSource \/ JobOpenTarget \/ JobRename
  <2>1. Pasting
    BY <1>2, <1>8 DEF JobOpenSource, JobOpenTarget, JobRename, InJob
  <2>2. pc' \in {"jobOpenTarget", "jobTransfer", "jobRecord"}
    BY <1>8, <2>1, NoJobFails
  <2>. QED BY <1>1, <1>8, <2>2 DEF JobOpenSource, JobOpenTarget, JobRename, public, cursors
<1>9. CASE JobTop \/ JobTransfer \/ JobFinalize \/ JobRecord
  BY <1>1, <1>9 DEF JobTop, JobTransfer, JobFinalize, JobRecord, CompleteOperation, Undo, public, cursors
<1>10. CASE JobTransferred \/ JobNoResources \/ JobDiscard
  BY <1>1, <1>10 DEF JobTransferred, JobNoResources, JobDiscard, TransferEnd, public, cursors
<1>11. CASE DeleteTop \/ End
  BY <1>1, <1>11 DEF DeleteTop, End, public, cursors
<1>12. CASE DeleteItem
  <2>1. op.kind = "Delete"
    BY <1>2, <1>12 DEF DeleteItem
  <2>2. pc' = "deleteTop"
    BY <1>12, <2>1, NoRemovalFails
  <2>. QED BY <1>1, <1>12, <2>2 DEF DeleteItem, public, cursors
<1>13. CASE UndoStep
  BY <1>1, <1>2, <1>13 DEF UndoStep, UndoTemp, UndoFile, UndoDirectory, UndoEnd, Returning, public, cursors
<1>14. CASE RemoveItem
  BY <1>1, <1>14, NoRemovalFails DEF RemoveItem, Removing, public, cursors
<1>15. CASE RemoveMissing \/ RemoveOpen \/ RemoveDescend \/ RemoveNextRoot
  BY <1>1, <1>2, <1>15 DEF RemoveMissing, RemoveOpen, RemoveDescend, RemoveNextRoot, Removing, Returning,
     public, cursors
<1>. QED BY <1>3, <1>4, <1>5, <1>6, <1>7, <1>8, <1>9, <1>10, <1>11, <1>12, <1>13, <1>14, <1>15
         DEF Next, WorkerStep, PlanStep, JobStep, RemoveStep

\* At first nothing has been walked, listed or made.
LEMMA ReasonStarts == Init => ReasonInv
<1>. SUFFICES ASSUME Init PROVE FineInv /\ WayInv /\ RoomInv /\ ListInv /\ EmptyingInv
  BY DEF ReasonInv
<1>1. /\ fs = Disk0 /\ pc = "idle" /\ state = "Idle" /\ hasError = FALSE /\ jobs = <<>>
      /\ createdDirectories = <<>> /\ deletePaths = <<>>
  BY DEF Init
<1>2. FineInv /\ WayInv /\ EmptyingInv
  BY <1>1 DEF FineInv, WayInv, PlanPlaces, EmptyingInv
<1>3. RoomInv
  BY <1>1 DEF RoomInv, PlanPlaces, Active, Copying, InJob
<1>4. ListInv
  BY <1>1 DEF ListInv, Deleting, PlanPlaces
<1>. QED BY <1>2, <1>3, <1>4

\* The invariant is inductive.
LEMMA ReasonSteps ==
    SafeInv /\ PasteInv /\ TraceInv /\ GoneInv /\ GoneInv' /\ ReasonInv /\ [Next]_vars => ReasonInv'
<1>. SUFFICES ASSUME SafeInv, PasteInv, TraceInv, GoneInv, GoneInv', ReasonInv, [Next]_vars, Clear'
              PROVE  /\ FineInv' /\ WayInv'
                     /\ Pasting => RoomInv'
                     /\ op.kind = "Delete" => ListInv'
                     /\ op.kind = "Move" => EmptyingInv'
  BY SameOperation, SameTargets DEF ReasonInv
<1>1. Clear /\ (\A call : ~Fault(call)) /\ Tree
  BY ClearSteps DEF TraceInv, GoneInv, TreeInv
<1>2. /\ FineInv /\ WayInv
      /\ Pasting => RoomInv
      /\ op.kind = "Delete" => ListInv
      /\ op.kind = "Move" => EmptyingInv
  BY <1>1 DEF ReasonInv
<1>3. FineInv'
  BY <1>1, <1>2, FineSteps
<1>4. WayInv'
  BY <1>1, <1>2, WaySteps DEF TraceInv
<1>5. Pasting => RoomInv'
  BY <1>1, <1>2, RoomSteps
<1>6. op.kind = "Delete" => ListInv'
  BY <1>1, <1>2, <1>4, ListSteps
<1>7. op.kind = "Move" => EmptyingInv'
  BY <1>1, <1>2, EmptyingSteps
<1>. QED BY <1>3, <1>4, <1>5, <1>6, <1>7

\* What has failed has had a reason.
LEMMA HadReason == ReasonInv => FailsForAReason
BY DEF ReasonInv, Clear, FineInv, FailsForAReason

\* An operation only fails for a reason: as long as no call breaks and nothing is in
\* the way on the disk it finds, every folder is there before something is copied
\* into it, every name that is taken is free, and every folder is empty when it is
\* removed.
THEOREM FailsReasonably == Spec => []FailsForAReason
<1>1. Init => Promised
  BY PromiseStarts DEF Promised
<1>. QED BY <1>1, WorkerStarts, SafeSteps, PasteStarts, PasteSteps, TraceStarts, TraceSteps,
            GoneStarts, GoneSteps, ReasonStarts, ReasonSteps, HadReason, PTL DEF Spec

\* The same for the worker beside another program, as long as that has done nothing.
THEOREM FailsReasonablyAlone == OthersSpec => []FailsForAReasonAlone
<1>. DEFINE Inv == Alone => SafeInv /\ PasteInv /\ TraceInv /\ Promised /\ GoneInv /\ ReasonInv
<1>1. OthersInit => Inv
  BY WorkerStarts, PasteStarts, TraceStarts, PromiseStarts, GoneStarts, ReasonStarts DEF OthersInit, Promised
<1>2. Inv /\ [OthersNext]_<<vars, others>> => Inv'
  BY AloneSteps, SafeSteps, PasteSteps, TraceSteps, GoneSteps, ReasonSteps
<1>3. Inv => FailsForAReasonAlone
  BY HadReason DEF FailsForAReasonAlone
<1>. QED BY <1>1, <1>2, <1>3, PTL DEF OthersSpec

=============================================================================
