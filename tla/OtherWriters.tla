---------------------------- MODULE OtherWriters -----------------------------
(***************************************************************************)
(* The worker beside another program (an FTP server, a game that is        *)
(* installed) that puts files into the folders an operation is working on. *)
(* The worker looks for a name while it plans and takes it minutes later,  *)
(* and it lists a folder once: here the other program is free to act       *)
(* between any two of its calls.                                           *)
(***************************************************************************)
EXTENDS FileOperationsWorker, FiniteSets

CONSTANTS MayAppear(_),   \* where the other program may put a file during an operation
          Foreign         \* what is in its files

ASSUME OtherWritersAssumption ==
    /\ \A o \in Operations : MayAppear(o) \cap DOMAIN Disk0 = {}
    /\ Foreign \notin {Dir, Partial, Irregular} \cup {Disk0[p] : p \in DOMAIN Disk0}

\* An item of the clipboard that has gone since it was put there does not come
\* back while the worker runs: it would be another one.
ASSUME GoneAssumption ==
    \A o \in Operations : \A i \in 1..Len(o.roots) : o.roots[i] \notin MayAppear(o)

VARIABLE others    \* where it has put one

\* A folder that is open may or may not show a name that came later.
Shown(stack, p) ==
    [i \in DOMAIN stack |->
        IF stack[i].opened /\ stack[i].src = ParentPath(p)
        THEN [stack[i] EXCEPT !.todo = @ \cup {BaseName(p)}]
        ELSE stack[i]]

OtherWrites ==
    /\ \E p \in MayAppear(op) \ others :
          /\ CanCreate(p)
          /\ fs' = Put(p, Foreign)
          /\ others' = others \cup {p}
          /\ planStack' \in {planStack, Shown(planStack, p)}
          /\ removeStack' \in {removeStack, Shown(removeStack, p)}
    /\ UNCHANGED <<op, public, cancelRequested, pc, after, jobs, deletePaths,
                   made, cursors, removeIndex, faults>>

OthersInit == Init /\ others = {}

\* Bound: files of the other program and calls that break, taken together.
Disturbances == Cardinality(others) + Len(faults)

OthersNext == /\ (Next /\ UNCHANGED others) \/ OtherWrites
              /\ Disturbances' <= MaxFaults
OthersSpec == OthersInit /\ [][OthersNext]_<<vars, others>>

\* The other program owes nothing.
OthersFairSpec == OthersSpec /\ WF_<<vars, others>>(WorkerStep /\ UNCHANGED others)

-----------------------------------------------------------------------------
\* A name that a job which has begun has for its copy.
Claimed(p) == \E i \in 1..Len(jobs) : i <= jobIndex /\ p \in {jobs[i].dst, TempPath(jobs[i].dst)}

\* The tree of a move that has been copied.
LeftBehind(p) == op.kind = "Move" /\ jobIndex > Len(jobs) /\ \E r \in Roots : IsUnder(p, r)

PlannedToDelete(p) == \E i \in 1..Len(deletePaths) : deletePaths[i] = p

\* Nothing keeps a file of another program safe that has taken the very name of
\* a copy, or lies in a tree that is moved or deleted: AddFileJob() looks for the
\* target long before the rename(), and RemovePathRecursive() removes what it
\* finds.  Everywhere else, also in the folders a rollback or a deletion wants
\* to remove, it stays, and in a moved tree it stays until the copies are done.
OthersKept ==
    \A p \in others : \/ Exists(p) /\ fs[p] = Foreign
                      \/ Claimed(p) \/ LeftBehind(p) \/ PlannedToDelete(p)

Alone == others = {}

\* While the worker is alone on the disk a paste that is canceled or fails leaves
\* it as it was (Rollback, what ExecuteCopyJob and the planning record for it).
AllOrNothingAlone == Alone => AllOrNothing

\* While the worker is alone on the disk, what is reported as completed is all
\* there, nothing else is, and the sources of a move or deletion are gone.
CompletedIsCompleteAlone == Alone => CompletedIsComplete

\* While the worker is alone on the disk no operation fails without a reason.
FailsForAReasonAlone == Alone => FailsForAReason
=============================================================================
