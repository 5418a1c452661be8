--------------------------- MODULE FileOperations ---------------------------
(***************************************************************************)
(* The facade FileOperations, which only the UI thread calls: the          *)
(* clipboard, the start of a paste or a deletion, and the one background   *)
(* worker it owns.  Of the worker only the promise of BackgroundOperation  *)
(* is used; what an outcome means for the disk is added here.              *)
(*                                                                         *)
(* Another program may create and remove files while there is no worker:   *)
(* beside a worker OtherWriters has it.                                    *)
(***************************************************************************)
EXTENDS Paths

CONSTANTS Disk0,      \* the disk when the application starts
          Shared      \* the files another program may create and remove

ASSUME FileOperationsAssumption ==
    /\ IsTree(Disk0)
    /\ \A p \in Shared : p # <<>> /\ ~IsFolder(p) /\ IsFolder(ParentPath(p))

VARIABLES
    disk,
    hasWorker,                          \* worker_ != NULL
    operation,                          \* what the worker was created for
    state, cancelRequested, thread,     \* the worker, see BackgroundOperation
    localState,                         \* localState_
    operationKind,
    hasClipboard, clipboardEntries, clipboardAction

Worker == INSTANCE BackgroundOperation

worker    == <<hasWorker, operation, state, cancelRequested, thread>>
clipboard == <<hasClipboard, clipboardEntries, clipboardAction>>
facade    == <<disk, worker, localState, operationKind, clipboard>>

DestinationPath(directory, entry) == JoinPath(directory, BaseName(entry))

\* What is below the roots, and where it belongs in the directory.
Images(roots, directory) ==
    UNION {{Relocated(p, root, DestinationPath(directory, root)) : p \in Below(disk, {root})}
           : root \in roots}

NoOperation == [kind |-> "Copy", roots |-> {}, sources |-> {}, images |-> {}]

Init ==
    /\ disk = Disk0
    /\ hasWorker = FALSE /\ operation = NoOperation /\ Worker!Init
    /\ localState = "Idle"
    /\ operationKind = "Copy"
    /\ hasClipboard = FALSE /\ clipboardEntries = {} /\ clipboardAction = "Copy"

(***************************************************************************)
(* What the UI thread is told.                                             *)
(***************************************************************************)
State     == IF hasWorker THEN state ELSE localState
IsBusy    == State = "Copying"
\* Mutant: a canceled operation has no result.
MutHasResult == State \in {"Completed", "Failed"}
HasResult == State \in Worker!Outcomes
CanCancel == operationKind # "Delete"

DestinationExists(directory) ==
    \E e \in clipboardEntries : DestinationPath(directory, e) \in disk

CanReplaceDestination(directory) ==
    \E e \in clipboardEntries :
        /\ clipboardEntries = {e}
        /\ e \in disk /\ ~IsFolder(e)
        /\ DestinationPath(directory, e) \in disk
        /\ ~IsFolder(DestinationPath(directory, e))

(***************************************************************************)
(* The clipboard.  Entries below another entry are dropped.                *)
(***************************************************************************)
NormalizeEntryRoots(entries) ==
    {p \in entries : \A q \in entries : q = p \/ ~IsPathWithin(p, q)}

ToClipboard(entries, action) ==
    /\ entries # {} /\ ~IsBusy
    /\ hasClipboard' = TRUE
    /\ clipboardEntries' = NormalizeEntryRoots(entries)
    /\ clipboardAction' = action
    /\ UNCHANGED <<disk, worker, localState, operationKind>>

(***************************************************************************)
(* What an operation that fails leaves.                                    *)
(***************************************************************************)
\* What part of the sources may be gone when removing them fails half-way:
\* nothing is removed before what lies below it.
PartlyRemoved(sources) ==
    {gone \in SUBSET sources :
        \A p \in gone : \A q \in sources : IsPathWithin(q, p) => q \in gone}

\* A paste that fails has been rolled back, but a move whose sources cannot be
\* removed is left as it is, and a deletion is not taken back.
Aftermath(kind, sources, images) ==
    {disk} \cup
    IF kind = "Copy" THEN {}
    ELSE {(disk \ gone) \cup images : gone \in PartlyRemoved(sources) \ {sources}}

(***************************************************************************)
(* Starting.  A worker of an earlier operation would be deleted first, and *)
(* its destructor would cancel and join it.  There is none: Acknowledge()  *)
(* has deleted it before a dialog gets the pad.                            *)
(***************************************************************************)
NoWorker ==
    /\ hasWorker' = FALSE /\ operation' = NoOperation
    /\ state' = "Idle" /\ cancelRequested' = FALSE /\ thread' = "idle"

\* After Start() the state of the worker is read, and a worker that shows Failed
\* is joined and deleted: one that has no thread, or one whose thread has failed
\* by then with all that it has done.
Launch(kind, roots, sources, images) ==
    /\ ~hasWorker
    /\ \/ /\ hasWorker' = TRUE
          /\ operation' = [kind |-> kind, roots |-> roots, sources |-> sources, images |-> images]
          /\ state' = "Copying" /\ cancelRequested' = FALSE /\ thread' = "running"
          /\ localState' = "Copying"
          /\ UNCHANGED disk
       \/ /\ NoWorker
          /\ localState' = "Failed"
          /\ disk' \in Aftermath(kind, sources, images)

(***************************************************************************)
(* StartPaste: first it looks at every entry, and then, after others may   *)
(* have written, it acts.                                                  *)
(***************************************************************************)
MayPaste == hasClipboard /\ ~IsBusy

\* Mutant: what exists is replaced without being asked to.
MutObstructed(e, directory, replace) ==
    IsFolder(DestinationPath(directory, e)) /\ DestinationPath(directory, e) \in disk
Obstructed(e, directory, replace) ==
    /\ DestinationPath(directory, e) \in disk
    /\ ~replace \/ clipboardEntries # {e} \/ IsFolder(e)
                \/ IsFolder(DestinationPath(directory, e))

\* Mutant: a folder is pasted into itself.
MutRefused(directory, replace) ==
    \E e \in clipboardEntries :
        \/ e \notin disk \/ Obstructed(e, directory, replace)
        \/ clipboardAction = "Move" /\ DestinationPath(directory, e) = e
Refused(directory, replace) ==
    \E e \in clipboardEntries :
        \/ e \notin disk
        \/ IsFolder(e) /\ IsPathWithin(DestinationPath(directory, e), e)
        \/ Obstructed(e, directory, replace)
        \/ clipboardAction = "Move" /\ DestinationPath(directory, e) = e

PasteRefused(directory, replace) ==
    /\ Refused(directory, replace)
    /\ localState' = "Failed"
    /\ operationKind' = clipboardAction
    /\ UNCHANGED <<disk, worker, clipboard>>

PasteImages(directory) == Images(clipboardEntries, directory)

AfterRename == /\ hasClipboard' = FALSE
               /\ clipboardEntries' = {}
               /\ UNCHANGED clipboardAction

\* The fast path of a move: rename() works or fails, and replaces a file that
\* has taken the name since StartPaste() looked for it.  When the destination is
\* on another file system (EXDEV) the worker takes over, as in PasteLaunched.
IsRename == clipboardAction = "Move" /\ \E e \in clipboardEntries : clipboardEntries = {e}

PasteRenamed(directory) ==
    /\ ~hasWorker /\ UNCHANGED worker
    /\ operationKind' = "Move"
    /\ \/ /\ clipboardEntries \subseteq disk
          /\ disk' = (disk \ Below(disk, clipboardEntries)) \cup PasteImages(directory)
          /\ localState' = "Completed"
          /\ AfterRename
       \/ /\ localState' = "Failed"
          /\ UNCHANGED <<disk, clipboard>>

\* The planning of the worker looks again: what is refused by now it refuses.
PasteLaunched(directory, replace) ==
    /\ operationKind' = clipboardAction
    /\ IF Refused(directory, replace)
       THEN Launch(clipboardAction, clipboardEntries, {}, {})
       ELSE Launch(clipboardAction, clipboardEntries, Below(disk, clipboardEntries),
                   PasteImages(directory))
    /\ UNCHANGED clipboard

\* Mutant: the clipboard is left alone by a deletion.
MutTouchesClipboard(roots) == FALSE
TouchesClipboard(roots) ==
    hasClipboard /\ \E e \in clipboardEntries : \E root \in roots : IsPathWithin(e, root)

StartDelete(entries) ==
    /\ entries # {} /\ ~IsBusy
    /\ LET roots == NormalizeEntryRoots(entries)
       IN  /\ operationKind' = "Delete"
           /\ IF TouchesClipboard(roots)
              THEN hasClipboard' = FALSE /\ clipboardEntries' = {} /\ UNCHANGED clipboardAction
              ELSE UNCHANGED clipboard
           /\ Launch("Delete", roots, Below(disk, roots), {})

(***************************************************************************)
(* Cancel() after its test of IsBusy() and CanCancel(), and Acknowledge(). *)
(***************************************************************************)
CancelWorker ==
    /\ Worker!Cancel
    /\ UNCHANGED <<disk, hasWorker, operation, localState, operationKind, clipboard>>

\* Acknowledge() joins the thread before it deletes the worker.
Joined == hasWorker => thread # "running"

Acknowledge ==
    /\ HasResult
    /\ Joined
    /\ NoWorker
    /\ localState' = "Idle"
    /\ UNCHANGED <<disk, operationKind, clipboard>>

(***************************************************************************)
(* The worker thread, and the disk when it shows an outcome.  While it     *)
(* runs the disk is not in a state of its own: nobody looks at it then,    *)
(* except Refresh() in the frame that shows the outcome.                   *)
(***************************************************************************)
\* A root that has gone before the planning looks at it fails the operation.
WorkerCompletes ==
    /\ Worker!Complete
    /\ operation.roots \subseteq operation.sources
    /\ disk' = (disk \ IF operation.kind = "Copy" THEN {} ELSE operation.sources)
               \cup operation.images

WorkerFails ==
    /\ Worker!Fail
    /\ disk' \in IF state = "Copying"
                 THEN Aftermath(operation.kind, operation.sources, operation.images)
                 ELSE {disk}

\* Only the planning completes an operation before the last look at
\* cancelRequested_, and only when no regular file is to be copied.  Where a
\* file was to be replaced, the rollback may unlink it in its new version; all
\* other images are not on the disk before the operation completes.
WorkerRecants ==
    /\ Worker!Recant
    /\ IF state = "Completed"
       THEN /\ operation.kind # "Delete"
            /\ \A p \in operation.sources : IsFolder(p)
            /\ disk' = disk \ operation.images
       ELSE disk' \in {disk, disk \ operation.images}

WorkerFinishes == Worker!Finish /\ UNCHANGED disk

WorkerStep ==
    /\ WorkerCompletes \/ WorkerFails \/ WorkerRecants \/ WorkerFinishes
    /\ UNCHANGED <<hasWorker, operation, localState, operationKind, clipboard>>

(***************************************************************************)
(* Another program (an FTP server, a game) that comes and goes with files. *)
(***************************************************************************)
OthersWrite ==
    /\ ~hasWorker
    /\ \E p \in Shared :
          \/ p \notin disk /\ ParentPath(p) \in disk /\ disk' = disk \cup {p}
          \/ p \in disk /\ disk' = disk \ {p}
    /\ UNCHANGED <<worker, localState, operationKind, clipboard>>
=============================================================================
