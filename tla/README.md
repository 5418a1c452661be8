# Verification of Kylin Explorer

Kylin Explorer is a controller-driven file manager for the PS5.  It browses one
folder at a time, keeps a clipboard of paths, and copies, moves and deletes whole
trees in a background thread that the user may cancel.  This directory holds TLA+
modules of the parts whose mistakes cost files or freeze the screen, the TLC
configurations that check them, and proofs that TLAPS checks.  Paths such as
`file_operations.cpp:257` are below `src/src/`.

Run `tlc -workers 2 -config X.cfg M` for a run of the table in section 3, and
`tlapm M.tla` for each of the eight modules whose name ends in `Proofs`.

## 1. Inventory

| Component | State | Operations | What is hard | What makes it correct |
|---|---|---|---|---|
| **Copy pipeline** (`file_operations_worker.cpp:22-99, 560-824`) | two buffers, their lengths, two indexes, `done`, an errno, one mutex, two condition variables | the reader thread fills, the worker thread drains, `Cancel()` sets a flag | `read()` and `write()` run unlocked; short reads and writes; three threads set `done`; lost or spurious wakeups | no buffer is shared, the copy is a prefix and in the end the whole file, both threads leave |
| **FileOperationsWorker** (`file_operations_worker.cpp`) | jobs, what it created, state, phase, cancel flag, the disk | `Start`, `Cancel`, planning, jobs, deletion, removal of the sources of a move, `Rollback` | a call fails or the process dies between any two calls; a cancellation at any moment, after the outcome too | nothing is lost, nothing else is touched, an aborted paste leaves no trace, an outcome means what it says |
| **FileOperations** (`file_operations.cpp`) | clipboard, the worker it owns, `localState_` | `CopyToClipboard`, `CutToClipboard`, `StartPaste`, `StartDelete`, `Cancel`, `Acknowledge` | clipboard entries are paths that go stale; each accessor takes the lock anew | one worker at a time, joined before it is deleted; nothing is overwritten unasked |
| **FileBrowser** (`file_browser.cpp`) | folder, sorted listing, index, sort mode, marks, history, shortcut | open, back, shortcuts, refresh, sort, mark, new folder, rename | the listing is stale; sorting moves the entry under the index; any folder may fail to open | the index stands for the file that was chosen; marks name entries of the listing; the way back leads to the root |
| **App** (`app.cpp`) | one flag per dialog, pending texts and pastes | one frame: report a result, take a text, handle one button, draw | the worker's state changes within a frame; dialogs act on what is selected later; overlays have one order on the screen and another for the pad | operations are reported once, do what was agreed to, and the UI never writes beside the worker |
| **Package installer client** (`app.cpp:27-195, 651-690`, `modal_view.cpp`) | `pkgInstaller..._` fields shared with a detached thread | start, the server's answers and events | unlocked fields, flags never initialised, a second start, no state that gets its buttons | the overlay says what the server said, and every end is shown |
| **Context menu, quick places, settings** (`context_menu.cpp`, `app.cpp`) | cursors, the items as they were when opened | open, move, choose, close | a list with no item; an item that is not enabled | the cursor stands on something that can be chosen |
| **Native dialogs** (`native_dialogs.cpp`) | the text dialog of the system and its buffer | open, ask in each frame, take the text | it may not open, stays for many frames; two encodings, a buffer of fixed size | a name that is accepted as shown is the name of the file |
| **Input** (`input.cpp`) | the buttons of this frame and the last | read, `Pressed` | readings that fail | a press is answered once |
| **Names, UTF-8** (`file_system.cpp`, `utf8.cpp`, `text_renderer.cpp:8-25, 98-113`) | none | validate, display, cut short, to and from UTF-16 | boundaries of the tables, bytes that are no text | every byte is shown; text survives the round trip |
| **Jailbreak handshake** (`main.cpp`) | the trigger file | write, wait for a daemon with a limit | two processes, a limit that races the answer, requests left by a killed process | the application runs only in a process whose own sandbox is lifted |
| **Logger** (`logger.cpp`) | log files, one mutex | write, rotate | errors ignored while rotating, a process killed in between, two threads | the latest lines are kept, in order |
| **Frame buffers** (`graphics.cpp:253-301`) | two buffers, the frame number, the output's queue and events | flip, wait, swap | events of earlier flips, an index that is not initialised | no frame is drawn into a buffer that is shown; the frames go on |
| Directories (`file_system.cpp`, `utils.cpp`) | none | list, join, parent, "is within" | text comparison and symbolic links | only as the browser and the facade use them |
| Boot log, SFO parser, localization, other drawing, cJSON | files, tables, what is drawn | - | - | not modelled, section 7 |

The UI thread runs `App::Run()`; each frame it calls the browser and the facade,
and the facade owns at most one worker, whose thread (and a reader thread for
each file it copies) is the only other thread that touches files.  UI and worker
share `mutex_`, the state and `cancelRequested_`; worker and reader share the pipe;
all of them share the log.  Installer threads are detached and share unlocked
fields with the UI thread.

`PROJECT.json` lists for every component how much of it is modelled, and under
`hazards` what is hard to test in this code, each at its line.

## 2. Modules

```
FileCopy  <--implements--  CopyPipeline  <--  CopyPipelineProofs

BackgroundOperation  <--implements--  FileOperationsWorker  <--EXTENDS--  OtherWriters
        ^                                                                      ^
        | INSTANCE (the worker's promise)     MCFileOperationsWorker, FileOperationsWorkerProofs
FileOperations  <--EXTENDS--  App  <--  MCApp, AppProofs
        | EXTENDS              | INSTANCE, and App implements its environment
      Paths   <--EXTENDS--  FileBrowser  <--implements--  SortedBrowser  <--  MCFileBrowser
                               ^    ^--  FileBrowserProofs      ^--  SortedBrowserProofs
                               |         (AppProofs takes it over for the application)
                               | EXTENDS
                          PkgInstaller  <--  MCPkgInstaller, PkgInstallerProofs

Logger, Scene2D  <--EXTENDS--  Startup  <--  MCStartup, StartupProofs
Names            <--EXTENDS--  Dialogs  <--  MCDialogs, DialogsProofs
```

**FileCopy** is the abstract copy of one file: a prefix that grows and one of
three ends.  **CopyPipeline** is the code: `ReaderTest`, `Read...`, `Publish...` are
`CopyReaderThreadFunc`, the `Writer...` actions are the loop of `ExecuteCopyJob`.
One action is one critical section of `pipe.mtx`; `read` and `write` are actions
without it.  A byte is named by its offset.  A thread inside `pthread_cond_wait`
is at `"wait"`; a signal or a spurious wakeup moves it to the test of its loop.

**BackgroundOperation** is what a worker promises to the UI thread: `State()`,
`Cancel()` and the end of its thread.  **FileOperationsWorker** is the code, with the
disk as a function from paths to contents.  Each system call that changes the
disk is one step, so an invariant also speaks of the disk a crash leaves behind.
A call fails when its precondition does not hold, or when it is in `Faulty` and
fewer than `MaxFaults` calls have broken.  `pc` names the place in the code:
`planTop ... planned` is `ProcessPlanning`, `job...` is `ExecuteCopyJob`, `undo...`
is `Rollback`, `remove` is `RemovePathRecursive`.  The transfer of bytes is one
step with the three results of `FileCopy`.  **OtherWriters** puts another program beside the
worker, which may create a file between any two of its calls; a folder that is
open may or may not show it.

**Paths** has the names, the tree, and the listing of a folder.  **FileOperations**
is the facade over `BackgroundOperation`; `disk` is the set of paths that exist, and
the effect of an outcome on it is what the worker's properties say: all images
there after `Completed`, none after a rollback, part of the sources gone after a
failed deletion or removal.  `Aftermath` is what an operation that fails leaves; `Launch`
has it too, since a worker that has failed by the time `Start()` returns is deleted at
once, with what it has done by then.  The facade's tests (`Refused`, `Obstructed`) follow the
order of `StartPaste`; they, the fast path by `rename()` and the start of a worker are steps
of their own, and between them another program may write (`OthersWrite`, on the paths of
`Shared`).  **FileBrowser** speaks of the file that is selected, and can
be checked alone, in an environment (`OperationWrites`) that changes the tree at
will but keeps the open folder.  **SortedBrowser** is the code: the listing is a
sequence, sorted by `SortEntries()` on metadata that is read anew with every
listing, and the selection is an index that `Refresh()`, `SelectPath()`,
`CycleSort()` and `MoveSelection()` set.  **App** composes facade and browser: `pc`
cuts a frame where the worker or the other program can change what was read (`result`,
`acknowledge`, `text`, `input`, `cancel`, `paste`, `rename`, `refresh`, `finished`), `open` is the set of the `...Open_`
flags, `Priority` the order of `DetermineCurrentState`, `DrawOrder` that of
`ExplorerUi::Draw`, and `pkgInstallerOpen` the overlay that is painted last and has no place
in `Priority`.  It has history variables (`unlogged`, `reported`, `confirmed`,
`consented`, `overwritten`, `drawn`) that no guard of a code step reads.

**PkgInstaller** puts the installer's thread beside the browser that starts it.  The
fields of `App` it shares with the UI thread have no lock, so each assignment is a
step, and that of a string two: between them it is `Torn`.  The constructor does not
initialise the flags, so they start with any value.  `DetermineCurrentState` has no
state for the overlay; the browser's buttons that move (`CrossPressed`,
`CirclePressed`, `MovePressed`) therefore work below it, `HandlePkgInstallerInput` is
unreachable and nothing sets `cancelRequested`.  `WriteField` is
`UpdatePkgInstallerState`; the other actions of a thread are the parts of
`PkgInstallerThreadFunc` between two of its calls.  The server is external: it may
accept, refuse, send any events and cut the stream.  The path gets into the request as
`snprintf` puts it there, between quotes and without an escape, in 1024 bytes: only one
in `Plain` is still itself on the other side (`Requested`).

**Startup** is the life of the process: the handshake of `main()` with a daemon
outside it, `App::Init()`, and the frames of `App::Run()`, each cut into drawing,
`SubmitFlip`, `FrameWait` and `FrameBufferSwap`.  `Restart` kills the process at any
moment and starts it again.  **Logger** is `LogMessage()` of two threads with its
rotation call by call; **Scene2D** is the frame buffers and the video output, which
is external: a bounded queue, a flip per vertical blank, a status and one event.

**Names** has the conversions of names as functions on bytes and code units,
**Dialogs** the frames as the overlays with a cursor see them: `ReadPad` is
`Input::Update`, `Chain` the order in which a handler asks for buttons, `answers`
counts how often a press was answered.  What the items do to files is in `App`.

Operators named `Mut...` are plausible mistakes in the definition that follows
them; nothing uses them.  Put in place of that definition they make the property
they are listed with fail, which shows that the property depends on that code.

## 3. Runs

| Run | Question |
|---|---|
| `pipeline` (CopyPipeline, MCCopyPipeline.cfg) | Every interleaving of the two threads and `Cancel()` with short reads and writes, errors and spurious wakeups: ownership of the buffers, contents, progress, refinement of `FileCopy`, termination. |
| `worker` (MCFileOperationsWorker, MCWorker.cfg) | Twenty-three pastes, overwrites and deletions, three of them of what is gone, a cancellation at any moment, and two disturbances, each a call that fails anywhere, the rollback included, or a file that another program puts in the way: atomicity, completeness, failures only for a reason, nothing lost, nothing else touched, what the other program may lose, refinement of `BackgroundOperation`. |
| `file_browser` (MCFileBrowser.cfg) | The sorted browser on all trees over five paths, with any metadata, changing under a stale listing: order, index, marks, history, refinement of `FileBrowser`. |
| `app_files` (MCApp, MCAppFiles.cfg) | The whole application on two files of one name and a folder beside them, so that one entry or several can be in the way of a paste, and another program that puts a file on the target of a paste and takes it away: what was agreed to is what is overwritten, deleted and logged. |
| `app_folders` (MCApp, MCAppFolders.cfg) | Two operations in a row on empty folders, which a worker completes and may still take back: no writing beside a worker, single reports, the folder on the screen, the overlay that gets the pad; without a button being pressed every operation is reported and frames go on. |
| `pkg_installer` (MCPkgInstaller.cfg) | Two installer threads and the UI thread on the fields they share, a package among them whose path the request garbles: as long as installations do not overlap the overlay tells the truth, and every end of a thread is shown. |
| `startup` (MCStartup.cfg) | A process killed and started again in the handshake, in a rotation of the log and in a frame: whose sandbox is lifted, what the log keeps, which buffer is drawn into, and that frames go on. |
| `dialogs` (MCDialogs.cfg) | The pad with failing readings, every overlay with a cursor, and names from every row of the UTF-8 tables through the listing and the rename dialog. |
| `replace_canceled`, `late_cancel`, `pkg_chosen`, `places_empty` | The four findings, section 6. |

### Bounds

* `pipeline`: `FileSize = 5`, `BufSize = 2`: three buffers through two, so that an
  index comes round and the last buffer is not full.  With one buffer fewer the
  reader never waits; the proofs cover all other sizes.
* `worker`: the disk has a file, a tree with a subfolder, a tree with a symbolic
  link, an empty destination, one with the target taken, one with a foreign
  temporary file, and two files of which one has the other's temporary name.  Two roots show the order of roots, one level of nesting the
  order of folders and contents.  One fault shows each error path, two a failing
  rollback after a failing call.  One combination is left out, see `MCFaulty`.
  `MaxFaults = 2` counts failing calls and files of the other program together.  It
  has six places (`MCMayAppear`), one for each way to be in the way: the name of a
  copy, of its temporary file, a created folder, a copied one, a moved or deleted one
  and a folder in it.
* `file_browser`: three levels are enough for an ancestor, a folder and its entry;
  `MaxHistory = 2` lets the history hold a folder that is gone; two files whose
  metadata differ come in one order by size and in the other by time; `Jump = 2`
  jumps over both ends of a listing of three.
* `pkg_installer`: packages in the root and in a folder, two threads, so that a
  second installation meets the first; `MaxHistory = 1`.
* `app_files`, `app_folders`: the disk of the first has the root, a folder `d`, the
  files `d/f` and `f` and a folder `e`; that of the second has folders only.
  `MaxOperations` bounds operations and new names (1 on files, 2 on folders),
  `MaxHistory = 1`.  Two operations are needed for a stale worker, clipboard or
  report of the first to meet the second.  `Shared` has one path, the target of a paste
  (`MCShared`), in `app_files`, and none in `app_folders`; the proofs have any set.  A
  package (`Packages`) is in `app_files` only: the installer's
  overlay, once open, changes nothing but what is drawn on top.
* `startup`: a log of two lines and its three predecessors, nine lines, so that the
  oldest file is dropped; one failing call in a rotation, one failing `fopen`; two
  starts; two attempts of the wait; frame numbers modulo three, which tells the
  current flip from the last and the next; two places in the output's queue.
* `dialogs`: the bytes at the bounds of the tables: any that may be first with any that
  may or may not follow it, those of three and four that begin a longer sequence, and
  names that contain the text of an escape; every length they can be cut to; a buffer of five elements, which the
  longest name fills; zero to two drives.

### Fairness

`CopyPipeline`: weak fairness of the reader and of the writer: both are scheduled
and `read`/`write` return.  Cancellation and spurious wakeups are owed by nobody.
`OtherWriters`: weak fairness of the worker thread, whose calls return; `Cancel`
is not fair, and the other program owes nothing, here as in `App`.  `App`: weak fairness of `UiStep`, the frame loop, which may
always take the step without a button, and of the worker.  No user action, and no
end of the text dialog, is fair.  `Startup`: weak fairness of the main thread, of
each thread inside `LogMessage()`, and of the display, which keeps refreshing.
Nothing is assumed of the daemon, and nothing of the user who starts the process.
The browser, the dialogs and the installer are checked for safety only.  No spec
uses strong fairness.  Deadlock is checked everywhere except in `startup`, where the
process may end or idle for ever by design.

## 4. What the properties say

*Pipeline.*  `BufferOwnership`: the unlocked calls never meet in a buffer.
`ImplementsFileCopy`: the target is always a prefix of the source, and a copy is
reported only when it is whole, although `done` is set while buffers are full.
`ProgressIsHonest`.  `Terminates`: both threads leave, also when canceled.

*Worker.*  `NothingLost`: every item of the clipboard is whole at its old or its new
place in every state, crashes included.  `PartialOnlyTemporary`,
`BystandersUntouched`, `ReplaceIsAtomic`.  `AllOrNothingAlone`: canceled and failed
pastes leave the disk as it was.  `CompletedIsCompleteAlone`.  `FailsForAReasonAlone`: an
operation that fails has met a broken call, or something in its way on the disk it found
(`Obstacle`); the worker never trips over itself.
These three are promised only while no other program has put a file in the way.
`ImplementsBackgroundOperation`: outcomes are not taken back but for the late
cancellation of section 6, and the thread ends.
`OthersKept`: a file of another program is touched only if it has taken the name of a
copy or of its temporary file, lies in a tree that has been copied and is moved
away, or was there when its folder was planned to be deleted; `NothingLost` holds
beside another program too.

*Browser.*  `ImplementsFileBrowser`: the index always stands for the file that
`FileBrowser` says is selected, which `Refresh`, a new sort mode and a rename could
each get wrong.  `ListIsSorted`, `SortKeepsSelection`, `MarksAreListed`,
`BackLeadsToRoot`.

*Application.*  `UiWritesAlone`, `ReportedOnce`, `OutcomeIsHonest`,
`EveryOperationReported`, `FramesGoOn`.  `OverwritesOnlyConfirmed`: what `StartPaste()`
finds in its way and lets pass is the file that was named in the question, though
another program may make or remove it before the question, while it is open and after
the answer.  What is written between these checks and the `rename()` of a move is
replaced unasked (section 6).
`NothingGoesUnasked`, `ClipboardFollows`: of what the application takes away; what the
other program removes is not its doing.  `PadGoesToTopDialog`:
what gets the pad is what was on top when the screen was last drawn, unless an
operation or the text dialog ended in this very frame.  It leaves out the overlay of the
installer, which is on top of everything and never gets the pad: with it the property is
false of the code (section 6).  `ImplementsBrowser` shows
that the environment `FileBrowser` is checked in is the one `App` gives it, so its
own results carry over.

*Package installer.*  `OverlayIsHonest`: "finished" comes with the text of an end, a
"Completed" is the server's, for the package that is named if its path is in `Plain`.  `EndIsShown`: an overlay
without a thread is finished, unless the stream was cut.  Both hold only while
installations do not overlap: two threads mix their texts in one overlay.

*Startup.*  `RunsUnrestricted`: no request of an earlier process, and no wait that
came to its end, passes for a lifted sandbox.  `LogIsRecent`: the files of the log
hold their lines in order; without a failing call none is missing between the
oldest and the newest, and a rotation cut off by the end of the process costs at
most one file.  `DrawsUnseen`, `FramesReturn`.

*Dialogs.*  `OnePressOneAnswer`: the Cross that opened a question does not answer it
as well, though readings of the pad fail.  `CursorOnEnabled`.  `DisplayIsFaithful`:
every byte of a name is shown once, and a name is marked as not faithful exactly
when it is not UTF-8 or has control bytes.  `CutBetweenParts`: a name too long for
its place is never cut inside an escape, and hardly shorter than it has to be; it is part of
`DisplayIsFaithful`.
`AcceptedNameIsKept`: a name that is UTF-8 survives the dialog, the longest one
included.


## 5. Proofs

Eight modules hold theorems, checked to the last leaf.  Each proves an inductive
invariant of one model for every value of its constants, under the assumptions
that model states; the lemmas follow the actions of the model, one or several for
each, and one step for each part of the invariant an action can disturb.

**CopyPipelineProofs** (`PipelineAssumption`: a file of any size, buffers of any size
but zero).  `TypeCorrectness`, `NoSharedBuffer`, `Integrity`, `Completeness`,
`HonestProgress`, and `Refinement`: `CopyPipeline` implements `FileCopy`.  `Integrity` and
`Completeness` are invariants that `FileCopy` has as well, and are not run on their own.  That buffers
do not clash depends on which are full, and that on the order in which they were
filled, so `PipelineInv` adds to the types
* `FillOrder`: which of `drainIdx`, `Other(drainIdx)` is full decides where `fillIdx`
  points, and the buffer being read into is empty;
* `Contents`: target, full buffers and the bytes in the reader's hand are
  consecutive pieces of the source that end at `srcPos`;
* `WriterPosition`: how `nbytes`, `written` and `copiedBytes` fit the writer's place;
* `EndReasons`: why `done` is set.

`ChunkProperties` and `WriteExtends` are the facts about sequences, `Swap` and `IdxSplit`
those about the indexes.  For the refinement `WriteBytes` is `Extend`, `WriterJoin` one
of the three ends, `Cancel` is `Ask`, and every other action stutters.

**FileOperationsWorkerProofs** (`WorkerAssumption`: any disk, any operations, any calls
that fail and any number of them).  `Untouched`, `Unfinished` and `KeepsPromise`.  What the
worker writes or removes is what it wrote down earlier, so `SafeInv` says of everything it
remembers (`MemoryInv`: targets and temporary names of the jobs, `deletePaths`,
`createdFiles`, `createdDirectories`, `temporaryPath`, the stacks of its walks) that it is
`Expendable`: it was not there at the start, or is the target of an overwrite, or
belongs to the sources of a move or a deletion.  `PlaceInv` keeps the indices within
their lists and the places to return to.  Each new name is `Expendable` when it is
written down because `lstat` has just not found it, and whatever was there at the
start and is not expendable is still there (`BystandersUntouched`): the two facts
need each other.  `PartialInv` says at which places of the code a half-written file
exists, and that it is the temporary file of the current job.

`KeepsPromise` is the safety part of `ImplementsBackgroundOperation`: every step is one
`BackgroundOperation` allows (`StateInv`, `AfterInv`: which states belong to which place,
and what may still come after `Completed`).  It excludes the steps after `lstat` has
failed in `RemovePathRecursive` for a source that is there.  `ProcessPlanning` removes
the sources of a move without files and the loop of `Run` removes them again; when the
first removal takes a failed `lstat` for absence the second may fail.  TLC checks
the whole property where `MCFaulty` leaves that failure out (section 7).

*Its second half* assumes besides: `DiskAssumption`, the parents of what exists are folders;
`PasteAssumption`, what `StartPaste` and `NormalizeEntryRoots` guarantee of the roots,
which the facade calls before it starts a worker; for why an operation fails,
`RootsAssumption`, no root is below another, of a deletion neither; where another program
writes, `OtherWritersAssumption` (its files are told apart from those of the disk) and
`GoneAssumption` (an item of the clipboard that has gone does not come back while the
worker runs: it would be another one).  `ReplacedAtOnce` and `NoLoss`, for every copy and move.  That nothing is lost rests on the plan: the sources are removed only when
all of the plan is carried out, and the plan must then cover every item of every root.
`ImageFacts` to `ImagesDiffer` show that two items never get one image.
* `WalkInv`, `JobsInv`, `MadeInv`, `SingleInv` speak of the planning: the stack of open
  folders is a way down from a root, each job goes from an item to its image, two
  jobs never have one target, and a created directory is the image of a folder.
* `PlanInv` and `UndoInv` relate the lists of the worker to the disk and say what the
  rollback may take.
* `ProgressInv` (`StillAwaited`, `WayFound`) is the completeness of the plan: each item of a
  root is planned, or still ahead of the walk, and what is planned has been copied
  (`ArrivedStays`), or its job is still ahead of `currentJob`.
* `TempInv` keeps the temporary file apart from the copies, and `LossInv` puts the parts
  together: the removal begins when all have
  arrived (`AllHaveArrived`, `RemovalIsSafe`), and no rollback follows but the two of
  section 6.

`LeavesNoTrace` and `Completed` are about the end of an operation.
* `NotedInv`: whatever exists and did not at the start is in a list the rollback goes
  through, unless its cleaning up has failed.  Between the call that makes a file and the
  line that notes it, the job or `temporaryPath_` stands for the entry.
* The rollback removes directories from the last to the first.  `CreatedInv` says that none
  lies in a later one, so that every `rmdir` finds its directory empty; `OutcomeInv` says
  which outcome belongs to which place, and that after a failure the lists are empty.
* For what must be gone: `TreeInv` (what exists has a folder above it), `MovedInv` and
  `DeletionInv`.  A walk that has removed an item has removed all below it, as `unlink` and
  an `rmdir` of an empty folder leave nothing there, and nothing is made there again (`Promised`).

`FailsReasonably`: without a broken call and without an `Obstacle` no test of the worker
refuses.  `ReasonInv` has four parts, for such operations.
* `WayInv`: each frame of a walk is that of an item of the disk it started on, and no item is
  ahead of two frames, so that the walk comes to each once.
* `RoomInv`: the folder of each copy is made before the copy and not made twice
  (`FolderInTime`).  With `TempIsFree`, that no copy has the temporary name of another, and
  the order of the jobs, no job finds its target or its temporary file taken
  (`NothingTaken`, `NoJobFails`).
* `ListInv`: a deletion lists each item once and after all that lies below it, and what
  is not removed yet is as it was, so that each `rmdir` meets an empty folder.
* `EmptyingInv`: the same of the removal of the sources of a move, which lists and removes
  in one walk: what is left in an open folder is still in its frame, or in the next.
With `TreeInv` and the invariants before, `NoJobFails` and `NoRemovalFails` show that no step
makes `FineInv` false.  That two items of one paste can be in each other's way, a file and
one with the name of its temporary file, was found in this proof: no run had such a pair.

What of this holds beside another program is stated about `OthersSpec`, the specification
of the run `worker`.
* `LeavesNoTraceAlone`, `CompletedAlone` and `FailsReasonablyAlone` follow from the theorems
  about `Spec`, because `others` never shrinks: as long as it is empty there was only the
  worker.
* `UntouchedBesideOthers`, `UnfinishedBesideOthers` and `KeepsPromiseBesideOthers`: a step of
  the other program keeps `SafeInv`, `PartialInv` and `PromiseInv` (`OtherWritesSafe`,
  `OtherWritesPartial`, `OtherWritesPromise`), although it changes what an open walk is shown.
* `NoLossBesideOthers` and `ReplacedBesideOthers`, of every operation and every file that may
  appear: `PasteInv`, the conjunction behind `NoLoss`, allows for files below the roots that
  were not there at the start (`MayCome`, and `Found` for what a walk may meet).
  Such a file makes an open folder show more and takes nothing away (`FindsMore`,
  `ShownKeeps`), and what has arrived stays (`OtherWritesPaste`).  `OneVersionIsThere` and
  `ItemsAreThere` say that it never stands in for an item of the clipboard.  What is only
  true alone, that the planning finds nothing below the roots which was not there and that
  every job has a source, is `OwnInv`, which `Completed` needs.
* `OthersStay` needs `ClaimInv`: what the worker may write or remove is a name of a job that
  has begun, what it made itself, or part of the operation's sources.

**FileBrowserProofs** (`FileBrowserAssumption`: any tree that changes at will as long as
the open folder stays).  `FolderExists`, `Marks`, `WayBack`, from `BrowserInv`, whose
three parts need each other: the parent of the current folder exists because the
disk is a tree, and a rename keeps it one (`RenameKeepsTree`) because the new name is
free in the same folder.  The lemmas before it are about paths as sequences.

**SortedBrowserProofs** (`SortedBrowserAssumption`: finitely many paths, metadata that
read differently each time, no two names that rank the same).  `SortedRefinement`: the
browser of the code, with its sorted list and index, implements `FileBrowser`.
`PrecedesOrders`: each comparison of `SortEntries()` is a strict total order on the
entries of a folder; `Sorting`: an entry's rank is then a bijection to the positions,
so the list is a sorted permutation; `IndexFinds`: the loop of `SelectPath` finds what
it looks for.  `SortedInv` says that the list is one of a reading of the current
folder in the current mode and that the index is inside; one lemma per action shows
that it is kept and that the action is the one of `FileBrowser`.  `SortedListing` and
`SelectionKept` follow; `SortedMarks` and `SortedWayBack` carry the results of
`FileBrowserProofs` over.

**AppProofs** (`FileOperationsAssumption`, `AppAssumption`: any tree of files, any names, any
number of operations).  `ControlInv` has what the worker's fields may be (`WorkerInv`), what
the log says at the places of a frame where an outcome is on its way (`ReportInv`), and
`OpenInv`: while the text dialog is open the facade is idle.  The last is why the text it
returns may be used to write without a test: nothing can be started below it, as it has
the pad.  `LoggedOnce`, `HonestOutcome` and `UiAlone` follow.

`PadOnTop` is about `PadGoesToTopDialog`: it compares two orders of ten overlays, the
installer's aside.  `ShapeInv` makes that manageable: dialogs
follow each other, only an error comes over the menu, and no question is open while an
operation runs or waits to be reported.  `DrawnInv` carries what was drawn to the next input.

`BrowserIsImplemented`: every step of the application is one of `FileBrowser` in its
environment; `BoundedBrowserIsImplemented` is that theorem for the bounded `Universe` of
the runs, and `BrowserInApp` takes over what `FileBrowserProofs` shows.  What has to be
shown is that no operation removes the folder on the screen, and that the disk stays a
tree although an outcome changes it late.  `OperationInv` says of the operation under way
that its images fit below the open folder (`Fits`) and that its sources can be taken
out without leaving a hole or that folder (`Removable`); `TreeStays` is the lemma for
each outcome, `AftermathFits` that for a worker that has failed by the time it is looked at.
The other program keeps the tree as well (`OthersKeepTree`).  A paste meets them by the tests of `StartPaste` (`PasteFits`, `Ancestors`):
the target is not within a source, so no source is above the folder one pastes into.

`AsksBeforeOverwriting` needs `AskedInv`: from the question to the end of `StartPaste()`
clipboard and pending destination are those it was asked about, whatever happens to the
disk.  `NothingUnasked` and
`ClipboardIsCleared` need `ConfirmInv` (what the open delete dialog names) and `DeletionInv`
(a deletion takes what was confirmed, and nothing the clipboard still holds); `RenameKeepsDisk`,
`DeleteTakes`, `LaunchLoses` and `PasteLoses` say for each kind of step what it can take away.

**PkgInstallerProofs** (any packages, folders and threads).  `HonestOverlay` and
`EndsAreShown`.  `OverlayInv` says, as long as installations have not overlapped, that
one thread at most is alive, that it asks for the package the overlay names (`Requested`), and
what the text and its flag say at each place of that thread, also while it writes.

**StartupProofs** (`StartupAssumption`, `SceneAssumption`: any number of processes and
attempts, three or more frame numbers, a queue of any length).  `Unrestricted`: once
the request is written it names this process until the daemon lifts its sandbox.
`Unseen`: `SceneInv` tells apart in which stage queue, screen, event and both indexes
are (`Fresh`, `Steady`, `Early`, `Done`, `Queued`, `QueuedBoth`, `Lost`) and which stages there
are at which place of the loop.
`Recent` (`LoggerAssumption`): a rotation leaves holes among the files and a killed process
leaves them there, so `LogInv` says where holes are (`Holes`), that there are no more of them
than rotations were cut off, that the other old files are full, and that lines ascend
within a file and from each file to the next lower one (`RowsInv`); the mutex gives the
rotation to one thread (`LockInv`).

**DialogsProofs** (`DialogsAssumption`: names of any bytes a file may have, shorter than the
buffer of the dialog, which may have any size; any readings of the pad, any number of
drives).  `CursorStaysOnEnabled` (`CursorInv`: an open menu has something enabled, and
`Move()` comes to it in either direction, `BesideIsEnabled`) and `NoButtonAnsweredTwice`
(`PressInv`: nothing that is not held has been answered, and what was answered before this
frame was held in the one before).

`NamesAreShownFaithfully` and `RenameKeepsTheName` are about names of any length.
`Display()` and the reading of the dialog's buffer are loops, in the model recursive functions over
positions.  That such a function meets its equation at every position is shown once
(`JoinedSteps`): a partial solution can be taken one position further (`JoinsOneMore`),
so that no number is the least at which there is none (`LeastNumber`, which takes the
place of an induction, here and for the sums over lengths).
* `Tables`, `StrictAccepts`: the rows of `StrictSequenceLength` accept exactly the sequences
  that encode a code point, and `Encode` gives back the bytes that were read.
* `BytesAreShown`: the parts of a name hold its bytes, each once and in order.
  `FaithfulIsClean` and `CleanIsFaithful`: no part is an escape exactly when the name is
  UTF-8 without control bytes.
* `CutsBetween`, `NameIsCutBetween`: wherever a name is cut, that is where a part ends, at most
  three characters before the limit.
* `ReadAndEncoded`: what the dialog is given and what is read from it are the same bytes;
  `DialogKeeps` adds that a name shorter than the buffer is not cut off in it.

Model-checked only: what says that something happens (`Terminates`, `EveryOperationReported`,
`FramesGoOn`, `FramesReturn`, and the fairness part of `ImplementsBackgroundOperation`, whose
steps are `KeepsPromise`).  Liveness is out of the prover's reach.  Every invariant and every other
property of the runs that pass is stated by a theorem.

## 6. Findings

* **`replace_canceled`**: a replaced target is recorded as created
  (`file_operations_worker.cpp:849`), so a cancellation after the rename unlinks it.
  A file copied over itself is then gone.
* **`late_cancel`**: moving a folder without regular files is completed by the
  planning, but `cancelRequested_` is looked at again (line 298); the rollback then
  removes the only copy.
* **`pkg_chosen`**: Cross on a folder whose first entry is a package installs that
  package (`app.cpp:661`): `OpenSelected()` also returns true for a folder it has opened,
  and what is selected by then is looked at.
* **`places_empty`**: without a drive the quick places open, say that there is none and
  still offer Up and Down (`modal_view.cpp:117, 144`); Down divides by the number of
  drives (`app.cpp:793`).

`NothingLost` and `ReplaceIsAtomic` are checked with a condition that leaves out exactly
the two losses of the worker.

Read, but without a run of its own:
* `StartPaste()` looks whether the target of a cut file is there
  (`file_operations.cpp:124-136`) and moves the file by `rename()` (line 158), which
  replaces what another program has written there in between.  The test
  `tests/file_operations_host_test.cpp:159-160` wants a file that is in the way to be
  left as it is.  `App` has these steps (`PasteAccepted`, `OthersWrite`, `RenamePaste`);
  `OverwritesOnlyConfirmed` ends before the last.
* `DetermineCurrentState` (`app.cpp:472`) never returns `PkgInstaller`, so that below the
  overlay of an installation, which is painted over all others (`ui.cpp:317-319`), the
  browser has the pad.  The overlay draws Circle as its button to cancel, and Cross and
  Circle as those that close it (`modal_view.cpp:240-245`); Circle leaves the folder,
  Cross opens what is selected, and the overlay stays.
* A folder that holds `f` and `f.kylin-copy.tmp` cannot be copied or moved when the copy of
  the latter comes first, in the order of `readdir`: it has the name the copy of `f` is
  first written under (`file_operations_worker.cpp:514, 553`).  Nothing is lost;
  `Obstacle` counts it as a reason to fail.
* `Cancel()` shows `Canceled` before the worker has rolled anything back, so the
  assertions after it in `tests/file_operations_host_test.cpp:349-351` race the worker.
* `README.md:91` says that Options refreshes; the code opens the quick places.
  `README.md:94-96` lists items the context menu does not have.
* The settings say that leaving them saves; nothing is saved.

## 7. Left out

Not promised by anything in the repository, or outside of its process:
* Another program may lose a file that takes the name of a copy, or lies in a tree
  that is moved (`OtherWriters` allows for both).  It creates files in the model, does
  not change or remove any, and puts none where an item of the clipboard was
  (`GoneAssumption`).
* In `App` the other program makes and removes files, but only while there is no worker:
  what it may do to one that runs is `OtherWriters`.  The loop of `StartPaste()` that looks
  at every entry is one step, and so is the look of `RequestPaste()`.  `RenameSelected()` is
  one step too, though it looks for the new name and renames in two calls
  (`file_browser.cpp:339-344`), with the race section 6 describes.
  Which names are packages' or folders' does not change.
* Which paths survive the request of the installer is the constant `Plain`: the text of the
  JSON document is not modelled, and what the server makes of another path is not either.
* `PathExists` takes every error of `lstat` for absence (`file_operations_worker.cpp:111`).
  Where the planning of a copy looks whether a name is taken (lines 509, 514) that error
  does not happen in the model; in the code the last rename of that copy would replace
  what is there.
* `temporaryPath_` is set before `O_EXCL` has proved the name free, so that a
  rollback (line 940) unlinks a file that has just taken it.
* Durability: a write of the model is on the disk.  The code syncs no file it copies
  and ignores errors of `close()`; the disk after a power cut is not modelled, only
  that after a killed process.
* A move of folders only, completed a second time by the copy loop, may turn
  `Completed` into `Failed` when an `lstat` failed the first time (`MCFaulty`).
* The daemon reads the trigger file, lifts the sandbox and removes the file in one
  step; an error of `stat` other than absence is not told apart from it.
* A failing `sceKernelWaitEqueue`, after which a frame is drawn too early
  (`graphics.cpp:292`), and a refused flip, after which `FrameWait` would wait for ever; at
  most two flips are outstanding.  The handle of the video output is never 0, for which
  `FrameWait` would not wait at all (line 278).
* `wchar_t` of 32 bits taken for the units of the text dialog.

Abstracted:
* Symbolic links in `Paths`; the worker has them as files it refuses to copy.
* The estimate of the total size, and the percent of an installation.
* The root folder opens always.  In `App` a name that was typed is valid or refused;
  which names are is in `Names`.
* A button pressed in the very frame an operation ends reaches what lies below its
  overlay before that has been drawn: `PadGoesToTopDialog` excludes that frame.
* The log of operations keeps eight of them; toasts are notifications of the system.
* A line of the log has size one; its time is taken before the lock.  Frame numbers
  come round.  An index of no frame buffer ends the process.

Not modelled, since no state of files or control depends on it: the boot log, the
SFO parser and previews, localization, cJSON, layout and drawing, the values of
the settings, the two lists that no button opens, and `DeleteSelected()`, which
nothing calls.

## 8. Plan

Modelled: every component whose mistakes cost files, an operation or the screen, and
every safety property of the runs that pass is proved.  What is left: symbolic links in `Paths`,
which the browser follows and the worker refuses, and with them `IsPathWithin` on texts
that name one folder in two ways.
