-------------------------------- MODULE App ---------------------------------
(***************************************************************************)
(* The application: the loop of App::Run() on the UI thread, the dialogs   *)
(* and overlays it shows, the file browser and the file operations it      *)
(* drives, and the worker thread and another program that run beside it.   *)
(*                                                                         *)
(* One frame reports the result of an operation, takes the text that was   *)
(* typed, and handles one button of the pad.  The steps are cut where the  *)
(* worker, or in a paste another program, can come between them.  A frame  *)
(* ends with a drawing, of which the order of the overlays is kept.  Of    *)
(* the package installer there is its overlay; its thread is in            *)
(* PkgInstaller.  The lists nothing opens (operation log, installed        *)
(* packages), toasts and the settings' values are left out.                *)
(***************************************************************************)
EXTENDS FileOperations

CONSTANTS Locations, NewNames, Universe, MaxHistory,
          Places,           \* the mounted drives of the quick places
          Packages,         \* the names of package files
          Uninitialised,    \* what a flag may be that is never initialised
          MaxOperations     \* bound: operations, new folders and new names

VARIABLES
    currentPath, entries, selected, marked, history, locationIndex,
    pc,                     \* where the UI thread is in its frame
    open,                   \* the dialogs and overlays whose ...Open_ flag is set
    pkgInstallerOpen,       \* pkgInstallerOpen_, which starts as any value
    enabled,                \* what the context menu found when it was opened
    pendingTextInput, pendingPasteDestination,
    \* what the user was told and asked, for the properties
    unlogged,               \* operations started and not yet in the log
    reported,               \* the last outcome in the log
    confirmed,              \* what the open delete dialog asks about
    consented,              \* the files the user agreed to overwrite
    overwritten,            \* the files the last paste found in its way
    started,                \* operations, new folders and new names so far
    drawn                   \* the overlays that were on the screen when last drawn

Browser == INSTANCE FileBrowser

ASSUME AppAssumption ==
    /\ Browser!FileBrowserAssumption
    /\ Disk0 \cup Shared \cup Places \subseteq Universe
    /\ Uninitialised \subseteq BOOLEAN

browser == <<currentPath, entries, selected, marked, history, locationIndex>>
ui      == <<open, enabled, pendingTextInput, pendingPasteDestination>>
ghosts  == <<unlogged, reported, confirmed, consented, overwritten, started>>
vars    == <<facade, browser, pc, ui, pkgInstallerOpen, ghosts, drawn>>

AppInit ==
    /\ Init /\ Browser!Init
    /\ pc = "result" /\ open = {} /\ enabled = {}
    /\ pendingTextInput = "None" /\ pendingPasteDestination = <<>>
    /\ unlogged = 0 /\ reported = "Idle" /\ started = 0
    /\ confirmed = {} /\ consented = {} /\ overwritten = {}
    /\ pkgInstallerOpen \in Uninitialised
    /\ drawn = {}

(***************************************************************************)
(* Which overlay has the pad.                                              *)
(***************************************************************************)
Priority == <<"TextInput", "Error", "Properties", "OverwriteConfirm", "DeleteConfirm",
              "RecursiveDeleteConfirm", "QuickPlaces", "Settings", "ContextMenu">>

TopOverlay ==
    IF open = {} THEN "Browsing"
    ELSE Priority[CHOOSE i \in DOMAIN Priority :
                    Priority[i] \in open /\ \A j \in 1..(i - 1) : Priority[j] \notin open]

\* Mutant: a running operation does not keep the pad from the overlays.
MutIgnoresBusy == IF HasResult THEN "OperationFinished" ELSE TopOverlay
DetermineCurrentState ==
    IF IsBusy THEN "OperationRunning"
    ELSE IF HasResult THEN "OperationFinished"
    ELSE TopOverlay

\* What Draw() paints over what; the text dialog is the system's.
DrawOrder == <<"ContextMenu", "Properties", "Error", "CopyProgress", "OverwriteConfirm",
               "DeleteConfirm", "RecursiveDeleteConfirm", "Settings", "QuickPlaces",
               "PkgInstaller", "TextInput">>

Shown == open \cup (IF IsBusy \/ HasResult THEN {"CopyProgress"} ELSE {})
              \cup (IF pkgInstallerOpen THEN {"PkgInstaller"} ELSE {})

Topmost(shown) ==
    IF shown = {} THEN "Browsing"
    ELSE DrawOrder[CHOOSE i \in DOMAIN DrawOrder :
                     /\ DrawOrder[i] \in shown
                     /\ \A j \in (i + 1)..Len(DrawOrder) : DrawOrder[j] \notin shown]

Handles(uiState) == pc = "input" /\ DetermineCurrentState = uiState
Pressed(uiState) == Handles(uiState) /\ pc' = "result"

ActiveEntries ==
    IF marked # {} THEN Browser!MarkedEntries ELSE {selected} \ {Browser!NoEntry}

(***************************************************************************)
(* The head of the frame: an operation that has ended is logged, shown and *)
(* acknowledged, which waits for its thread.                               *)
(***************************************************************************)
Log ==
    /\ unlogged' = unlogged - 1
    /\ reported' = State
    /\ UNCHANGED <<confirmed, consented, overwritten, started>>

ReportResult ==
    /\ pc = "result" /\ HasResult
    /\ Log
    /\ \/ State = "Completed" /\ Browser!Refresh
       \/ State # "Completed" /\ UNCHANGED browser
    /\ open' = IF State = "Canceled" THEN open ELSE open \cup {"Error"}
    /\ pc' = "acknowledge"
    /\ UNCHANGED <<facade, enabled, pendingTextInput, pendingPasteDestination>>

\* Without a text dialog ProcessTextInputResult() does nothing.
AfterResult == IF "TextInput" \in open THEN "text" ELSE "input"

NoResult ==
    /\ pc = "result" /\ ~HasResult
    /\ pc' = AfterResult
    /\ UNCHANGED <<facade, browser, ui, ghosts>>

\* Mutant: the handler of the pad leaves the result to the next frame.
MutAcknowledgeResult ==
    \/ /\ pc = "acknowledge" /\ pc' = AfterResult
       /\ Acknowledge
       /\ reported' = "Idle" /\ confirmed' = {} /\ consented' = {} /\ overwritten' = {}
       /\ UNCHANGED <<browser, ui, unlogged, started>>
    \/ /\ pc = "finished" /\ pc' = "result"
       /\ UNCHANGED <<facade, browser, ui, ghosts>>
AcknowledgeResult ==
    /\ \/ pc = "acknowledge" /\ pc' = AfterResult
       \/ pc = "finished" /\ pc' = "result"
    /\ Acknowledge
    /\ reported' = "Idle" /\ confirmed' = {} /\ consented' = {} /\ overwritten' = {}
    /\ UNCHANGED <<browser, ui, unlogged, started>>

(***************************************************************************)
(* The text dialog of the system, once it has stopped.                     *)
(***************************************************************************)
\* The dialog stays open for as long as the user likes.
NoText ==
    /\ pc = "text" /\ pc' = "input"
    /\ UNCHANGED <<facade, browser, ui, ghosts>>

TextAccepted ==
    /\ pc = "text" /\ pc' = "input" /\ "TextInput" \in open
    /\ \/ /\ \E name \in NewNames :
                \/ pendingTextInput = "NewFolder" /\ Browser!CreateDirectory(name)
                \/ pendingTextInput = "Rename" /\ Browser!RenameSelected(name)
          /\ started < MaxOperations
          /\ started' = started + 1
          /\ open' = open \ {"TextInput", "Error"}
       \/ /\ open' = (open \ {"TextInput"}) \cup {"Error"}
          /\ UNCHANGED <<disk, browser, started>>
    /\ pendingTextInput' = "None"
    /\ UNCHANGED <<worker, localState, operationKind, clipboard, enabled,
                   pendingPasteDestination, unlogged, reported, confirmed, consented, overwritten>>

TextCanceled ==
    /\ pc = "text" /\ pc' = "input" /\ "TextInput" \in open
    /\ open' = open \ {"TextInput"}
    /\ pendingTextInput' = "None"
    /\ UNCHANGED <<facade, browser, enabled, pendingPasteDestination, ghosts>>

(***************************************************************************)
(* Input while an operation runs or has ended within this frame.           *)
(***************************************************************************)
NoInput ==
    /\ pc = "input" /\ pc' = "result"
    /\ UNCHANGED <<facade, browser, ui, ghosts>>

\* HandleOperationRunningInput() has seen that the operation is busy; Cancel()
\* looks again, and takes the worker's lock after that.
CancelPressed ==
    /\ pc = "input" /\ DetermineCurrentState = "OperationRunning" /\ CanCancel
    /\ pc' = "cancel"
    /\ UNCHANGED <<facade, browser, ui, ghosts>>

CancelOperation ==
    /\ pc = "cancel" /\ pc' = "result"
    /\ CancelWorker \/ (~IsBusy /\ UNCHANGED facade)
    /\ UNCHANGED <<browser, ui, ghosts>>

\* The outcome is read for the log, and again for Refresh().
FinishedPressed ==
    /\ pc = "input" /\ DetermineCurrentState = "OperationFinished"
    /\ Log
    /\ pc' = "refresh"
    /\ UNCHANGED <<facade, browser, ui>>

FinishedRefresh ==
    /\ pc = "refresh" /\ pc' = "finished"
    /\ \/ State = "Completed" /\ Browser!Refresh
       \/ State # "Completed" /\ UNCHANGED browser
    /\ UNCHANGED <<facade, ui, ghosts>>

(***************************************************************************)
(* Starting an operation.                                                  *)
(***************************************************************************)
Started ==
    /\ started < MaxOperations
    /\ started' = started + 1
    /\ unlogged' = unlogged + 1

\* StartDelete() fails when there is no thread, or it has failed by then.
Delete(deleted) ==
    /\ StartDelete(deleted)
    /\ Started
    /\ \/ /\ hasWorker' /\ Browser!UnmarkAll
          /\ open' = open \ {"DeleteConfirm", "RecursiveDeleteConfirm"}
       \/ /\ ~hasWorker'
          /\ open' = (open \ {"DeleteConfirm", "RecursiveDeleteConfirm"}) \cup {"Error"}
          /\ UNCHANGED browser
    /\ UNCHANGED <<reported, confirmed, consented, overwritten>>

\* A paste over a single file is asked about first.
RequestPaste(directory) ==
    LET asks == DestinationExists(directory) /\ CanReplaceDestination(directory)
    IN  \/ /\ asks /\ pc' = "result"
           /\ open' = (open \ {"ContextMenu"}) \cup {"OverwriteConfirm"}
           /\ pendingPasteDestination' = directory
           /\ consented' = {DestinationPath(directory, e) : e \in clipboardEntries}
        \/ /\ ~asks /\ pc' = "paste" /\ started < MaxOperations
           /\ consented' = {}
           /\ UNCHANGED <<open, pendingPasteDestination>>

OverwriteConfirmPressed ==
    /\ Handles("OverwriteConfirm")
    /\ \/ /\ pc' = "paste" /\ started < MaxOperations
          /\ UNCHANGED <<open, pendingPasteDestination, consented>>
       \/ /\ pc' = "result"
          /\ open' = open \ {"OverwriteConfirm"}
          /\ pendingPasteDestination' = <<>>
          /\ consented' = {}
    /\ UNCHANGED <<facade, browser, enabled, pendingTextInput,
                   unlogged, reported, confirmed, overwritten, started>>

\* StartPaste().  Meanwhile the flags of the menu and of the question are left
\* set: they are cleared in the same frame, and nobody reads them before.
Replacing   == "OverwriteConfirm" \in open
Destination == IF Replacing THEN pendingPasteDestination ELSE currentPath

PasteEnds ==
    /\ pc' = "result"
    /\ Started
    /\ open' = open \ {"ContextMenu", "OverwriteConfirm"}
    /\ pendingPasteDestination' = IF Replacing THEN <<>> ELSE pendingPasteDestination
    /\ UNCHANGED <<browser, enabled, pendingTextInput, reported, confirmed, consented>>

PasteRefusal ==
    /\ pc = "paste" /\ MayPaste
    /\ PasteRefused(Destination, Replacing)
    /\ overwritten' = {}
    /\ PasteEnds

PasteAccepted ==
    /\ pc = "paste" /\ MayPaste
    /\ ~Refused(Destination, Replacing)
    /\ overwritten' = PasteImages(Destination) \cap disk
    /\ \/ /\ IsRename /\ pc' = "rename"
          /\ UNCHANGED <<facade, browser, ui, unlogged, reported, confirmed, consented, started>>
       \/ /\ ~IsRename
          /\ PasteLaunched(Destination, Replacing)
          /\ PasteEnds

RenamePaste ==
    /\ pc = "rename"
    /\ PasteRenamed(Destination) \/ PasteLaunched(Destination, Replacing)
    /\ PasteEnds
    /\ UNCHANGED overwritten

PasteStep == PasteRefusal \/ PasteAccepted \/ RenamePaste

\* Folders are asked about a second time.  Mutant: they are not.
MutIncludesDirectory(deleted) == FALSE
IncludesDirectory(deleted) == \E e \in deleted : IsFolder(e)

\* Mutant: the first question stays open below the second.
MutAskAgain == open \cup {"RecursiveDeleteConfirm"}
AskAgain == (open \ {"DeleteConfirm"}) \cup {"RecursiveDeleteConfirm"}

DeleteConfirmPressed ==
    /\ Pressed("DeleteConfirm")
    /\ \/ ~IncludesDirectory(ActiveEntries) /\ Delete(ActiveEntries)
       \/ /\ IncludesDirectory(ActiveEntries)
          /\ open' = AskAgain
          /\ confirmed' = ActiveEntries
          /\ UNCHANGED <<facade, browser, unlogged, reported, consented, overwritten, started>>
    /\ UNCHANGED <<enabled, pendingTextInput, pendingPasteDestination>>

RecursiveDeleteConfirmPressed ==
    /\ Pressed("RecursiveDeleteConfirm")
    /\ Delete(ActiveEntries)
    /\ UNCHANGED <<enabled, pendingTextInput, pendingPasteDestination>>

(***************************************************************************)
(* Dialogs that only close, the quick places, the browser's own buttons.   *)
(***************************************************************************)
Close(overlay) ==
    /\ Pressed(overlay)
    /\ open' = open \ {overlay}
    /\ confirmed' = {}
    /\ UNCHANGED <<facade, browser, enabled, pendingTextInput, pendingPasteDestination,
                   unlogged, reported, consented, overwritten, started>>

ClosePressed ==
    \E overlay \in {"Error", "Properties", "DeleteConfirm", "RecursiveDeleteConfirm",
                    "QuickPlaces", "Settings", "ContextMenu"} : Close(overlay)

QuickPlacePressed ==
    /\ Pressed("QuickPlaces")
    /\ \E place \in Places : Browser!Open(place)
    /\ open' = open \ {"QuickPlaces"}
    /\ UNCHANGED <<worker, localState, operationKind, clipboard,
                   enabled, pendingTextInput, pendingPasteDestination, ghosts>>

IsPackage(path) == path # Browser!NoEntry /\ BaseName(path) \in Packages

\* OpenSelected() is true for a package, and for a folder that opens: then the
\* installer is started for what is selected now.  Nothing closes its overlay.
Cross ==
    LET opened == IsPackage(selected) \/ currentPath' # currentPath
    IN  /\ \/ Browser!OpenSelected
           \/ IsPackage(selected) /\ UNCHANGED <<disk, browser>>
        /\ pkgInstallerOpen' = (pkgInstallerOpen \/ (opened /\ IsPackage(selected')))

BrowsePressed ==
    /\ Pressed("Browsing")
    /\ \/ Cross
       \/ /\ \/ Browser!GoBack \/ (\E delta \in {-1, 1} : Browser!SwitchLocation(delta))
             \/ Browser!MoveSelection \/ Browser!ToggleSelectedMark
          /\ UNCHANGED pkgInstallerOpen
    /\ UNCHANGED <<worker, localState, operationKind, clipboard, ui, ghosts>>

\* The menu knows from when it is opened what can be chosen in it: what needs a
\* selection, what needs a clipboard.
MenuItems ==
    (IF selected # Browser!NoEntry THEN {"selection"} ELSE {})
    \cup (IF hasClipboard THEN {"clipboard"} ELSE {})

OpenPressed ==
    /\ Pressed("Browsing")
    /\ \/ open' = {"ContextMenu"} /\ enabled' = MenuItems
       \/ open' \in {{"QuickPlaces"}, {"Settings"}} /\ UNCHANGED enabled
    /\ UNCHANGED <<facade, browser, pendingTextInput, pendingPasteDestination, ghosts>>

(***************************************************************************)
(* The context menu.                                                       *)
(***************************************************************************)
MenuRefresh ==
    /\ Pressed("ContextMenu")
    /\ Browser!Refresh
    /\ UNCHANGED <<worker, localState, operationKind, clipboard, ui, ghosts>>

MenuProperties ==
    /\ Pressed("ContextMenu") /\ "selection" \in enabled
    /\ open' = (open \ {"ContextMenu"})
               \cup (IF selected # Browser!NoEntry THEN {"Properties"} ELSE {})
    /\ UNCHANGED <<facade, browser, enabled, pendingTextInput, pendingPasteDestination, ghosts>>

\* The system may refuse to show the text dialog; one at a time is open.
OpenTextInput(input) ==
    /\ "TextInput" \notin open
    /\ open' = (open \ {"ContextMenu"}) \cup {"TextInput"}
    /\ pendingTextInput' = input

\* A text dialog that does not open leaves the menu open below the error.
MenuTextInput(input) ==
    /\ Pressed("ContextMenu")
    /\ input = "Rename" => "selection" \in enabled
    /\ \/ /\ input = "Rename" => selected # Browser!NoEntry
          /\ OpenTextInput(input)
       \/ open' = open \cup {"Error"} /\ UNCHANGED pendingTextInput
    /\ UNCHANGED <<facade, browser, enabled, pendingPasteDestination, ghosts>>

MenuClipboard(action) ==
    /\ Pressed("ContextMenu") /\ "selection" \in enabled
    /\ \/ /\ ToClipboard(ActiveEntries, action)
          /\ Browser!UnmarkAll
          /\ open' = open \ {"ContextMenu"}
       \/ /\ ActiveEntries = {}
          /\ open' = open \cup {"Error"}
          /\ UNCHANGED <<facade, browser>>
    /\ UNCHANGED <<enabled, pendingTextInput, pendingPasteDestination, ghosts>>

MenuPaste ==
    /\ Handles("ContextMenu") /\ "clipboard" \in enabled
    /\ RequestPaste(currentPath)
    /\ overwritten' = {}
    /\ UNCHANGED <<facade, browser, enabled, pendingTextInput,
                   unlogged, reported, confirmed, started>>

MenuDelete ==
    /\ Pressed("ContextMenu") /\ "selection" \in enabled
    /\ open' = (open \ {"ContextMenu"})
               \cup (IF ActiveEntries # {} THEN {"DeleteConfirm"} ELSE {})
    /\ confirmed' = {e \in ActiveEntries : ~IsFolder(e)}
    /\ UNCHANGED <<facade, browser, enabled, pendingTextInput, pendingPasteDestination,
                   unlogged, reported, consented, overwritten, started>>

MenuPressed ==
    \/ MenuRefresh \/ MenuProperties \/ MenuPaste \/ MenuDelete
    \/ \E input \in {"NewFolder", "Rename"} : MenuTextInput(input)
    \/ \E action \in {"Copy", "Move"} : MenuClipboard(action)

(***************************************************************************)
(* The specification.  Neither the user has to press a button nor the text *)
(* dialog to be closed, and the other program owes nothing; the loop of    *)
(* the UI thread and the worker go on.                                     *)
(***************************************************************************)
FrameActs ==
    \/ ReportResult \/ NoResult \/ AcknowledgeResult
    \/ NoText \/ TextAccepted \/ TextCanceled
    \/ NoInput \/ CancelPressed \/ CancelOperation \/ FinishedPressed \/ FinishedRefresh
    \/ OverwriteConfirmPressed \/ DeleteConfirmPressed \/ RecursiveDeleteConfirmPressed
    \/ ClosePressed \/ QuickPlacePressed \/ OpenPressed \/ MenuPressed \/ PasteStep

UiActs == BrowsePressed \/ (FrameActs /\ UNCHANGED pkgInstallerOpen)

\* Every frame ends with a drawing.
UiStep == UiActs /\ drawn' = IF pc' = "result" THEN Shown' ELSE drawn

Elsewhere  == UNCHANGED <<browser, pc, ui, pkgInstallerOpen, ghosts, drawn>>
WorkerRuns == WorkerStep /\ Elsewhere
OthersRun  == OthersWrite /\ Elsewhere

Next == UiStep \/ WorkerRuns \/ OthersRun
Spec == AppInit /\ [][Next]_vars /\ WF_vars(UiStep) /\ WF_vars(WorkerRuns)

(***************************************************************************)
(* Properties.                                                             *)
(***************************************************************************)
\* Every operation is in the log exactly once when it has been acknowledged,
\* whether its end is seen at the head of the frame or by the handler of the
\* pad, and none is started over a result that nobody has reported (Run,
\* HandleOperationFinishedInput, DetermineCurrentState).
ReportedOnce ==
    unlogged = IF (IsBusy \/ HasResult) /\ pc \notin {"acknowledge", "refresh", "finished"}
               THEN 1 ELSE 0

\* Once the thread is joined the outcome is the one in the log, unless the user
\* canceled too late to be told so, or the rollback then failed.
OutcomeIsHonest ==
    pc \in {"acknowledge", "finished"} /\ thread # "running" /\ State # reported =>
        cancelRequested /\ State # "Completed"

\* What StartPaste() finds in its way and lets pass is what the user has agreed
\* to overwrite, that very file and never a folder, whatever another program has
\* put there or taken away since RequestPaste() looked: before the question,
\* while it is open, and after the answer (RequestPaste, CanReplaceDestination
\* and the checks of StartPaste).  It does not speak of what comes after these
\* checks: a file written between them and rename() is replaced unasked.
OverwritesOnlyConfirmed ==
    overwritten \subseteq consented /\ \A p \in overwritten : ~IsFolder(p)

\* No path goes away by the application unless the user asked for it: by the
\* delete dialog that names it, by cutting it, by a new name, or because a paste
\* that would have made it was canceled (the handlers of the dialogs, Delete,
\* StartPaste).
NothingGoesUnasked ==
    [][~OthersWrite => \A p \in disk \ disk' :
         \/ operationKind' = "Delete" /\ p \in Below(disk, confirmed)
         \/ operation.kind = "Move" /\ p \in operation.sources
         \/ hasClipboard /\ clipboardAction = "Move" /\ p \in Below(disk, clipboardEntries)
         \/ pendingTextInput = "Rename" /\ IsPathWithin(p, selected)
         \/ state' = "Canceled" /\ p \in operation.images]_vars

\* The clipboard loses its files only to a move by the worker, to a new name or
\* to a canceled overwrite (and to another program): a deletion and a move by
\* rename() clear it first.
ClipboardFollows ==
    [][~OthersWrite /\ clipboardEntries \cap clipboardEntries' \cap (disk \ disk') # {} =>
         \/ operation.kind = "Move" /\ thread = "running"
         \/ operationKind' = "Move" /\ localState' = "Failed"
         \/ pendingTextInput = "Rename"
         \/ state' = "Canceled"]_vars

\* The UI thread changes the disk only while no worker thread runs: the two
\* never write at the same time (DetermineCurrentState, Acknowledge).
UiWritesAlone == [][UiStep /\ disk' # disk => thread # "running"]_vars

\* Below the overlay of the installer, which is painted over everything and never
\* gets the pad, the pad belongs to what is on top, though the overlays have one
\* order when they are drawn and another when they are asked for input.  Only the
\* end of an operation or of the text dialog, seen in the frame itself, hands the
\* pad to a message or to the browser before they are drawn: never to a question
\* (DetermineCurrentState, ExplorerUi::Draw).
PadGoesToTopDialog ==
    LET owner == IF IsBusy \/ HasResult THEN "CopyProgress" ELSE TopOverlay
        top   == Topmost(drawn \ {"PkgInstaller"})
    IN  pc = "input" =>
            \/ owner = top
            \/ top \in {"CopyProgress", "TextInput"} /\ owner \in {"Error", "Browsing"}

\* To the file browser the rest of the application is what its specification
\* takes it for, beside another program as well: the folder on the screen is
\* never moved, renamed or deleted away, not even by pasting a folder that was
\* cut before the user entered it.
ImplementsBrowser == [][Browser!Next]_<<disk, browser>>

\* Every operation that is started is reported, and no wait of the UI thread
\* for the worker lasts forever (Run, Acknowledge).
EveryOperationReported == unlogged = 1 ~> unlogged = 0
FramesGoOn == []<>(pc = "result")
=============================================================================
