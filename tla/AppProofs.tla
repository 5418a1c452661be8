------------------------------ MODULE AppProofs ------------------------------
(***************************************************************************)
(* Proofs about App: how the frame loop, the facade and the worker thread  *)
(* stand to each other.  They hold for every disk, every set of names and  *)
(* any number of operations.                                               *)
(***************************************************************************)
EXTENDS App, SequenceTheorems, WellFoundedInduction, TLAPS

(***************************************************************************)
(* The invariant.                                                          *)
(***************************************************************************)
Reporting == {"acknowledge", "refresh", "finished"}
Pasting   == {"paste", "rename"}

\* A worker object has a thread or had one, and without an object there is no
\* operation under way.
WorkerInv ==
    /\ hasWorker \in BOOLEAN
    /\ hasWorker => thread \in {"running", "gone"} /\ state \in {"Copying"} \cup Worker!Outcomes
    /\ ~hasWorker => /\ thread = "idle" /\ state = "Idle"
                     /\ localState \in {"Idle", "Completed", "Failed"}
    /\ state = "Copying" => thread = "running"
    /\ state = "Canceled" => cancelRequested

Overlays == {"TextInput", "Error", "Properties", "OverwriteConfirm", "DeleteConfirm",
             "RecursiveDeleteConfirm", "QuickPlaces", "Settings", "ContextMenu"}

\* No operation is started below an open text dialog.
OpenInv == open \subseteq Overlays /\ ("TextInput" \in open => State = "Idle")

\* What the log says of an operation that waits to be acknowledged.
ReportInv ==
    pc \in Reporting =>
        /\ HasResult
        /\ State = reported \/ (cancelRequested /\ State # "Completed")

\* While StartPaste() is under way there is no other operation.
PasteInv == pc \in Pasting => State = "Idle" /\ "TextInput" \notin open

ControlInv == WorkerInv /\ OpenInv /\ ReportInv /\ PasteInv /\ ReportedOnce

USE DEF worker, facade, clipboard, ui, ghosts, Reporting, Pasting, Overlays

\* The application starts without a worker.
LEMMA AppStarts == AppInit => ControlInv
BY DEF AppInit, Init, Worker!Init, ControlInv, WorkerInv, OpenInv, ReportInv, PasteInv,
       ReportedOnce, IsBusy, HasResult, State, Worker!Outcomes

(***************************************************************************)
(* Who has the pad.                                                        *)
(***************************************************************************)
\* The text dialog comes first.
LEMMA TextComesFirst == "TextInput" \in open => TopOverlay = "TextInput"
<1>. SUFFICES ASSUME "TextInput" \in open PROVE TopOverlay = "TextInput"
  OBVIOUS
<1>. DEFINE First(i) == Priority[i] \in open /\ \A j \in 1 .. (i - 1) : Priority[j] \notin open
            top == CHOOSE i \in DOMAIN Priority : First(i)
<1>1. DOMAIN Priority = 1 .. 9 /\ Priority[1] = "TextInput"
  BY DEF Priority
<1>2. 1 \in DOMAIN Priority /\ First(1)
  BY <1>1
<1>3. top \in DOMAIN Priority /\ First(top)
  <2>. HIDE DEF First
  <2>. QED BY <1>2
<1>4. top = 1
  <2>. HIDE DEF top
  <2>. QED BY <1>1, <1>3
<1>. QED BY <1>1, <1>4 DEF TopOverlay

\* Where the overlays stand in the order in which they are asked for input.
LEMMA PriorityFacts ==
    /\ DOMAIN Priority = 1 .. 9
    /\ Priority[1] = "TextInput" /\ Priority[2] = "Error"
    /\ \A overlay \in Overlays : \E i \in 1 .. 9 : Priority[i] = overlay
<1>1. DOMAIN Priority = 1 .. 9
  BY DEF Priority
<1>2. /\ Priority[1] = "TextInput" /\ Priority[2] = "Error"
      /\ Priority[3] = "Properties" /\ Priority[4] = "OverwriteConfirm"
      /\ Priority[5] = "DeleteConfirm" /\ Priority[6] = "RecursiveDeleteConfirm"
      /\ Priority[7] = "QuickPlaces" /\ Priority[8] = "Settings"
      /\ Priority[9] = "ContextMenu"
  BY DEF Priority
<1>3. 1 \in 1 .. 9 /\ 2 \in 1 .. 9 /\ 3 \in 1 .. 9 /\ 4 \in 1 .. 9 /\ 5 \in 1 .. 9
      /\ 6 \in 1 .. 9 /\ 7 \in 1 .. 9 /\ 8 \in 1 .. 9 /\ 9 \in 1 .. 9
  OBVIOUS
<1>. QED BY <1>1, <1>2, <1>3

\* An overlay that is open is asked, and none that comes after one that is open.
LEMMA TopIsOpen ==
    ASSUME open \subseteq Overlays, open # {}
    PROVE  \E top \in 1 .. 9 : /\ TopOverlay = Priority[top] /\ TopOverlay \in open
                               /\ \A j \in 1 .. (top - 1) : Priority[j] \notin open
<1>. DEFINE In(i) == Priority[i] \in open
            First(i) == In(i) /\ \A j \in 1 .. (i - 1) : Priority[j] \notin open
            top == CHOOSE i \in DOMAIN Priority : First(i)
<1>1. \E i \in 1 .. 9 : In(i)
  <2>. HIDE DEF Overlays
  <2>1. PICK overlay \in open : overlay \in Overlays
    OBVIOUS
  <2>. QED BY <2>1, PriorityFacts
<1>2. PICK i \in 1 .. 9 : First(i)
  <2>1. \/ First(1) \/ First(2) \/ First(3) \/ First(4) \/ First(5)
        \/ First(6) \/ First(7) \/ First(8) \/ First(9)
    BY <1>1
  <2>. QED BY <2>1
<1>3. top \in 1 .. 9 /\ First(top)
  <2>. HIDE DEF First
  <2>. QED BY <1>2, PriorityFacts
<1>. QED BY <1>3 DEF TopOverlay

\* No overlay has the name of a state of an operation.
LEMMA TopIsOverlay == open \subseteq Overlays => TopOverlay # "OperationFinished"
BY TopIsOpen DEF TopOverlay

\* A dialog or the browser has the pad only while there is no operation, and
\* none but the text dialog while that is open.
LEMMA PadIsIdle ==
    ASSUME ControlInv, NEW overlay, Handles(overlay),
           overlay \notin {"OperationRunning", "OperationFinished", "TextInput"}
    PROVE  /\ State = "Idle" /\ ~hasWorker /\ thread = "idle"
           /\ "TextInput" \notin open /\ open \subseteq Overlays
           /\ pc = "input"
           /\ unlogged = 0
<1>1. ~IsBusy /\ ~HasResult /\ overlay = TopOverlay /\ pc = "input"
  BY DEF Handles, DetermineCurrentState
<1>2. State = "Idle" /\ ~hasWorker
  BY <1>1 DEF ControlInv, WorkerInv, IsBusy, HasResult, State, Worker!Outcomes
<1>3. "TextInput" \notin open
  BY <1>1, TextComesFirst
<1>. QED BY <1>1, <1>2, <1>3 DEF ControlInv, WorkerInv, OpenInv, ReportedOnce

(***************************************************************************)
(* The steps.                                                              *)
(***************************************************************************)
\* A step between two reports that leaves the operation alone.
Quiet ==
    /\ UNCHANGED <<worker, localState, unlogged, reported>>
    /\ pc \notin Reporting /\ pc' \notin Reporting
    /\ open' \subseteq Overlays
    /\ "TextInput" \in open' \/ pc' \in Pasting => State = "Idle"
    /\ pc' \in Pasting => "TextInput" \notin open'

\* The invariant speaks of the operation only.
LEMMA QuietKeepsControl == ControlInv /\ Quiet => ControlInv'
BY DEF Quiet, ControlInv, WorkerInv, OpenInv, ReportInv, PasteInv, ReportedOnce, IsBusy,
       HasResult, State, Worker!Outcomes

\* The parts of a frame before the handler of the pad, and the buttons that
\* only lead to one.
LEMMA FrameIsQuiet ==
    ASSUME ControlInv,
           NoResult \/ NoText \/ TextAccepted \/ TextCanceled \/ NoInput \/ CancelPressed
    PROVE  Quiet
BY DEF NoResult, NoText, TextAccepted, TextCanceled, NoInput, CancelPressed, AfterResult,
       Quiet, ControlInv, OpenInv

\* The browser never has a part in an operation.
LEMMA BrowseIsQuiet ==
    ASSUME ControlInv,
           ClosePressed \/ QuickPlacePressed \/ BrowsePressed \/ OpenPressed
    PROVE  Quiet
<1>1. CASE ClosePressed
  BY <1>1, PadIsIdle DEF ClosePressed, Close, Pressed, Quiet
<1>2. CASE QuickPlacePressed
  BY <1>2, PadIsIdle DEF QuickPlacePressed, Pressed, Quiet
<1>3. CASE BrowsePressed
  BY <1>3, PadIsIdle DEF BrowsePressed, Pressed, Quiet
<1>4. CASE OpenPressed
  BY <1>4, PadIsIdle DEF OpenPressed, Pressed, Quiet
<1>. QED BY <1>1, <1>2, <1>3, <1>4

\* The menu starts nothing itself.
LEMMA MenuIsQuiet == ASSUME ControlInv, MenuPressed PROVE Quiet
<1>1. CASE MenuRefresh
  BY <1>1, PadIsIdle DEF MenuRefresh, Pressed, Quiet
<1>2. CASE MenuProperties
  BY <1>2, PadIsIdle DEF MenuProperties, Pressed, Quiet
<1>3. CASE MenuDelete
  BY <1>3, PadIsIdle DEF MenuDelete, Pressed, Quiet
<1>4. ASSUME NEW input \in {"NewFolder", "Rename"}, MenuTextInput(input) PROVE Quiet
  BY <1>4, PadIsIdle DEF MenuTextInput, OpenTextInput, Pressed, Quiet
<1>5. ASSUME NEW action \in {"Copy", "Move"}, MenuClipboard(action) PROVE Quiet
  BY <1>5, PadIsIdle DEF MenuClipboard, ToClipboard, Pressed, Quiet
<1>6. CASE MenuPaste
  BY <1>6, PadIsIdle DEF MenuPaste, RequestPaste, Quiet
<1>. QED BY <1>1, <1>2, <1>3, <1>4, <1>5, <1>6 DEF MenuPressed

\* A paste or a deletion that starts: afterwards there is one more operation,
\* under way or with a result, that is not in the log.
Starts ==
    /\ unlogged' = unlogged + 1 /\ reported' = reported
    /\ "TextInput" \notin open' /\ open' \subseteq Overlays
    /\ \/ /\ hasWorker' = TRUE /\ thread' = "running"
          /\ state' = "Copying" /\ cancelRequested' = FALSE
       \/ /\ hasWorker' = FALSE /\ thread' = "idle" /\ state' = "Idle"
          /\ localState' \in {"Completed", "Failed"}

\* Every way through StartPaste() ends with such a start.
LEMMA PasteStarts ==
    ASSUME ControlInv, PasteStep
    PROVE  Quiet \/ (Starts /\ pc' = "result" /\ unlogged = 0)
<1>1. /\ State = "Idle" /\ ~hasWorker /\ "TextInput" \notin open /\ open \subseteq Overlays
      /\ thread = "idle" /\ state = "Idle" /\ unlogged = 0 /\ pc \in Pasting
  BY DEF PasteStep, PasteRefusal, PasteAccepted, RenamePaste, ControlInv, PasteInv, WorkerInv,
         OpenInv, ReportedOnce, IsBusy, HasResult, State, Worker!Outcomes
<1>2. PasteEnds => /\ unlogged' = unlogged + 1 /\ reported' = reported /\ pc' = "result"
                   /\ "TextInput" \notin open' /\ open' \subseteq Overlays
  BY <1>1 DEF PasteEnds, Started
<1>3. CASE PasteRefusal
  BY <1>1, <1>2, <1>3 DEF PasteRefusal, PasteRefused, Starts
<1>4. ASSUME NEW directory, NEW replace, PasteLaunched(directory, replace), PasteEnds
      PROVE  Starts
  BY <1>1, <1>2, <1>4 DEF PasteLaunched, Launch, NoWorker, Starts
<1>5. CASE PasteAccepted
  <2>1. CASE pc' = "rename" /\ UNCHANGED <<facade, ui, unlogged, reported>>
    BY <1>1, <2>1 DEF Quiet
  <2>. QED BY <1>1, <1>2, <1>4, <1>5, <2>1 DEF PasteAccepted
<1>6. CASE RenamePaste
  <2>1. CASE PasteRenamed(Destination)
    BY <1>1, <1>2, <1>6, <2>1 DEF RenamePaste, PasteRenamed, Starts
  <2>. QED BY <1>1, <1>2, <1>4, <1>6, <2>1 DEF RenamePaste
<1>. QED BY <1>3, <1>5, <1>6 DEF PasteStep

\* A deletion starts a worker, or none when there is no thread.
LEMMA DeleteStarts ==
    ASSUME NEW deleted, Delete(deleted), "TextInput" \notin open,
           open \subseteq Overlays
    PROVE  Starts
<1>1. StartDelete(deleted) /\ unlogged' = unlogged + 1 /\ reported' = reported
  BY DEF Delete, Started
<1>2. "TextInput" \notin open' /\ open' \subseteq Overlays
  BY DEF Delete
<1>. QED BY <1>1, <1>2 DEF StartDelete, Launch, NoWorker, Starts

\* The answers that may start an operation start one, or do nothing to it.
LEMMA ConfirmStarts ==
    ASSUME ControlInv,
           OverwriteConfirmPressed \/ DeleteConfirmPressed \/ RecursiveDeleteConfirmPressed
    PROVE  Quiet \/ (Starts /\ pc' = "result" /\ unlogged = 0)
<1>1. /\ State = "Idle" /\ "TextInput" \notin open /\ open \subseteq Overlays
      /\ pc = "input" /\ unlogged = 0
  BY PadIsIdle DEF OverwriteConfirmPressed, DeleteConfirmPressed,
                   RecursiveDeleteConfirmPressed, Pressed
<1>2. CASE OverwriteConfirmPressed
  BY <1>1, <1>2 DEF OverwriteConfirmPressed, Quiet
<1>3. CASE DeleteConfirmPressed
  <2>1. pc' = "result"
    BY <1>3 DEF DeleteConfirmPressed, Pressed
  <2>2. CASE Delete(ActiveEntries)
    BY <1>1, <2>1, <2>2, DeleteStarts
  <2>3. CASE open' = AskAgain /\ UNCHANGED <<facade, unlogged, reported>>
    BY <1>1, <2>1, <2>3 DEF AskAgain, Quiet
  <2>. QED BY <1>3, <2>2, <2>3 DEF DeleteConfirmPressed
<1>4. CASE RecursiveDeleteConfirmPressed
  BY <1>1, <1>4, DeleteStarts DEF RecursiveDeleteConfirmPressed, Pressed
<1>. QED BY <1>2, <1>3, <1>4

\* A start makes up for the operation that is not in the log.
LEMMA StartsKeepsControl ==
    ASSUME ControlInv, Starts, pc' = "result", unlogged = 0 PROVE ControlInv'
<1>1. WorkerInv' /\ OpenInv' /\ ReportInv' /\ PasteInv'
  BY DEF Starts, ControlInv, WorkerInv, OpenInv, ReportInv, PasteInv, Worker!Outcomes
<1>2. (IsBusy \/ HasResult)'
  BY DEF Starts, IsBusy, HasResult, State, Worker!Outcomes
<1>3. unlogged' = 1
  BY DEF Starts
<1>. QED BY <1>1, <1>2, <1>3 DEF ControlInv, ReportedOnce

\* The result of an operation, from the log to Acknowledge().
LEMMA ReportKeepsControl ==
    ASSUME ControlInv,
           \/ ReportResult \/ AcknowledgeResult \/ FinishedPressed \/ FinishedRefresh
    PROVE  ControlInv'
<1>. USE DEF ControlInv, WorkerInv, OpenInv, ReportInv, PasteInv, ReportedOnce, IsBusy,
             HasResult, State, Worker!Outcomes
<1>1. CASE ReportResult
  BY <1>1 DEF ReportResult, Log
<1>2. CASE AcknowledgeResult
  BY <1>2 DEF AcknowledgeResult, Acknowledge, NoWorker, AfterResult
<1>3. CASE FinishedPressed
  <2>1. HasResult
    <3>1. TopOverlay # "OperationFinished"
      BY TopIsOverlay
    <3>. QED BY <1>3, <3>1 DEF FinishedPressed, DetermineCurrentState
  <2>. QED BY <1>3, <2>1 DEF FinishedPressed, Log
<1>4. CASE FinishedRefresh
  BY <1>4 DEF FinishedRefresh
<1>. QED BY <1>1, <1>2, <1>3, <1>4

\* Cancel() leaves an operation that is under way or has a result.
LEMMA CancelKeepsControl == ControlInv /\ CancelOperation => ControlInv'
BY DEF CancelOperation, CancelWorker, Worker!Cancel, ControlInv, WorkerInv, OpenInv,
       ReportInv, PasteInv, ReportedOnce, IsBusy, HasResult, State, Worker!Outcomes

\* The worker never takes a result back to "Copying", nor makes a "Completed"
\* of one.
LEMMA WorkerKeepsControl == ControlInv /\ WorkerRuns => ControlInv'
<1>. SUFFICES ASSUME ControlInv, WorkerRuns PROVE ControlInv'
  OBVIOUS
<1>. USE DEF ControlInv, WorkerInv, OpenInv, ReportInv, PasteInv, ReportedOnce, IsBusy,
             HasResult, State, Worker!Outcomes, WorkerRuns, WorkerStep, Elsewhere
<1>1. CASE WorkerCompletes
  BY <1>1 DEF WorkerCompletes, Worker!Complete
<1>2. CASE WorkerFails
  BY <1>2 DEF WorkerFails, Worker!Fail
<1>3. CASE WorkerRecants
  BY <1>3 DEF WorkerRecants, Worker!Recant
<1>4. CASE WorkerFinishes
  BY <1>4 DEF WorkerFinishes, Worker!Finish
<1>. QED BY <1>1, <1>2, <1>3, <1>4

\* What is on the disk is nothing to it, so that others may write.
LEMMA DiskIsNoControl ==
    ControlInv /\ UNCHANGED <<worker, localState, pc, open, unlogged, reported>> => ControlInv'
BY DEF ControlInv, WorkerInv, OpenInv, ReportInv, PasteInv, ReportedOnce, IsBusy, HasResult,
       State, Worker!Outcomes

\* Every step of the UI thread, of the worker and of another program.
LEMMA NextKeepsControl == ControlInv /\ [Next]_vars => ControlInv'
<1>. SUFFICES ASSUME ControlInv, [Next]_vars PROVE ControlInv'
  OBVIOUS
<1>1. CASE UiActs
  BY <1>1, QuietKeepsControl, FrameIsQuiet, BrowseIsQuiet, MenuIsQuiet, ConfirmStarts,
     PasteStarts, StartsKeepsControl, ReportKeepsControl, CancelKeepsControl
     DEF UiActs, FrameActs
<1>2. CASE WorkerRuns
  BY <1>2, WorkerKeepsControl
<1>3. CASE OthersRun \/ UNCHANGED vars
  BY <1>3, DiskIsNoControl DEF OthersRun, OthersWrite, Elsewhere, vars
<1>. QED BY <1>1, <1>2, <1>3 DEF Next, UiStep

\* The invariant of the frame loop.
LEMMA ControlInvariance == Spec => []ControlInv
BY AppStarts, NextKeepsControl, PTL DEF Spec

\* Every operation is in the log exactly once when it has been acknowledged,
\* seen at the head of the frame or by the handler of the pad (App::Run,
\* HandleOperationFinishedInput).
THEOREM LoggedOnce == Spec => []ReportedOnce
BY ControlInvariance, PTL DEF ControlInv

\* When the worker is joined its outcome is the one in the log, or that of a
\* cancellation which came too late, and then never "Completed".
THEOREM HonestOutcome == Spec => []OutcomeIsHonest
<1>1. ControlInv => OutcomeIsHonest
  BY DEF ControlInv, ReportInv, OutcomeIsHonest
<1>. QED BY <1>1, ControlInvariance, PTL

\* Only the end of a text dialog, of StartPaste() and of StartDelete() can change
\* the disk in a step of the UI thread.
LEMMA OthersKeepDisk ==
    ASSUME UiActs, disk' # disk
    PROVE  TextAccepted \/ PasteStep \/ DeleteConfirmPressed \/ RecursiveDeleteConfirmPressed
<1>1. ~(NoResult \/ NoText \/ TextCanceled \/ NoInput \/ CancelPressed \/ FinishedPressed)
  BY DEF NoResult, NoText, TextCanceled, NoInput, CancelPressed, FinishedPressed
<1>2. ~(ReportResult \/ AcknowledgeResult \/ FinishedRefresh \/ CancelOperation)
  BY DEF ReportResult, AcknowledgeResult, Acknowledge, FinishedRefresh, CancelOperation,
         CancelWorker
<1>3. ~ClosePressed /\ ~OpenPressed /\ ~OverwriteConfirmPressed
  BY DEF ClosePressed, Close, OpenPressed, OverwriteConfirmPressed
<1>4. ~QuickPlacePressed /\ ~BrowsePressed
  BY DEF QuickPlacePressed, BrowsePressed, Cross, Browser!Open, Browser!OpenSelected,
         Browser!GoBack, Browser!SwitchLocation, Browser!MoveSelection,
         Browser!ToggleSelectedMark
<1>5. ~(MenuRefresh \/ MenuProperties \/ MenuDelete \/ MenuPaste)
  BY DEF MenuRefresh, MenuProperties, MenuDelete, MenuPaste, Browser!Refresh
<1>6. ~(\E input \in {"NewFolder", "Rename"} : MenuTextInput(input))
  BY DEF MenuTextInput
<1>7. ~(\E action \in {"Copy", "Move"} : MenuClipboard(action))
  BY DEF MenuClipboard, ToClipboard
<1>. QED BY <1>1, <1>2, <1>3, <1>4, <1>5, <1>6, <1>7 DEF UiActs, FrameActs, MenuPressed

\* The UI thread writes to the disk only while no worker thread runs: a new
\* folder, a new name and a move by rename() never meet a copy or a deletion.
THEOREM UiAlone == Spec => UiWritesAlone
<1>1. ControlInv /\ [Next]_vars => (UiStep /\ disk' # disk => thread # "running")
  <2>. SUFFICES ASSUME ControlInv, UiActs, disk' # disk PROVE thread # "running"
    BY DEF UiStep
  <2>1. CASE TextAccepted
    <3>1. State = "Idle"
      BY <2>1 DEF TextAccepted, ControlInv, OpenInv
    <3>. QED BY <3>1 DEF ControlInv, WorkerInv, State, Worker!Outcomes
  <2>2. CASE PasteStep
    <3>1. State = "Idle"
      BY <2>2 DEF PasteStep, PasteRefusal, PasteAccepted, RenamePaste, ControlInv, PasteInv
    <3>. QED BY <3>1 DEF ControlInv, WorkerInv, State, Worker!Outcomes
  <2>3. CASE DeleteConfirmPressed \/ RecursiveDeleteConfirmPressed
    BY <2>3, PadIsIdle DEF DeleteConfirmPressed, RecursiveDeleteConfirmPressed, Pressed
  <2>. QED BY <2>1, <2>2, <2>3, OthersKeepDisk
<1>. QED BY <1>1, ControlInvariance, PTL DEF Spec, UiWritesAlone

(***************************************************************************)
(* The screen and the pad.                                                 *)
(***************************************************************************)
Occupied == IsBusy \/ HasResult

\* Dialogs follow each other, they do not pile up: only an error may come over
\* the menu.  While there is an operation or its result, no question is open, and
\* a paste is started by the menu or by the question.
ShapeInv ==
    /\ open = {} \/ (\E overlay \in Overlays : open = {overlay}) \/ open = {"ContextMenu", "Error"}
    /\ Occupied => open \subseteq {"Error"}
    /\ pc \in Pasting => open = {"ContextMenu"} \/ open = {"OverwriteConfirm"}

\* What is shown and what was drawn below the overlay of the installer.
DialogsShown == open \cup (IF Occupied THEN {"CopyProgress"} ELSE {})
DialogsDrawn == drawn \ {"PkgInstaller"}
DrawnOnTop   == Topmost(DialogsDrawn)

\* What was drawn last, as long as the frame goes on.
DrawnInv ==
    /\ pc = "result" => DialogsDrawn = DialogsShown
    /\ pc = "acknowledge" => DrawnOnTop = "CopyProgress"
    /\ pc = "text" => open = {"TextInput"} /\ DrawnOnTop = "TextInput"
    /\ PadGoesToTopDialog

\* The same of the order in which the overlays are drawn.
LEMMA DrawOrderFacts ==
    /\ DOMAIN DrawOrder = 1 .. 11 /\ Len(DrawOrder) = 11
    /\ DrawOrder[3] = "Error" /\ DrawOrder[4] = "CopyProgress"
    /\ \A overlay \in Overlays \cup {"CopyProgress"} : \E i \in 1 .. 11 : DrawOrder[i] = overlay
    /\ \A i \in 1 .. 11 : (i < 3 => DrawOrder[i] \notin {"Error", "CopyProgress"})
                          /\ (i > 4 => DrawOrder[i] \notin {"ContextMenu", "Error", "CopyProgress"})
<1>1. DOMAIN DrawOrder = 1 .. 11 /\ Len(DrawOrder) = 11
  BY DEF DrawOrder
<1>2. /\ DrawOrder[1] = "ContextMenu" /\ DrawOrder[2] = "Properties" /\ DrawOrder[3] = "Error"
      /\ DrawOrder[4] = "CopyProgress" /\ DrawOrder[5] = "OverwriteConfirm"
      /\ DrawOrder[6] = "DeleteConfirm" /\ DrawOrder[7] = "RecursiveDeleteConfirm"
      /\ DrawOrder[8] = "Settings" /\ DrawOrder[9] = "QuickPlaces"
      /\ DrawOrder[10] = "PkgInstaller" /\ DrawOrder[11] = "TextInput"
  BY DEF DrawOrder
<1>3. \A i \in 1 .. 11 : \/ i = 1 \/ i = 2 \/ i = 3 \/ i = 4 \/ i = 5 \/ i = 6
                         \/ i = 7 \/ i = 8 \/ i = 9 \/ i = 10 \/ i = 11
  OBVIOUS
<1>4. \A overlay \in Overlays \cup {"CopyProgress"} : \E i \in 1 .. 11 : DrawOrder[i] = overlay
  <2>1. 1 \in 1 .. 11 /\ 2 \in 1 .. 11 /\ 3 \in 1 .. 11 /\ 4 \in 1 .. 11 /\ 5 \in 1 .. 11
        /\ 6 \in 1 .. 11 /\ 7 \in 1 .. 11 /\ 8 \in 1 .. 11 /\ 9 \in 1 .. 11 /\ 11 \in 1 .. 11
    OBVIOUS
  <2>. QED BY <1>2, <2>1
<1>. QED BY <1>1, <1>2, <1>3, <1>4

\* What is drawn last is shown, and nothing that is drawn after it.
LEMMA TopmostIsShown ==
    ASSUME NEW shown, shown \subseteq Overlays \cup {"CopyProgress"}, shown # {}
    PROVE  \E top \in 1 .. 11 : /\ Topmost(shown) = DrawOrder[top] /\ Topmost(shown) \in shown
                                /\ \A j \in (top + 1) .. 11 : DrawOrder[j] \notin shown
<1>. DEFINE In(i) == DrawOrder[i] \in shown
            Last(i) == In(i) /\ \A j \in (i + 1) .. 11 : DrawOrder[j] \notin shown
            Chosen(i) == /\ DrawOrder[i] \in shown
                         /\ \A j \in (i + 1) .. Len(DrawOrder) : DrawOrder[j] \notin shown
            top == CHOOSE i \in DOMAIN DrawOrder : Chosen(i)
<1>1. \E i \in 1 .. 11 : In(i)
  <2>. HIDE DEF Overlays
  <2>1. PICK overlay \in shown : overlay \in Overlays \cup {"CopyProgress"}
    OBVIOUS
  <2>. QED BY <2>1, DrawOrderFacts
<1>2. PICK i \in 1 .. 11 : Last(i)
  <2>1. \/ Last(1) \/ Last(2) \/ Last(3) \/ Last(4) \/ Last(5) \/ Last(6)
        \/ Last(7) \/ Last(8) \/ Last(9) \/ Last(10) \/ Last(11)
    BY <1>1
  <2>. QED BY <2>1
<1>3. top \in 1 .. 11 /\ Chosen(top)
  <2>1. Chosen(i)
    BY <1>2, DrawOrderFacts
  <2>. HIDE DEF Chosen
  <2>. QED BY <2>1, DrawOrderFacts
<1>4. Topmost(shown) = DrawOrder[top]
  BY DEF Topmost
<1>. QED BY <1>3, <1>4, DrawOrderFacts

\* While there is an operation its progress is drawn over a message.
LEMMA ProgressOnTop ==
    ASSUME Occupied, open \subseteq {"Error"} PROVE Topmost(DialogsShown) = "CopyProgress"
<1>. DEFINE shown == open \cup {"CopyProgress"}
<1>1. PICK top \in 1 .. 11 : /\ Topmost(shown) = DrawOrder[top] /\ Topmost(shown) \in shown
                             /\ \A j \in (top + 1) .. 11 : DrawOrder[j] \notin shown
  BY TopmostIsShown
<1>2. Topmost(shown) = "Error" \/ Topmost(shown) = "CopyProgress"
  BY <1>1
<1>3. ~(top < 3) /\ ~(top > 4)
  BY <1>1, <1>2, DrawOrderFacts
<1>4. top = 4 \/ top = 3
  BY <1>3
<1>5. top = 3 => 4 \in (top + 1) .. 11
  OBVIOUS
<1>6. top # 3
  <2>1. DrawOrder[4] \in shown
    BY DrawOrderFacts
  <2>. QED BY <1>1, <1>5, <2>1
<1>7. Topmost(shown) = "CopyProgress"
  BY <1>1, <1>4, <1>6, DrawOrderFacts
<1>. QED BY <1>7 DEF DialogsShown

\* Without an operation the overlay on top of the screen is the one that is
\* asked for input first.
LEMMA SameOnTop ==
    ASSUME ShapeInv, ~Occupied
    PROVE  DialogsShown = open /\ Topmost(open) = TopOverlay
<1>. DEFINE Same == Topmost(open) = TopOverlay
<1>1. open = {} => Same
  BY DEF Topmost, TopOverlay
<1>2. ASSUME NEW overlay \in Overlays, open = {overlay} PROVE Same
  <2>1. Topmost(open) \in open
    BY <1>2, TopmostIsShown
  <2>2. TopOverlay \in open
    BY <1>2, TopIsOpen
  <2>. QED BY <1>2, <2>1, <2>2
<1>3. ASSUME open = {"ContextMenu", "Error"} PROVE Same
  <2>1. PICK top \in 1 .. 11 : /\ Topmost(open) = DrawOrder[top] /\ Topmost(open) \in open
                               /\ \A j \in (top + 1) .. 11 : DrawOrder[j] \notin open
    BY <1>3, TopmostIsShown
  <2>2. top >= 3
    BY <1>3, <2>1, DrawOrderFacts
  <2>3. top \in {3, 4}
    BY <1>3, <2>1, <2>2, DrawOrderFacts
  <2>4. Topmost(open) = "Error"
    BY <1>3, <2>1, <2>3, DrawOrderFacts
  <2>5. PICK first \in 1 .. 9 : /\ TopOverlay = Priority[first] /\ TopOverlay \in open
                                /\ \A j \in 1 .. (first - 1) : Priority[j] \notin open
    BY <1>3, TopIsOpen
  <2>6. first <= 2
    BY <1>3, <2>5, PriorityFacts
  <2>. QED BY <1>3, <2>4, <2>5, <2>6, PriorityFacts
<1>4. DialogsShown = open
  BY DEF DialogsShown
<1>. QED BY <1>1, <1>2, <1>3, <1>4 DEF ShapeInv

\* Which overlays are open below the one that has the pad.
LEMMA PressedAlone ==
    ASSUME ControlInv, ShapeInv, NEW overlay, Handles(overlay),
           overlay \notin {"OperationRunning", "OperationFinished"}
    PROVE  /\ ~Occupied
           /\ IF overlay = "Browsing" THEN open = {}
              ELSE IF overlay = "Error" THEN open \in {{"Error"}, {"ContextMenu", "Error"}}
              ELSE open = {overlay}
<1>1. ~Occupied /\ overlay = TopOverlay
  BY DEF Handles, DetermineCurrentState, Occupied
<1>2. open \subseteq Overlays
  BY DEF ControlInv, OpenInv
<1>3. open # {} => overlay \in open
  BY <1>1, <1>2, TopIsOpen
<1>4. open = {} => overlay = "Browsing"
  BY <1>1 DEF TopOverlay
<1>5. open = {"ContextMenu", "Error"} => overlay = "Error"
  <2>1. SUFFICES ASSUME open = {"ContextMenu", "Error"} PROVE overlay = "Error"
    OBVIOUS
  <2>2. PICK first \in 1 .. 9 : /\ overlay = Priority[first] /\ overlay \in open
                                /\ \A j \in 1 .. (first - 1) : Priority[j] \notin open
    BY <1>1, <1>2, <2>1, TopIsOpen
  <2>3. first <= 2
    BY <2>1, <2>2, PriorityFacts
  <2>. QED BY <2>1, <2>2, <2>3, PriorityFacts
<1>6. open # {} => overlay # "Browsing"
  BY <1>2, <1>3
<1>. QED BY <1>1, <1>3, <1>4, <1>5, <1>6 DEF ShapeInv

\* Only two buttons lead into StartPaste().
LEMMA PasteIsPressed ==
    ASSUME UiActs, ~MenuPaste, ~OverwriteConfirmPressed, ~PasteAccepted
    PROVE  pc' \notin Pasting
<1>1. CASE \/ ReportResult \/ NoResult \/ AcknowledgeResult \/ NoText \/ TextAccepted \/ TextCanceled
           \/ NoInput \/ CancelPressed \/ CancelOperation \/ FinishedPressed \/ FinishedRefresh
  BY <1>1 DEF ReportResult, NoResult, AcknowledgeResult, NoText, TextAccepted, TextCanceled,
              NoInput, CancelPressed, CancelOperation, FinishedPressed, FinishedRefresh, AfterResult
<1>2. CASE \/ DeleteConfirmPressed \/ RecursiveDeleteConfirmPressed \/ ClosePressed
           \/ QuickPlacePressed \/ BrowsePressed \/ OpenPressed
  BY <1>2 DEF DeleteConfirmPressed, RecursiveDeleteConfirmPressed, ClosePressed, Close,
              QuickPlacePressed, BrowsePressed, OpenPressed, Pressed
<1>3. CASE MenuPressed
  BY <1>3 DEF MenuPressed, MenuRefresh, MenuProperties, MenuDelete, MenuTextInput, MenuClipboard,
              Pressed
<1>4. CASE PasteStep
  BY <1>4 DEF PasteStep, PasteRefusal, RenamePaste, PasteEnds
<1>. QED BY <1>1, <1>2, <1>3, <1>4 DEF UiActs, FrameActs

\* Every step keeps to these shapes.
LEMMA ShapeSteps == ASSUME ControlInv, ShapeInv, [Next]_vars PROVE ShapeInv'
<1>. DEFINE Short == pc' \notin Pasting /\ open' \subseteq {"Error"}
            Single == pc' \notin Pasting /\ ~Occupied' /\ \E overlay \in Overlays : open' = {overlay}
            Same == open' = open /\ (Occupied' => Occupied) /\ (pc' \in Pasting => pc \in Pasting)
<1>1. Short => ShapeInv'
  <2>1. Short => open' = {} \/ open' = {"Error"}
    OBVIOUS
  <2>. QED BY <2>1 DEF ShapeInv
<1>2. Single => ShapeInv'
  BY DEF ShapeInv
<1>3. UNCHANGED facade => (Occupied' <=> Occupied)
  BY DEF Occupied, IsBusy, HasResult, State
<1>4. Same => ShapeInv'
  BY DEF ShapeInv
<1>5. CASE NoResult \/ NoText \/ NoInput \/ CancelPressed \/ FinishedPressed \/ FinishedRefresh
  BY <1>3, <1>4, <1>5 DEF NoResult, NoText, NoInput, CancelPressed, FinishedPressed, FinishedRefresh,
                          AfterResult
<1>6. CASE ReportResult
  BY <1>1, <1>6 DEF ReportResult, ShapeInv, Occupied
<1>7. CASE AcknowledgeResult
  BY <1>4, <1>7 DEF AcknowledgeResult, AfterResult, Acknowledge, Occupied
<1>8. CASE TextAccepted \/ TextCanceled
  <2>1. open = {"TextInput"}
    BY <1>8 DEF TextAccepted, TextCanceled, ShapeInv
  <2>. QED BY <1>1, <1>8, <2>1 DEF TextAccepted, TextCanceled
<1>9. CASE CancelOperation
  <2>1. Occupied' => Occupied
    BY <1>3, <1>9 DEF CancelOperation, CancelWorker, Worker!Cancel, Occupied, IsBusy, HasResult,
       State, Worker!Outcomes, ControlInv, WorkerInv
  <2>. QED BY <1>4, <1>9, <2>1 DEF CancelOperation
<1>10. CASE OverwriteConfirmPressed
  <2>1. open = {"OverwriteConfirm"} /\ ~Occupied
    BY <1>10, PressedAlone DEF OverwriteConfirmPressed
  <2>2. ~Occupied'
    BY <1>3, <1>10, <2>1 DEF OverwriteConfirmPressed
  <2>. QED BY <1>1, <1>10, <2>1, <2>2 DEF OverwriteConfirmPressed, ShapeInv
<1>11. CASE DeleteConfirmPressed \/ RecursiveDeleteConfirmPressed
  <2>1. open \in {{"DeleteConfirm"}, {"RecursiveDeleteConfirm"}} /\ ~Occupied /\ pc' = "result"
    BY <1>11, PressedAlone DEF DeleteConfirmPressed, RecursiveDeleteConfirmPressed, Pressed
  <2>2. CASE Delete(ActiveEntries)
    BY <1>1, <2>1, <2>2 DEF Delete
  <2>3. CASE open' = AskAgain /\ UNCHANGED facade
    BY <1>2, <1>3, <2>1, <2>3 DEF AskAgain
  <2>. QED BY <1>11, <2>2, <2>3 DEF DeleteConfirmPressed, RecursiveDeleteConfirmPressed
<1>12. CASE ClosePressed
  <2>1. PICK overlay \in {"Error", "Properties", "DeleteConfirm", "RecursiveDeleteConfirm",
                          "QuickPlaces", "Settings", "ContextMenu"} : Close(overlay)
    BY <1>12 DEF ClosePressed
  <2>2. open' = open \ {overlay} /\ UNCHANGED facade /\ pc' = "result"
    BY <2>1 DEF Close, Pressed
  <2>3. ~Occupied /\ open \in {{overlay}, {"ContextMenu", "Error"}}
    BY <2>1, PressedAlone DEF Close, Pressed
  <2>4. open' = {} \/ open' = {"ContextMenu"} \/ open' = {"Error"} \/ open' = open
    BY <2>2, <2>3
  <2>. QED BY <1>1, <1>2, <1>3, <1>4, <2>2, <2>3, <2>4
<1>13. CASE QuickPlacePressed
  <2>1. open' = {} /\ pc' = "result"
    BY <1>13, PressedAlone DEF QuickPlacePressed, Pressed
  <2>. QED BY <1>1, <2>1
<1>14. CASE BrowsePressed
  BY <1>4, <1>14 DEF BrowsePressed, Pressed, Occupied, IsBusy, HasResult, State
<1>15. CASE OpenPressed
  <2>1. ~Occupied /\ pc' = "result"
    BY <1>15, PressedAlone DEF OpenPressed, Pressed
  <2>. QED BY <1>2, <1>3, <1>15, <2>1 DEF OpenPressed
<1>16. CASE MenuPressed
  <2>1. open = {"ContextMenu"} /\ ~Occupied
    BY <1>16, PressedAlone DEF MenuPressed, MenuRefresh, MenuProperties, MenuPaste, MenuDelete,
       MenuTextInput, MenuClipboard, Pressed
  <2>2. CASE MenuRefresh
    BY <1>4, <2>2 DEF MenuRefresh, Pressed, Occupied, IsBusy, HasResult, State
  <2>3. CASE MenuProperties \/ MenuDelete
    BY <1>1, <1>2, <1>3, <2>1, <2>3 DEF MenuProperties, MenuDelete, Pressed
  <2>4. CASE MenuPaste
    <3>1. ~Occupied'
      BY <1>3, <2>1, <2>4 DEF MenuPaste
    <3>2. \/ pc' = "paste" /\ open' = open
          \/ pc' = "result" /\ open' = {"OverwriteConfirm"}
      BY <2>1, <2>4 DEF MenuPaste, RequestPaste
    <3>. QED BY <1>2, <2>1, <3>1, <3>2 DEF ShapeInv
  <2>5. ASSUME NEW input \in {"NewFolder", "Rename"}, MenuTextInput(input) PROVE ShapeInv'
    <3>1. (open' = {"TextInput"} \/ open' = {"ContextMenu", "Error"}) /\ pc' = "result"
      BY <2>1, <2>5 DEF MenuTextInput, OpenTextInput, Pressed
    <3>2. ~Occupied'
      BY <1>3, <2>1, <2>5 DEF MenuTextInput
    <3>. QED BY <3>1, <3>2 DEF ShapeInv
  <2>6. ASSUME NEW action \in {"Copy", "Move"}, MenuClipboard(action) PROVE ShapeInv'
    <3>1. (open' = {} \/ open' = {"ContextMenu", "Error"}) /\ pc' = "result"
      BY <2>1, <2>6 DEF MenuClipboard, Pressed
    <3>2. ~Occupied'
      BY <2>1, <2>6 DEF MenuClipboard, ToClipboard, Occupied, IsBusy, HasResult, State
    <3>. QED BY <3>1, <3>2 DEF ShapeInv
  <2>. QED BY <1>16, <2>2, <2>3, <2>4, <2>5, <2>6 DEF MenuPressed
<1>17. CASE PasteStep
  <2>1. pc \in Pasting /\ (open = {"ContextMenu"} \/ open = {"OverwriteConfirm"})
    BY <1>17 DEF PasteStep, PasteRefusal, PasteAccepted, RenamePaste, ShapeInv
  <2>2. CASE PasteEnds
    BY <1>1, <2>1, <2>2 DEF PasteEnds
  <2>3. CASE UNCHANGED <<facade, ui>>
    BY <1>3, <1>4, <2>1, <2>3
  <2>. QED BY <1>17, <2>2, <2>3 DEF PasteStep, PasteRefusal, PasteAccepted, RenamePaste
<1>18. CASE WorkerRuns
  <2>1. UNCHANGED <<open, pc>>
    BY <1>18 DEF WorkerRuns, Elsewhere
  <2>2. Occupied' => Occupied
    BY <1>18 DEF WorkerRuns, WorkerStep, WorkerCompletes, WorkerFails, WorkerRecants,
       WorkerFinishes, Worker!Complete, Worker!Fail, Worker!Recant, Worker!Finish, Occupied,
       IsBusy, HasResult, State, Worker!Outcomes, ControlInv, WorkerInv
  <2>. QED BY <1>4, <2>1, <2>2
<1>19. CASE OthersRun \/ UNCHANGED vars
  BY <1>4, <1>19 DEF OthersRun, OthersWrite, Elsewhere, vars, Occupied, IsBusy, HasResult, State
<1>. QED BY <1>5, <1>6, <1>7, <1>8, <1>9, <1>10, <1>11, <1>12, <1>13, <1>14, <1>15, <1>16, <1>17,
            <1>18, <1>19 DEF Next, UiStep, UiActs, FrameActs

\* Only an error can be below the end of an operation or of a text dialog.
LEMMA ErrorOrBrowser == open \subseteq {"Error"} => TopOverlay \in {"Error", "Browsing"}
BY TopIsOpen DEF TopOverlay

\* Every frame ends with a drawing, and what comes between that and the next
\* input is the end of an operation or of a text dialog.
LEMMA DrawnSteps ==
    ASSUME ControlInv, ControlInv', ShapeInv, DrawnInv, [Next]_vars PROVE DrawnInv'
<1>. DEFINE Owner == IF Occupied THEN "CopyProgress" ELSE TopOverlay
            PadInv == pc = "input" => \/ Owner = DrawnOnTop
                                      \/ DrawnOnTop \in {"CopyProgress", "TextInput"}
                                         /\ Owner \in {"Error", "Browsing"}
<1>1. (open \subseteq {"Error"} => TopOverlay \in {"Error", "Browsing"})'
  BY ErrorOrBrowser, PTL
<1>2. (PadGoesToTopDialog <=> PadInv) /\ (PadGoesToTopDialog <=> PadInv)'
  BY DEF PadGoesToTopDialog, Occupied, DrawnOnTop, DialogsDrawn
<1>3. open' = open => TopOverlay' = TopOverlay
  BY DEF TopOverlay
<1>4. drawn' = drawn => DialogsDrawn' = DialogsDrawn /\ DrawnOnTop' = DrawnOnTop
  BY DEF DialogsDrawn, DrawnOnTop, Topmost
<1>. HIDE DEF PadInv
<1>5. CASE UiStep /\ pc' = "result"
  <2>1. open' \subseteq Overlays
    BY DEF ControlInv, OpenInv
  <2>2. drawn' = Shown'
    BY <1>5 DEF UiStep
  <2>3. DialogsDrawn' = DialogsShown'
    BY <2>1, <2>2 DEF DialogsDrawn, DialogsShown, Shown, Occupied
  <2>. QED BY <1>2, <1>5, <2>3 DEF DrawnInv, PadInv
<1>6. CASE UiStep /\ pc' # "result"
  <2>1. DrawnOnTop' = DrawnOnTop
    BY <1>4, <1>6 DEF UiStep
  <2>2. CASE ReportResult
    <3>1. Occupied /\ open \subseteq {"Error"} /\ pc = "result" /\ pc' = "acknowledge"
      BY <2>2 DEF ReportResult, Occupied, ShapeInv
    <3>2. DrawnOnTop = "CopyProgress"
      BY <3>1, ProgressOnTop DEF DrawnInv, DrawnOnTop
    <3>. QED BY <1>2, <2>1, <3>1, <3>2 DEF DrawnInv, PadInv
  <2>3. CASE NoResult
    <3>1. pc = "result" /\ UNCHANGED <<facade, open>> /\ DialogsDrawn = DialogsShown
          /\ pc' = IF "TextInput" \in open THEN "text" ELSE "input"
      BY <2>3 DEF NoResult, DrawnInv, AfterResult
    <3>2. Occupied' <=> Occupied
      BY <3>1 DEF Occupied, IsBusy, HasResult, State
    <3>3. DrawnOnTop = Owner
      BY <3>1, SameOnTop, ProgressOnTop DEF ShapeInv, DrawnOnTop
    <3>4. CASE "TextInput" \in open
      <4>1. ~Occupied /\ open = {"TextInput"}
        BY <3>4 DEF ControlInv, OpenInv, ShapeInv, Occupied, IsBusy, HasResult, Worker!Outcomes
      <4>2. DrawnOnTop = "TextInput"
        BY <3>3, <4>1, TextComesFirst
      <4>. QED BY <1>2, <2>1, <3>1, <3>4, <4>1, <4>2 DEF DrawnInv, PadInv
    <3>5. CASE "TextInput" \notin open
      <4>1. Owner' = DrawnOnTop' /\ pc' = "input"
        BY <1>3, <2>1, <3>1, <3>2, <3>3, <3>5
      <4>2. PadInv'
        BY <4>1 DEF PadInv
      <4>. QED BY <1>2, <4>1, <4>2 DEF DrawnInv
    <3>. QED BY <3>4, <3>5
  <2>4. CASE AcknowledgeResult
    <3>1. open \subseteq {"Error"} /\ open' = open /\ ~Occupied'
      BY <2>4 DEF AcknowledgeResult, Acknowledge, NoWorker, ControlInv, ReportInv, ShapeInv,
         Occupied, IsBusy, HasResult, State, Worker!Outcomes
    <3>2. pc = "acknowledge" /\ pc' = "input" /\ DrawnOnTop = "CopyProgress"
      BY <1>6, <2>4, <3>1 DEF AcknowledgeResult, AfterResult, DrawnInv
    <3>3. PadInv'
      BY <1>1, <2>1, <3>1, <3>2 DEF PadInv
    <3>. QED BY <1>2, <3>2, <3>3 DEF DrawnInv
  <2>5. CASE NoText \/ TextAccepted \/ TextCanceled
    <3>1. /\ pc = "text" /\ pc' = "input" /\ open = {"TextInput"} /\ DrawnOnTop = "TextInput"
          /\ ~Occupied
      BY <2>5 DEF NoText, TextAccepted, TextCanceled, DrawnInv, ShapeInv
    <3>2. ~Occupied'
      BY <2>5, <3>1 DEF NoText, TextAccepted, TextCanceled, Occupied, IsBusy, HasResult, State
    <3>3. ASSUME NoText PROVE PadInv'
      <4>1. Owner' = "TextInput"
        BY <1>3, <3>1, <3>2, <3>3, TextComesFirst DEF NoText
      <4>. QED BY <2>1, <3>1, <4>1 DEF PadInv
    <3>4. ASSUME open' \subseteq {"Error"} PROVE PadInv'
      BY <1>1, <2>1, <3>1, <3>2, <3>4 DEF PadInv
    <3>5. PadInv'
      <4>1. NoText \/ open' \subseteq {"Error"}
        BY <2>5, <3>1 DEF TextAccepted, TextCanceled
      <4>. QED BY <3>3, <3>4, <4>1
    <3>. QED BY <1>2, <3>1, <3>5 DEF DrawnInv
  <2>6. CASE CancelPressed \/ FinishedPressed \/ FinishedRefresh
    BY <1>2, <2>6 DEF CancelPressed, FinishedPressed, FinishedRefresh, DrawnInv, PadInv
  <2>7. CASE MenuPaste \/ OverwriteConfirmPressed \/ PasteStep
    <3>1. pc' \in Pasting
      BY <1>6, <2>7 DEF MenuPaste, RequestPaste, OverwriteConfirmPressed, PasteStep, PasteRefusal,
         PasteAccepted, RenamePaste, PasteEnds
    <3>. QED BY <1>2, <3>1 DEF DrawnInv, PadInv
  <2>8. ~(NoInput \/ CancelOperation \/ DeleteConfirmPressed
            \/ RecursiveDeleteConfirmPressed \/ ClosePressed \/ QuickPlacePressed
            \/ BrowsePressed \/ OpenPressed \/ (MenuPressed /\ ~MenuPaste))
    BY <1>6 DEF NoInput, CancelOperation, DeleteConfirmPressed,
       RecursiveDeleteConfirmPressed, ClosePressed, Close, QuickPlacePressed, BrowsePressed,
       OpenPressed, MenuPressed, MenuRefresh, MenuProperties, MenuDelete,
       MenuTextInput, MenuClipboard, Pressed
  <2>. QED BY <1>6, <2>2, <2>3, <2>4, <2>5, <2>6, <2>7, <2>8 DEF UiStep, UiActs, FrameActs
<1>7. CASE WorkerRuns \/ OthersRun \/ UNCHANGED vars
  <2>1. UNCHANGED <<open, pc, drawn>>
    BY <1>7 DEF WorkerRuns, OthersRun, Elsewhere, vars
  <2>2. Occupied' <=> Occupied
    BY <1>7 DEF vars, WorkerRuns, WorkerStep, WorkerCompletes, WorkerFails, WorkerRecants,
       WorkerFinishes, Worker!Complete, Worker!Fail, Worker!Recant, Worker!Finish, Occupied,
       IsBusy, HasResult, State, Worker!Outcomes, ControlInv, WorkerInv, OthersRun, OthersWrite
  <2>3. Owner' = Owner /\ DialogsShown' = DialogsShown
    BY <1>3, <2>1, <2>2 DEF DialogsShown
  <2>4. PadInv => PadInv'
    BY <1>4, <2>1, <2>3 DEF PadInv
  <2>. QED BY <1>2, <1>4, <2>1, <2>3, <2>4 DEF DrawnInv
<1>. QED BY <1>5, <1>6, <1>7 DEF Next

\* Whatever is on top of the screen has the pad, the overlay of the package
\* installer left aside, which is painted over all the others and never has it
\* (DetermineCurrentState does not know it): though the dialogs have one order when
\* they are drawn and another when they are asked for input, only the end of an
\* operation or of the text dialog hands the pad on within a frame, to a message or
\* to the browser (DetermineCurrentState, ExplorerUi::Draw).
THEOREM PadOnTop == Spec => []PadGoesToTopDialog
<1>. DEFINE ScreenInv == ShapeInv /\ DrawnInv
<1>1. AppInit => ScreenInv
  <2>1. AppInit => open = {} /\ ~Occupied /\ pc = "result" /\ drawn = {}
    BY DEF AppInit, Init, Worker!Init, Occupied, IsBusy, HasResult, State, Worker!Outcomes
  <2>. QED BY <2>1 DEF ShapeInv, DrawnInv, DialogsDrawn, DialogsShown, PadGoesToTopDialog
<1>2. ControlInv /\ ScreenInv /\ [Next]_vars => ScreenInv'
  BY NextKeepsControl, ShapeSteps, DrawnSteps
<1>3. ScreenInv => PadGoesToTopDialog
  BY DEF DrawnInv
<1>. QED BY <1>1, <1>2, <1>3, ControlInvariance, PTL DEF Spec

(***************************************************************************)
(* Paths.  What is proved beside FileBrowser holds here, whatever paths    *)
(* can come to be.                                                         *)
(***************************************************************************)
Files == INSTANCE FileBrowserProofs WITH Universe <- Seq(STRING)

\* The constants are those the proofs about FileBrowser ask for.
LEMMA FilesAssumption == Files!FileBrowserAssumption
BY AppAssumption DEF Browser!FileBrowserAssumption, Files!FileBrowserAssumption

\* The paths of both are the same.
LEMMA SamePaths ==
    /\ \A p : Files!ParentPath(p) = ParentPath(p) /\ Files!IsFolder(p) = IsFolder(p)
    /\ \A p, root : Files!IsPathWithin(p, root) = IsPathWithin(p, root)
    /\ \A p, from, to : Files!Relocated(p, from, to) = Relocated(p, from, to)
    /\ \A d, name : Files!JoinPath(d, name) = JoinPath(d, name)
    /\ \A files : Files!IsTree(files) <=> IsTree(files)
BY DEF Files!ParentPath, ParentPath, Files!IsFolder, IsFolder, Files!BaseName, BaseName,
       Files!IsPathWithin, IsPathWithin, Files!Relocated, Relocated, Files!JoinPath, JoinPath,
       Files!IsTree, IsTree

\* A proper path is longer than its parent by one name.
LEMMA ParentProperties ==
    ASSUME NEW S, NEW p \in Seq(S), p # <<>>
    PROVE  ParentPath(p) \in Seq(S) /\ Len(ParentPath(p)) = Len(p) - 1
BY Files!ParentProperties, FilesAssumption, SamePaths

\* A path is within itself, and within what its parent is within.
LEMMA WithinParent ==
    ASSUME NEW S, NEW p \in Seq(S), NEW root \in Seq(S)
    PROVE  /\ IsPathWithin(p, p)
           /\ p # <<>> /\ IsPathWithin(ParentPath(p), root) => IsPathWithin(p, root)
           /\ p # <<>> /\ IsPathWithin(p, root) /\ p # root => IsPathWithin(ParentPath(p), root)
<1>1. Len(p) \in Nat /\ SubSeq(p, 1, Len(p)) = p
  <2>1. Len(p) \in Nat /\ \A i \in 1 .. Len(p) : p[i] \in S
    OBVIOUS
  <2>2. Files!IsPathWithin(p, p) <=> Len(p) <= Len(p) /\ \A i \in 1 .. Len(p) : p[i] = p[i]
    BY Files!Within, FilesAssumption
  <2>3. Files!IsPathWithin(p, p)
    BY <2>1, <2>2
  <2>. QED BY <2>1, <2>3 DEF Files!IsPathWithin
<1>2. IsPathWithin(p, p)
  BY <1>1 DEF IsPathWithin
<1>. QED BY <1>2, Files!WithinParent, FilesAssumption, SamePaths

\* In a tree there is every folder on the way to a path.
LEMMA Ancestors ==
    ASSUME NEW S, NEW files \in SUBSET Seq(S), IsTree(files), NEW d \in Seq(S),
           NEW p \in files, IsPathWithin(p, d)
    PROVE  d \in files /\ (p # d => IsFolder(d))
<1>. DEFINE Fails(q) == IsPathWithin(q, d) /\ ~(d \in files /\ (q # d => IsFolder(d)))
            T == {n \in Nat : \E q \in files : Len(q) = n /\ Fails(q)}
<1>1. SUFFICES ASSUME T # {} PROVE FALSE
  <2>1. Len(p) \in Nat
    OBVIOUS
  <2>. QED BY <2>1
<1>2. PICK n \in T : \A m \in T : ~(<<m, n>> \in OpToRel(<, Nat))
  <2>1. T \subseteq Nat
    OBVIOUS
  <2>. HIDE DEF T
  <2>. QED BY <1>1, <2>1, NatLessThanWellFounded, WFMin
<1>3. PICK q \in files : Len(q) = n /\ Fails(q)
  OBVIOUS
<1>4. \A m \in T : m \in Nat /\ n \in Nat /\ ~(m < n)
  BY <1>2 DEF OpToRel
<1>5. q # d /\ q # <<>>
  <2>1. q # d
    BY <1>3
  <2>2. ASSUME q = <<>> PROVE FALSE
    <3>1. Len(d) <= 0 /\ Len(d) \in Nat
      BY <1>3, <2>2 DEF IsPathWithin
    <3>2. d = <<>>
      BY <3>1
    <3>. QED BY <2>1, <2>2, <3>2
  <2>. QED BY <2>1, <2>2
<1>6. ParentPath(q) \in files /\ IsFolder(ParentPath(q)) /\ IsPathWithin(ParentPath(q), d)
  BY <1>3, <1>5, WithinParent DEF IsTree
<1>7. Len(ParentPath(q)) = Len(q) - 1 /\ Len(ParentPath(q)) \in Nat /\ Len(q) \in Nat
  BY <1>5, <1>6, ParentProperties
<1>8. ~Fails(ParentPath(q))
  BY <1>3, <1>4, <1>6, <1>7
<1>. QED BY <1>3, <1>6, <1>8

\* Where rename() puts an item: below the new name of the root.
LEMMA RelocatedWithin ==
    ASSUME NEW S, NEW p \in Seq(S), NEW from \in Seq(S), NEW to \in Seq(S), IsPathWithin(p, from)
    PROVE  Relocated(p, from, to) \in Seq(S) /\ IsPathWithin(Relocated(p, from, to), to)
<1>. DEFINE rest == SubSeq(p, Len(from) + 1, Len(p))
            q    == to \o rest
<1>1. Len(from) \in Nat /\ Len(p) \in Nat /\ Len(to) \in Nat /\ Len(from) <= Len(p)
  BY DEF IsPathWithin
<1>2. \A i \in Len(from) + 1 .. Len(p) : p[i] \in S
  BY <1>1
<1>3. rest \in Seq(S) /\ Len(rest) \in Nat
  BY <1>1, <1>2, SubSeqProperties
<1>. HIDE DEF rest
<1>4. /\ q \in Seq(S) /\ Len(q) = Len(to) + Len(rest)
      /\ \A i \in 1 .. Len(to) : q[i] = to[i]
  BY <1>1, <1>3, ConcatProperties
<1>5. Relocated(p, from, to) = q
  BY DEF Relocated, rest
<1>. HIDE DEF q
<1>6. Files!IsPathWithin(q, to)
  <2>1. Files!IsPathWithin(q, to)
            <=> Len(to) <= Len(q) /\ \A i \in 1 .. Len(to) : q[i] = to[i]
    BY <1>4, Files!Within, FilesAssumption
  <2>2. Len(to) <= Len(q)
    BY <1>1, <1>3, <1>4
  <2>. QED BY <1>4, <2>1, <2>2
<1>. QED BY <1>4, <1>5, <1>6, SamePaths

\* The root itself gets the new name.
LEMMA RelocatedRoot ==
    ASSUME NEW S, NEW from \in Seq(S), NEW to \in Seq(S)
    PROVE  Relocated(from, from, to) = to
BY Files!RelocatedRoot, FilesAssumption, SamePaths

\* What is in a folder below the root is put into the folder's new place.
LEMMA RelocatedParent ==
    ASSUME NEW S, NEW p \in Seq(S), NEW from \in Seq(S), NEW to \in Seq(S),
           IsPathWithin(p, from), p # from, to # <<>>
    PROVE  /\ IsPathWithin(ParentPath(p), from)
           /\ ParentPath(Relocated(p, from, to)) = Relocated(ParentPath(p), from, to)
<1>1. Files!IsPathWithin(p, from)
  BY SamePaths
<1>2. /\ Files!IsPathWithin(Files!ParentPath(p), from)
      /\ Files!ParentPath(Files!Relocated(p, from, to))
            = Files!Relocated(Files!ParentPath(p), from, to)
  BY ONLY <1>1, p \in Seq(S), from \in Seq(S), to \in Seq(S), p # from, to # <<>>,
          Files!RelocatedParent, FilesAssumption
<1>. QED BY <1>2, SamePaths

\* A folder stays a folder, a file a file.
LEMMA RelocatedFolder ==
    ASSUME NEW S, NEW p \in Seq(S), NEW from \in Seq(S), NEW to \in Seq(S),
           IsPathWithin(p, from), from # <<>>, to # <<>>, IsFolder(from) = IsFolder(to)
    PROVE  IsFolder(Relocated(p, from, to)) = IsFolder(p)
<1>1. Files!IsFolder(from) = Files!IsFolder(to) /\ Files!IsPathWithin(p, from)
  BY SamePaths
<1>2. Files!IsFolder(Files!Relocated(p, from, to)) = Files!IsFolder(p)
  BY <1>1, Files!RelocatedFolder, FilesAssumption
<1>. QED BY <1>2, SamePaths

\* Where a pasted item comes to be: below the target of its root, and beside it
\* the images of its parents.
LEMMA ImageProperties ==
    ASSUME NEW from \in Seq(STRING), from # <<>>, NEW directory \in Seq(STRING),
           NEW p \in Seq(STRING), IsPathWithin(p, from),
           NEW to, to = DestinationPath(directory, from), NEW q, q = Relocated(p, from, to)
    PROVE  /\ to \in Seq(STRING) /\ to # <<>> /\ ParentPath(to) = directory
           /\ q \in Seq(STRING) /\ q # <<>> /\ IsPathWithin(q, to)
           /\ p = from => q = to
           /\ p # from => /\ IsPathWithin(ParentPath(p), from)
                          /\ ParentPath(q) = Relocated(ParentPath(p), from, to)
           /\ IsFolder(to) = IsFolder(from) /\ IsFolder(q) = IsFolder(p)
<1>1. Len(from) \in Nat \ {0} /\ BaseName(from) \in STRING
  BY DEF BaseName
<1>2. to = Append(directory, BaseName(from)) /\ to = JoinPath(directory, BaseName(from))
  BY DEF DestinationPath, JoinPath
<1>3. to \in Seq(STRING) /\ Len(to) = Len(directory) + 1 /\ to[Len(directory) + 1] = BaseName(from)
  <2>. DEFINE name == BaseName(from)
  <2>1. name \in STRING /\ to = Append(directory, name)
    BY <1>1, <1>2
  <2>. HIDE DEF name
  <2>2. /\ Append(directory, name) \in Seq(STRING)
        /\ Len(Append(directory, name)) = Len(directory) + 1
        /\ Append(directory, name)[Len(directory) + 1] = name
    BY <2>1, AppendProperties
  <2>. QED BY <2>1, <2>2 DEF name
<1>4. to # <<>> /\ ParentPath(to) = directory
  BY <1>1, <1>2, Files!ParentOfJoin, FilesAssumption, SamePaths
<1>5. IsFolder(to) = IsFolder(from)
  BY <1>3, <1>4 DEF IsFolder, BaseName
<1>6. Relocated(p, from, to) \in Seq(STRING) /\ IsPathWithin(Relocated(p, from, to), to)
  BY <1>3, RelocatedWithin
<1>7. q # <<>>
  <2>1. Len(to) \in Nat \ {0} /\ Len(to) <= Len(q)
    BY <1>3, <1>4, <1>6 DEF IsPathWithin
  <2>. QED BY <2>1
<1>8. p = from => q = to
  BY <1>3, RelocatedRoot
<1>9. p # from => /\ IsPathWithin(ParentPath(p), from)
                  /\ ParentPath(q) = Relocated(ParentPath(p), from, to)
  BY <1>3, <1>4, RelocatedParent
<1>10. IsFolder(q) = IsFolder(p)
  BY <1>3, <1>4, <1>5, RelocatedFolder
<1>. QED BY <1>3, <1>4, <1>5, <1>6, <1>7, <1>8, <1>9, <1>10

(***************************************************************************)
(* What an operation may do to a tree.                                     *)
(***************************************************************************)
\* Items that can be taken away: the folder on the screen stays, and nothing is
\* left below them.
Removable(gone, files, directory) ==
    /\ <<>> \notin gone /\ directory \notin gone
    /\ \A p \in files : ParentPath(p) \in gone => p \in gone

\* Items that can be put there, and taken away again: below each other or in the
\* folder, with nothing else below them.
Fits(images, files, directory) ==
    /\ images \subseteq Seq(STRING)
    /\ \A q \in images : ParentPath(q) \in images \cup {directory} /\ IsFolder(ParentPath(q))
    /\ Removable(images, files, directory)

\* Taking away and putting there leaves a tree, and the folder in it.
LEMMA TreeStays ==
    ASSUME NEW files, IsTree(files), NEW directory \in files, NEW gone, NEW images,
           Removable(gone, files, directory), Fits(images, files, directory)
    PROVE  LET left == (files \ gone) \cup images
           IN  IsTree(left) /\ directory \in left /\ Fits(images, left, directory)
<1>. DEFINE left == (files \ gone) \cup images
<1>1. <<>> \in left /\ directory \in left
  BY DEF IsTree, Removable
<1>2. ASSUME NEW p \in left PROVE ParentPath(p) \in left /\ IsFolder(ParentPath(p))
  <2>1. CASE p \in images
    BY <1>1, <2>1 DEF Fits
  <2>2. CASE p \in files \ gone
    <3>1. ParentPath(p) \in files /\ IsFolder(ParentPath(p)) /\ ParentPath(p) \notin gone
      BY <2>2 DEF IsTree, Removable
    <3>. QED BY <3>1
  <2>. QED BY <2>1, <2>2
<1>3. IsTree(left)
  BY <1>1, <1>2 DEF IsTree
<1>4. Fits(images, left, directory)
  BY DEF Fits, Removable
<1>. QED BY <1>1, <1>3, <1>4

\* All that is below some roots can be taken away, unless the folder on the
\* screen is below one.
LEMMA BelowIsRemovable ==
    ASSUME NEW files \in SUBSET Seq(STRING), NEW directory,
           NEW roots \in SUBSET (Seq(STRING) \ {<<>>}),
           \A root \in roots : ~IsPathWithin(directory, root)
    PROVE  Removable(Below(files, roots), files, directory)
<1>1. <<>> \notin Below(files, roots)
  <2>1. ASSUME NEW root \in roots PROVE ~IsPathWithin(<<>>, root)
    <3>1. Len(root) \in Nat \ {0} /\ Len(<<>>) = 0
      OBVIOUS
    <3>. QED BY <3>1 DEF IsPathWithin
  <2>. QED BY <2>1 DEF Below
<1>2. directory \notin Below(files, roots)
  BY DEF Below
<1>3. ASSUME NEW p \in files, ParentPath(p) \in Below(files, roots)
      PROVE  p \in Below(files, roots)
  <2>1. PICK root \in roots : IsPathWithin(ParentPath(p), root)
    BY <1>3 DEF Below
  <2>2. p # <<>>
    BY <1>1, <1>3 DEF ParentPath
  <2>3. IsPathWithin(p, root)
    BY <2>1, <2>2, WithinParent
  <2>. QED BY <2>3 DEF Below
<1>. QED BY <1>1, <1>2, <1>3 DEF Removable

\* What can be taken away can be taken away in part, from the bottom up.
LEMMA PartIsRemovable ==
    ASSUME NEW files \in SUBSET Seq(STRING), NEW directory, NEW sources \in SUBSET Seq(STRING),
           Removable(sources, files, directory), NEW gone \in PartlyRemoved(sources)
    PROVE  Removable(gone, files, directory)
<1>1. /\ gone \subseteq sources
      /\ \A p \in gone : \A q \in sources : IsPathWithin(q, p) => q \in gone
  BY DEF PartlyRemoved
<1>2. ASSUME NEW p \in files, ParentPath(p) \in gone PROVE p \in gone
  <2>1. p \in sources /\ ParentPath(p) \in sources /\ ParentPath(p) # <<>>
    BY <1>1, <1>2 DEF Removable
  <2>2. p \in Seq(STRING) /\ p # <<>>
    BY <2>1 DEF ParentPath
  <2>3. IsPathWithin(ParentPath(p), ParentPath(p)) /\ ParentPath(p) \in Seq(STRING)
    BY <2>1, WithinParent
  <2>4. IsPathWithin(p, ParentPath(p))
    BY <2>2, <2>3, WithinParent
  <2>. QED BY <1>1, <1>2, <2>1, <2>4
<1>. QED BY <1>1, <1>2 DEF Removable

\* An operation that fails leaves a tree as well.
LEMMA AftermathFits ==
    ASSUME IsTree(disk), disk \subseteq Seq(STRING), NEW directory \in disk,
           NEW kind, NEW sources \in SUBSET Seq(STRING), NEW images,
           Fits(images, disk, directory), kind # "Copy" => Removable(sources, disk, directory),
           NEW left \in Aftermath(kind, sources, images)
    PROVE  /\ IsTree(left) /\ left \subseteq Seq(STRING) /\ directory \in left
           /\ Fits(images, left, directory)
<1>1. \/ left = disk
      \/ kind # "Copy" /\ \E gone \in PartlyRemoved(sources) : left = (disk \ gone) \cup images
  BY DEF Aftermath
<1>2. ASSUME kind # "Copy", NEW gone \in PartlyRemoved(sources), left = (disk \ gone) \cup images
      PROVE  /\ IsTree(left) /\ left \subseteq Seq(STRING) /\ directory \in left
             /\ Fits(images, left, directory)
  <2>1. Removable(gone, disk, directory)
    BY <1>2, PartIsRemovable
  <2>2. left \subseteq Seq(STRING)
    BY <1>2 DEF Fits
  <2>. QED BY <1>2, <2>1, <2>2, TreeStays
<1>. QED BY <1>1, <1>2

\* What stays so between the looks of StartPaste() and its rename(), whatever
\* another program does with its files.
Pastable(directory) ==
    \A e \in clipboardEntries :
        /\ IsFolder(e) => ~IsPathWithin(DestinationPath(directory, e), e)
        /\ DestinationPath(directory, e) \in disk => ~IsFolder(DestinationPath(directory, e))

\* What a paste makes fits into the disk, and of it only files that are replaced
\* are there already; what it takes away is removable.
LEMMA PasteFits ==
    ASSUME IsTree(disk), disk \subseteq Seq(STRING),
           clipboardEntries \subseteq disk \ {<<>>},
           NEW directory \in disk, IsFolder(directory), Pastable(directory)
    PROVE  /\ Fits(PasteImages(directory), disk, directory)
           /\ \A q \in PasteImages(directory) \cap disk :
                 ~IsFolder(q) /\ \E e \in clipboardEntries : q = DestinationPath(directory, e)
           /\ Removable(Below(disk, clipboardEntries), disk, directory)
<1>. DEFINE images == PasteImages(directory)
            Target(e) == DestinationPath(directory, e)
<1>1. \A q \in images : \E e \in clipboardEntries, p \in disk :
            IsPathWithin(p, e) /\ q = Relocated(p, e, Target(e))
  BY DEF PasteImages, Images, Below
<1>2. \A e \in clipboardEntries, p \in disk :
            IsPathWithin(p, e) => Relocated(p, e, Target(e)) \in images
  BY DEF PasteImages, Images, Below
<1>3. ASSUME NEW e \in clipboardEntries
      PROVE  /\ e \in disk /\ e \in Seq(STRING) /\ e # <<>>
             /\ Target(e) \in disk => ~IsFolder(Target(e))
             /\ IsFolder(e) => ~IsPathWithin(Target(e), e)
  BY DEF Pastable
<1>. HIDE DEF images, Target
<1>4. ASSUME NEW q \in images
      PROVE  /\ q \in Seq(STRING) /\ q # <<>>
             /\ ParentPath(q) \in images \cup {directory} /\ IsFolder(ParentPath(q))
             /\ \E e \in clipboardEntries : Target(e) \in Seq(STRING) /\ IsPathWithin(q, Target(e))
                                            /\ ParentPath(Target(e)) = directory /\ Target(e) # <<>>
                                            /\ IsFolder(Target(e)) = IsFolder(e)
  <2>1. PICK e \in clipboardEntries, p \in disk : IsPathWithin(p, e) /\ q = Relocated(p, e, Target(e))
    BY <1>1
  <2>2. /\ Target(e) \in Seq(STRING) /\ Target(e) # <<>> /\ ParentPath(Target(e)) = directory
        /\ q \in Seq(STRING) /\ q # <<>> /\ IsPathWithin(q, Target(e))
        /\ p = e => q = Target(e)
        /\ p # e => /\ IsPathWithin(ParentPath(p), e)
                    /\ ParentPath(q) = Relocated(ParentPath(p), e, Target(e))
        /\ IsFolder(Target(e)) = IsFolder(e)
    BY <1>3, <2>1, ImageProperties DEF Target
  <2>3. ParentPath(q) \in images \cup {directory} /\ IsFolder(ParentPath(q))
    <3>1. CASE p = e
      BY <2>2, <3>1
    <3>2. CASE p # e
      <4>1. ParentPath(p) \in disk /\ IsFolder(ParentPath(p)) /\ ParentPath(p) \in Seq(STRING)
        BY DEF IsTree
      <4>2. ParentPath(q) \in images
        BY <1>2, <2>2, <3>2, <4>1
      <4>3. IsFolder(ParentPath(q)) = IsFolder(ParentPath(p))
        <5>. DEFINE to == Target(e)
                    up == ParentPath(p)
                    image == ParentPath(q)
        <5>1. /\ to = DestinationPath(directory, e) /\ image = Relocated(up, e, to)
              /\ e \in Seq(STRING) /\ e # <<>> /\ directory \in Seq(STRING)
              /\ up \in Seq(STRING) /\ IsPathWithin(up, e)
          BY <1>3, <2>2, <3>2, <4>1 DEF Target
        <5>. HIDE DEF to, up, image
        <5>2. IsFolder(image) = IsFolder(up)
          BY ONLY <5>1, ImageProperties
        <5>. QED BY <5>2 DEF up, image
      <4>. QED BY <2>2, <3>2, <4>1, <4>2, <4>3
    <3>. QED BY <3>1, <3>2
  <2>. QED BY <2>2, <2>3
<1>5. ASSUME NEW q \in images, q \in disk
      PROVE  ~IsFolder(q) /\ \E e \in clipboardEntries : q = Target(e)
  <2>1. PICK e \in clipboardEntries : Target(e) \in Seq(STRING) /\ IsPathWithin(q, Target(e))
    BY <1>4
  <2>2. Target(e) \in disk /\ (q # Target(e) => IsFolder(Target(e)))
    BY <1>5, <2>1, Ancestors
  <2>3. ~IsFolder(Target(e))
    BY <1>3, <2>2
  <2>. QED BY <2>2, <2>3
<1>6. directory \notin images
  <2>1. SUFFICES ASSUME directory \in images PROVE FALSE
    OBVIOUS
  <2>2. PICK e \in clipboardEntries : Target(e) \in Seq(STRING) /\ IsPathWithin(directory, Target(e))
                                      /\ ParentPath(Target(e)) = directory /\ Target(e) # <<>>
    BY <1>4, <2>1
  <2>3. Len(directory) = Len(Target(e)) - 1 /\ Len(Target(e)) \in Nat
    BY <2>2, ParentProperties
  <2>. QED BY <2>2, <2>3 DEF IsPathWithin
<1>7. ASSUME NEW p \in disk, ParentPath(p) \in images PROVE p \in images
  <2>1. ParentPath(p) \in disk /\ IsFolder(ParentPath(p))
    BY DEF IsTree
  <2>. QED BY <1>5, <1>7, <2>1
<1>8. Fits(images, disk, directory)
  BY <1>4, <1>6, <1>7 DEF Fits, Removable
<1>9. ASSUME NEW e \in clipboardEntries PROVE ~IsPathWithin(directory, e)
  <2>1. SUFFICES ASSUME IsPathWithin(directory, e) PROVE FALSE
    OBVIOUS
  <2>2. IsFolder(e)
    <3>1. directory # e => IsFolder(e)
      BY <1>3, <2>1, Ancestors
    <3>. QED BY <3>1
  <2>3. IsPathWithin(e, e)
    BY <1>3, WithinParent
  <2>4. Target(e) \in Seq(STRING) /\ Target(e) # <<>> /\ ParentPath(Target(e)) = directory
    <3>. DEFINE q == Relocated(e, e, Target(e))
    <3>1. q = Relocated(e, e, Target(e))
      OBVIOUS
    <3>. HIDE DEF q
    <3>. QED BY <1>3, <2>3, <3>1, ImageProperties DEF Target
  <2>5. IsPathWithin(Target(e), e)
    BY <1>3, <2>1, <2>4, WithinParent
  <2>. QED BY <1>3, <2>2, <2>5
<1>10. Removable(Below(disk, clipboardEntries), disk, directory)
  BY <1>9, BelowIsRemovable
<1>. QED BY <1>5, <1>8, <1>10 DEF images, Target

\* A paste that is not refused has its sources, and replaces nothing unless it
\* may.
LEMMA AcceptedFits ==
    ASSUME IsTree(disk), disk \subseteq Seq(STRING),
           clipboardEntries \subseteq Seq(STRING) \ {<<>>},
           NEW directory \in disk, IsFolder(directory),
           NEW replace, ~Refused(directory, replace)
    PROVE  /\ Pastable(directory)
           /\ Fits(PasteImages(directory), disk, directory)
           /\ \A q \in PasteImages(directory) \cap disk :
                 /\ replace /\ ~IsFolder(q)
                 /\ \E e \in clipboardEntries : q = DestinationPath(directory, e)
           /\ Removable(Below(disk, clipboardEntries), disk, directory)
<1>1. clipboardEntries \subseteq disk \ {<<>>} /\ Pastable(directory)
  BY DEF Refused, Obstructed, Pastable
<1>2. \A e \in clipboardEntries : DestinationPath(directory, e) \in disk => replace
  BY DEF Refused, Obstructed
<1>. QED BY <1>1, <1>2, PasteFits

(***************************************************************************)
(* The browser, for which any path can come to be.                         *)
(***************************************************************************)
\* What the application does with the browser is what its specification says.
LEMMA SameBrowser ==
    /\ \A path : Browser!Open(path) => Files!Open(path)
    /\ Browser!OpenSelected \/ Browser!GoBack \/ (\E delta \in {-1, 1} : Browser!SwitchLocation(delta))
           => Files!Navigate
    /\ Browser!Refresh => Files!Refresh
    /\ Browser!MoveSelection \/ Browser!ToggleSelectedMark => Files!Select
    /\ Browser!UnmarkAll /\ UNCHANGED disk => Files!Select
    /\ \A name \in NewNames : Browser!CreateDirectory(name) \/ Browser!RenameSelected(name)
           => Files!Write
    /\ Browser!Init => Files!Init
<1>. USE DEF Browser!NoEntry, Files!NoEntry, Browser!AnyOf, Files!AnyOf,
             Browser!BaseName, Files!BaseName, Browser!IsFolder, Files!IsFolder,
             Browser!ParentPath, Files!ParentPath, Browser!JoinPath, Files!JoinPath,
             Browser!Listing, Files!Listing, Browser!browser, Files!browser,
             Browser!CanOpen, Files!CanOpen, Browser!MayNotOpen, Files!MayNotOpen,
             Browser!UpdateCurrentLocation, Files!UpdateCurrentLocation,
             Browser!Remember, Files!Remember, Browser!Enter, Files!Enter
<1>1. \A path : Browser!Open(path) => Files!Open(path)
  BY DEF Browser!Open, Files!Open
<1>2. Browser!OpenSelected => Files!OpenSelected
  BY <1>1 DEF Browser!OpenSelected, Files!OpenSelected
<1>3. Browser!GoBack => Files!GoBack
  BY <1>1 DEF Browser!GoBack, Files!GoBack
<1>4. ASSUME NEW delta, Browser!SwitchLocation(delta) PROVE Files!SwitchLocation(delta)
  BY <1>4 DEF Browser!SwitchLocation, Files!SwitchLocation
<1>5. \A files, path : Browser!RefreshAndSelect(files, path) => Files!RefreshAndSelect(files, path)
  BY DEF Browser!RefreshAndSelect, Files!RefreshAndSelect, Browser!Reselect, Files!Reselect,
         Browser!PruneSelectionMarks, Files!PruneSelectionMarks
<1>6. Browser!Refresh => Files!Refresh
  BY <1>5 DEF Browser!Refresh, Files!Refresh
<1>7. Browser!MoveSelection => Files!MoveSelection
  BY DEF Browser!MoveSelection, Files!MoveSelection
<1>8. Browser!ToggleSelectedMark => Files!ToggleSelectedMark
  BY DEF Browser!ToggleSelectedMark, Files!ToggleSelectedMark
<1>9. Browser!UnmarkAll /\ UNCHANGED disk => Files!ClearSelectionMarks
  BY DEF Browser!UnmarkAll, Files!ClearSelectionMarks, Files!UnmarkAll
<1>10. Universe \subseteq Seq(STRING)
  BY AppAssumption DEF Browser!FileBrowserAssumption
<1>11. ASSUME NEW name \in NewNames, Browser!CreateDirectory(name) PROVE Files!CreateDirectory(name)
  BY <1>5, <1>10, <1>11 DEF Browser!CreateDirectory, Files!CreateDirectory
<1>12. ASSUME NEW name \in NewNames, Browser!RenameSelected(name) PROVE Files!RenameSelected(name)
  BY <1>5, <1>10, <1>12 DEF Browser!RenameSelected, Files!RenameSelected, Browser!IsFree,
     Files!IsFree, Browser!Below, Files!Below, Browser!IsPathWithin, Files!IsPathWithin,
     Browser!Relocated, Files!Relocated
<1>13. Browser!Init => Files!Init
  BY DEF Browser!Init, Files!Init
<1>. QED BY <1>1, <1>2, <1>3, <1>4, <1>6, <1>7, <1>8, <1>9, <1>11, <1>12, <1>13
         DEF Files!Navigate, Files!Select, Files!Write

(***************************************************************************)
(* The operation and the disk.                                             *)
(***************************************************************************)
\* What is on the clipboard is below the root, and nothing is when it is empty.
ClipboardInv ==
    /\ clipboardEntries \subseteq Seq(STRING) \ {<<>>}
    /\ ~hasClipboard => clipboardEntries = {}

\* The operation makes images that fit into the folder on the screen, and takes
\* away what can be taken away.
OperationInv ==
    hasWorker =>
        /\ Fits(operation.images, disk, currentPath)
        /\ operation.sources \subseteq Seq(STRING)
        /\ operation.kind # "Copy" /\ state = "Copying" =>
              Removable(operation.sources, disk, currentPath)

DiskInv == Files!BrowserInv /\ ClipboardInv /\ OperationInv

\* What the dialog asks: whether the files of the clipboard may replace their
\* namesakes in the folder on the screen.  Before its rename() StartPaste() has
\* looked at what it moves.
AskedInv ==
    /\ "OverwriteConfirm" \in open =>
          /\ pc # "rename" => overwritten = {}
          /\ pendingPasteDestination = currentPath
          /\ consented = {DestinationPath(currentPath, e) : e \in clipboardEntries}
    /\ pc = "rename" => clipboardAction = "Move" /\ Pastable(currentPath)

\* The parts of the browser's invariant that speak of the disk.
LEMMA BrowserFacts ==
    ASSUME Files!BrowserInv
    PROVE  /\ IsTree(disk) /\ disk \subseteq Seq(STRING)
           /\ currentPath \in disk /\ IsFolder(currentPath)
           /\ \A e \in ActiveEntries : /\ e \in Seq(STRING) /\ e # <<>>
                                       /\ ParentPath(e) = currentPath
           /\ marked \subseteq entries
<1>. USE SamePaths DEF Files!BrowserInv, Files!BrowserTypeOK, Files!MarksAreListed, Files!NoEntry,
                       Files!AnyOf
<1>1. /\ IsTree(disk) /\ disk \subseteq Seq(STRING) /\ currentPath \in disk
      /\ IsFolder(currentPath) /\ marked \subseteq entries
  OBVIOUS
<1>2. \A e \in entries : e \in Seq(STRING) /\ e # <<>> /\ ParentPath(e) = currentPath
  OBVIOUS
<1>3. selected \in entries \/ selected = <<>>
  OBVIOUS
<1>4. ActiveEntries \subseteq entries
  BY <1>3 DEF ActiveEntries, Browser!MarkedEntries, Browser!NoEntry
<1>. QED BY <1>1, <1>2, <1>4

\* Whoever writes a tree that has the folder on the screen does what the browser
\* expects of the file operations.
LEMMA Writes ==
    ASSUME IsTree(disk'), disk' \subseteq Seq(STRING), currentPath \in disk', UNCHANGED browser
    PROVE  Files!OperationWrites
<1>1. Files!IsTree(disk') <=> IsTree(disk')
  BY SamePaths
<1>. QED BY <1>1 DEF Files!OperationWrites, Files!Trees, browser, Files!browser

\* A start that fits leaves a tree, even if the operation has failed by then.
LEMMA LaunchFits ==
    ASSUME DiskInv, NEW kind, NEW roots, NEW sources \in SUBSET Seq(STRING), NEW images,
           Launch(kind, roots, sources, images), UNCHANGED currentPath,
           Fits(images, disk, currentPath), Removable(sources, disk, currentPath)
    PROVE  /\ IsTree(disk') /\ disk' \subseteq Seq(STRING) /\ currentPath \in disk'
           /\ OperationInv' /\ (hasWorker' => UNCHANGED disk)
<1>1. IsTree(disk) /\ disk \subseteq Seq(STRING) /\ currentPath \in disk
  BY BrowserFacts DEF DiskInv
<1>2. CASE /\ operation' = [kind |-> kind, roots |-> roots, sources |-> sources, images |-> images]
           /\ UNCHANGED disk
  <2>1. operation'.images = images /\ operation'.sources = sources
    BY <1>2
  <2>. QED BY <1>1, <1>2, <2>1 DEF OperationInv
<1>3. CASE hasWorker' = FALSE /\ disk' \in Aftermath(kind, sources, images)
  <2>1. /\ IsTree(disk') /\ disk' \subseteq Seq(STRING) /\ currentPath \in disk'
    BY <1>1, <1>3, AftermathFits
  <2>. QED BY <1>3, <2>1 DEF OperationInv
<1>. QED BY <1>2, <1>3 DEF Launch, NoWorker

\* Nothing is put there and taken away by a paste that its worker refuses.
LEMMA NothingFits ==
    ASSUME NEW files, NEW directory PROVE Fits({}, files, directory) /\ Removable({}, files, directory)
BY DEF Fits, Removable

\* A worker is given what fits into the folder on the screen, or refuses.
LEMMA LaunchKeepsDisk ==
    ASSUME DiskInv, NEW replace, PasteLaunched(currentPath, replace), UNCHANGED browser
    PROVE  Files!OperationWrites /\ ClipboardInv' /\ OperationInv'
<1>. DEFINE images == PasteImages(currentPath)
            gone   == Below(disk, clipboardEntries)
<1>1. UNCHANGED currentPath /\ ClipboardInv'
  BY DEF browser, PasteLaunched, DiskInv, ClipboardInv
<1>2. ASSUME Launch(clipboardAction, clipboardEntries, {}, {})
      PROVE  Files!OperationWrites /\ OperationInv'
  BY <1>1, <1>2, NothingFits, LaunchFits, Writes
<1>3. ASSUME ~Refused(currentPath, replace),
             Launch(clipboardAction, clipboardEntries, gone, images)
      PROVE  Files!OperationWrites /\ OperationInv'
  <2>1. /\ IsTree(disk) /\ disk \subseteq Seq(STRING) /\ currentPath \in disk
        /\ IsFolder(currentPath)
    BY BrowserFacts DEF DiskInv
  <2>2. Fits(images, disk, currentPath) /\ Removable(gone, disk, currentPath)
    BY <1>3, <2>1, AcceptedFits DEF DiskInv, ClipboardInv
  <2>3. gone \in SUBSET Seq(STRING)
    BY <2>1 DEF Below
  <2>. HIDE DEF images, gone
  <2>. QED BY <1>1, <1>3, <2>2, <2>3, LaunchFits, Writes
<1>. QED BY <1>1, <1>2, <1>3 DEF PasteLaunched

\* A rename() that works puts what fits into the folder on the screen.
LEMMA RenameKeepsDisk ==
    ASSUME DiskInv, Pastable(currentPath), PasteRenamed(currentPath), UNCHANGED browser
    PROVE  [Files!OperationWrites]_(Files!vars) /\ ClipboardInv' /\ OperationInv'
<1>. DEFINE images == PasteImages(currentPath)
            gone   == Below(disk, clipboardEntries)
<1>1. ~hasWorker' /\ ClipboardInv'
  BY DEF PasteRenamed, AfterRename, DiskInv, ClipboardInv
<1>2. CASE clipboardEntries \subseteq disk /\ disk' = (disk \ gone) \cup images
  <2>1. /\ IsTree(disk) /\ disk \subseteq Seq(STRING) /\ currentPath \in disk
        /\ IsFolder(currentPath)
    BY BrowserFacts DEF DiskInv
  <2>2. Fits(images, disk, currentPath) /\ Removable(gone, disk, currentPath)
    BY <1>2, <2>1, PasteFits DEF DiskInv, ClipboardInv
  <2>. HIDE DEF images, gone
  <2>3. IsTree(disk') /\ currentPath \in disk'
    BY <1>2, <2>1, <2>2, TreeStays
  <2>4. disk' \subseteq Seq(STRING)
    BY <1>2, <2>1, <2>2 DEF Fits
  <2>. QED BY <1>1, <2>3, <2>4, Writes DEF OperationInv
<1>3. CASE UNCHANGED disk
  BY <1>1, <1>3 DEF OperationInv, browser, Files!vars, Files!browser
<1>. QED BY <1>2, <1>3 DEF PasteRenamed

\* Where a paste goes is the folder on the screen.
LEMMA PasteGoesHere == ASSUME AskedInv PROVE Destination = currentPath
BY DEF AskedInv, Destination, Replacing

\* Each way through StartPaste() leaves the browser its folder, and an operation
\* that fits.
LEMMA PasteKeepsDisk ==
    ASSUME ControlInv, DiskInv, AskedInv, PasteStep
    PROVE  [Files!OperationWrites]_(Files!vars) /\ ClipboardInv' /\ OperationInv'
<1>1. Destination = currentPath /\ ~hasWorker
  BY PasteGoesHere DEF ControlInv, PasteInv, WorkerInv, PasteStep, PasteRefusal, PasteAccepted,
                       RenamePaste, State, Worker!Outcomes
<1>2. UNCHANGED browser
  BY DEF PasteStep, PasteRefusal, PasteAccepted, RenamePaste, PasteEnds
<1>3. CASE UNCHANGED <<disk, worker, clipboard>>
  BY <1>1, <1>2, <1>3 DEF DiskInv, ClipboardInv, OperationInv, browser, Files!vars, Files!browser
<1>4. ASSUME NEW replace, PasteLaunched(currentPath, replace)
      PROVE  [Files!OperationWrites]_(Files!vars) /\ ClipboardInv' /\ OperationInv'
  BY <1>2, <1>4, LaunchKeepsDisk
<1>5. CASE RenamePaste
  <2>1. Pastable(currentPath)
    BY <1>5 DEF RenamePaste, AskedInv
  <2>. QED BY <1>1, <1>2, <1>4, <1>5, <2>1, RenameKeepsDisk DEF RenamePaste
<1>. QED BY <1>1, <1>3, <1>4, <1>5 DEF PasteStep, PasteRefusal, PasteRefused, PasteAccepted

\* A deletion takes away what is in the folder on the screen.
LEMMA DeleteKeepsDisk ==
    ASSUME DiskInv, Delete(ActiveEntries)
    PROVE  /\ Files!Select \/ Files!OperationWrites \/ UNCHANGED <<disk, browser>>
           /\ ClipboardInv' /\ OperationInv'
<1>. DEFINE roots == NormalizeEntryRoots(ActiveEntries)
            gone  == Below(disk, roots)
<1>1. UNCHANGED currentPath /\ ClipboardInv'
  BY DEF Delete, StartDelete, DiskInv, ClipboardInv, Browser!UnmarkAll, browser
<1>2. disk \in SUBSET Seq(STRING) /\ currentPath \in Seq(STRING)
  BY BrowserFacts DEF DiskInv
<1>3. roots \in SUBSET (Seq(STRING) \ {<<>>})
  BY BrowserFacts DEF DiskInv, NormalizeEntryRoots
<1>4. \A root \in roots : ~IsPathWithin(currentPath, root)
  <2>. TAKE root \in roots
  <2>1. ParentPath(root) = currentPath
    BY BrowserFacts DEF DiskInv, NormalizeEntryRoots
  <2>2. Len(currentPath) = Len(root) - 1 /\ Len(root) \in Nat
    BY <1>3, <2>1, ParentProperties
  <2>. QED BY <2>2 DEF IsPathWithin
<1>5. Launch("Delete", roots, gone, {})
  BY DEF Delete, StartDelete
<1>. HIDE DEF roots
<1>6. Removable(gone, disk, currentPath) /\ gone \in SUBSET Seq(STRING)
  <2>1. Removable(gone, disk, currentPath)
    BY <1>2, <1>3, <1>4, BelowIsRemovable
  <2>. QED BY <1>2, <2>1 DEF Below
<1>. HIDE DEF gone
<1>7. /\ IsTree(disk') /\ disk' \subseteq Seq(STRING) /\ currentPath \in disk'
      /\ OperationInv' /\ (hasWorker' => UNCHANGED disk)
  BY <1>1, <1>5, <1>6, NothingFits, LaunchFits
<1>8. CASE UNCHANGED browser
  BY <1>1, <1>7, <1>8, Writes
<1>9. CASE hasWorker' /\ Browser!UnmarkAll
  BY <1>1, <1>7, <1>9, SameBrowser
<1>. QED BY <1>8, <1>9 DEF Delete

\* What another program does leaves a tree, and the folder on the screen.
LEMMA OthersKeepTree ==
    ASSUME DiskInv, OthersRun
    PROVE  Files!OperationWrites /\ ClipboardInv' /\ OperationInv'
<1>1. IsTree(disk) /\ disk \subseteq Seq(STRING) /\ currentPath \in disk /\ IsFolder(currentPath)
  BY BrowserFacts DEF DiskInv
<1>2. UNCHANGED <<hasWorker, clipboard, browser>> /\ ~hasWorker
  BY DEF OthersRun, OthersWrite, Elsewhere
<1>3. PICK p \in Shared : \/ ParentPath(p) \in disk /\ disk' = disk \cup {p}
                          \/ disk' = disk \ {p}
  BY DEF OthersRun, OthersWrite
<1>4. p \in Seq(STRING) /\ p # <<>> /\ ~IsFolder(p) /\ IsFolder(ParentPath(p))
  BY AppAssumption, FileOperationsAssumption DEF Browser!FileBrowserAssumption
<1>5. IsTree(disk')
  BY <1>1, <1>3, <1>4 DEF IsTree
<1>6. disk' \subseteq Seq(STRING) /\ currentPath \in disk'
  BY <1>1, <1>3, <1>4
<1>. QED BY <1>2, <1>5, <1>6, Writes DEF DiskInv, ClipboardInv, OperationInv

\* Whatever the worker does to the disk, the folder on the screen stays.
LEMMA WorkerKeepsDisk ==
    ASSUME WorkerInv, DiskInv, WorkerRuns
    PROVE  Files!OperationWrites /\ OperationInv'
<1>. DEFINE images  == operation.images
            sources == operation.sources
<1>1. /\ hasWorker /\ UNCHANGED <<hasWorker, operation, clipboard, browser>>
  BY DEF WorkerRuns, WorkerStep, WorkerInv, WorkerCompletes, WorkerFails, WorkerRecants,
         WorkerFinishes, Worker!Complete, Worker!Fail, Worker!Recant, Worker!Finish, Elsewhere
<1>2. IsTree(disk) /\ disk \subseteq Seq(STRING) /\ currentPath \in disk
  BY BrowserFacts DEF DiskInv
<1>3. /\ Fits(images, disk, currentPath) /\ images \subseteq Seq(STRING)
      /\ sources \subseteq Seq(STRING)
      /\ operation.kind # "Copy" /\ state = "Copying" => Removable(sources, disk, currentPath)
  BY <1>1 DEF DiskInv, OperationInv, Fits
<1>. HIDE DEF images, sources
<1>4. ASSUME NEW gone, Removable(gone, disk, currentPath),
             disk' = (disk \ gone) \cup images, state' # "Copying"
      PROVE  Files!OperationWrites /\ OperationInv'
  <2>1. IsTree(disk') /\ currentPath \in disk' /\ Fits(images, disk', currentPath)
    BY <1>2, <1>3, <1>4, TreeStays
  <2>2. disk' \subseteq Seq(STRING)
    BY <1>2, <1>3, <1>4
  <2>3. UNCHANGED currentPath
    BY <1>1 DEF browser
  <2>4. OperationInv'
    BY <1>1, <1>3, <1>4, <2>1, <2>3 DEF OperationInv, images, sources
  <2>. QED BY <1>1, <2>1, <2>2, <2>4, Writes
<1>5. ASSUME disk' = disk \/ disk' = disk \ images, state' # "Copying"
      PROVE  Files!OperationWrites /\ OperationInv'
  <2>1. Removable({}, disk, currentPath) /\ Fits({}, disk, currentPath)
    BY DEF Removable, Fits
  <2>2. IsTree(disk') /\ currentPath \in disk'
    <3>1. CASE disk' = disk
      BY <1>2, <3>1
    <3>2. CASE disk' = disk \ images
      <4>1. Removable(images, disk, currentPath) /\ disk' = (disk \ images) \cup {}
        BY <1>3, <3>2 DEF Fits
      <4>. QED BY <1>2, <2>1, <4>1, TreeStays
    <3>. QED BY <1>5, <3>1, <3>2
  <2>3. disk' \subseteq disk
    BY <1>5
  <2>4. Fits(images, disk', currentPath)
    BY <1>3, <2>3 DEF Fits, Removable
  <2>5. UNCHANGED currentPath
    BY <1>1 DEF browser
  <2>6. OperationInv'
    BY <1>1, <1>3, <1>5, <2>4, <2>5 DEF OperationInv, images, sources
  <2>. QED BY <1>1, <1>2, <2>2, <2>3, <2>6, Writes
<1>6. CASE WorkerCompletes
  <2>. DEFINE gone == IF operation.kind = "Copy" THEN {} ELSE sources
  <2>1. disk' = (disk \ gone) \cup images /\ state = "Copying" /\ state' = "Completed"
    BY <1>6 DEF WorkerCompletes, Worker!Complete, images, sources
  <2>2. Removable(gone, disk, currentPath)
    BY <1>3, <2>1 DEF Removable
  <2>. HIDE DEF gone
  <2>. QED BY <1>4, <2>1, <2>2
<1>7. CASE WorkerFails
  <2>1. state' = "Failed"
    BY <1>7 DEF WorkerFails, Worker!Fail
  <2>2. CASE UNCHANGED disk
    BY <1>5, <2>1, <2>2
  <2>3. CASE state = "Copying" /\ disk' \in Aftermath(operation.kind, sources, images)
    <3>1. /\ IsTree(disk') /\ disk' \subseteq Seq(STRING) /\ currentPath \in disk'
          /\ Fits(images, disk', currentPath)
      BY <1>2, <1>3, <2>3, AftermathFits
    <3>2. UNCHANGED currentPath
      BY <1>1 DEF browser
    <3>3. OperationInv'
      BY <1>1, <1>3, <2>1, <3>1, <3>2 DEF OperationInv, images, sources
    <3>. QED BY <1>1, <3>1, <3>3, Writes
  <2>. QED BY <1>7, <2>2, <2>3 DEF WorkerFails, images, sources
<1>8. CASE WorkerRecants
  BY <1>5, <1>8 DEF WorkerRecants, Worker!Recant, images
<1>9. CASE WorkerFinishes
  BY <1>5, <1>9 DEF WorkerFinishes, Worker!Finish, Worker!Outcomes
<1>. QED BY <1>6, <1>7, <1>8, <1>9 DEF WorkerRuns, WorkerStep

\* Every step of the application is one of the browser or of the file operations
\* beside it, and keeps the clipboard and the operation to what they have to be.
LEMMA BrowserSteps ==
    ASSUME ControlInv, ShapeInv, DiskInv, AskedInv, [Next]_vars
    PROVE  [Files!Next]_(Files!vars) /\ ClipboardInv' /\ OperationInv'
<1>. DEFINE Goal == [Files!Next]_(Files!vars) /\ ClipboardInv' /\ OperationInv'
            Idle == ~hasWorker /\ UNCHANGED <<hasWorker, clipboard>>
            Navigates == Files!Navigate \/ Files!Refresh \/ Files!Select \/ Files!Write
                         \/ UNCHANGED <<disk, browser>>
<1>1. UNCHANGED clipboard => ClipboardInv'
  BY DEF DiskInv, ClipboardInv
<1>2. Navigates => [Files!Next]_(Files!vars)
  BY DEF Files!Next, Files!vars, Files!browser, browser
<1>3. ASSUME Idle, Navigates PROVE Goal
  BY <1>1, <1>2, <1>3 DEF OperationInv
<1>4. ASSUME UNCHANGED <<disk, currentPath, hasWorker, operation, clipboard>>, Navigates,
             state' = "Copying" => state = "Copying"
      PROVE  Goal
  <2>1. OperationInv'
    BY <1>4 DEF DiskInv, OperationInv
  <2>. QED BY <1>1, <1>2, <1>4, <2>1
<1>5. Browser!Refresh => UNCHANGED <<disk, currentPath>> /\ Files!Refresh
  BY SameBrowser DEF Browser!Refresh, Browser!RefreshAndSelect
<1>6. CASE UNCHANGED <<facade, browser>>
  BY <1>4, <1>6 DEF browser
<1>7. CASE ReportResult \/ FinishedRefresh
  BY <1>4, <1>5, <1>7 DEF ReportResult, FinishedRefresh, browser
<1>8. CASE AcknowledgeResult
  <2>1. hasWorker' = FALSE /\ UNCHANGED <<disk, browser, clipboard>>
    BY <1>8 DEF AcknowledgeResult, Acknowledge, NoWorker
  <2>. QED BY <1>1, <1>2, <2>1 DEF OperationInv
<1>9. CASE TextAccepted
  <2>1. State = "Idle"
    BY <1>9 DEF TextAccepted, ControlInv, OpenInv
  <2>2. Idle
    BY <1>9, <2>1 DEF TextAccepted, ControlInv, WorkerInv, State, Worker!Outcomes
  <2>3. Navigates
    BY <1>9, SameBrowser DEF TextAccepted
  <2>. QED BY <1>3, <2>2, <2>3
<1>10. CASE CancelOperation
  BY <1>4, <1>10 DEF CancelOperation, CancelWorker, Worker!Cancel, browser
<1>11. CASE PasteStep
  BY <1>11, PasteKeepsDisk DEF Files!Next
<1>12. CASE DeleteConfirmPressed \/ RecursiveDeleteConfirmPressed
  <2>1. CASE Delete(ActiveEntries)
    <3>1. CASE Files!Select \/ Files!OperationWrites
      BY <2>1, <3>1, DeleteKeepsDisk DEF Files!Next
    <3>2. CASE UNCHANGED <<disk, browser>>
      BY <1>2, <2>1, <3>2, DeleteKeepsDisk
    <3>. QED BY <2>1, <3>1, <3>2, DeleteKeepsDisk
  <2>. QED BY <1>6, <1>12, <2>1 DEF DeleteConfirmPressed, RecursiveDeleteConfirmPressed
<1>13. CASE QuickPlacePressed
  <2>1. ~hasWorker
    BY <1>13, PadIsIdle DEF QuickPlacePressed, Pressed
  <2>2. Places \subseteq Seq(STRING)
    BY AppAssumption DEF Browser!FileBrowserAssumption
  <2>3. Navigates
    BY <1>13, <2>2, SameBrowser DEF QuickPlacePressed, Files!Navigate
  <2>. QED BY <1>3, <1>13, <2>1, <2>3 DEF QuickPlacePressed
<1>14. CASE BrowsePressed
  <2>1. ~hasWorker
    BY <1>14, PadIsIdle DEF BrowsePressed, Pressed
  <2>2. Navigates
    BY <1>14, SameBrowser DEF BrowsePressed, Cross
  <2>. QED BY <1>3, <1>14, <2>1, <2>2 DEF BrowsePressed
<1>15. CASE MenuRefresh
  BY <1>4, <1>5, <1>15 DEF MenuRefresh
<1>16. CASE OthersRun
  BY <1>16, OthersKeepTree DEF Files!Next
<1>17. ASSUME NEW action, MenuClipboard(action) PROVE Goal
  <2>1. CASE ToClipboard(ActiveEntries, action) /\ Browser!UnmarkAll
    <3>1. UNCHANGED <<disk, currentPath, worker>>
      BY <2>1 DEF ToClipboard, Browser!UnmarkAll
    <3>2. ClipboardInv'
      BY <2>1, BrowserFacts DEF ToClipboard, NormalizeEntryRoots, DiskInv, ClipboardInv
    <3>3. Navigates
      BY <2>1, <3>1, SameBrowser
    <3>4. OperationInv'
      BY <3>1 DEF DiskInv, OperationInv
    <3>. QED BY <1>2, <3>2, <3>3, <3>4
  <2>. QED BY <1>6, <1>17, <2>1 DEF MenuClipboard
<1>18. CASE WorkerRuns
  <2>1. UNCHANGED clipboard
    BY <1>18 DEF WorkerRuns, WorkerStep
  <2>. QED BY <1>1, <1>18, <2>1, WorkerKeepsDisk DEF ControlInv, Files!Next
<1>19. CASE NoResult \/ NoText \/ TextCanceled \/ NoInput \/ CancelPressed \/ FinishedPressed
            \/ ClosePressed \/ OpenPressed \/ MenuProperties \/ MenuDelete
            \/ MenuPaste \/ OverwriteConfirmPressed
            \/ (\E input \in {"NewFolder", "Rename"} : MenuTextInput(input)) \/ UNCHANGED vars
  BY <1>6, <1>19 DEF NoResult, NoText, TextCanceled, NoInput, CancelPressed, FinishedPressed,
     ClosePressed, Close, OpenPressed, MenuProperties, MenuDelete, MenuPaste,
     OverwriteConfirmPressed, MenuTextInput, vars
<1>. QED BY <1>7, <1>8, <1>9, <1>10, <1>11, <1>12, <1>13, <1>14, <1>15, <1>16, <1>17, <1>18, <1>19
         DEF Next, UiStep, UiActs, FrameActs, MenuPressed

\* A paste finds in its way only what the user has agreed to overwrite.
LEMMA PasteAsks ==
    ASSUME DiskInv, AskedInv, PasteAccepted
    PROVE  /\ OverwritesOnlyConfirmed'
           /\ Pastable(currentPath)
           /\ UNCHANGED <<consented, currentPath>>
<1>1. /\ ~Refused(currentPath, Replacing) /\ overwritten' = PasteImages(currentPath) \cap disk
      /\ UNCHANGED <<consented, currentPath>>
  BY PasteGoesHere DEF PasteAccepted, PasteEnds, browser
<1>2. /\ IsTree(disk) /\ disk \subseteq Seq(STRING) /\ currentPath \in disk
      /\ IsFolder(currentPath)
  BY BrowserFacts DEF DiskInv
<1>3. /\ Pastable(currentPath)
      /\ \A q \in PasteImages(currentPath) \cap disk :
            /\ Replacing /\ ~IsFolder(q)
            /\ \E e \in clipboardEntries : q = DestinationPath(currentPath, e)
  BY <1>1, <1>2, AcceptedFits DEF DiskInv, ClipboardInv
<1>4. Replacing => consented = {DestinationPath(currentPath, e) : e \in clipboardEntries}
  BY DEF AskedInv, Replacing
<1>5. \A q \in overwritten' : q \in consented /\ ~IsFolder(q)
  BY <1>1, <1>3, <1>4
<1>. QED BY <1>1, <1>3, <1>5 DEF OverwritesOnlyConfirmed, IsFolder, BaseName

\* Between the question and the paste nothing changes of what was asked, whatever
\* another program does to the disk meanwhile.
LEMMA AskedSteps ==
    ASSUME ControlInv, ShapeInv, DiskInv, AskedInv, OverwritesOnlyConfirmed, [Next]_vars
    PROVE  AskedInv' /\ OverwritesOnlyConfirmed'
<1>. DEFINE Goal == AskedInv' /\ OverwritesOnlyConfirmed'
            Asks == UNCHANGED <<open, overwritten, consented, pendingPasteDestination,
                                currentPath, clipboardEntries>>
<1>1. ASSUME Asks, pc' # "rename", pc # "rename" PROVE Goal
  <2>1. AskedInv'
    BY <1>1 DEF AskedInv, DestinationPath, JoinPath, BaseName
  <2>. QED BY <1>1, <2>1 DEF OverwritesOnlyConfirmed, IsFolder, BaseName
<1>2. ASSUME "OverwriteConfirm" \notin open', UNCHANGED <<overwritten, consented>>, pc' # "rename"
      PROVE  Goal
  BY <1>2 DEF AskedInv, OverwritesOnlyConfirmed, IsFolder, BaseName
<1>3. CASE NoResult \/ NoText \/ NoInput \/ CancelPressed \/ CancelOperation
           \/ FinishedPressed \/ FinishedRefresh
  <2>1. UNCHANGED <<ui, overwritten, consented, clipboard, currentPath>>
    BY <1>3 DEF NoResult, NoText, NoInput, CancelPressed, CancelOperation, CancelWorker,
       FinishedPressed, Log, FinishedRefresh, Browser!Refresh, Browser!RefreshAndSelect, browser
  <2>2. pc # "rename" /\ pc' # "rename"
    BY <1>3 DEF NoResult, NoText, NoInput, CancelPressed, CancelOperation,
       FinishedPressed, FinishedRefresh, AfterResult
  <2>. QED BY <1>1, <2>1, <2>2
<1>4. CASE ReportResult
  <2>1. /\ open' \subseteq {"Error"} /\ UNCHANGED <<overwritten, consented>>
        /\ pc' # "rename"
    BY <1>4 DEF ReportResult, Log, ShapeInv, Occupied
  <2>. QED BY <1>2, <2>1
<1>5. CASE AcknowledgeResult
  <2>1. open' \subseteq {"Error"} /\ overwritten' = {} /\ pc' # "rename"
    BY <1>5 DEF AcknowledgeResult, Acknowledge, ShapeInv, Occupied, AfterResult
  <2>. QED BY <2>1 DEF AskedInv, OverwritesOnlyConfirmed
<1>6. CASE TextAccepted \/ TextCanceled
  <2>1. open = {"TextInput"} /\ UNCHANGED <<overwritten, consented>> /\ pc' # "rename"
    BY <1>6 DEF TextAccepted, TextCanceled, ShapeInv
  <2>2. "OverwriteConfirm" \notin open'
    BY <1>6, <2>1 DEF TextAccepted, TextCanceled
  <2>. QED BY <1>2, <2>1, <2>2
<1>7. CASE OverwriteConfirmPressed
  <2>1. overwritten = {} /\ pc = "input"
    BY <1>7, PressedAlone DEF OverwriteConfirmPressed, AskedInv, Handles
  <2>2. CASE /\ pc' = "paste"
             /\ UNCHANGED <<open, pendingPasteDestination, consented, overwritten, facade, browser>>
    BY <1>1, <2>1, <2>2 DEF browser
  <2>3. CASE /\ "OverwriteConfirm" \notin open' /\ overwritten' = {} /\ pc' = "result"
    BY <2>3 DEF AskedInv, OverwritesOnlyConfirmed
  <2>. QED BY <1>7, <2>1, <2>2, <2>3 DEF OverwriteConfirmPressed
<1>8. CASE MenuPaste
  <2>1. open = {"ContextMenu"} /\ RequestPaste(currentPath) /\ overwritten' = {}
        /\ UNCHANGED <<facade, browser>> /\ pc' # "rename"
    BY <1>8, PressedAlone DEF MenuPaste, RequestPaste
  <2>2. CASE /\ pendingPasteDestination' = currentPath
             /\ consented' = {DestinationPath(currentPath, e) : e \in clipboardEntries}
    BY <2>1, <2>2 DEF AskedInv, OverwritesOnlyConfirmed, browser, DestinationPath, JoinPath, BaseName
  <2>3. CASE UNCHANGED open
    BY <2>1, <2>3 DEF AskedInv, OverwritesOnlyConfirmed
  <2>. QED BY <2>1, <2>2, <2>3 DEF RequestPaste
<1>9. CASE DeleteConfirmPressed \/ RecursiveDeleteConfirmPressed
  <2>1. open = {"DeleteConfirm"} \/ open = {"RecursiveDeleteConfirm"}
    BY <1>9, PressedAlone DEF DeleteConfirmPressed, RecursiveDeleteConfirmPressed, Pressed
  <2>2. /\ "OverwriteConfirm" \notin open' /\ UNCHANGED <<overwritten, consented>>
        /\ pc' # "rename"
    BY <1>9, <2>1 DEF DeleteConfirmPressed, RecursiveDeleteConfirmPressed, Delete, AskAgain, Pressed
  <2>. QED BY <1>2, <2>2
<1>10. CASE ClosePressed \/ QuickPlacePressed \/ BrowsePressed \/ OpenPressed
  <2>1. /\ open \in {{}, {"Error"}, {"ContextMenu", "Error"}}
           \/ \E overlay \in Overlays \ {"OverwriteConfirm"} : open = {overlay}
        /\ UNCHANGED <<overwritten, consented>> /\ pc' # "rename"
    BY <1>10, PressedAlone DEF ClosePressed, Close, QuickPlacePressed, BrowsePressed, OpenPressed,
       Pressed
  <2>2. "OverwriteConfirm" \notin open'
    BY <1>10, <2>1 DEF ClosePressed, Close, QuickPlacePressed, BrowsePressed, OpenPressed
  <2>. QED BY <1>2, <2>1, <2>2
<1>11. CASE \/ MenuRefresh \/ MenuProperties \/ MenuDelete
            \/ \E input \in {"NewFolder", "Rename"} : MenuTextInput(input)
            \/ \E action \in {"Copy", "Move"} : MenuClipboard(action)
  <2>1. open = {"ContextMenu"} /\ UNCHANGED <<overwritten, consented>> /\ pc' # "rename"
    BY <1>11, PressedAlone DEF MenuRefresh, MenuProperties, MenuDelete, MenuTextInput,
       MenuClipboard, Pressed
  <2>2. "OverwriteConfirm" \notin open'
    BY <1>11, <2>1 DEF MenuRefresh, MenuProperties, MenuDelete, MenuTextInput, OpenTextInput,
                       MenuClipboard
  <2>. QED BY <1>2, <2>1, <2>2
<1>12. CASE PasteRefusal \/ RenamePaste
  <2>1. /\ "OverwriteConfirm" \notin open' /\ pc' # "rename" /\ UNCHANGED consented
        /\ overwritten' \in {{}, overwritten}
    BY <1>12 DEF PasteRefusal, RenamePaste, PasteEnds
  <2>. QED BY <1>2, <2>1 DEF AskedInv, OverwritesOnlyConfirmed
<1>13. CASE PasteAccepted
  <2>1. OverwritesOnlyConfirmed' /\ Pastable(currentPath)
    BY <1>13, PasteAsks
  <2>2. CASE IsRename /\ pc' = "rename" /\ UNCHANGED <<facade, browser, ui, consented>>
    <3>1. UNCHANGED <<disk, clipboardEntries, clipboardAction, currentPath, open,
                      pendingPasteDestination, consented>>
      BY <2>2 DEF browser
    <3>2. Pastable(currentPath)'
      BY <2>1, <3>1 DEF Pastable, DestinationPath, JoinPath, BaseName, IsPathWithin, IsFolder
    <3>. QED BY <2>1, <2>2, <3>1, <3>2 DEF AskedInv, IsRename, DestinationPath, JoinPath, BaseName
  <2>3. CASE PasteEnds
    BY <2>1, <2>3 DEF PasteEnds, AskedInv
  <2>. QED BY <1>13, <2>2, <2>3 DEF PasteAccepted
<1>14. CASE WorkerRuns
  <2>1. UNCHANGED <<ui, overwritten, consented, clipboard, currentPath, pc>>
    BY <1>14 DEF WorkerRuns, WorkerStep, Elsewhere, browser
  <2>2. pc # "rename"
    BY <1>14 DEF WorkerRuns, WorkerStep, WorkerCompletes, WorkerFails, WorkerRecants,
       WorkerFinishes, Worker!Complete, Worker!Fail, Worker!Recant, Worker!Finish,
       ControlInv, PasteInv, WorkerInv, State, Worker!Outcomes
  <2>. QED BY <1>1, <2>1, <2>2
<1>15. CASE OthersRun
  <2>1. UNCHANGED <<ui, overwritten, consented, clipboard, currentPath, pc>>
    BY <1>15 DEF OthersRun, OthersWrite, Elsewhere, browser
  <2>2. \A p \in disk' : p \in disk \/ ~IsFolder(p)
    BY <1>15, FileOperationsAssumption DEF OthersRun, OthersWrite
  <2>3. Pastable(currentPath) => Pastable(currentPath)'
    BY <2>1, <2>2 DEF Pastable, DestinationPath, JoinPath, BaseName, IsPathWithin, IsFolder
  <2>4. AskedInv'
    BY <2>1, <2>3 DEF AskedInv, DestinationPath, JoinPath, BaseName
  <2>. QED BY <2>1, <2>4 DEF OverwritesOnlyConfirmed, IsFolder, BaseName
<1>16. CASE UNCHANGED vars
  <2>1. UNCHANGED <<disk, ui, overwritten, consented, clipboard, currentPath, pc>>
    BY <1>16 DEF vars, browser
  <2>2. AskedInv'
    BY <2>1 DEF AskedInv, Pastable, DestinationPath, JoinPath, BaseName, IsPathWithin, IsFolder
  <2>. QED BY <2>1, <2>2 DEF OverwritesOnlyConfirmed, IsFolder, BaseName
<1>. QED BY <1>3, <1>4, <1>5, <1>6, <1>7, <1>8, <1>9, <1>10, <1>11, <1>12, <1>13, <1>14, <1>15, <1>16
         DEF Next, UiStep, UiActs, FrameActs, MenuPressed, PasteStep

\* All that is said of the frame loop, the screen and the disk.
AppInv == ControlInv /\ ShapeInv /\ DiskInv /\ AskedInv /\ OverwritesOnlyConfirmed

\* The application starts with no question open and nothing on the clipboard.
LEMMA AppInvStarts == AppInit => AppInv /\ Files!AnyDisk
<1>. SUFFICES ASSUME AppInit PROVE AppInv /\ Files!AnyDisk
  OBVIOUS
<1>1. Files!AnyDisk
  <2>1. disk \subseteq Seq(STRING) /\ IsTree(disk)
    BY AppAssumption, FileOperationsAssumption DEF AppInit, Init, Browser!FileBrowserAssumption
  <2>. QED BY <2>1, SameBrowser, SamePaths DEF AppInit, Files!AnyDisk, Files!Trees
<1>2. Files!BrowserInv
  BY <1>1, Files!BrowserInit, FilesAssumption
<1>3. ControlInv
  BY AppStarts
<1>4. open = {} /\ ~hasWorker /\ ~Occupied /\ clipboardEntries = {} /\ overwritten = {}
  BY DEF AppInit, Init, Worker!Init, Occupied, IsBusy, HasResult, State, Worker!Outcomes
<1>5. pc = "result"
  BY DEF AppInit
<1>. QED BY <1>1, <1>2, <1>3, <1>4, <1>5
         DEF AppInv, ShapeInv, DiskInv, ClipboardInv, OperationInv, AskedInv, OverwritesOnlyConfirmed

\* Every step keeps it, and is one of the browser.
LEMMA AppInvSteps == AppInv /\ [Next]_vars => AppInv' /\ [Files!Next]_(Files!vars)
<1>. SUFFICES ASSUME AppInv, [Next]_vars PROVE AppInv' /\ [Files!Next]_(Files!vars)
  OBVIOUS
<1>1. ControlInv' /\ ShapeInv'
  BY NextKeepsControl, ShapeSteps DEF AppInv
<1>2. [Files!Next]_(Files!vars) /\ ClipboardInv' /\ OperationInv'
  BY BrowserSteps DEF AppInv
<1>3. Files!BrowserInv'
  BY <1>2, Files!NextKeepsInv, FilesAssumption DEF AppInv, DiskInv
<1>4. AskedInv' /\ OverwritesOnlyConfirmed'
  BY AskedSteps DEF AppInv
<1>. QED BY <1>1, <1>2, <1>3, <1>4 DEF AppInv, DiskInv

\* The invariant of the application.
LEMMA AppInvariance == Spec => []AppInv
BY AppInvStarts, AppInvSteps, PTL DEF Spec

\* What StartPaste() finds in its way and lets pass is what the user has agreed to
\* overwrite, that very file in the folder on the screen, and never a folder: also
\* when another program puts files there or takes them away between the look of
\* RequestPaste(), the question, the answer and the checks of StartPaste()
\* (HandleOverwriteConfirmInput in app.cpp).  It does not speak of what comes
\* after those checks: a rename() replaces a file written since.
THEOREM AsksBeforeOverwriting == Spec => []OverwritesOnlyConfirmed
BY AppInvariance, PTL DEF AppInv

\* The application implements the file browser, whatever the other components do
\* to the disk: the folder on the screen is never moved, renamed or deleted away,
\* not even by pasting a folder that was cut before the user entered it.
THEOREM BrowserIsImplemented == Spec => Files!Spec
BY AppInvStarts, AppInvSteps, PTL DEF Spec, Files!Spec

\* So the folder on the screen exists, the marks are in its listing and the
\* history leads back to the root, in the application as in the browser alone.
THEOREM BrowserInApp ==
    Spec => [](Files!BrowserTypeOK /\ Files!MarksAreListed /\ Files!BackLeadsToRoot)
BY AppInvariance, PTL DEF AppInv, DiskInv, Files!BrowserInv

\* Within the bound on the paths that can come to be, the steps of the browser
\* are those that a run checks.
LEMMA BoundedBrowser ==
    ASSUME [Files!Next]_(Files!vars), disk \subseteq Universe, disk' \subseteq Universe
    PROVE  [Browser!Next]_<<disk, browser>>
<1>. USE DEF Browser!NoEntry, Files!NoEntry, Browser!AnyOf, Files!AnyOf,
             Browser!BaseName, Files!BaseName, Browser!IsFolder, Files!IsFolder,
             Browser!ParentPath, Files!ParentPath, Browser!JoinPath, Files!JoinPath,
             Browser!Listing, Files!Listing, Browser!browser, Files!browser, browser,
             Browser!CanOpen, Files!CanOpen, Browser!MayNotOpen, Files!MayNotOpen,
             Browser!UpdateCurrentLocation, Files!UpdateCurrentLocation,
             Browser!Remember, Files!Remember, Browser!Enter, Files!Enter
<1>1. \A path : Files!Open(path) => Browser!Open(path)
  BY DEF Browser!Open, Files!Open
<1>2. CASE Files!Navigate
  <2>1. CASE Files!OpenSelected
    BY <1>1, <2>1 DEF Browser!OpenSelected, Files!OpenSelected, Browser!Next, Browser!Navigate
  <2>2. CASE Files!GoBack
    BY <1>1, <2>2 DEF Browser!GoBack, Files!GoBack, Browser!Next, Browser!Navigate
  <2>3. ASSUME NEW delta \in {-1, 1}, Files!SwitchLocation(delta)
        PROVE  [Browser!Next]_<<disk, browser>>
    <3>1. Browser!SwitchLocation(delta)
      BY <2>3 DEF Browser!SwitchLocation, Files!SwitchLocation
    <3>. QED BY <3>1 DEF Browser!Next, Browser!Navigate
  <2>4. ASSUME NEW path, Files!Open(path) PROVE [Browser!Next]_<<disk, browser>>
    <3>1. path \in Universe \/ UNCHANGED <<disk, browser>>
      BY <2>4 DEF Files!Open
    <3>. QED BY <1>1, <2>4, <3>1 DEF Browser!Next, Browser!Navigate
  <2>. QED BY <1>2, <2>1, <2>2, <2>3, <2>4 DEF Files!Navigate
<1>3. \A files, path : Files!RefreshAndSelect(files, path) => Browser!RefreshAndSelect(files, path)
  BY DEF Browser!RefreshAndSelect, Files!RefreshAndSelect, Browser!Reselect, Files!Reselect,
         Browser!PruneSelectionMarks, Files!PruneSelectionMarks
<1>4. CASE Files!Refresh
  BY <1>3, <1>4 DEF Browser!Refresh, Files!Refresh, Browser!Next
<1>5. CASE Files!Select
  BY <1>5 DEF Browser!Select, Files!Select, Browser!MoveSelection, Files!MoveSelection,
     Browser!ToggleSelectedMark, Files!ToggleSelectedMark, Browser!ClearSelectionMarks,
     Files!ClearSelectionMarks, Browser!UnmarkAll, Files!UnmarkAll, Browser!Next
<1>6. CASE Files!Write
  <2>1. \A name : Files!CreateDirectory(name) => Browser!CreateDirectory(name)
    BY <1>3 DEF Browser!CreateDirectory, Files!CreateDirectory
  <2>2. \A name : Files!RenameSelected(name) => Browser!RenameSelected(name)
    BY <1>3 DEF Browser!RenameSelected, Files!RenameSelected, Browser!IsFree, Files!IsFree,
       Browser!Below, Files!Below, Browser!IsPathWithin, Files!IsPathWithin,
       Browser!Relocated, Files!Relocated
  <2>. QED BY <1>6, <2>1, <2>2 DEF Files!Write, Browser!Write, Browser!Next
<1>7. CASE Files!OperationWrites
  BY <1>7 DEF Browser!OperationWrites, Files!OperationWrites, Browser!Trees, Files!Trees,
     Browser!IsTree, Files!IsTree, Browser!Next
<1>8. CASE UNCHANGED Files!vars
  BY <1>8 DEF Files!vars
<1>. QED BY <1>2, <1>4, <1>5, <1>6, <1>7, <1>8 DEF Files!Next

\* No more paths have come to be than a run may hold.
InUniverse == disk \subseteq Universe

\* The same as the run states it, with its bound on the paths.
THEOREM BoundedBrowserIsImplemented == Spec /\ []InUniverse => ImplementsBrowser
<1>1. [Files!Next]_(Files!vars) /\ InUniverse /\ InUniverse' => [Browser!Next]_<<disk, browser>>
  BY BoundedBrowser DEF InUniverse
<1>. QED BY <1>1, BrowserIsImplemented, PTL DEF Files!Spec, ImplementsBrowser

(***************************************************************************)
(* What the user has asked for.                                            *)
(***************************************************************************)
\* What the open delete dialog has been told of: the files, and once it is asked
\* about them again the folders as well.
ConfirmInv ==
    /\ "DeleteConfirm" \in open => confirmed = {e \in ActiveEntries : ~IsFolder(e)}
    /\ "RecursiveDeleteConfirm" \in open => confirmed = ActiveEntries

\* A deletion takes only what is confirmed, and nothing the clipboard holds.
DeletionInv ==
    /\ clipboardAction \in {"Copy", "Move"}
    /\ hasWorker => operation.kind \in {"Copy", "Move", "Delete"} /\ operationKind = operation.kind
    /\ hasWorker /\ operation.kind = "Delete" =>
          /\ \A p \in operation.sources : \E root \in confirmed : IsPathWithin(p, root)
          /\ clipboardEntries \cap operation.sources = {}

\* A deletion takes what was asked about, and clears the clipboard when it would
\* take what that holds.
LEMMA DeleteTakes ==
    ASSUME DiskInv, Delete(ActiveEntries), ActiveEntries \subseteq confirmed
    PROVE  /\ \A p \in Below(disk, NormalizeEntryRoots(ActiveEntries)) :
                 /\ p \in disk /\ p \notin clipboardEntries'
                 /\ \E root \in confirmed : IsPathWithin(p, root)
           /\ UNCHANGED <<clipboardAction, confirmed>> /\ operationKind' = "Delete"
           /\ Launch("Delete", NormalizeEntryRoots(ActiveEntries),
                     Below(disk, NormalizeEntryRoots(ActiveEntries)), {})
<1>. DEFINE roots == NormalizeEntryRoots(ActiveEntries)
            gone  == Below(disk, roots)
<1>1. /\ UNCHANGED <<clipboardAction, confirmed>> /\ clipboardEntries' \subseteq clipboardEntries
      /\ clipboardEntries' # {} => ~TouchesClipboard(roots)
      /\ Launch("Delete", roots, gone, {}) /\ operationKind' = "Delete"
  BY DEF Delete, StartDelete
<1>2. \A p \in gone : p \in disk /\ \E root \in roots : IsPathWithin(p, root)
  BY DEF Below
<1>3. roots \subseteq confirmed
  BY DEF NormalizeEntryRoots
<1>4. clipboardEntries' \cap gone = {}
  <2>1. SUFFICES ASSUME NEW e \in clipboardEntries', e \in gone PROVE FALSE
    OBVIOUS
  <2>2. PICK root \in roots : IsPathWithin(e, root)
    BY <1>2, <2>1
  <2>3. hasClipboard /\ e \in clipboardEntries
    BY <1>1, <2>1 DEF DiskInv, ClipboardInv
  <2>. QED BY <1>1, <2>2, <2>3 DEF TouchesClipboard
<1>. QED BY <1>1, <1>2, <1>3, <1>4

\* A deletion that is started has been confirmed.
LEMMA DeleteIsConfirmed ==
    ASSUME DiskInv, DeletionInv, Delete(ActiveEntries), ActiveEntries \subseteq confirmed
    PROVE  DeletionInv'
<1>. DEFINE roots == NormalizeEntryRoots(ActiveEntries)
            gone  == Below(disk, roots)
<1>1. /\ \A p \in gone : /\ p \notin clipboardEntries'
                           /\ \E root \in confirmed : IsPathWithin(p, root)
      /\ UNCHANGED <<clipboardAction, confirmed>> /\ operationKind' = "Delete"
      /\ Launch("Delete", roots, gone, {})
  BY DeleteTakes
<1>. HIDE DEF roots, gone
<1>2. CASE hasWorker' = FALSE
  BY <1>1, <1>2 DEF DeletionInv
<1>3. CASE operation' = [kind |-> "Delete", roots |-> roots, sources |-> gone, images |-> {}]
  <2>1. operation'.kind = "Delete" /\ operation'.sources = gone
    BY <1>3
  <2>2. \A p \in gone : \E root \in confirmed' : IsPathWithin(p, root)
    BY <1>1
  <2>. QED BY <1>1, <2>1, <2>2 DEF DeletionInv, IsPathWithin
<1>. QED BY <1>1, <1>2, <1>3 DEF Launch, NoWorker

\* A paste is no deletion.
LEMMA PasteIsNoDeletion ==
    ASSUME ControlInv, DeletionInv, PasteStep
    PROVE  DeletionInv'
<1>1. ~hasWorker /\ UNCHANGED <<clipboardAction>>
  BY DEF PasteStep, PasteRefusal, PasteRefused, PasteAccepted, RenamePaste, PasteRenamed, AfterRename,
         PasteLaunched, ControlInv, PasteInv, WorkerInv, State, Worker!Outcomes
<1>2. CASE ~hasWorker'
  BY <1>1, <1>2 DEF DeletionInv
<1>3. ASSUME NEW directory, NEW replace, PasteLaunched(directory, replace) PROVE DeletionInv'
  <2>1. operation'.kind = clipboardAction \/ ~hasWorker'
    BY <1>3 DEF PasteLaunched, Launch, NoWorker
  <2>2. operationKind' = clipboardAction
    BY <1>3 DEF PasteLaunched
  <2>. QED BY <1>1, <2>1, <2>2 DEF DeletionInv
<1>4. UNCHANGED worker => ~hasWorker'
  BY <1>1
<1>. QED BY <1>2, <1>3, <1>4 DEF PasteStep, PasteRefusal, PasteRefused, PasteAccepted, RenamePaste,
                                 PasteRenamed

\* When a deletion starts the user has been asked about all of it, about folders
\* twice.
LEMMA DeleteIsAnswered ==
    ASSUME ControlInv, ShapeInv, ConfirmInv, DeleteConfirmPressed \/ RecursiveDeleteConfirmPressed
    PROVE  \/ Delete(ActiveEntries) /\ ActiveEntries \subseteq confirmed
           \/ UNCHANGED <<facade, browser>>
<1>1. CASE DeleteConfirmPressed
  <2>1. open = {"DeleteConfirm"}
    BY <1>1, PressedAlone DEF DeleteConfirmPressed, Pressed
  <2>2. ~IncludesDirectory(ActiveEntries) => ActiveEntries \subseteq confirmed
    BY <2>1 DEF ConfirmInv, IncludesDirectory
  <2>. QED BY <1>1, <2>2 DEF DeleteConfirmPressed
<1>2. CASE RecursiveDeleteConfirmPressed
  <2>1. open = {"RecursiveDeleteConfirm"}
    BY <1>2, PressedAlone DEF RecursiveDeleteConfirmPressed, Pressed
  <2>. QED BY <1>2, <2>1 DEF RecursiveDeleteConfirmPressed, ConfirmInv
<1>. QED BY <1>1, <1>2

\* Between the question and the deletion nothing changes of what was asked, and
\* until the deletion is over nothing of what was answered.
LEMMA ConfirmSteps ==
    ASSUME AppInv, ConfirmInv, DeletionInv, [Next]_vars
    PROVE  ConfirmInv' /\ DeletionInv'
<1>. DEFINE Closed == "DeleteConfirm" \notin open' /\ "RecursiveDeleteConfirm" \notin open'
<1>. USE DEF AppInv
<1>1. UNCHANGED <<open, browser, confirmed>> => ConfirmInv'
  BY DEF ConfirmInv, ActiveEntries, Browser!MarkedEntries, Browser!NoEntry, IsFolder, BaseName,
         browser
<1>2. Closed => ConfirmInv'
  BY DEF ConfirmInv
<1>3. UNCHANGED <<hasWorker, operation, operationKind, confirmed, clipboard>> => DeletionInv'
  BY DEF DeletionInv, IsPathWithin
<1>4. ~hasWorker' /\ UNCHANGED clipboardAction => DeletionInv'
  BY DEF DeletionInv
<1>5. CASE NoResult \/ NoText \/ NoInput \/ CancelPressed \/ CancelOperation
           \/ FinishedPressed \/ WorkerRuns \/ OthersRun \/ UNCHANGED vars
  <2>1. UNCHANGED <<ui, browser, confirmed, hasWorker, operation, operationKind, clipboard>>
    BY <1>5 DEF NoResult, NoText, NoInput, CancelPressed, CancelOperation, CancelWorker,
       FinishedPressed, Log, WorkerRuns, WorkerStep, OthersRun, OthersWrite, Elsewhere, browser, vars
  <2>. QED BY <1>1, <1>3, <2>1
<1>6. CASE ReportResult \/ FinishedRefresh
  <2>1. UNCHANGED <<confirmed, hasWorker, operation, operationKind, clipboard>>
    BY <1>6 DEF ReportResult, Log, FinishedRefresh
  <2>2. Occupied
    BY <1>6 DEF ReportResult, FinishedRefresh, Occupied, ControlInv, ReportInv
  <2>3. open' \subseteq {"Error"}
    BY <1>6, <2>2 DEF ReportResult, FinishedRefresh, ShapeInv
  <2>. QED BY <1>2, <1>3, <2>1, <2>3
<1>7. CASE AcknowledgeResult
  <2>1. open' \subseteq {"Error"} /\ hasWorker' = FALSE /\ UNCHANGED clipboard
    BY <1>7 DEF AcknowledgeResult, Acknowledge, NoWorker, ShapeInv, Occupied
  <2>. QED BY <1>2, <1>4, <2>1
<1>8. CASE TextAccepted \/ TextCanceled
  <2>1. /\ open = {"TextInput"}
        /\ UNCHANGED <<confirmed, hasWorker, operation, operationKind, clipboard>>
    BY <1>8 DEF TextAccepted, TextCanceled, ShapeInv
  <2>2. Closed
    BY <1>8, <2>1 DEF TextAccepted, TextCanceled
  <2>. QED BY <1>2, <1>3, <2>1, <2>2
<1>9. CASE PasteStep
  <2>1. Closed
    BY <1>9 DEF PasteStep, PasteRefusal, PasteAccepted, RenamePaste, PasteEnds, ShapeInv
  <2>. QED BY <1>2, <1>9, <2>1, PasteIsNoDeletion
<1>10. CASE DeleteConfirmPressed
  <2>1. open = {"DeleteConfirm"} /\ ~hasWorker
    BY <1>10, PressedAlone, PadIsIdle DEF DeleteConfirmPressed, Pressed
  <2>2. CASE ~IncludesDirectory(ActiveEntries) /\ Delete(ActiveEntries)
    <3>1. ActiveEntries \subseteq confirmed
      BY <2>1, <2>2 DEF ConfirmInv, IncludesDirectory
    <3>2. Closed
      BY <2>1, <2>2 DEF Delete
    <3>. QED BY <1>2, <2>2, <3>1, <3>2, DeleteIsConfirmed
  <2>3. CASE open' = AskAgain /\ confirmed' = ActiveEntries /\ UNCHANGED <<facade, browser>>
    <3>1. "DeleteConfirm" \notin open' /\ ActiveEntries' = ActiveEntries
      BY <2>1, <2>3 DEF AskAgain, ActiveEntries, Browser!MarkedEntries, Browser!NoEntry, browser
    <3>. QED BY <1>4, <2>1, <2>3, <3>1 DEF ConfirmInv
  <2>. QED BY <1>10, <2>2, <2>3 DEF DeleteConfirmPressed
<1>11. CASE RecursiveDeleteConfirmPressed
  <2>1. open = {"RecursiveDeleteConfirm"} /\ Delete(ActiveEntries)
    BY <1>11, PressedAlone DEF RecursiveDeleteConfirmPressed, Pressed
  <2>2. ActiveEntries \subseteq confirmed
    BY <2>1 DEF ConfirmInv
  <2>3. Closed
    BY <2>1 DEF Delete
  <2>. QED BY <1>2, <2>1, <2>2, <2>3, DeleteIsConfirmed
<1>12. CASE ClosePressed
  <2>1. PICK overlay \in {"Error", "Properties", "DeleteConfirm", "RecursiveDeleteConfirm",
                          "QuickPlaces", "Settings", "ContextMenu"} : Close(overlay)
    BY <1>12 DEF ClosePressed
  <2>2. open' = open \ {overlay} /\ ~hasWorker' /\ UNCHANGED clipboard
    BY <2>1, PadIsIdle DEF Close, Pressed
  <2>3. open = {overlay} \/ open = {"ContextMenu", "Error"}
    BY <2>1, PressedAlone DEF Close, Pressed
  <2>. QED BY <1>2, <1>4, <2>2, <2>3
<1>13. CASE QuickPlacePressed \/ BrowsePressed \/ OpenPressed
  <2>1. /\ open \in {{}, {"QuickPlaces"}}
        /\ UNCHANGED <<hasWorker, operation, operationKind, confirmed, clipboard>>
    BY <1>13, PressedAlone DEF QuickPlacePressed, BrowsePressed, OpenPressed, Pressed
  <2>2. Closed
    BY <1>13, <2>1 DEF QuickPlacePressed, BrowsePressed, OpenPressed
  <2>. QED BY <1>2, <1>3, <2>1, <2>2
<1>14. CASE MenuRefresh \/ MenuProperties \/ (\E input \in {"NewFolder", "Rename"} : MenuTextInput(input))
  <2>1. /\ open = {"ContextMenu"}
        /\ UNCHANGED <<confirmed, hasWorker, operation, operationKind, clipboard>>
    BY <1>14, PressedAlone DEF MenuRefresh, MenuProperties, MenuTextInput, Pressed
  <2>2. Closed
    BY <1>14, <2>1 DEF MenuRefresh, MenuProperties, MenuTextInput, OpenTextInput
  <2>. QED BY <1>2, <1>3, <2>1, <2>2
<1>15. ASSUME NEW action \in {"Copy", "Move"}, MenuClipboard(action)
       PROVE  ConfirmInv' /\ DeletionInv'
  <2>1. open = {"ContextMenu"} /\ ~hasWorker
    BY <1>15, PressedAlone, PadIsIdle DEF MenuClipboard, Pressed
  <2>2. Closed /\ ~hasWorker' /\ clipboardAction' \in {action, clipboardAction}
    BY <1>15, <2>1 DEF MenuClipboard, ToClipboard
  <2>. QED BY <1>2, <2>2 DEF DeletionInv
<1>16. CASE MenuPaste \/ OverwriteConfirmPressed
  <2>1. open = {"ContextMenu"} \/ open = {"OverwriteConfirm"}
    BY <1>16, PressedAlone DEF MenuPaste, OverwriteConfirmPressed
  <2>2. Closed /\ UNCHANGED <<facade, confirmed>>
    BY <1>16, <2>1 DEF MenuPaste, RequestPaste, OverwriteConfirmPressed
  <2>. QED BY <1>2, <1>3, <2>2
<1>17. CASE MenuDelete
  <2>1. open = {"ContextMenu"} /\ ~hasWorker /\ UNCHANGED <<facade, browser>>
    BY <1>17, PressedAlone, PadIsIdle DEF MenuDelete, Pressed
  <2>2. ActiveEntries' = ActiveEntries
    BY <2>1 DEF ActiveEntries, Browser!MarkedEntries, Browser!NoEntry, browser
  <2>3. confirmed' = {e \in ActiveEntries' : ~IsFolder(e)} /\ "RecursiveDeleteConfirm" \notin open'
    BY <1>17, <2>1, <2>2 DEF MenuDelete
  <2>. QED BY <1>4, <2>1, <2>3 DEF ConfirmInv, IsFolder, BaseName
<1>. QED BY <1>5, <1>6, <1>7, <1>8, <1>9, <1>10, <1>11, <1>12, <1>13, <1>14, <1>15, <1>16, <1>17
         DEF Next, UiStep, UiActs, FrameActs, MenuPressed

\* What is lost when an operation has failed as soon as it was started.
LEMMA LaunchLoses ==
    ASSUME NEW kind, NEW roots, NEW sources, NEW images, Launch(kind, roots, sources, images),
           NEW p \in disk \ disk'
    PROVE  kind # "Copy" /\ p \in sources /\ localState' = "Failed"
BY DEF Launch, Aftermath, PartlyRemoved

\* What is lost in a paste before its worker runs on: what was cut.
LEMMA PasteLoses ==
    ASSUME ControlInv, AskedInv, DeletionInv, DiskInv, PasteStep, NEW p \in disk \ disk'
    PROVE  /\ hasClipboard /\ clipboardAction = "Move" /\ p \in Below(disk, clipboardEntries)
           /\ \/ clipboardEntries' = {}
              \/ operationKind' = "Move" /\ localState' = "Failed"
<1>1. p \in Below(disk, clipboardEntries) => hasClipboard
  BY DEF Below, DiskInv, ClipboardInv
<1>2. ASSUME NEW directory, NEW replace, PasteLaunched(directory, replace)
      PROVE  /\ clipboardAction = "Move" /\ p \in Below(disk, clipboardEntries)
             /\ operationKind' = "Move" /\ localState' = "Failed"
  <2>1. operationKind' = clipboardAction
    BY <1>2 DEF PasteLaunched
  <2>2. CASE Launch(clipboardAction, clipboardEntries, {}, {})
    BY <2>2, LaunchLoses
  <2>3. CASE Launch(clipboardAction, clipboardEntries, Below(disk, clipboardEntries),
                    PasteImages(directory))
    BY <2>1, <2>3, LaunchLoses DEF DeletionInv
  <2>. QED BY <1>2, <2>2, <2>3 DEF PasteLaunched
<1>3. ASSUME NEW directory, RenamePaste, PasteRenamed(directory)
      PROVE  /\ clipboardAction = "Move" /\ p \in Below(disk, clipboardEntries)
             /\ clipboardEntries' = {}
  BY <1>3 DEF RenamePaste, PasteRenamed, AfterRename, AskedInv
<1>4. ~PasteRefusal
  BY DEF PasteRefusal, PasteRefused
<1>. QED BY <1>1, <1>2, <1>3, <1>4 DEF PasteStep, PasteAccepted, RenamePaste

\* Where a path can go away: in a new name, in a move by rename(), in an operation
\* that has failed as soon as it was started, by the worker or another program.
LEMMA Losses ==
    ASSUME AppInv, ConfirmInv, DeletionInv, [Next]_vars, NEW p \in disk \ disk'
    PROVE  \/ pendingTextInput = "Rename" /\ IsPathWithin(p, selected)
           \/ /\ hasClipboard /\ clipboardAction = "Move" /\ p \in Below(disk, clipboardEntries)
              /\ \/ clipboardEntries' = {}
                 \/ operationKind' = "Move" /\ localState' = "Failed"
           \/ /\ operationKind' = "Delete" /\ p \in Below(disk, confirmed)
              /\ p \notin clipboardEntries \cap clipboardEntries'
           \/ operation.kind = "Move" /\ p \in operation.sources /\ thread = "running"
           \/ state' = "Canceled" /\ p \in operation.images
           \/ OthersWrite
<1>1. CASE TextAccepted
  <2>1. PICK name \in NewNames : \/ pendingTextInput = "NewFolder" /\ Browser!CreateDirectory(name)
                                 \/ pendingTextInput = "Rename" /\ Browser!RenameSelected(name)
    BY <1>1 DEF TextAccepted
  <2>2. ~Browser!CreateDirectory(name)
    BY DEF Browser!CreateDirectory
  <2>3. p \in Browser!Below(disk, {selected})
    BY <2>1, <2>2 DEF Browser!RenameSelected
  <2>4. IsPathWithin(p, selected)
    BY <2>3 DEF Browser!Below, Browser!IsPathWithin, IsPathWithin
  <2>. QED BY <2>1, <2>2, <2>4
<1>2. CASE PasteStep
  BY <1>2, PasteLoses DEF AppInv
<1>3. CASE DeleteConfirmPressed \/ RecursiveDeleteConfirmPressed
  <2>. DEFINE roots == NormalizeEntryRoots(ActiveEntries)
  <2>1. Delete(ActiveEntries) /\ ActiveEntries \subseteq confirmed
    BY <1>3, DeleteIsAnswered DEF AppInv
  <2>2. /\ \A q \in Below(disk, roots) : /\ q \in disk /\ q \notin clipboardEntries'
                                          /\ \E root \in confirmed : IsPathWithin(q, root)
        /\ operationKind' = "Delete" /\ Launch("Delete", roots, Below(disk, roots), {})
    BY <2>1, DeleteTakes DEF AppInv
  <2>. HIDE DEF roots
  <2>3. p \in Below(disk, roots)
    BY <2>2, LaunchLoses
  <2>. QED BY <2>2, <2>3 DEF Below
<1>4. CASE WorkerRuns
  <2>1. hasWorker /\ thread = "running" /\ UNCHANGED <<operationKind, clipboard>>
    BY <1>4 DEF AppInv, ControlInv, WorkerInv, WorkerRuns, WorkerStep, WorkerCompletes, WorkerFails,
       WorkerRecants, WorkerFinishes, Worker!Complete, Worker!Fail, Worker!Recant, Worker!Finish
  <2>2. ASSUME operation.kind # "Copy", p \in operation.sources
        PROVE  \/ operation.kind = "Move"
               \/ /\ operationKind' = "Delete" /\ p \in Below(disk, confirmed)
                  /\ p \notin clipboardEntries
    BY <2>1, <2>2 DEF DeletionInv, Below
  <2>3. CASE WorkerCompletes
    BY <2>1, <2>2, <2>3 DEF WorkerCompletes
  <2>4. CASE WorkerFails
    BY <2>1, <2>2, <2>4 DEF WorkerFails, Aftermath, PartlyRemoved
  <2>5. CASE WorkerRecants
    BY <2>5 DEF WorkerRecants, Worker!Recant
  <2>. QED BY <1>4, <2>3, <2>4, <2>5 DEF WorkerRuns, WorkerStep, WorkerFinishes
<1>. QED BY <1>1, <1>2, <1>3, <1>4, OthersKeepDisk DEF Next, UiStep, OthersRun, vars

\* The invariant of what the user was asked.
LEMMA AskedInvariance == Spec => [](AppInv /\ ConfirmInv /\ DeletionInv)
<1>1. AppInit => ConfirmInv /\ DeletionInv
  BY DEF AppInit, Init, ConfirmInv, DeletionInv
<1>. QED BY <1>1, AppInvStarts, AppInvSteps, ConfirmSteps, PTL DEF Spec

\* No path goes away unless the user asked for it: by the delete dialog that
\* names it, by cutting it, by a new name, or because a paste that would have
\* made it was canceled (the handlers of the dialogs, StartDelete, StartPaste).
THEOREM NothingUnasked == Spec => NothingGoesUnasked
<1>. DEFINE Asked(p) ==
         \/ operationKind' = "Delete" /\ p \in Below(disk, confirmed)
         \/ operation.kind = "Move" /\ p \in operation.sources
         \/ hasClipboard /\ clipboardAction = "Move" /\ p \in Below(disk, clipboardEntries)
         \/ pendingTextInput = "Rename" /\ IsPathWithin(p, selected)
         \/ state' = "Canceled" /\ p \in operation.images
<1>1. AppInv /\ ConfirmInv /\ DeletionInv /\ [Next]_vars =>
          (~OthersWrite => \A p \in disk \ disk' : Asked(p))
  BY Losses
<1>. QED BY <1>1, AskedInvariance, PTL DEF Spec, NothingGoesUnasked

\* The clipboard never holds on to files that the application has deleted or
\* moved away by rename(): StartDelete() and the fast path of StartPaste() clear
\* it, so that a later paste does not meet them.
THEOREM ClipboardIsCleared == Spec => ClipboardFollows
<1>. DEFINE Lost == clipboardEntries \cap clipboardEntries' \cap (disk \ disk') # {}
            Known == \/ operation.kind = "Move" /\ thread = "running"
                     \/ operationKind' = "Move" /\ localState' = "Failed"
                     \/ pendingTextInput = "Rename"
                     \/ state' = "Canceled"
<1>1. AppInv /\ ConfirmInv /\ DeletionInv /\ [Next]_vars => (~OthersWrite /\ Lost => Known)
  <2>. SUFFICES ASSUME AppInv, ConfirmInv, DeletionInv, [Next]_vars, ~OthersWrite,
                       NEW p \in disk \ disk', p \in clipboardEntries, p \in clipboardEntries'
                PROVE  Known
    OBVIOUS
  <2>. QED BY Losses
<1>. QED BY <1>1, AskedInvariance, PTL DEF Spec, ClipboardFollows
=============================================================================
