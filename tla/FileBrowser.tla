---------------------------- MODULE FileBrowser -----------------------------
(***************************************************************************)
(* The FileBrowser of the explorer: the folder on the screen, its listing, *)
(* the selected entry, the marks and the history.  It sees the disk only   *)
(* when it opens a folder, so that the listing may be stale.               *)
(*                                                                         *)
(* Which entry comes first in a listing is any of them, and the index      *)
(* selectedIndex_ is the entry it points at, NoEntry when the listing is   *)
(* empty: SortedBrowser has the order and the index, and implements this.  *)
(* File types, previews and the status line are left out.                  *)
(***************************************************************************)
EXTENDS Paths

CONSTANTS Locations,      \* the shortcuts found at start, a sequence of folders
          NewNames,       \* the names a user types
          Universe,       \* bound: the paths that can come to be
          MaxHistory      \* bound: length of history_

ASSUME FileBrowserAssumption ==
    /\ Locations # <<>> /\ Locations[1] = <<>>
    /\ \A i, j \in DOMAIN Locations : Locations[i] = Locations[j] => i = j
    /\ Universe \subseteq Seq(STRING) /\ NewNames \subseteq STRING

VARIABLES
    disk,
    currentPath, entries, selected, marked, history, locationIndex

browser == <<currentPath, entries, selected, marked, history, locationIndex>>

NoEntry == <<>>
AnyOf(listing) == IF listing = {} THEN {NoEntry} ELSE listing

\* Any folder may fail to open, but the root does not.
CanOpen(files, path) == path \in files /\ IsFolder(path)
MayNotOpen(path) == path # <<>>

(***************************************************************************)
(* Opening a folder.  A folder that cannot be opened leaves the listing as *)
(* it is.                                                                  *)
(***************************************************************************)
\* The shortcut of the folder, or else the one that was the current one.
UpdateCurrentLocation(path) ==
    IF \E i \in DOMAIN Locations : Locations[i] = path
    THEN CHOOSE i \in DOMAIN Locations : Locations[i] = path
    ELSE locationIndex

Remember(path) == IF path = currentPath THEN history ELSE Append(history, currentPath)

\* What a folder that opens leaves, with the history it is given.
Enter(path, stack) ==
    /\ CanOpen(disk, path)
    /\ Len(stack) <= MaxHistory
    /\ currentPath' = path
    /\ entries' = Listing(disk, path)
    /\ selected' \in AnyOf(entries')
    /\ marked' = {}
    /\ history' = stack
    /\ locationIndex' = UpdateCurrentLocation(path)

Open(path) ==
    /\ Enter(path, Remember(path)) \/ (MayNotOpen(path) /\ UNCHANGED browser)
    /\ UNCHANGED disk

OpenSelected == selected # NoEntry /\ IsFolder(selected) /\ Open(selected)

\* The folder is taken off the history before it is known to open.
GoBack ==
    LET path   == history[Len(history)]
        popped == SubSeq(history, 1, Len(history) - 1)
    IN  \/ history = <<>> /\ Open(ParentPath(currentPath))
        \/ history # <<>> /\ Enter(path, popped) /\ UNCHANGED disk
        \/ /\ history # <<>> /\ MayNotOpen(path)
           /\ history' = popped
           /\ UNCHANGED <<disk, currentPath, entries, selected, marked, locationIndex>>

\* The shortcut moves on even when its folder does not open.
SwitchLocation(delta) ==
    LET next == ((locationIndex - 1 + Len(Locations) + delta) % Len(Locations)) + 1
        path == Locations[next]
    IN  /\ UNCHANGED disk
        /\ \/ Enter(path, Remember(path))
           \/ /\ MayNotOpen(path)
              /\ locationIndex' = next
              /\ UNCHANGED <<currentPath, entries, selected, marked, history>>

(***************************************************************************)
(* Refresh() keeps the marks and the selection that still exist.  The disk *)
(* is a parameter: a rename or a new folder changes it first.              *)
(***************************************************************************)
PruneSelectionMarks(listing) == marked \cap listing

\* What is selected then: the path asked for, the entry selected before, or
\* the first.
Reselect(listing, path) ==
    IF path \in listing THEN {path}
    ELSE IF selected \in listing THEN {selected} ELSE AnyOf(listing)

\* Refresh() and then SelectPath(path), NoEntry when nothing is to be selected.
RefreshAndSelect(files, path) ==
    \/ /\ CanOpen(files, currentPath)
       /\ entries' = Listing(files, currentPath)
       /\ marked' = PruneSelectionMarks(entries')
       /\ selected' \in Reselect(entries', path)
       /\ locationIndex' = UpdateCurrentLocation(currentPath)
       /\ UNCHANGED <<currentPath, history>>
    \/ /\ MayNotOpen(currentPath)
       /\ selected' = IF path \in entries THEN path ELSE selected
       /\ UNCHANGED <<currentPath, entries, marked, history, locationIndex>>

Refresh == RefreshAndSelect(disk, NoEntry) /\ UNCHANGED disk

(***************************************************************************)
(* Selection and marks.                                                    *)
(***************************************************************************)
MoveSelection ==
    /\ selected' \in entries \ {selected}
    /\ UNCHANGED <<disk, currentPath, entries, marked, history, locationIndex>>

ToggleSelectedMark ==
    /\ selected # NoEntry
    /\ marked' = IF selected \in marked THEN marked \ {selected} ELSE marked \cup {selected}
    /\ UNCHANGED <<disk, currentPath, entries, selected, history, locationIndex>>

UnmarkAll ==
    /\ marked' = {}
    /\ UNCHANGED <<currentPath, entries, selected, history, locationIndex>>

ClearSelectionMarks == UnmarkAll /\ UNCHANGED disk

MarkedEntries == {e \in entries : e \in marked}

(***************************************************************************)
(* A new folder, a new name.  Either may also fail and change nothing: the *)
(* name is not valid, it is taken, or the system call fails.               *)
(***************************************************************************)
CreateDirectory(name) ==
    LET path == JoinPath(currentPath, name)
    IN  /\ IsFolder(path) /\ path \in Universe
        /\ path \notin disk /\ currentPath \in disk
        /\ disk' = disk \cup {path}
        /\ RefreshAndSelect(disk', path)

IsFree(path) == path \notin disk

RenameSelected(name) ==
    LET path  == JoinPath(currentPath, name)
        below == Below(disk, {selected})
    IN  /\ selected \in disk \ {NoEntry}
        /\ path # selected => IsFree(path)
        /\ IsFolder(path) = IsFolder(selected)
        /\ \/ path = selected /\ UNCHANGED <<disk, browser>>
           \/ /\ path # selected
              /\ disk' = (disk \ below) \cup {Relocated(p, selected, path) : p \in below}
              /\ disk' \subseteq Universe
              /\ RefreshAndSelect(disk', path)

(***************************************************************************)
(* The specification.  Beside the browser only the file operations write,  *)
(* and they keep the folder that is on the screen.                         *)
(***************************************************************************)
Init ==
    /\ currentPath = <<>>
    /\ entries = Listing(disk, <<>>)
    /\ selected \in AnyOf(entries)
    /\ marked = {} /\ history = <<>>
    /\ locationIndex = 1

Navigate ==
    \/ OpenSelected \/ GoBack
    \/ \E delta \in {-1, 1} : SwitchLocation(delta)
    \/ \E path \in Universe : Open(path)

Select == MoveSelection \/ ToggleSelectedMark \/ ClearSelectionMarks

Write == \E name \in NewNames : CreateDirectory(name) \/ RenameSelected(name)

Trees == {files \in SUBSET Universe : IsTree(files)}

OperationWrites ==
    /\ disk' \in Trees
    /\ currentPath \in disk'
    /\ UNCHANGED browser

vars == <<disk, browser>>
Next == Navigate \/ Refresh \/ Select \/ Write \/ OperationWrites
AnyDisk == disk \in Trees /\ Init
Spec == AnyDisk /\ [][Next]_vars

\* The browser is on a folder that exists, and selects one of its listing.
BrowserTypeOK ==
    /\ disk \subseteq Universe /\ IsTree(disk)
    /\ currentPath \in disk /\ IsFolder(currentPath)
    /\ history \in Seq(Universe)
    /\ entries \subseteq Universe
    /\ \A e \in entries : e # NoEntry /\ ParentPath(e) = currentPath
    /\ selected \in AnyOf(entries)

\* Whatever is marked is in the listing: HasMarkedEntries() means that
\* MarkedEntries() is not empty, so that a batch never turns into nothing, nor
\* into an entry of a folder the user has left (Refresh, PruneSelectionMarks).
MarksAreListed == marked \subseteq entries

\* The way back leads to the root: with an empty history the browser is there.
\* Circle then never climbs to a parent folder the user has not come from, even
\* when remembered folders have been deleted or renamed (GoBack, OpenInternal).
BackLeadsToRoot == IF history = <<>> THEN currentPath = <<>> ELSE history[1] = <<>>
=============================================================================
