---------------------------- MODULE SortedBrowser ----------------------------
(***************************************************************************)
(* The FileBrowser as it is drawn and steered: the listing is a sequence,  *)
(* sorted in one of three modes, and the selection is an index into it.    *)
(* Which file the user acts on is decided by that index; FileBrowser,      *)
(* which this module implements, speaks of the file itself.                *)
(*                                                                         *)
(* A size and a time are read with every listing and may be any of Infos.  *)
(***************************************************************************)
EXTENDS Paths, FiniteSets

CONSTANTS Locations, NewNames, Universe, MaxHistory,    \* as in FileBrowser
          Infos,          \* the metadata lstat() returns: [size, time]
          NameRank,       \* the order of the names, a function to numbers
          Jump            \* how far L2 makes the selection jump (10)

\* No two names rank the same, as no two std::strings compare equal.
ASSUME SortedBrowserAssumption ==
    /\ Locations # <<>> /\ Locations[1] = <<>>
    /\ \A i, j \in DOMAIN Locations : Locations[i] = Locations[j] => i = j
    /\ Universe \subseteq Seq(STRING) /\ IsFiniteSet(Universe)
    /\ NewNames \subseteq STRING
    /\ \A info \in Infos : info.size \in Nat /\ info.time \in Nat
    /\ Jump \in Nat
    /\ \A p, q \in Universe \ {<<>>} :
           /\ NameRank[BaseName(p)] \in Nat
           /\ NameRank[BaseName(p)] = NameRank[BaseName(q)] => BaseName(p) = BaseName(q)

VARIABLES disk, currentPath, list, selectedIndex, sortMode, marked, history,
          locationIndex

place == <<currentPath, history, locationIndex>>
vars  == <<disk, place, list, selectedIndex, sortMode, marked>>

(***************************************************************************)
(* SortEntries().                                                          *)
(***************************************************************************)
SortModes == <<"Name", "Size", "Modified">>

SameKey(mode, x, y) == /\ mode = "Size" => x.size = y.size
                       /\ mode = "Modified" => x.time = y.time

\* Folders first, the smallest file first, the latest change first.
Precedes(mode, x, y) ==
    \/ IsFolder(x.path) /\ ~IsFolder(y.path)
    \/ /\ IsFolder(x.path) = IsFolder(y.path)
       /\ \/ mode = "Size" /\ x.size < y.size
          \/ mode = "Modified" /\ x.time > y.time
          \/ /\ SameKey(mode, x, y)
             /\ NameRank[BaseName(x.path)] < NameRank[BaseName(y.path)]

SortEntries(mode, items) ==
    [i \in 1..Cardinality(items) |->
        CHOOSE x \in items : Cardinality({y \in items : Precedes(mode, y, x)}) = i - 1]

(***************************************************************************)
(* The listing and the selection.  Indices count from 0, as in the code.   *)
(***************************************************************************)
NoEntry == <<>>
Count == Len(list)
At(entries, index) == entries[index + 1]
Selected == IF list = <<>> THEN NoEntry ELSE At(list, selectedIndex).path
Items(entries) == {entries[i] : i \in DOMAIN entries}
PathsOf(entries) == {entries[i].path : i \in DOMAIN entries}

\* A folder has no size.
Entry(path, info) ==
    [path |-> path, size |-> IF IsFolder(path) THEN 0 ELSE info.size, time |-> info.time]

\* What ListDirectory() may return.
Readings(files, path) ==
    {{Entry(p, read[p]) : p \in DOMAIN read} : read \in [Listing(files, path) -> Infos]}

CanOpen(files, path) == path \in files /\ IsFolder(path)
MayNotOpen(path) == path # <<>>

\* The index of the entry with that path, or else the given index.
IndexOf(entries, path, otherwise) ==
    IF path \in PathsOf(entries)
    THEN (CHOOSE i \in DOMAIN entries : entries[i].path = path) - 1
    ELSE otherwise

UpdateCurrentLocation(path) ==
    IF \E i \in DOMAIN Locations : Locations[i] = path
    THEN CHOOSE i \in DOMAIN Locations : Locations[i] = path
    ELSE locationIndex

\* Mutant: the new listing is sorted by name.
MutOpenSort(items) == SortEntries("Name", items)
OpenSort(items) == SortEntries(sortMode, items)

\* OpenInternal() once the folder has been read, before the selection is set.
ReadFolder(files, path) ==
    /\ CanOpen(files, path)
    /\ \E items \in Readings(files, path) : list' = OpenSort(items)
    /\ currentPath' = path
    /\ locationIndex' = UpdateCurrentLocation(path)
    /\ UNCHANGED sortMode

\* Mutant: a folder that is entered is remembered in place of the one left.
MutRemember(path) == Append(history, path)
Remember(path) == IF path = currentPath THEN history ELSE Append(history, currentPath)

Enter(path, stack) ==
    /\ ReadFolder(disk, path)
    /\ Len(stack) <= MaxHistory
    /\ history' = stack
    /\ selectedIndex' = 0
    /\ marked' = {}
    /\ UNCHANGED disk

Open(path) == Enter(path, Remember(path)) \/ (MayNotOpen(path) /\ UNCHANGED vars)

OpenSelected == Selected # NoEntry /\ IsFolder(Selected) /\ Open(Selected)

GoBack ==
    LET path   == history[Len(history)]
        popped == SubSeq(history, 1, Len(history) - 1)
    IN  \/ history = <<>> /\ Open(ParentPath(currentPath))
        \/ history # <<>> /\ Enter(path, popped)
        \/ /\ history # <<>> /\ MayNotOpen(path)
           /\ history' = popped
           /\ UNCHANGED <<disk, currentPath, locationIndex, list, selectedIndex,
                          sortMode, marked>>

SwitchLocation(delta) ==
    LET next == ((locationIndex - 1 + Len(Locations) + delta) % Len(Locations)) + 1
        path == Locations[next]
    IN  \/ Enter(path, Remember(path))
        \/ /\ MayNotOpen(path)
           /\ locationIndex' = next
           /\ UNCHANGED <<disk, currentPath, history, list, selectedIndex,
                          sortMode, marked>>

\* Mutant: the marks are restored as they were.
MutPruneSelectionMarks(entries) == marked
PruneSelectionMarks(entries) == marked \cap PathsOf(entries)

\* Where Refresh() finds the entry that was selected.
\* Mutant: the selection stays where it was on the screen.
MutReselect(entries) == selectedIndex
Reselect(entries) == IndexOf(entries, Selected, 0)

\* Refresh(), and then SelectPath(path).
RefreshAndSelect(files, path) ==
    \/ /\ ReadFolder(files, currentPath)
       /\ marked' = PruneSelectionMarks(list')
       /\ selectedIndex' = IndexOf(list', path, Reselect(list'))
       /\ UNCHANGED history
    \/ /\ MayNotOpen(currentPath)
       /\ selectedIndex' = IndexOf(list, path, selectedIndex)
       /\ UNCHANGED <<place, list, sortMode, marked>>

Refresh == RefreshAndSelect(disk, NoEntry) /\ UNCHANGED disk

(***************************************************************************)
(* The selection moves around the ends; a jump beyond an end lands on the  *)
(* other one.                                                              *)
(***************************************************************************)
Beside(delta) ==
    LET index == selectedIndex + delta
    IN  IF index < 0 THEN Count - 1 ELSE IF index >= Count THEN 0 ELSE index

MoveSelection(delta) ==
    /\ selectedIndex' = IF list = <<>> THEN 0 ELSE Beside(delta)
    /\ UNCHANGED <<disk, place, list, sortMode, marked>>

\* Mutant: the selection stays where it was on the screen.
MutFollow(entries) == selectedIndex
Follow(entries) == IndexOf(entries, Selected, selectedIndex)

CycleSort(delta) ==
    LET mode == CHOOSE i \in 1..3 : SortModes[i] = sortMode
        next == SortModes[((mode - 1 + 3 + delta) % 3) + 1]
    IN  /\ sortMode' = next
        /\ list' = SortEntries(next, Items(list))
        /\ selectedIndex' = Follow(list')
        /\ UNCHANGED <<disk, place, marked>>

ToggleSelectedMark ==
    /\ Selected # NoEntry
    /\ marked' = IF Selected \in marked THEN marked \ {Selected} ELSE marked \cup {Selected}
    /\ UNCHANGED <<disk, place, list, selectedIndex, sortMode>>

ClearSelectionMarks ==
    /\ marked' = {}
    /\ UNCHANGED <<disk, place, list, selectedIndex, sortMode>>

CreateDirectory(name) ==
    LET path == JoinPath(currentPath, name)
    IN  /\ IsFolder(path) /\ path \in Universe
        /\ path \notin disk /\ currentPath \in disk
        /\ disk' = disk \cup {path}
        /\ RefreshAndSelect(disk', path)

RenameSelected(name) ==
    LET path  == JoinPath(currentPath, name)
        below == Below(disk, {Selected})
    IN  /\ Selected \in disk \ {NoEntry}
        /\ path \notin disk
        /\ IsFolder(path) = IsFolder(Selected)
        /\ disk' = (disk \ below) \cup {Relocated(p, Selected, path) : p \in below}
        /\ disk' \subseteq Universe
        /\ RefreshAndSelect(disk', path)

(***************************************************************************)
(* The specification.                                                      *)
(***************************************************************************)
Trees == {files \in SUBSET Universe : IsTree(files)}

Init ==
    /\ disk \in Trees
    /\ currentPath = <<>>
    /\ \E items \in Readings(disk, <<>>) : list = SortEntries("Name", items)
    /\ selectedIndex = 0 /\ sortMode = "Name"
    /\ marked = {} /\ history = <<>> /\ locationIndex = 1

Navigate ==
    \/ OpenSelected \/ GoBack
    \/ \E delta \in {-1, 1} : SwitchLocation(delta)
    \/ \E path \in Universe : Open(path)

Select ==
    \/ \E delta \in {-Jump, -1, 1, Jump} : MoveSelection(delta)
    \/ \E delta \in {-1, 1} : CycleSort(delta)
    \/ ToggleSelectedMark \/ ClearSelectionMarks

Write == \E name \in NewNames : CreateDirectory(name) \/ RenameSelected(name)

OperationWrites ==
    /\ disk' \in Trees
    /\ currentPath \in disk'
    /\ UNCHANGED <<place, list, selectedIndex, sortMode, marked>>

Next == Navigate \/ Refresh \/ Select \/ Write \/ OperationWrites
Spec == Init /\ [][Next]_vars

-----------------------------------------------------------------------------
\* The browser as FileBrowser sees it: its listing and the file selected.
Browser == INSTANCE FileBrowser WITH entries <- PathsOf(list), selected <- Selected

\* Whatever the sort mode and the metadata, the index stands for the file that
\* FileBrowser says is selected, after every refresh, rename and new folder.
ImplementsFileBrowser == Browser!Spec

\* The listing is sorted as the screen says, and the index is within it:
\* Selected() reads entries_[selectedIndex_] unchecked.
ListIsSorted ==
    /\ \A i, j \in DOMAIN list : i < j => Precedes(sortMode, list[i], list[j])
    /\ selectedIndex \in 0..(IF list = <<>> THEN 0 ELSE Count - 1)

\* Sorting the listing anew never changes the file the next button acts on.
SortKeepsSelection == [][sortMode' # sortMode => Selected' = Selected]_vars

\* Whatever is marked is in the listing: HasMarkedEntries() means that
\* MarkedEntries() is not empty (Refresh, PruneSelectionMarks).
MarksAreListed == Browser!MarksAreListed

\* With an empty history the browser is at the root, so that Circle never climbs
\* to a folder the user has not come from (GoBack, OpenInternal).
BackLeadsToRoot == Browser!BackLeadsToRoot
=============================================================================
