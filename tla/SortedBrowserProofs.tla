------------------------- MODULE SortedBrowserProofs -------------------------
(***************************************************************************)
(* Proofs about SortedBrowser, for every finite set of paths, any metadata *)
(* and any order of the names: SortEntries() loses no entry and repeats    *)
(* none, the index stays within the listing, and the browser of indices    *)
(* implements the browser of files.                                        *)
(***************************************************************************)
EXTENDS SortedBrowser, FiniteSetTheorems, SequenceTheorems, TLAPS

Modes == {"Name", "Size", "Modified"}

\* What a folder was read as: one item for a path, all of that folder.
IsReading(items, folder) ==
    /\ IsFiniteSet(items)
    /\ \A x \in items : /\ x.path \in Universe \ {<<>>} /\ ParentPath(x.path) = folder
                        /\ x.size \in Nat /\ x.time \in Nat
    /\ \A x, y \in items : x.path = y.path => x = y

(***************************************************************************)
(* The order of the entries.                                               *)
(***************************************************************************)
\* A path is told by its folder and its name.
LEMMA NamesTell ==
    ASSUME NEW S, NEW p \in Seq(S), NEW q \in Seq(S), p # <<>>, q # <<>>,
           ParentPath(p) = ParentPath(q), BaseName(p) = BaseName(q)
    PROVE  p = q
<1>. DEFINE m == Len(p) - 1
            n == Len(q) - 1
<1>1. m \in Nat /\ n \in Nat /\ (\A i \in 1 .. m : p[i] \in S) /\ (\A i \in 1 .. n : q[i] \in S)
  OBVIOUS
<1>2. SubSeq(p, 1, m) = SubSeq(q, 1, n)
  BY DEF ParentPath
<1>3. /\ Len(SubSeq(p, 1, m)) = m /\ \A i \in 1 .. m : SubSeq(p, 1, m)[i] = p[i]
      /\ Len(SubSeq(q, 1, n)) = n /\ \A i \in 1 .. n : SubSeq(q, 1, n)[i] = q[i]
  <2>. HIDE DEF m, n
  <2>. QED BY <1>1
<1>4. m = n /\ \A i \in 1 .. m : p[i] = q[i]
  <2>. HIDE DEF m, n
  <2>. QED BY <1>2, <1>3
<1>5. p[Len(p)] = q[Len(q)]
  BY DEF BaseName
<1>6. Len(p) = Len(q) /\ \A i \in 1 .. Len(p) : p[i] = q[i]
  BY <1>4, <1>5
<1>. QED BY <1>6, SeqEqual

\* The comparison of SortEntries() is a strict order of the entries of a folder:
\* no entry precedes itself, and of two entries exactly one precedes the other.
LEMMA PrecedesOrders ==
    ASSUME NEW items, NEW folder, IsReading(items, folder), NEW mode \in Modes
    PROVE  /\ \A x \in items : ~Precedes(mode, x, x)
           /\ \A x, y, z \in items :
                  Precedes(mode, x, y) /\ Precedes(mode, y, z) => Precedes(mode, x, z)
           /\ \A x, y \in items : x # y => Precedes(mode, x, y) \/ Precedes(mode, y, x)
<1>. DEFINE Rank(x) == NameRank[BaseName(x.path)]
<1>1. \A x \in items : x.size \in Nat /\ x.time \in Nat /\ Rank(x) \in Nat
  BY SortedBrowserAssumption DEF IsReading
<1>2. \A x, y \in items : Rank(x) = Rank(y) => x = y
  <2>. SUFFICES ASSUME NEW x \in items, NEW y \in items, Rank(x) = Rank(y) PROVE x = y
    OBVIOUS
  <2>1. /\ x.path \in Seq(STRING) /\ y.path \in Seq(STRING) /\ x.path # <<>> /\ y.path # <<>>
        /\ ParentPath(x.path) = ParentPath(y.path)
    BY SortedBrowserAssumption DEF IsReading
  <2>2. BaseName(x.path) = BaseName(y.path)
    BY SortedBrowserAssumption DEF IsReading
  <2>3. x.path = y.path
    BY <2>1, <2>2, NamesTell
  <2>. QED BY <2>3 DEF IsReading
<1>3. \A x, y \in items :
          Precedes(mode, x, y) <=>
              \/ IsFolder(x.path) /\ ~IsFolder(y.path)
              \/ /\ IsFolder(x.path) <=> IsFolder(y.path)
                 /\ \/ mode = "Size" /\ x.size < y.size
                    \/ mode = "Modified" /\ x.time > y.time
                    \/ /\ mode = "Size" => x.size = y.size
                       /\ mode = "Modified" => x.time = y.time
                       /\ Rank(x) < Rank(y)
  BY DEF Precedes, SameKey, IsFolder
<1>. HIDE DEF Rank
<1>4. \A x \in items : ~Precedes(mode, x, x)
  BY <1>1, <1>3
<1>5. \A x, y, z \in items :
          Precedes(mode, x, y) /\ Precedes(mode, y, z) => Precedes(mode, x, z)
  BY <1>1, <1>3 DEF Modes
<1>6. \A x, y \in items : x # y => Precedes(mode, x, y) \/ Precedes(mode, y, x)
  BY <1>1, <1>2, <1>3 DEF Modes
<1>. QED BY <1>4, <1>5, <1>6

\* SortEntries() is a permutation of the entries, and sorts them.
LEMMA Sorting ==
    ASSUME NEW items, NEW folder, IsReading(items, folder), NEW mode \in Modes
    PROVE  LET s == SortEntries(mode, items)
           IN  /\ s \in Seq(items) /\ Items(s) = items
               /\ \A i, j \in DOMAIN s : i < j => Precedes(mode, s[i], s[j])
<1>. DEFINE n        == Cardinality(items)
            Lower(x) == {y \in items : Precedes(mode, y, x)}
            rank     == [x \in items |-> Cardinality(Lower(x))]
            s        == SortEntries(mode, items)
<1>1. /\ IsFiniteSet(items) /\ n \in Nat
      /\ \A x \in items : IsFiniteSet(Lower(x)) /\ rank[x] = Cardinality(Lower(x)) /\ rank[x] \in Nat
  BY FS_CardinalityType, FS_Subset DEF IsReading
<1>2. /\ \A x \in items : ~Precedes(mode, x, x)
      /\ \A x, y, z \in items :
             Precedes(mode, x, y) /\ Precedes(mode, y, z) => Precedes(mode, x, z)
      /\ \A x, y \in items : x # y => Precedes(mode, x, y) \/ Precedes(mode, y, x)
  BY PrecedesOrders
<1>3. \A x \in items : rank[x] < n
  <2>. TAKE x \in items
  <2>1. Lower(x) \in SUBSET items /\ Lower(x) # items
    BY <1>2
  <2>2. Cardinality(Lower(x)) <= n /\ Cardinality(Lower(x)) # n
    BY <1>1, <2>1, FS_Subset
  <2>. QED BY <1>1, <2>2
<1>4. \A x, y \in items : Precedes(mode, x, y) => rank[x] < rank[y]
  <2>. SUFFICES ASSUME NEW x \in items, NEW y \in items, Precedes(mode, x, y)
                PROVE  rank[x] < rank[y]
    OBVIOUS
  <2>1. Lower(x) \in SUBSET Lower(y) /\ x \in Lower(y) /\ x \notin Lower(x)
    BY <1>2
  <2>2. Cardinality(Lower(x)) <= Cardinality(Lower(y))
        /\ Cardinality(Lower(x)) # Cardinality(Lower(y))
    BY <1>1, <2>1, FS_Subset
  <2>. QED BY <1>1, <2>2
<1>5. rank \in [items -> 0 .. n - 1] /\ \A x, y \in items : rank[x] = rank[y] => x = y
  <2>. HIDE DEF n, Lower
  <2>1. \A x \in items : rank[x] \in 0 .. n - 1
    BY <1>1, <1>3
  <2>2. \A x, y \in items : rank[x] = rank[y] => x = y
    BY <1>1, <1>2, <1>4
  <2>. QED BY <2>1, <2>2
<1>6. \A k \in 0 .. n - 1 : \E x \in items : rank[x] = k
  <2>1. IsFiniteSet(0 .. n - 1) /\ Cardinality(0 .. n - 1) = n
    <3>. HIDE DEF n
    <3>. QED BY <1>1, FS_Interval
  <2>2. rank \in Injection(items, 0 .. n - 1)
    BY <1>5 DEF Injection, IsInjective
  <2>3. rank \in Surjection(items, 0 .. n - 1)
    BY <2>1, <2>2, FS_Injection
  <2>. QED BY <2>3 DEF Surjection
<1>7. s = [i \in 1 .. n |-> CHOOSE x \in items : Cardinality(Lower(x)) = i - 1]
  BY DEF SortEntries
<1>8. \A i \in 1 .. n : s[i] \in items /\ rank[s[i]] = i - 1
  <2>. TAKE i \in 1 .. n
  <2>1. PICK x \in items : rank[x] = i - 1
    <3>. HIDE DEF rank, n
    <3>. QED BY <1>1, <1>6
  <2>2. Cardinality(Lower(x)) = i - 1
    BY <2>1
  <2>3. s[i] = CHOOSE z \in items : Cardinality(Lower(z)) = i - 1
    BY <1>7
  <2>4. s[i] \in items /\ Cardinality(Lower(s[i])) = i - 1
    BY <2>2, <2>3
  <2>. QED BY <2>4
<1>. HIDE DEF rank, Lower, n, s
<1>9. s \in Seq(items) /\ DOMAIN s = 1 .. n /\ Len(s) = n
  BY <1>1, <1>7, <1>8
<1>10. Items(s) = items
  <2>1. Items(s) \subseteq items
    BY <1>8, <1>9 DEF Items
  <2>2. \A x \in items : \E i \in 1 .. n : s[i] = x
    <3>. TAKE x \in items
    <3>1. rank[x] + 1 \in 1 .. n /\ (rank[x] + 1) - 1 = rank[x]
      BY <1>1, <1>3
    <3>2. s[rank[x] + 1] = x
      BY <1>5, <1>8, <3>1
    <3>. QED BY <3>1, <3>2
  <2>. QED BY <1>9, <2>1, <2>2 DEF Items
<1>11. \A i, j \in DOMAIN s : i < j => Precedes(mode, s[i], s[j])
  <2>. SUFFICES ASSUME NEW i \in 1 .. n, NEW j \in 1 .. n, i < j
                PROVE  Precedes(mode, s[i], s[j])
    BY <1>9
  <2>1. s[i] \in items /\ s[j] \in items /\ rank[s[i]] < rank[s[j]]
    BY <1>1, <1>8
  <2>2. s[i] # s[j] /\ ~Precedes(mode, s[j], s[i])
    <3>1. \A k \in Nat, l \in Nat : k < l => ~(l < k) /\ k # l
      OBVIOUS
    <3>. QED BY <1>1, <1>4, <2>1, <3>1
  <2>. QED BY <1>2, <2>1, <2>2
<1>. QED BY <1>9, <1>10, <1>11 DEF s

(***************************************************************************)
(* The listing.                                                            *)
(***************************************************************************)
\* ListDirectory() returns one item for every entry of the folder.
LEMMA ReadingLists ==
    ASSUME NEW files \in SUBSET Universe, NEW folder, NEW items \in Readings(files, folder)
    PROVE  IsReading(items, folder) /\ {x.path : x \in items} = Listing(files, folder)
<1>. DEFINE paths == Listing(files, folder)
<1>1. PICK read \in [paths -> Infos] : items = {Entry(p, read[p]) : p \in DOMAIN read}
  BY DEF Readings
<1>. DEFINE f == [p \in paths |-> Entry(p, read[p])]
<1>2. /\ paths \in SUBSET Universe
      /\ \A p \in paths : p \in Universe \ {<<>>} /\ ParentPath(p) = folder
  BY DEF Listing
<1>3. \A p \in paths : /\ f[p].path = p
                       /\ f[p].size \in Nat /\ f[p].time \in Nat
  <2>. TAKE p \in paths
  <2>1. read[p].size \in Nat /\ read[p].time \in Nat
    BY SortedBrowserAssumption
  <2>2. f[p] = [path |-> p, size |-> IF IsFolder(p) THEN 0 ELSE read[p].size,
                time |-> read[p].time]
    BY DEF Entry
  <2>. QED BY <2>1, <2>2
<1>4. items = {f[p] : p \in paths}
  BY <1>1
<1>. HIDE DEF paths, f
<1>5. IsFiniteSet(items)
  <2>1. IsFiniteSet(paths)
    BY <1>2, SortedBrowserAssumption, FS_Subset
  <2>2. f \in Surjection(paths, items)
    BY <1>4 DEF Surjection, f
  <2>. QED BY <2>1, <2>2, FS_Surjection
<1>6. \A x \in items : \E p \in paths : x = f[p] /\ x.path = p
  BY <1>3, <1>4
<1>7. \A x, y \in items : x.path = y.path => x = y
  BY <1>6
<1>8. \A x \in items : /\ x.path \in Universe \ {<<>>} /\ ParentPath(x.path) = folder
                       /\ x.size \in Nat /\ x.time \in Nat
  BY <1>2, <1>3, <1>6
<1>9. {x.path : x \in items} = paths
  BY <1>3, <1>4
<1>. QED BY <1>5, <1>7, <1>8, <1>9 DEF IsReading, paths

\* A listing of a folder as the code keeps it, sorted in a mode.
IsList(entries, mode, folder) ==
    /\ entries \in Seq(Items(entries))
    /\ IsReading(Items(entries), folder)
    /\ \A i, j \in DOMAIN entries : i < j => Precedes(mode, entries[i], entries[j])

\* Sorting a reading gives such a listing, of the same paths.
LEMMA SortedList ==
    ASSUME NEW items, NEW folder, IsReading(items, folder), NEW mode \in Modes
    PROVE  LET s == SortEntries(mode, items)
           IN  /\ IsList(s, mode, folder) /\ Items(s) = items
               /\ PathsOf(s) = {x.path : x \in items}
<1>. DEFINE s == SortEntries(mode, items)
<1>1. /\ s \in Seq(items) /\ Items(s) = items
      /\ \A i, j \in DOMAIN s : i < j => Precedes(mode, s[i], s[j])
  BY Sorting
<1>. HIDE DEF s
<1>2. PathsOf(s) = {x.path : x \in Items(s)}
  BY DEF PathsOf, Items
<1>. QED BY <1>1, <1>2 DEF IsList, s

\* The paths of a listing, and where its indices lie.
LEMMA ListProperties ==
    ASSUME NEW entries, NEW mode, NEW folder, IsList(entries, mode, folder)
    PROVE  /\ Len(entries) \in Nat /\ DOMAIN entries = 1 .. Len(entries)
           /\ entries = <<>> <=> Len(entries) = 0
           /\ entries = <<>> <=> PathsOf(entries) = {}
           /\ \A i \in 0 .. Len(entries) - 1 : At(entries, i).path \in PathsOf(entries)
           /\ \A p \in PathsOf(entries) : p # <<>>
<1>1. /\ Len(entries) \in Nat /\ DOMAIN entries = 1 .. Len(entries)
      /\ entries = <<>> <=> Len(entries) = 0
  BY DEF IsList
<1>2. entries = <<>> <=> PathsOf(entries) = {}
  <2>1. PathsOf(entries) = {entries[i].path : i \in 1 .. Len(entries)}
    BY <1>1 DEF PathsOf
  <2>2. Len(entries) = 0 => 1 .. Len(entries) = {}
    BY <1>1
  <2>3. Len(entries) # 0 => 1 \in 1 .. Len(entries)
    BY <1>1
  <2>. QED BY <1>1, <2>1, <2>2, <2>3
<1>3. \A i \in 0 .. Len(entries) - 1 : At(entries, i).path \in PathsOf(entries)
  <2>. TAKE i \in 0 .. Len(entries) - 1
  <2>1. i + 1 \in DOMAIN entries
    BY <1>1
  <2>. QED BY <2>1 DEF PathsOf, At
<1>4. \A p \in PathsOf(entries) : p # <<>>
  BY DEF PathsOf, IsList, IsReading, Items
<1>. QED BY <1>1, <1>2, <1>3, <1>4

\* IndexOf() finds the entry of a path, if there is one.
LEMMA IndexFinds ==
    ASSUME NEW entries, NEW mode, NEW folder, IsList(entries, mode, folder),
           NEW path \in PathsOf(entries), NEW otherwise
    PROVE  LET i == IndexOf(entries, path, otherwise)
           IN  i \in 0 .. Len(entries) - 1 /\ At(entries, i).path = path
<1>. DEFINE k == CHOOSE i \in DOMAIN entries : entries[i].path = path
<1>1. k \in DOMAIN entries /\ entries[k].path = path
  BY DEF PathsOf
<1>2. IndexOf(entries, path, otherwise) = k - 1
  BY DEF IndexOf
<1>. HIDE DEF k
<1>3. k \in 1 .. Len(entries) /\ (k - 1) + 1 = k
  BY <1>1, ListProperties
<1>. QED BY <1>1, <1>2, <1>3 DEF At

(***************************************************************************)
(* The invariant: a listing of the folder on the screen, and an index in   *)
(* it.                                                                     *)
(***************************************************************************)
IndexFits(entries, index) == index \in 0 .. (IF entries = <<>> THEN 0 ELSE Len(entries) - 1)

SortedInv ==
    /\ disk \subseteq Universe
    /\ sortMode \in Modes
    /\ IsList(list, sortMode, currentPath)
    /\ IndexFits(list, selectedIndex)

\* Selected() is an entry of the listing.
LEMMA SelectedListed ==
    ASSUME SortedInv
    PROVE  IF list = <<>> THEN Selected = <<>> ELSE Selected \in PathsOf(list)
BY ListProperties DEF SortedInv, IndexFits, Selected, NoEntry

\* The same of the next state.
LEMMA SelectedListedNext ==
    ASSUME SortedInv'
    PROVE  IF list' = <<>> THEN Selected' = <<>> ELSE Selected' \in PathsOf(list')
<1>1. IsList(list', sortMode', currentPath') /\ IndexFits(list', selectedIndex')
  BY DEF SortedInv
<1>2. Selected' = IF list' = <<>> THEN <<>> ELSE At(list', selectedIndex').path
  BY DEF Selected, NoEntry
<1>. QED BY <1>1, <1>2, ListProperties DEF IndexFits

\* OpenInternal() reads a listing of what is in the folder now.
LEMMA ReadFolderLists ==
    ASSUME sortMode \in Modes, NEW files \in SUBSET Universe, NEW path, ReadFolder(files, path)
    PROVE  /\ IsList(list', sortMode, path) /\ PathsOf(list') = Listing(files, path)
           /\ currentPath' = path /\ sortMode' = sortMode
<1>1. PICK items \in Readings(files, path) : list' = SortEntries(sortMode, items)
  BY DEF ReadFolder, OpenSort
<1>2. IsReading(items, path) /\ {x.path : x \in items} = Listing(files, path)
  BY ReadingLists
<1>. QED BY <1>1, <1>2, SortedList DEF ReadFolder

(***************************************************************************)
(* The refinement, action by action.                                       *)
(***************************************************************************)
\* Both modules have the same paths.
LEMMA SamePaths ==
    /\ Browser!NoEntry = <<>> /\ NoEntry = <<>>
    /\ \A p : /\ Browser!IsFolder(p) <=> IsFolder(p)
              /\ Browser!ParentPath(p) = ParentPath(p)
              /\ Browser!MayNotOpen(p) <=> MayNotOpen(p)
              /\ Browser!UpdateCurrentLocation(p) = UpdateCurrentLocation(p)
              /\ Browser!Remember(p) = Remember(p)
    /\ \A p, q : Browser!JoinPath(p, q) = JoinPath(p, q)
    /\ \A files, p : /\ Browser!Listing(files, p) = Listing(files, p)
                     /\ Browser!CanOpen(files, p) <=> CanOpen(files, p)
                     /\ Browser!Below(files, p) = Below(files, p)
    /\ \A p, q, r : Browser!Relocated(p, q, r) = Relocated(p, q, r)
    /\ Browser!Trees = Trees
<1>1. /\ Browser!NoEntry = <<>> /\ NoEntry = <<>>
      /\ \A p : /\ Browser!IsFolder(p) <=> IsFolder(p)
                /\ Browser!ParentPath(p) = ParentPath(p)
                /\ Browser!MayNotOpen(p) <=> MayNotOpen(p)
      /\ \A p, q : Browser!JoinPath(p, q) = JoinPath(p, q)
  BY DEF Browser!NoEntry, NoEntry, Browser!IsFolder, IsFolder, Browser!BaseName, BaseName,
         Browser!ParentPath, ParentPath, Browser!MayNotOpen, MayNotOpen,
         Browser!JoinPath, JoinPath
<1>2. \A p : /\ Browser!UpdateCurrentLocation(p) = UpdateCurrentLocation(p)
             /\ Browser!Remember(p) = Remember(p)
  BY DEF Browser!UpdateCurrentLocation, UpdateCurrentLocation, Browser!Remember, Remember
<1>3. \A files, p : /\ Browser!Listing(files, p) = Listing(files, p)
                    /\ Browser!CanOpen(files, p) <=> CanOpen(files, p)
  BY <1>1 DEF Browser!Listing, Listing, Browser!CanOpen, CanOpen
<1>4. /\ \A files, p : Browser!Below(files, p) = Below(files, p)
      /\ \A p, q, r : Browser!Relocated(p, q, r) = Relocated(p, q, r)
  BY DEF Browser!Below, Below, Browser!IsPathWithin, IsPathWithin,
         Browser!Relocated, Relocated
<1>5. Browser!Trees = Trees
  BY <1>1 DEF Browser!Trees, Trees, Browser!IsTree, IsTree
<1>. QED BY <1>1, <1>2, <1>3, <1>4, <1>5

\* An unchanged listing and index are an unchanged selection.
LEMMA SameSelection ==
    ASSUME UNCHANGED <<list, selectedIndex>>
    PROVE  (PathsOf(list))' = PathsOf(list) /\ Selected' = Selected
BY DEF PathsOf, Selected, At

\* Entering a folder: the index stands at the first entry.
LEMMA EnterRefines ==
    ASSUME SortedInv, NEW path, NEW stack, Enter(path, stack)
    PROVE  SortedInv' /\ UNCHANGED disk /\ Browser!Enter(path, stack)
<1>1. /\ ReadFolder(disk, path) /\ UNCHANGED disk
      /\ Len(stack) <= MaxHistory /\ history' = stack
      /\ selectedIndex' = 0 /\ marked' = {}
  BY DEF Enter
<1>2. /\ IsList(list', sortMode, path) /\ PathsOf(list') = Listing(disk, path)
      /\ currentPath' = path /\ sortMode' = sortMode
  BY <1>1, ReadFolderLists DEF SortedInv
<1>3. IndexFits(list', selectedIndex')
  BY <1>1, <1>2, ListProperties DEF IndexFits
<1>4. SortedInv'
  BY <1>1, <1>2, <1>3 DEF SortedInv
<1>5. Selected' \in Browser!AnyOf(PathsOf(list'))
  BY <1>2, <1>4, SelectedListedNext, ListProperties, SamePaths DEF Browser!AnyOf
<1>6. locationIndex' = Browser!UpdateCurrentLocation(path) /\ Browser!CanOpen(disk, path)
  BY <1>1, SamePaths DEF ReadFolder
<1>. QED BY <1>1, <1>2, <1>4, <1>5, <1>6, SamePaths DEF Browser!Enter

\* What leaves the browser as it is.
LEMMA StutterRefines ==
    ASSUME SortedInv, disk' \subseteq Universe,
           UNCHANGED <<place, list, selectedIndex, sortMode, marked>>
    PROVE  SortedInv' /\ UNCHANGED Browser!browser
BY SameSelection DEF SortedInv, IsList, place, Browser!browser

\* OpenInternal() may fail; it then changes nothing.
LEMMA OpenRefines ==
    ASSUME SortedInv, NEW path, Open(path)
    PROVE  SortedInv' /\ Browser!Open(path)
<1>1. CASE Enter(path, Remember(path))
  BY <1>1, EnterRefines, SamePaths DEF Browser!Open
<1>2. CASE MayNotOpen(path) /\ UNCHANGED vars
  <2>1. disk' \subseteq Universe /\ UNCHANGED <<place, list, selectedIndex, sortMode, marked>>
    BY <1>2 DEF vars, SortedInv
  <2>2. SortedInv' /\ UNCHANGED Browser!browser
    BY <2>1, StutterRefines
  <2>. QED BY <1>2, <2>2, SamePaths DEF Browser!Open, vars
<1>. QED BY <1>1, <1>2 DEF Open

\* Cross on a folder opens the folder the index stands for.
LEMMA OpenSelectedRefines == SortedInv /\ OpenSelected => SortedInv' /\ Browser!OpenSelected
BY OpenRefines, SamePaths DEF OpenSelected, Browser!OpenSelected

\* Circle: the folder on top of the history, or the parent.
LEMMA GoBackRefines == SortedInv /\ GoBack => SortedInv' /\ Browser!GoBack
<1>. SUFFICES ASSUME SortedInv, GoBack PROVE SortedInv' /\ Browser!GoBack
  OBVIOUS
<1>. DEFINE path   == history[Len(history)]
            popped == SubSeq(history, 1, Len(history) - 1)
<1>1. CASE history = <<>> /\ Open(ParentPath(currentPath))
  BY <1>1, OpenRefines, SamePaths DEF Browser!GoBack
<1>2. CASE history # <<>> /\ Enter(path, popped)
  BY <1>2, EnterRefines DEF Browser!GoBack
<1>3. CASE /\ history # <<>> /\ MayNotOpen(path) /\ history' = popped
           /\ UNCHANGED <<disk, currentPath, locationIndex, list, selectedIndex,
                          sortMode, marked>>
  <2>1. (PathsOf(list))' = PathsOf(list) /\ Selected' = Selected
    BY <1>3, SameSelection
  <2>2. SortedInv'
    BY <1>3 DEF SortedInv, IsList
  <2>. QED BY <1>3, <2>1, <2>2, SamePaths DEF Browser!GoBack
<1>. QED BY <1>1, <1>2, <1>3 DEF GoBack

\* L1 and R1: the next shortcut.
LEMMA SwitchRefines ==
    ASSUME SortedInv, NEW delta, SwitchLocation(delta)
    PROVE  SortedInv' /\ Browser!SwitchLocation(delta)
<1>. DEFINE next == ((locationIndex - 1 + Len(Locations) + delta) % Len(Locations)) + 1
            path == Locations[next]
<1>1. CASE Enter(path, Remember(path))
  BY <1>1, EnterRefines, SamePaths DEF Browser!SwitchLocation
<1>2. CASE /\ MayNotOpen(path) /\ locationIndex' = next
           /\ UNCHANGED <<disk, currentPath, history, list, selectedIndex, sortMode, marked>>
  <2>1. (PathsOf(list))' = PathsOf(list) /\ Selected' = Selected
    BY <1>2, SameSelection
  <2>2. SortedInv'
    BY <1>2 DEF SortedInv, IsList
  <2>. QED BY <1>2, <2>1, <2>2, SamePaths DEF Browser!SwitchLocation
<1>. QED BY <1>1, <1>2 DEF SwitchLocation

\* Refresh() finds the selected entry again, SelectPath() the one asked for.
LEMMA RefreshRefines ==
    ASSUME SortedInv, disk' \subseteq Universe, NEW path, RefreshAndSelect(disk', path)
    PROVE  SortedInv' /\ Browser!RefreshAndSelect(disk', path)
<1>1. CASE /\ ReadFolder(disk', currentPath)
           /\ marked' = PruneSelectionMarks(list')
           /\ selectedIndex' = IndexOf(list', path, Reselect(list'))
           /\ UNCHANGED history
  <2>1. /\ IsList(list', sortMode, currentPath)
        /\ PathsOf(list') = Listing(disk', currentPath)
        /\ currentPath' = currentPath /\ sortMode' = sortMode
    BY <1>1, ReadFolderLists DEF SortedInv
  <2>2. IndexFits(list', selectedIndex') /\ Selected' \in Browser!Reselect(PathsOf(list'), path)
    <3>1. Selected' = IF list' = <<>> THEN <<>> ELSE At(list', selectedIndex').path
      BY DEF Selected, NoEntry
    <3>2. CASE path \in PathsOf(list')
      <4>1. selectedIndex' \in 0 .. Len(list') - 1 /\ At(list', selectedIndex').path = path
        BY <1>1, <2>1, <3>2, IndexFinds
      <4>2. list' # <<>>
        BY <2>1, <3>2, ListProperties
      <4>. QED BY <3>1, <3>2, <4>1, <4>2 DEF IndexFits, Browser!Reselect
    <3>3. CASE path \notin PathsOf(list') /\ Selected \in PathsOf(list')
      <4>1. selectedIndex' = IndexOf(list', Selected, 0)
        BY <1>1, <3>3 DEF IndexOf, Reselect
      <4>2. selectedIndex' \in 0 .. Len(list') - 1 /\ At(list', selectedIndex').path = Selected
        BY <2>1, <3>3, <4>1, IndexFinds
      <4>3. list' # <<>>
        BY <2>1, <3>3, ListProperties
      <4>. QED BY <3>1, <3>3, <4>2, <4>3 DEF IndexFits, Browser!Reselect
    <3>4. CASE path \notin PathsOf(list') /\ Selected \notin PathsOf(list')
      <4>1. selectedIndex' = 0
        BY <1>1, <3>4 DEF IndexOf, Reselect
      <4>2. IndexFits(list', selectedIndex')
        BY <2>1, <4>1, ListProperties DEF IndexFits
      <4>3. Selected' \in Browser!AnyOf(PathsOf(list'))
        BY <2>1, <3>1, <4>1, ListProperties, SamePaths DEF Browser!AnyOf
      <4>. QED BY <3>4, <4>2, <4>3 DEF Browser!Reselect
    <3>. QED BY <3>2, <3>3, <3>4
  <2>3. SortedInv'
    BY <2>1, <2>2 DEF SortedInv
  <2>4. /\ Browser!CanOpen(disk', currentPath)
        /\ PathsOf(list') = Browser!Listing(disk', currentPath)
        /\ marked' = Browser!PruneSelectionMarks(PathsOf(list'))
        /\ locationIndex' = Browser!UpdateCurrentLocation(currentPath)
    BY <1>1, <2>1, SamePaths DEF ReadFolder, PruneSelectionMarks, Browser!PruneSelectionMarks
  <2>. QED BY <1>1, <2>1, <2>2, <2>3, <2>4 DEF Browser!RefreshAndSelect
<1>2. CASE /\ MayNotOpen(currentPath)
           /\ selectedIndex' = IndexOf(list, path, selectedIndex)
           /\ UNCHANGED <<place, list, sortMode, marked>>
  <2>1. IsList(list, sortMode, currentPath) /\ IndexFits(list, selectedIndex)
    BY DEF SortedInv
  <2>2. /\ IndexFits(list, selectedIndex')
        /\ Selected' = IF path \in PathsOf(list) THEN path ELSE Selected
    <3>1. Selected' = IF list = <<>> THEN <<>> ELSE At(list, selectedIndex').path
      BY <1>2 DEF Selected, NoEntry
    <3>2. CASE path \in PathsOf(list)
      <4>1. selectedIndex' \in 0 .. Len(list) - 1 /\ At(list, selectedIndex').path = path
        BY <1>2, <2>1, <3>2, IndexFinds
      <4>2. list # <<>>
        BY <2>1, <3>2, ListProperties
      <4>. QED BY <3>1, <3>2, <4>1, <4>2 DEF IndexFits
    <3>3. CASE path \notin PathsOf(list)
      BY <1>2, <2>1, <3>1, <3>3 DEF IndexOf, Selected, NoEntry
    <3>. QED BY <3>2, <3>3
  <2>3. SortedInv'
    BY <1>2, <2>1, <2>2 DEF SortedInv, place
  <2>4. (PathsOf(list))' = PathsOf(list)
    BY <1>2 DEF PathsOf
  <2>. QED BY <1>2, <2>2, <2>3, <2>4, SamePaths DEF Browser!RefreshAndSelect, place
<1>. QED BY <1>1, <1>2 DEF RefreshAndSelect

\* Up, Down, L2 and R2 end on an entry of the listing, another one or the same.
LEMMA MoveRefines ==
    ASSUME SortedInv, NEW delta \in Int, MoveSelection(delta)
    PROVE  SortedInv' /\ (Browser!MoveSelection \/ UNCHANGED Browser!vars)
<1>1. UNCHANGED <<disk, place, list, sortMode, marked>>
  BY DEF MoveSelection
<1>2. IsList(list, sortMode, currentPath) /\ IndexFits(list, selectedIndex)
  BY DEF SortedInv
<1>3. IndexFits(list, selectedIndex')
  BY <1>2, ListProperties DEF IndexFits, MoveSelection, Beside, Count
<1>4. SortedInv'
  BY <1>1, <1>2, <1>3 DEF SortedInv, place
<1>5. (PathsOf(list))' = PathsOf(list)
  BY <1>1 DEF PathsOf
<1>6. Selected' \in PathsOf(list) \ {Selected} \/ Selected' = Selected
  BY <1>1, <1>4, SelectedListed, SelectedListedNext
<1>. QED BY <1>1, <1>4, <1>5, <1>6
         DEF Browser!MoveSelection, Browser!vars, Browser!browser, place

\* Sorting anew moves the index along with the entry it stands for.
LEMMA CycleRefines ==
    ASSUME SortedInv, NEW delta \in Int, CycleSort(delta)
    PROVE  SortedInv' /\ UNCHANGED Browser!vars /\ Selected' = Selected
<1>. DEFINE next == SortModes[(((CHOOSE i \in 1..3 : SortModes[i] = sortMode) - 1 + 3 + delta) % 3) + 1]
<1>1. /\ sortMode' = next /\ list' = SortEntries(next, Items(list))
      /\ selectedIndex' = Follow(list')
      /\ UNCHANGED <<disk, place, marked>>
  BY DEF CycleSort
<1>2. next \in Modes
  <2>1. PICK i \in 1 .. 3 : i = CHOOSE k \in 1..3 : SortModes[k] = sortMode
    BY DEF SortedInv, Modes, SortModes
  <2>2. (i - 1 + 3 + delta) % 3 \in 0 .. 2
    OBVIOUS
  <2>. QED BY <2>1, <2>2 DEF SortModes, Modes
<1>. HIDE DEF next
<1>3. IsList(list, sortMode, currentPath) /\ IndexFits(list, selectedIndex)
  BY DEF SortedInv
<1>4. IsList(list', next, currentPath) /\ PathsOf(list') = {x.path : x \in Items(list)}
  BY <1>1, <1>2, <1>3, SortedList DEF IsList
<1>5. PathsOf(list') = PathsOf(list) /\ (list' = <<>> <=> list = <<>>)
  <2>1. PathsOf(list') = PathsOf(list)
    BY <1>4 DEF PathsOf, Items
  <2>. QED BY <1>3, <1>4, <2>1, ListProperties
<1>6. IndexFits(list', selectedIndex') /\ Selected' = Selected
  <2>1. Selected' = IF list' = <<>> THEN <<>> ELSE At(list', selectedIndex').path
    BY DEF Selected, NoEntry
  <2>2. CASE list = <<>>
    <3>1. Selected = <<>> /\ PathsOf(list') = {} /\ selectedIndex = 0
      BY <1>3, <1>5, <2>2, ListProperties DEF Selected, NoEntry, IndexFits
    <3>. QED BY <1>1, <1>5, <2>1, <2>2, <3>1 DEF Follow, IndexOf, IndexFits
  <2>3. CASE list # <<>>
    <3>1. Selected \in PathsOf(list')
      BY <1>5, <2>3, SelectedListed
    <3>2. selectedIndex' \in 0 .. Len(list') - 1 /\ At(list', selectedIndex').path = Selected
      BY <1>1, <1>4, <3>1, IndexFinds DEF Follow
    <3>. QED BY <1>5, <2>1, <2>3, <3>2 DEF IndexFits
  <2>. QED BY <2>2, <2>3
<1>7. SortedInv'
  BY <1>1, <1>2, <1>4, <1>6 DEF SortedInv, place
<1>. QED BY <1>1, <1>5, <1>6, <1>7 DEF Browser!vars, Browser!browser, place

\* Marks.
LEMMA MarkRefines ==
    ASSUME SortedInv, ToggleSelectedMark \/ ClearSelectionMarks
    PROVE  SortedInv' /\ (Browser!ToggleSelectedMark \/ Browser!ClearSelectionMarks)
<1>1. UNCHANGED <<disk, place, list, selectedIndex, sortMode>>
  BY DEF ToggleSelectedMark, ClearSelectionMarks
<1>2. SortedInv'
  BY <1>1 DEF SortedInv, IsList, place
<1>3. (PathsOf(list))' = PathsOf(list) /\ Selected' = Selected
  BY <1>1, SameSelection
<1>4. CASE ToggleSelectedMark
  BY <1>1, <1>2, <1>3, <1>4, SamePaths DEF ToggleSelectedMark, Browser!ToggleSelectedMark, place
<1>5. CASE ClearSelectionMarks
  BY <1>1, <1>2, <1>3, <1>5
  DEF ClearSelectionMarks, Browser!ClearSelectionMarks, Browser!UnmarkAll, place
<1>. QED BY <1>4, <1>5

\* A new folder or a new name: the index ends on it.
LEMMA WriteRefines ==
    ASSUME SortedInv, NEW name \in NewNames, CreateDirectory(name) \/ RenameSelected(name)
    PROVE  SortedInv' /\ (Browser!CreateDirectory(name) \/ Browser!RenameSelected(name))
<1>. DEFINE path  == JoinPath(currentPath, name)
            below == Below(disk, {Selected})
<1>1. CASE CreateDirectory(name)
  <2>1. /\ IsFolder(path) /\ path \in Universe /\ path \notin disk /\ currentPath \in disk
        /\ disk' = disk \cup {path} /\ RefreshAndSelect(disk', path)
    BY <1>1 DEF CreateDirectory
  <2>2. disk' \subseteq Universe
    BY <2>1 DEF SortedInv
  <2>3. SortedInv' /\ Browser!RefreshAndSelect(disk', path)
    BY <2>1, <2>2, RefreshRefines
  <2>. QED BY <2>1, <2>3, SamePaths DEF Browser!CreateDirectory
<1>2. CASE RenameSelected(name)
  <2>1. /\ Selected \in disk \ {NoEntry} /\ path \notin disk
        /\ IsFolder(path) = IsFolder(Selected)
        /\ disk' = (disk \ below) \cup {Relocated(p, Selected, path) : p \in below}
        /\ disk' \subseteq Universe /\ RefreshAndSelect(disk', path)
    BY <1>2 DEF RenameSelected
  <2>2. SortedInv' /\ Browser!RefreshAndSelect(disk', path)
    BY <2>1, RefreshRefines
  <2>3. path # Selected
    BY <2>1
  <2>4. /\ Browser!IsFolder(path) = Browser!IsFolder(Selected)
        /\ Browser!JoinPath(currentPath, name) = path /\ Browser!IsFree(path)
    BY <2>1, SamePaths DEF Browser!IsFolder, IsFolder, Browser!BaseName, BaseName,
                           Browser!IsFree
  <2>5. LET under == Browser!Below(disk, {Selected})
        IN  disk' = (disk \ under) \cup {Browser!Relocated(p, Selected, path) : p \in under}
    BY <2>1, SamePaths
  <2>. QED BY <2>1, <2>2, <2>3, <2>4, <2>5, SamePaths DEF Browser!RenameSelected
<1>. QED BY <1>1, <1>2

(***************************************************************************)
(* The theorems.                                                           *)
(***************************************************************************)
\* The explorer starts with the root, sorted by name.
LEMMA InitRefines == Init => SortedInv /\ Browser!AnyDisk
<1>. SUFFICES ASSUME Init PROVE SortedInv /\ Browser!AnyDisk
  OBVIOUS
<1>1. /\ disk \in Trees /\ disk \subseteq Universe /\ currentPath = <<>>
      /\ selectedIndex = 0 /\ sortMode = "Name" /\ sortMode \in Modes
      /\ marked = {} /\ history = <<>> /\ locationIndex = 1
  BY DEF Init, Trees, Modes
<1>2. PICK items \in Readings(disk, <<>>) : list = SortEntries("Name", items)
  BY DEF Init
<1>3. IsReading(items, <<>>) /\ {x.path : x \in items} = Listing(disk, <<>>)
  BY <1>1, ReadingLists
<1>4. IsList(list, sortMode, currentPath) /\ PathsOf(list) = Listing(disk, <<>>)
  BY <1>1, <1>2, <1>3, SortedList
<1>5. IndexFits(list, selectedIndex)
  BY <1>1, <1>4, ListProperties DEF IndexFits
<1>6. SortedInv
  BY <1>1, <1>4, <1>5 DEF SortedInv
<1>7. Selected \in Browser!AnyOf(PathsOf(list))
  BY <1>4, <1>6, SelectedListed, ListProperties, SamePaths DEF Browser!AnyOf
<1>. QED BY <1>1, <1>4, <1>6, <1>7, SamePaths DEF Browser!AnyDisk, Browser!Init

\* Every step of the browser of indices is one of the browser of files.
LEMMA NextRefines == SortedInv /\ [Next]_vars => SortedInv' /\ [Browser!Next]_(Browser!vars)
<1>. SUFFICES ASSUME SortedInv, [Next]_vars
              PROVE  SortedInv' /\ [Browser!Next]_(Browser!vars)
  OBVIOUS
<1>1. CASE Navigate
  <2>1. CASE OpenSelected
    BY <2>1, OpenSelectedRefines DEF Browser!Next, Browser!Navigate
  <2>2. CASE GoBack
    BY <2>2, GoBackRefines DEF Browser!Next, Browser!Navigate
  <2>3. CASE \E delta \in {-1, 1} : SwitchLocation(delta)
    BY <2>3, SwitchRefines DEF Browser!Next, Browser!Navigate
  <2>4. CASE \E path \in Universe : Open(path)
    BY <2>4, OpenRefines DEF Browser!Next, Browser!Navigate
  <2>. QED BY <1>1, <2>1, <2>2, <2>3, <2>4 DEF Navigate
<1>2. CASE Refresh
  <2>1. disk' \subseteq Universe /\ RefreshAndSelect(disk', NoEntry) /\ UNCHANGED disk
    BY <1>2 DEF Refresh, SortedInv
  <2>2. SortedInv' /\ Browser!RefreshAndSelect(disk', NoEntry)
    BY <2>1, RefreshRefines
  <2>. QED BY <2>1, <2>2, SamePaths DEF Browser!Next, Browser!Refresh
<1>3. CASE Select
  <2>1. Jump \in Int /\ -Jump \in Int
    BY SortedBrowserAssumption
  <2>2. CASE \E delta \in {-Jump, -1, 1, Jump} : MoveSelection(delta)
    BY <2>1, <2>2, MoveRefines DEF Browser!Next, Browser!Select
  <2>3. CASE \E delta \in {-1, 1} : CycleSort(delta)
    BY <2>3, CycleRefines
  <2>4. CASE ToggleSelectedMark \/ ClearSelectionMarks
    BY <2>4, MarkRefines DEF Browser!Next, Browser!Select
  <2>. QED BY <1>3, <2>2, <2>3, <2>4 DEF Select
<1>4. CASE Write
  BY <1>4, WriteRefines DEF Write, Browser!Next, Browser!Write
<1>5. CASE OperationWrites
  <2>1. /\ disk' \in Trees /\ currentPath \in disk' /\ disk' \subseteq Universe
        /\ UNCHANGED <<place, list, selectedIndex, sortMode, marked>>
    BY <1>5 DEF OperationWrites, Trees
  <2>2. SortedInv' /\ UNCHANGED Browser!browser
    BY <2>1, StutterRefines
  <2>. QED BY <2>1, <2>2, SamePaths DEF Browser!Next, Browser!OperationWrites
<1>6. CASE UNCHANGED vars
  <2>1. /\ disk' \subseteq Universe /\ UNCHANGED disk
        /\ UNCHANGED <<place, list, selectedIndex, sortMode, marked>>
    BY <1>6 DEF vars, SortedInv
  <2>2. SortedInv' /\ UNCHANGED Browser!browser
    BY <2>1, StutterRefines
  <2>. QED BY <2>1, <2>2 DEF Browser!vars
<1>. QED BY <1>1, <1>2, <1>3, <1>4, <1>5, <1>6 DEF Next

\* Whatever the sort mode and the metadata, what the index stands for after any
\* step is what the browser of files selects (file_browser.cpp).
THEOREM SortedRefinement == Spec => ImplementsFileBrowser
BY InitRefines, NextRefines, PTL DEF Spec, ImplementsFileBrowser, Browser!Spec

\* The listing is sorted as the screen says, and Selected() never reads beyond
\* it (SortEntries, MoveSelection, Refresh, SelectPath).
THEOREM SortedListing == Spec => []ListIsSorted
<1>1. SortedInv => ListIsSorted
  BY ListProperties DEF SortedInv, IsList, IndexFits, ListIsSorted, Count
<1>. QED BY <1>1, InitRefines, NextRefines, PTL DEF Spec
\* Sorting anew, or by another key, never changes the file the next button acts
\* on (CycleSort).
THEOREM SelectionKept == Spec => SortKeepsSelection
<1>1. SortedInv /\ [Next]_vars => [sortMode' # sortMode => Selected' = Selected]_vars
  <2>. SUFFICES ASSUME SortedInv, Next, sortMode' # sortMode PROVE Selected' = Selected
    OBVIOUS
  <2>1. PICK delta \in {-1, 1} : CycleSort(delta)
    <3>1. ~Refresh /\ ~Write /\ ~OperationWrites
      BY DEF Refresh, Write, OperationWrites, CreateDirectory, RenameSelected,
             RefreshAndSelect, ReadFolder
    <3>2. ~Navigate
      BY DEF Navigate, OpenSelected, GoBack, SwitchLocation, Open, Enter, ReadFolder, vars
    <3>. QED BY <3>1, <3>2 DEF Next, Select, MoveSelection, ToggleSelectedMark, ClearSelectionMarks
  <2>. QED BY <2>1, CycleRefines
<1>. QED BY <1>1, InitRefines, NextRefines, PTL DEF Spec, SortKeepsSelection

(***************************************************************************)
(* What is proved of the browser of files holds of the sorted one.         *)
(***************************************************************************)
Files == INSTANCE FileBrowserProofs WITH entries <- PathsOf(list), selected <- Selected

\* The constants are those the proofs about FileBrowser ask for.
LEMMA FilesAssumption == Files!FileBrowserAssumption
BY SortedBrowserAssumption DEF Files!FileBrowserAssumption

\* Browser and Files are instances of the same specification.
LEMMA SameSpecification == Browser!Spec <=> Files!Spec
<1>. USE DEF Browser!NoEntry, Files!NoEntry, Browser!AnyOf, Files!AnyOf,
             Browser!BaseName, Files!BaseName, Browser!IsFolder, Files!IsFolder,
             Browser!ParentPath, Files!ParentPath, Browser!JoinPath, Files!JoinPath,
             Browser!Listing, Files!Listing, Browser!IsTree, Files!IsTree,
             Browser!Trees, Files!Trees, Browser!browser, Files!browser,
             Browser!vars, Files!vars
<1>1. Browser!AnyDisk <=> Files!AnyDisk
  BY DEF Browser!AnyDisk, Files!AnyDisk, Browser!Init, Files!Init
<1>2. Browser!Next <=> Files!Next
  <2>. USE DEF Browser!CanOpen, Files!CanOpen, Browser!MayNotOpen, Files!MayNotOpen,
               Browser!UpdateCurrentLocation, Files!UpdateCurrentLocation,
               Browser!Remember, Files!Remember, Browser!Enter, Files!Enter,
               Browser!Open, Files!Open
  <2>1. Browser!Navigate <=> Files!Navigate
    BY DEF Browser!Navigate, Files!Navigate, Browser!OpenSelected, Files!OpenSelected,
           Browser!GoBack, Files!GoBack, Browser!SwitchLocation, Files!SwitchLocation
  <2>2. \A files, path :
            Browser!RefreshAndSelect(files, path) <=> Files!RefreshAndSelect(files, path)
    BY DEF Browser!RefreshAndSelect, Files!RefreshAndSelect, Browser!Reselect, Files!Reselect,
           Browser!PruneSelectionMarks, Files!PruneSelectionMarks
  <2>3. Browser!Refresh <=> Files!Refresh
    BY <2>2 DEF Browser!Refresh, Files!Refresh
  <2>4. Browser!Select <=> Files!Select
    BY DEF Browser!Select, Files!Select, Browser!MoveSelection, Files!MoveSelection,
           Browser!ToggleSelectedMark, Files!ToggleSelectedMark,
           Browser!ClearSelectionMarks, Files!ClearSelectionMarks,
           Browser!UnmarkAll, Files!UnmarkAll
  <2>5. Browser!Write <=> Files!Write
    BY <2>2 DEF Browser!Write, Files!Write, Browser!CreateDirectory, Files!CreateDirectory,
                Browser!RenameSelected, Files!RenameSelected, Browser!IsFree, Files!IsFree,
                Browser!Below, Files!Below, Browser!IsPathWithin, Files!IsPathWithin,
                Browser!Relocated, Files!Relocated
  <2>6. Browser!OperationWrites <=> Files!OperationWrites
    BY DEF Browser!OperationWrites, Files!OperationWrites
  <2>. QED BY <2>1, <2>3, <2>4, <2>5, <2>6 DEF Browser!Next, Files!Next
<1>3. [Browser!Next]_(Browser!vars) <=> [Files!Next]_(Files!vars)
  BY <1>2
<1>. QED BY <1>1, <1>3, PTL DEF Browser!Spec, Files!Spec

\* A batch never turns into nothing, nor into entries of a folder that was left:
\* every mark is in the sorted listing (PruneSelectionMarks, OpenInternal).
THEOREM SortedMarks == Spec => []MarksAreListed
<1>1. Browser!MarksAreListed <=> Files!MarksAreListed
  BY DEF Browser!MarksAreListed, Files!MarksAreListed
<1>2. Files!Spec => []Files!MarksAreListed
  BY Files!Marks, FilesAssumption, PTL
<1>3. Browser!Spec => []MarksAreListed
  BY <1>1, <1>2, SameSpecification, PTL DEF MarksAreListed
<1>. QED BY <1>3, SortedRefinement DEF ImplementsFileBrowser

\* Circle climbs to a folder the user has not come from only at the root, where
\* there is none (GoBack, OpenInternal).
THEOREM SortedWayBack == Spec => []BackLeadsToRoot
<1>1. Browser!BackLeadsToRoot <=> Files!BackLeadsToRoot
  BY DEF Browser!BackLeadsToRoot, Files!BackLeadsToRoot
<1>2. Files!Spec => []Files!BackLeadsToRoot
  BY Files!WayBack, FilesAssumption, PTL
<1>3. Browser!Spec => []BackLeadsToRoot
  BY <1>1, <1>2, SameSpecification, PTL DEF BackLeadsToRoot
<1>. QED BY <1>3, SortedRefinement DEF ImplementsFileBrowser
=============================================================================
