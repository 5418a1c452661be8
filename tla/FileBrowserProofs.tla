-------------------------- MODULE FileBrowserProofs --------------------------
(***************************************************************************)
(* Proofs about FileBrowser, for every set of paths, of names and of       *)
(* shortcuts, and a history of any length: whatever the file operations do *)
(* to the tree meanwhile, the folder on the screen exists, the marks are   *)
(* in the listing, and the history leads back to the root.                 *)
(***************************************************************************)
EXTENDS FileBrowser, SequenceTheorems, TLAPS

(***************************************************************************)
(* Paths.                                                                  *)
(***************************************************************************)
\* A proper path is longer than its parent by one name.
LEMMA ParentProperties ==
    ASSUME NEW S, NEW p \in Seq(S), p # <<>>
    PROVE  /\ ParentPath(p) \in Seq(S)
           /\ Len(ParentPath(p)) = Len(p) - 1
           /\ \A i \in 1 .. Len(p) - 1 : ParentPath(p)[i] = p[i]
<1>. DEFINE n == Len(p) - 1
<1>1. n \in Nat /\ \A i \in 1 .. n : p[i] \in S
  OBVIOUS
<1>2. ParentPath(p) = SubSeq(p, 1, n)
  BY DEF ParentPath
<1>. HIDE DEF n
<1>3. SubSeq(p, 1, n) \in Seq(S)
  BY <1>1, SubSeqProperties
<1>4. Len(SubSeq(p, 1, n)) = n /\ \A i \in 1 .. n : SubSeq(p, 1, n)[i] = p[i]
  BY <1>1
<1>. QED BY <1>2, <1>3, <1>4 DEF n

\* JoinPath() and ParentPath() are inverse to each other.
LEMMA ParentOfJoin ==
    ASSUME NEW S, NEW d \in Seq(S), NEW name \in S
    PROVE  JoinPath(d, name) # <<>> /\ ParentPath(JoinPath(d, name)) = d
<1>. DEFINE p == JoinPath(d, name)
<1>1. p = Append(d, name) /\ Len(d) \in Nat
  BY DEF JoinPath
<1>. HIDE DEF p
<1>2. p \in Seq(S) /\ Len(p) = Len(d) + 1 /\ \A i \in 1 .. Len(d) : p[i] = d[i]
  BY <1>1, AppendProperties
<1>3. p # <<>>
  BY <1>1, <1>2
<1>4. ParentPath(p) \in Seq(S) /\ Len(ParentPath(p)) = Len(d)
      /\ \A i \in 1 .. Len(d) : ParentPath(p)[i] = d[i]
  <2>1. Len(p) - 1 = Len(d)
    BY <1>1, <1>2
  <2>. QED BY <1>2, <1>3, <2>1, ParentProperties
<1>5. ParentPath(p) = d
  BY <1>4, SeqEqual
<1>. QED BY <1>3, <1>5 DEF p

\* What IsPathWithin() says of two paths, name by name.
LEMMA Within ==
    ASSUME NEW S, NEW p \in Seq(S), NEW root \in Seq(S)
    PROVE  IsPathWithin(p, root)
               <=> Len(root) <= Len(p) /\ \A i \in 1 .. Len(root) : p[i] = root[i]
<1>. DEFINE s == SubSeq(p, 1, Len(root))
<1>1. SUFFICES ASSUME Len(root) <= Len(p)
               PROVE  s = root <=> \A i \in 1 .. Len(root) : p[i] = root[i]
  BY DEF IsPathWithin
<1>2. Len(root) \in Nat /\ \A i \in 1 .. Len(root) : p[i] \in S
  BY <1>1
<1>3. s \in Seq(S) /\ Len(s) = Len(root) /\ \A i \in 1 .. Len(root) : s[i] = p[i]
  BY <1>2, SubSeqProperties
<1>. HIDE DEF s
<1>4. ASSUME \A i \in 1 .. Len(root) : p[i] = root[i] PROVE s = root
  <2>1. \A i \in 1 .. Len(s) : s[i] = root[i]
    BY <1>3, <1>4
  <2>. QED BY <1>3, <2>1, SeqEqual
<1>. QED BY <1>3, <1>4

\* Below a folder is itself and what has its parent below it.
LEMMA WithinParent ==
    ASSUME NEW S, NEW p \in Seq(S), NEW root \in Seq(S), p # <<>>
    PROVE  /\ IsPathWithin(ParentPath(p), root) => IsPathWithin(p, root)
           /\ IsPathWithin(p, root) /\ p # root => IsPathWithin(ParentPath(p), root)
<1>1. /\ ParentPath(p) \in Seq(S) /\ Len(ParentPath(p)) = Len(p) - 1
      /\ \A i \in 1 .. Len(p) - 1 : ParentPath(p)[i] = p[i]
  BY ParentProperties
<1>2. Len(p) \in Nat \ {0} /\ Len(root) \in Nat
  OBVIOUS
<1>3. ASSUME IsPathWithin(ParentPath(p), root) PROVE IsPathWithin(p, root)
  <2>1. Len(root) <= Len(p) - 1 /\ \A i \in 1 .. Len(root) : ParentPath(p)[i] = root[i]
    BY <1>1, <1>3, Within
  <2>2. Len(root) <= Len(p)
    BY <1>2, <2>1
  <2>3. \A i \in 1 .. Len(root) : p[i] = root[i]
    BY <1>1, <1>2, <2>1
  <2>. QED BY <2>2, <2>3, Within
<1>4. ASSUME IsPathWithin(p, root), p # root PROVE IsPathWithin(ParentPath(p), root)
  <2>1. Len(root) <= Len(p) /\ \A i \in 1 .. Len(root) : p[i] = root[i]
    BY <1>4, Within
  <2>2. Len(root) # Len(p)
    BY <1>4, <2>1, SeqEqual
  <2>3. Len(root) <= Len(p) - 1
    BY <1>2, <2>1, <2>2
  <2>4. \A i \in 1 .. Len(root) : ParentPath(p)[i] = root[i]
    BY <1>1, <1>2, <2>1, <2>3
  <2>. QED BY <1>1, <2>3, <2>4, Within
<1>. QED BY <1>3, <1>4

\* Where rename() puts an item, name by name.
LEMMA RelocatedProperties ==
    ASSUME NEW S, NEW p \in Seq(S), NEW from \in Seq(S), NEW to \in Seq(S), IsPathWithin(p, from)
    PROVE  LET q == Relocated(p, from, to)
           IN  /\ q \in Seq(S)
               /\ Len(q) = Len(to) + Len(p) - Len(from)
               /\ \A i \in 1 .. Len(to) : q[i] = to[i]
               /\ \A i \in Len(to) + 1 .. Len(q) : q[i] = p[i - Len(to) + Len(from)]
<1>. DEFINE rest == SubSeq(p, Len(from) + 1, Len(p))
<1>1. Len(from) \in Nat /\ Len(p) \in Nat /\ Len(to) \in Nat /\ Len(from) <= Len(p)
  BY DEF IsPathWithin
<1>2. \A i \in Len(from) + 1 .. Len(p) : p[i] \in S
  BY <1>1
<1>3. /\ rest \in Seq(S) /\ Len(rest) = Len(p) - Len(from)
      /\ \A i \in 1 .. Len(rest) : rest[i] = p[Len(from) + i]
  BY <1>1, <1>2, SubSeqProperties
<1>. HIDE DEF rest
<1>4. /\ to \o rest \in Seq(S) /\ Len(to \o rest) = Len(to) + Len(rest)
      /\ \A i \in 1 .. Len(to) + Len(rest) :
            (to \o rest)[i] = IF i <= Len(to) THEN to[i] ELSE rest[i - Len(to)]
  BY <1>3, ConcatProperties
<1>5. \A i \in Len(to) + 1 .. Len(to) + Len(rest) :
            (to \o rest)[i] = p[i - Len(to) + Len(from)]
  <2>. TAKE i \in Len(to) + 1 .. Len(to) + Len(rest)
  <2>1. i - Len(to) \in 1 .. Len(rest) /\ i \in 1 .. Len(to) + Len(rest) /\ ~(i <= Len(to))
    BY <1>1, <1>3
  <2>2. (to \o rest)[i] = rest[i - Len(to)]
    BY <1>4, <2>1
  <2>3. rest[i - Len(to)] = p[Len(from) + (i - Len(to))]
    BY <1>3, <2>1
  <2>4. Len(from) + (i - Len(to)) = i - Len(to) + Len(from)
    BY <1>1, <2>1
  <2>. QED BY <2>2, <2>3, <2>4
<1>6. \A i \in 1 .. Len(to) : (to \o rest)[i] = to[i]
  BY <1>1, <1>3, <1>4
<1>7. Relocated(p, from, to) = to \o rest
  BY DEF Relocated, rest
<1>. QED BY <1>1, <1>3, <1>4, <1>5, <1>6, <1>7

\* The renamed item itself.
LEMMA RelocatedRoot ==
    ASSUME NEW S, NEW from \in Seq(S), NEW to \in Seq(S)
    PROVE  Relocated(from, from, to) = to
<1>1. IsPathWithin(from, from)
  BY Within
<1>. DEFINE q == Relocated(from, from, to)
<1>2. /\ q \in Seq(S) /\ Len(q) = Len(to) + Len(from) - Len(from)
      /\ \A i \in 1 .. Len(to) : q[i] = to[i]
  BY <1>1, RelocatedProperties
<1>3. Len(to) \in Nat /\ Len(from) \in Nat
  OBVIOUS
<1>. HIDE DEF q
<1>4. Len(q) = Len(to)
  BY <1>2, <1>3
<1>5. q = to
  BY <1>2, <1>4, SeqEqual
<1>. QED BY <1>5 DEF q

\* What is below the renamed item is put below its new name.
LEMMA RelocatedParent ==
    ASSUME NEW S, NEW p \in Seq(S), NEW from \in Seq(S), NEW to \in Seq(S),
           IsPathWithin(p, from), p # from, to # <<>>
    PROVE  /\ Relocated(p, from, to) # <<>>
           /\ IsPathWithin(ParentPath(p), from)
           /\ ParentPath(Relocated(p, from, to)) = Relocated(ParentPath(p), from, to)
<1>. DEFINE q == Relocated(p, from, to)
            up == ParentPath(p)
            r == Relocated(up, from, to)
<1>1. /\ Len(from) <= Len(p) /\ Len(p) \in Nat /\ Len(from) \in Nat
      /\ Len(to) \in Nat \ {0}
  BY DEF IsPathWithin
<1>2. Len(from) # Len(p)
  BY Within, SeqEqual
<1>3. Len(from) <= Len(p) - 1 /\ p # <<>>
  BY <1>1, <1>2
<1>4. /\ up \in Seq(S) /\ Len(up) = Len(p) - 1
      /\ \A i \in 1 .. Len(p) - 1 : up[i] = p[i]
  BY <1>3, ParentProperties
<1>5. IsPathWithin(up, from)
  BY <1>3, WithinParent
<1>. HIDE DEF up
<1>6. /\ q \in Seq(S) /\ Len(q) = Len(to) + Len(p) - Len(from)
      /\ \A i \in 1 .. Len(to) : q[i] = to[i]
      /\ \A i \in Len(to) + 1 .. Len(q) : q[i] = p[i - Len(to) + Len(from)]
  BY RelocatedProperties
<1>7. /\ r \in Seq(S) /\ Len(r) = Len(to) + Len(up) - Len(from)
      /\ \A i \in 1 .. Len(to) : r[i] = to[i]
      /\ \A i \in Len(to) + 1 .. Len(r) : r[i] = up[i - Len(to) + Len(from)]
  <2>1. up \in Seq(S) /\ IsPathWithin(up, from)
    BY <1>4, <1>5
  <2>. QED BY <2>1, RelocatedProperties
<1>. HIDE DEF q, r
<1>8. q # <<>> /\ Len(r) = Len(q) - 1 /\ Len(q) \in Nat
  BY <1>1, <1>3, <1>4, <1>6, <1>7
<1>9. \A i \in 1 .. Len(r) : q[i] = r[i]
  <2>. TAKE i \in 1 .. Len(r)
  <2>1. CASE i <= Len(to)
    BY <1>1, <1>6, <1>7, <1>8, <2>1
  <2>2. CASE i > Len(to)
    <3>. DEFINE k == i - Len(to) + Len(from)
    <3>1. k \in 1 .. Len(p) - 1
      BY <1>1, <1>4, <1>7, <1>8, <2>2
    <3>2. i \in Len(to) + 1 .. Len(r) /\ i \in Len(to) + 1 .. Len(q)
      BY <1>1, <1>8, <2>2
    <3>. QED BY <1>4, <1>6, <1>7, <3>1, <3>2
  <2>. QED BY <1>1, <1>8, <2>1, <2>2
<1>10. ParentPath(q) \in Seq(S) /\ Len(ParentPath(q)) = Len(r)
       /\ \A i \in 1 .. Len(r) : ParentPath(q)[i] = q[i]
  BY <1>6, <1>8, ParentProperties
<1>11. \A i \in 1 .. Len(ParentPath(q)) : ParentPath(q)[i] = r[i]
  BY <1>9, <1>10
<1>12. ParentPath(q) = r
  BY <1>7, <1>10, <1>11, SeqEqual
<1>. QED BY <1>5, <1>8, <1>12 DEF q, r, up

\* A folder stays a folder, a file a file.
LEMMA RelocatedFolder ==
    ASSUME NEW S, NEW p \in Seq(S), NEW from \in Seq(S), NEW to \in Seq(S),
           IsPathWithin(p, from), from # <<>>, to # <<>>, IsFolder(from) = IsFolder(to)
    PROVE  IsFolder(Relocated(p, from, to)) = IsFolder(p)
<1>1. CASE p = from
  BY <1>1, RelocatedRoot
<1>2. CASE p # from
  <2>. DEFINE q == Relocated(p, from, to)
  <2>1. /\ Len(from) <= Len(p) /\ Len(p) \in Nat /\ Len(from) \in Nat \ {0}
        /\ Len(to) \in Nat \ {0}
    BY DEF IsPathWithin
  <2>2. Len(from) # Len(p)
    BY <1>2, Within, SeqEqual
  <2>3. /\ q \in Seq(S) /\ Len(q) = Len(to) + Len(p) - Len(from)
        /\ \A i \in Len(to) + 1 .. Len(q) : q[i] = p[i - Len(to) + Len(from)]
    BY RelocatedProperties
  <2>. HIDE DEF q
  <2>4. Len(q) \in Len(to) + 1 .. Len(q) /\ Len(q) - Len(to) + Len(from) = Len(p)
    BY <2>1, <2>2, <2>3
  <2>5. q # <<>> /\ p # <<>> /\ BaseName(q) = BaseName(p)
    BY <2>1, <2>2, <2>3, <2>4 DEF BaseName
  <2>6. IsFolder(q) = IsFolder(p)
    BY <2>5 DEF IsFolder
  <2>. QED BY <2>6 DEF q
<1>. QED BY <1>1, <1>2

(***************************************************************************)
(* Trees.                                                                  *)
(***************************************************************************)
\* The disk after rename() of an item.
Renamed(files, from, to) ==
    LET below == Below(files, {from})
    IN  (files \ below) \cup {Relocated(p, from, to) : p \in below}

\* rename() of an item within its folder leaves a tree, and the folder in it.
LEMMA RenameKeepsTree ==
    ASSUME NEW S, NEW files \in SUBSET Seq(S), IsTree(files),
           NEW from \in files, from # <<>>, NEW to \in Seq(S), to # <<>>,
           ParentPath(to) = ParentPath(from), IsFolder(from) = IsFolder(to)
    PROVE  IsTree(Renamed(files, from, to)) /\ ParentPath(from) \in Renamed(files, from, to)
<1>. DEFINE below == {p \in files : IsPathWithin(p, from)}
            new   == (files \ below) \cup {Relocated(p, from, to) : p \in below}
<1>1. Below(files, {from}) = below
  BY DEF Below
<1>2. from \in Seq(S) /\ Len(from) \in Nat \ {0}
  OBVIOUS
<1>3. ParentPath(from) \in files \ below /\ IsFolder(ParentPath(from))
  <2>1. ParentPath(from) \in files /\ IsFolder(ParentPath(from))
    BY DEF IsTree
  <2>2. Len(ParentPath(from)) = Len(from) - 1
    BY ParentProperties
  <2>3. ~IsPathWithin(ParentPath(from), from)
    BY <1>2, <2>2 DEF IsPathWithin
  <2>. QED BY <2>1, <2>3
<1>4. <<>> \in files \ below
  BY <1>2 DEF IsTree, IsPathWithin
<1>5. ASSUME NEW q \in files \ below
      PROVE  ParentPath(q) \in new /\ IsFolder(ParentPath(q))
  <2>1. ParentPath(q) \in files /\ IsFolder(ParentPath(q)) /\ q \in Seq(S)
    BY DEF IsTree
  <2>2. CASE q = <<>>
    BY <1>4, <2>1, <2>2 DEF ParentPath
  <2>3. CASE q # <<>>
    <3>1. ~IsPathWithin(ParentPath(q), from)
      BY <1>2, <2>1, <2>3, WithinParent
    <3>. QED BY <2>1, <3>1
  <2>. QED BY <2>2, <2>3
<1>6. ASSUME NEW p \in below
      PROVE  ParentPath(Relocated(p, from, to)) \in new
             /\ IsFolder(ParentPath(Relocated(p, from, to)))
  <2>1. p \in Seq(S) /\ IsPathWithin(p, from) /\ ParentPath(p) \in files
        /\ IsFolder(ParentPath(p))
    BY DEF IsTree
  <2>2. CASE p = from
    <3>1. Relocated(p, from, to) = to
      BY <1>2, <2>2, RelocatedRoot
    <3>. QED BY <1>3, <3>1
  <2>3. CASE p # from
    <3>1. /\ IsPathWithin(ParentPath(p), from)
          /\ ParentPath(Relocated(p, from, to)) = Relocated(ParentPath(p), from, to)
      BY <1>2, <2>1, <2>3, RelocatedParent
    <3>2. ParentPath(p) \in below /\ ParentPath(p) \in Seq(S)
      BY <2>1, <3>1
    <3>3. IsFolder(Relocated(ParentPath(p), from, to))
      BY <1>2, <2>1, <3>1, <3>2, RelocatedFolder
    <3>. QED BY <3>1, <3>2, <3>3
  <2>. QED BY <2>2, <2>3
<1>7. IsTree(new)
  BY <1>4, <1>5, <1>6 DEF IsTree
<1>8. ParentPath(from) \in new
  BY <1>3
<1>9. Renamed(files, from, to) = new
  BY <1>1 DEF Renamed
<1>. QED BY <1>7, <1>8, <1>9

\* A new folder in a folder that is there leaves a tree.
LEMMA CreateKeepsTree ==
    ASSUME NEW files, IsTree(files), NEW path, ParentPath(path) \in files,
           IsFolder(ParentPath(path))
    PROVE  IsTree(files \cup {path})
BY DEF IsTree

(***************************************************************************)
(* The invariant.                                                          *)
(***************************************************************************)
BrowserInv == BrowserTypeOK /\ MarksAreListed /\ BackLeadsToRoot

\* What the tests of the steps rest on: paths are sequences of names.
LEMMA PathsAreNames == Universe \subseteq Seq(STRING) /\ NewNames \subseteq STRING
BY FileBrowserAssumption

\* The explorer starts at the root, with no mark and no history.
LEMMA BrowserInit == AnyDisk => BrowserInv
<1>. SUFFICES ASSUME AnyDisk PROVE BrowserInv
  OBVIOUS
<1>1. disk \subseteq Universe /\ IsTree(disk) /\ currentPath = <<>> /\ <<>> \in disk
  BY DEF AnyDisk, Trees, Init, IsTree
<1>2. /\ entries \subseteq disk /\ selected \in AnyOf(entries)
      /\ \A e \in entries : e # NoEntry /\ ParentPath(e) = currentPath
  BY <1>1 DEF AnyDisk, Init, Listing, NoEntry
<1>3. history = <<>> /\ marked = {}
  BY DEF AnyDisk, Init
<1>. QED BY <1>1, <1>2, <1>3
         DEF BrowserInv, BrowserTypeOK, MarksAreListed, BackLeadsToRoot, IsFolder

\* OpenInternal() of a folder that opens, with a history that leads to it.
LEMMA EnterKeepsInv ==
    ASSUME BrowserInv, NEW path, NEW stack \in Seq(Universe), Enter(path, stack),
           UNCHANGED disk, IF stack = <<>> THEN path = <<>> ELSE stack[1] = <<>>
    PROVE  BrowserInv'
<1>1. path \in disk /\ IsFolder(path) /\ currentPath' = path /\ history' = stack
  BY DEF Enter, CanOpen
<1>2. entries' = Listing(disk, path) /\ selected' \in AnyOf(entries') /\ marked' = {}
  BY DEF Enter
<1>3. /\ entries' \subseteq disk
      /\ \A e \in entries' : e # NoEntry /\ ParentPath(e) = currentPath'
  BY <1>1, <1>2 DEF Listing, NoEntry
<1>4. BrowserTypeOK'
  BY <1>1, <1>2, <1>3 DEF BrowserInv, BrowserTypeOK, AnyOf, NoEntry
<1>5. MarksAreListed' /\ BackLeadsToRoot'
  BY <1>1, <1>2 DEF MarksAreListed, BackLeadsToRoot
<1>. QED BY <1>4, <1>5 DEF BrowserInv

\* Open(), of the folder itself or of another one: the way back grows by the
\* folder that is left.
LEMMA OpenKeepsInv == ASSUME BrowserInv, NEW path, Open(path) PROVE BrowserInv'
<1>1. CASE Enter(path, Remember(path))
  <2>1. currentPath \in Universe /\ history \in Seq(Universe)
    BY DEF BrowserInv, BrowserTypeOK
  <2>2. CASE path = currentPath
    BY <1>1, <2>1, <2>2, EnterKeepsInv DEF Remember, Open, BrowserInv, BackLeadsToRoot
  <2>3. CASE path # currentPath
    <3>. DEFINE stack == Append(history, currentPath)
    <3>1. stack \in Seq(Universe) /\ stack # <<>>
      BY <2>1, AppendProperties
    <3>2. stack[1] = <<>>
      <4>1. CASE history = <<>>
        BY <2>1, <4>1 DEF BrowserInv, BackLeadsToRoot
      <4>2. CASE history # <<>>
        BY <2>1, <4>2, AppendProperties DEF BrowserInv, BackLeadsToRoot
      <4>. QED BY <4>1, <4>2
    <3>3. Enter(path, stack) /\ UNCHANGED disk
      BY <1>1, <2>3 DEF Remember, Open
    <3>. HIDE DEF stack
    <3>. QED BY <3>1, <3>2, <3>3, EnterKeepsInv
  <2>. QED BY <2>2, <2>3
<1>2. CASE MayNotOpen(path) /\ UNCHANGED browser
  BY <1>2 DEF Open, browser, BrowserInv, BrowserTypeOK, MarksAreListed, BackLeadsToRoot,
              AnyOf
<1>. QED BY <1>1, <1>2 DEF Open

\* What is left of the history when the last folder is taken off.
LEMMA Popped ==
    ASSUME history \in Seq(Universe), history # <<>>, BackLeadsToRoot
    PROVE  LET popped == SubSeq(history, 1, Len(history) - 1)
           IN  /\ popped \in Seq(Universe)
               /\ IF popped = <<>> THEN history[Len(history)] = <<>> ELSE popped[1] = <<>>
<1>. DEFINE popped == SubSeq(history, 1, Len(history) - 1)
<1>1. /\ popped \in Seq(Universe) /\ Len(popped) = Len(history) - 1
      /\ \A i \in 1 .. Len(history) - 1 : popped[i] = history[i]
  BY ParentProperties DEF ParentPath
<1>2. history[1] = <<>> /\ Len(history) \in Nat \ {0}
  BY DEF BackLeadsToRoot
<1>. HIDE DEF popped
<1>3. Len(history) = 1 => history[Len(history)] = <<>> /\ popped = <<>>
  BY <1>1, <1>2
<1>4. Len(history) # 1 => popped # <<>> /\ popped[1] = <<>>
  BY <1>1, <1>2
<1>5. IF popped = <<>> THEN history[Len(history)] = <<>> ELSE popped[1] = <<>>
  BY <1>3, <1>4
<1>. QED BY <1>1, <1>5 DEF popped

\* Circle: the folder is taken off the history whether it opens or not, and with
\* an empty history the root has no other parent than itself.
LEMMA GoBackKeepsInv == BrowserInv /\ GoBack => BrowserInv'
<1>. SUFFICES ASSUME BrowserInv, GoBack PROVE BrowserInv'
  OBVIOUS
<1>. DEFINE path   == history[Len(history)]
            popped == SubSeq(history, 1, Len(history) - 1)
<1>1. CASE history = <<>> /\ Open(ParentPath(currentPath))
  BY <1>1, OpenKeepsInv
<1>2. ASSUME history # <<>>
      PROVE  /\ popped \in Seq(Universe)
             /\ IF popped = <<>> THEN path = <<>> ELSE popped[1] = <<>>
  BY <1>2, Popped DEF BrowserInv, BrowserTypeOK
<1>3. CASE history # <<>> /\ Enter(path, popped) /\ UNCHANGED disk
  <2>. HIDE DEF path, popped
  <2>. QED BY <1>2, <1>3, EnterKeepsInv
<1>4. CASE /\ history # <<>> /\ MayNotOpen(path)
           /\ history' = popped
           /\ UNCHANGED <<disk, currentPath, entries, selected, marked, locationIndex>>
  <2>. HIDE DEF path, popped
  <2>1. popped # <<>>
    BY <1>2, <1>4 DEF MayNotOpen
  <2>. QED BY <1>2, <1>4, <2>1
           DEF BrowserInv, BrowserTypeOK, MarksAreListed, BackLeadsToRoot, AnyOf
<1>. QED BY <1>1, <1>3, <1>4 DEF GoBack

\* R1 and L1: the folder of the next shortcut.
LEMMA SwitchKeepsInv ==
    ASSUME BrowserInv, NEW delta, SwitchLocation(delta) PROVE BrowserInv'
<1>. PICK path : \/ Enter(path, Remember(path)) /\ UNCHANGED disk
                 \/ UNCHANGED <<disk, currentPath, entries, selected, marked, history>>
  BY DEF SwitchLocation
<1>1. CASE Enter(path, Remember(path)) /\ UNCHANGED disk
  BY <1>1, OpenKeepsInv DEF Open
<1>2. CASE UNCHANGED <<disk, currentPath, entries, selected, marked, history>>
  BY <1>2 DEF BrowserInv, BrowserTypeOK, MarksAreListed, BackLeadsToRoot, AnyOf
<1>. QED BY <1>1, <1>2

\* Refresh(), after which an entry may be asked for: marks of entries that have
\* gone are dropped.
LEMMA RefreshKeepsInv ==
    ASSUME BrowserInv, disk' \subseteq Universe, IsTree(disk'), currentPath \in disk',
           NEW path, RefreshAndSelect(disk', path)
    PROVE  BrowserInv'
<1>1. UNCHANGED <<currentPath, history>>
  BY DEF RefreshAndSelect
<1>2. CASE /\ entries' = Listing(disk', currentPath)
           /\ marked' = PruneSelectionMarks(entries')
           /\ selected' \in Reselect(entries', path)
  <2>1. /\ entries' \subseteq disk'
        /\ \A e \in entries' : e # NoEntry /\ ParentPath(e) = currentPath
    BY <1>2 DEF Listing, NoEntry
  <2>2. selected' \in AnyOf(entries')
    <3>1. ASSUME NEW e \in entries' PROVE e \in AnyOf(entries')
      BY DEF AnyOf
    <3>. QED BY <1>2, <3>1 DEF Reselect
  <2>3. BrowserTypeOK'
    BY <1>1, <2>1, <2>2 DEF BrowserInv, BrowserTypeOK
  <2>4. MarksAreListed' /\ BackLeadsToRoot'
    BY <1>1, <1>2 DEF BrowserInv, MarksAreListed, BackLeadsToRoot, PruneSelectionMarks
  <2>. QED BY <2>3, <2>4 DEF BrowserInv
<1>3. CASE /\ selected' = IF path \in entries THEN path ELSE selected
           /\ UNCHANGED <<entries, marked>>
  <2>1. selected' \in AnyOf(entries')
    BY <1>3 DEF BrowserInv, BrowserTypeOK, AnyOf
  <2>. QED BY <1>1, <1>3, <2>1
           DEF BrowserInv, BrowserTypeOK, MarksAreListed, BackLeadsToRoot
<1>. QED BY <1>2, <1>3 DEF RefreshAndSelect

\* Moving the selection, marking, and clearing the marks.
LEMMA SelectKeepsInv == BrowserInv /\ Select => BrowserInv'
<1>. SUFFICES ASSUME BrowserInv, Select PROVE BrowserInv'
  OBVIOUS
<1>. USE DEF BrowserInv, BrowserTypeOK, MarksAreListed, BackLeadsToRoot, AnyOf
<1>1. CASE MoveSelection
  BY <1>1 DEF MoveSelection
<1>2. CASE ToggleSelectedMark
  BY <1>2 DEF ToggleSelectedMark
<1>3. CASE ClearSelectionMarks
  BY <1>3 DEF ClearSelectionMarks, UnmarkAll
<1>. QED BY <1>1, <1>2, <1>3 DEF Select

\* A new folder, and the refresh after it.
LEMMA CreateKeepsInv ==
    ASSUME BrowserInv, NEW name \in NewNames, CreateDirectory(name) PROVE BrowserInv'
<1>. DEFINE path == JoinPath(currentPath, name)
<1>1. currentPath \in Seq(STRING) /\ name \in STRING
  BY PathsAreNames DEF BrowserInv, BrowserTypeOK
<1>2. ParentPath(path) = currentPath
  BY <1>1, ParentOfJoin
<1>3. disk' = disk \cup {path} /\ path \in Universe /\ RefreshAndSelect(disk', path)
  BY DEF CreateDirectory
<1>. HIDE DEF path
<1>4. IsTree(disk') /\ currentPath \in disk' /\ disk' \subseteq Universe
  BY <1>2, <1>3, CreateKeepsTree DEF BrowserInv, BrowserTypeOK
<1>. QED BY <1>3, <1>4, RefreshKeepsInv

\* A new name for the selected entry and for all that is below it, and the
\* refresh after it.
LEMMA RenameKeepsInv ==
    ASSUME BrowserInv, NEW name \in NewNames, RenameSelected(name) PROVE BrowserInv'
<1>. DEFINE path  == JoinPath(currentPath, name)
            moved == Renamed(disk, selected, path)
<1>1. CASE UNCHANGED <<disk, browser>>
  BY <1>1 DEF browser, BrowserInv, BrowserTypeOK, MarksAreListed, BackLeadsToRoot, AnyOf
<1>2. CASE /\ disk' = moved /\ disk' \subseteq Universe
           /\ RefreshAndSelect(disk', path)
  <2>1. /\ disk \in SUBSET Seq(STRING) /\ currentPath \in Seq(STRING) /\ name \in STRING
        /\ IsTree(disk)
    BY PathsAreNames DEF BrowserInv, BrowserTypeOK
  <2>2. path # <<>> /\ ParentPath(path) = currentPath
    BY <2>1, ParentOfJoin
  <2>3. selected \in disk /\ selected # <<>> /\ IsFolder(path) = IsFolder(selected)
    BY DEF RenameSelected, NoEntry
  <2>4. ParentPath(selected) = currentPath
    BY <2>3 DEF BrowserInv, BrowserTypeOK, AnyOf, NoEntry
  <2>5. path \in Seq(STRING)
    BY <2>1, AppendProperties DEF JoinPath
  <2>. HIDE DEF path
  <2>6. IsFolder(selected) = IsFolder(path) /\ ParentPath(path) = ParentPath(selected)
    BY <2>2, <2>3, <2>4
  <2>7. IsTree(moved) /\ ParentPath(selected) \in moved
    BY <2>1, <2>2, <2>3, <2>5, <2>6, RenameKeepsTree
  <2>. HIDE DEF moved
  <2>. QED BY <1>2, <2>4, <2>7, RefreshKeepsInv
<1>. QED BY <1>1, <1>2 DEF RenameSelected, Renamed

\* Every step of the browser, and of the file operations beside it.
LEMMA NextKeepsInv == BrowserInv /\ [Next]_vars => BrowserInv'
<1>. SUFFICES ASSUME BrowserInv, [Next]_vars PROVE BrowserInv'
  OBVIOUS
<1>1. CASE Navigate
  BY <1>1, OpenKeepsInv, GoBackKeepsInv, SwitchKeepsInv DEF Navigate, OpenSelected
<1>2. CASE Refresh
  BY <1>2, RefreshKeepsInv DEF Refresh, BrowserInv, BrowserTypeOK
<1>3. CASE Select
  BY <1>3, SelectKeepsInv
<1>4. CASE Write
  BY <1>4, CreateKeepsInv, RenameKeepsInv DEF Write
<1>5. CASE OperationWrites
  BY <1>5 DEF OperationWrites, Trees, browser, BrowserInv, BrowserTypeOK, MarksAreListed,
              BackLeadsToRoot, AnyOf
<1>6. CASE UNCHANGED vars
  BY <1>6 DEF vars, browser, BrowserInv, BrowserTypeOK, MarksAreListed, BackLeadsToRoot,
              AnyOf
<1>. QED BY <1>1, <1>2, <1>3, <1>4, <1>5, <1>6 DEF Next

\* The invariant of the browser, which the theorems below are parts of.
LEMMA BrowserInvariance == Spec => []BrowserInv
BY BrowserInit, NextKeepsInv, PTL DEF Spec

\* The folder on the screen exists, the tree under it is a tree, and what is
\* selected is in the listing, after any rename and any new folder.
THEOREM FolderExists == Spec => []BrowserTypeOK
BY BrowserInvariance, PTL DEF BrowserInv

\* A batch never turns into nothing, nor into entries of a folder the user has
\* left (PruneSelectionMarks in file_browser.cpp).
THEOREM Marks == Spec => []MarksAreListed
BY BrowserInvariance, PTL DEF BrowserInv

\* Circle climbs to a folder the user has not come from only at the root, where
\* there is none (GoBack in file_browser.cpp).
THEOREM WayBack == Spec => []BackLeadsToRoot
BY BrowserInvariance, PTL DEF BrowserInv
=============================================================================
