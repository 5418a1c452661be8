---------------------------- MODULE DialogsProofs ----------------------------
(***************************************************************************)
(* Proofs about the overlays with a cursor, for any readings of the pad,   *)
(* and about what becomes of a file name of any length: how the listing    *)
(* shows it, where it is cut, and that an accepted rename keeps it.        *)
(***************************************************************************)
EXTENDS Dialogs, SequenceTheorems, WellFoundedInduction, TLAPS

(***************************************************************************)
(* Induction over the places of a sequence, as a greatest counterexample.  *)
(***************************************************************************)
\* A set of numbers has a least one.
LEMMA LeastNumber ==
    ASSUME NEW T, T \subseteq Nat, T # {}
    PROVE  \E m \in T : \A k \in T : m <= k
<1>1. PICK m \in T : \A k \in T : ~(<<k, m>> \in OpToRel(<, Nat))
  BY NatLessThanWellFounded, WFMin
<1>2. \A k \in T : m \in Nat /\ k \in Nat /\ ~(k < m)
  BY <1>1 DEF OpToRel
<1>. QED BY <1>2

\* One that is bounded has a greatest one.
LEMMA GreatestNumber ==
    ASSUME NEW n \in Nat, NEW T, T \subseteq 0 .. n, T # {}
    PROVE  \E m \in T : \A k \in T : k <= m
<1>. DEFINE U == {n - k : k \in T}
<1>1. U \subseteq Nat /\ U # {}
  <2>1. \A k \in T : n - k \in Nat
    OBVIOUS
  <2>2. PICK k \in T : TRUE
    OBVIOUS
  <2>3. n - k \in U
    BY <2>2
  <2>. QED BY <2>1, <2>3
<1>. HIDE DEF U
<1>2. PICK u \in U : \A v \in U : u <= v
  BY <1>1, LeastNumber
<1>. USE DEF U
<1>3. PICK m \in T : u = n - m
  OBVIOUS
<1>4. \A k \in T : n - m <= n - k
  BY <1>2, <1>3
<1>5. \A k \in T : k <= m
  BY <1>4
<1>. QED BY <1>5

\* What holds at a number when it holds at all greater ones holds at all.
LEMMA Downwards ==
    ASSUME NEW n \in Nat, NEW G,
           \A k \in 1 .. n : (\A j \in (k + 1) .. n : j \in G) => k \in G
    PROVE  \A k \in 1 .. n : k \in G
<1>. DEFINE T == (1 .. n) \ G
<1>1. SUFFICES ASSUME T # {} PROVE FALSE
  OBVIOUS
<1>2. T \subseteq 0 .. n
  OBVIOUS
<1>. HIDE DEF T
<1>3. PICK k \in T : \A j \in T : j <= k
  BY <1>1, <1>2, GreatestNumber
<1>. USE DEF T
<1>4. \A j \in (k + 1) .. n : j \in 1 .. n /\ ~(j <= k)
  OBVIOUS
<1>5. \A j \in (k + 1) .. n : j \in G
  BY <1>3, <1>4
<1>. QED BY <1>5

\* What holds at 0, and after each number it holds at, holds at all.
LEMMA Upwards ==
    ASSUME NEW n \in Nat, NEW G, 0 \in G, \A k \in 1 .. n : k - 1 \in G => k \in G
    PROVE  \A k \in 0 .. n : k \in G
<1>. DEFINE T == (0 .. n) \ G
<1>1. SUFFICES ASSUME T # {} PROVE FALSE
  OBVIOUS
<1>2. T \subseteq Nat
  OBVIOUS
<1>. HIDE DEF T
<1>3. PICK k \in T : \A j \in T : k <= j
  BY <1>1, <1>2, LeastNumber
<1>. USE DEF T
<1>4. k # 0 /\ k \in 1 .. n /\ k - 1 \in 0 .. n /\ ~(k <= k - 1)
  OBVIOUS
<1>. QED BY <1>3, <1>4

\* The places of a joined text go on to the end.
GoesOn(parts, next) ==
    \A i \in 1 .. Len(parts) : next[i] \in (i + 1) .. (Len(parts) + 1)

\* What the recursion in Joined() computes at i from what it has computed beyond.
JoinedAt(parts, next, g, i) == IF i > Len(parts) THEN <<>> ELSE parts[i] \o g[next[i]]

\* A function that follows the recursion from k on.
JoinsFrom(parts, next, g, k) ==
    /\ g = [i \in 1 .. (Len(parts) + 1) |-> g[i]]
    /\ \A i \in k .. (Len(parts) + 1) : g[i] = JoinedAt(parts, next, g, i)

\* It can be extended by one place.
LEMMA JoinsOneMore ==
    ASSUME NEW parts, Len(parts) \in Nat, NEW next, GoesOn(parts, next),
           NEW k \in 1 .. Len(parts), NEW g, JoinsFrom(parts, next, g, k + 1)
    PROVE  \E h : JoinsFrom(parts, next, h, k)
<1>. DEFINE n == Len(parts)
            h == [i \in 1 .. (n + 1) |-> IF i = k THEN JoinedAt(parts, next, g, k) ELSE g[i]]
<1>1. \A i \in 1 .. (n + 1) : h[i] = IF i = k THEN JoinedAt(parts, next, g, k) ELSE g[i]
  OBVIOUS
<1>2. h = [i \in 1 .. (n + 1) |-> h[i]]
  OBVIOUS
<1>. HIDE DEF h
<1>3. \A i \in k .. (n + 1) : JoinedAt(parts, next, h, i) = JoinedAt(parts, next, g, i)
  <2>1. SUFFICES ASSUME NEW i \in k .. n PROVE h[next[i]] = g[next[i]]
    BY DEF JoinedAt
  <2>2. next[i] \in (i + 1) .. (n + 1)
    BY DEF GoesOn
  <2>. QED BY <1>1, <2>2
<1>4. \A i \in k .. (n + 1) : h[i] = JoinedAt(parts, next, h, i)
  <2>1. \A i \in (k + 1) .. (n + 1) : i # k /\ i \in 1 .. (n + 1) /\ i \in k .. (n + 1)
    OBVIOUS
  <2>2. \A i \in (k + 1) .. (n + 1) : g[i] = JoinedAt(parts, next, g, i)
    BY DEF JoinsFrom
  <2>3. \A i \in (k + 1) .. (n + 1) : h[i] = JoinedAt(parts, next, h, i)
    BY <1>1, <1>3, <2>1, <2>2
  <2>4. h[k] = JoinedAt(parts, next, h, k) /\ k \in k .. (n + 1)
    BY <1>1, <1>3
  <2>. QED BY <2>3, <2>4
<1>. QED BY <1>2, <1>4 DEF JoinsFrom

\* So Joined() does what its definition says.
LEMMA JoinedFrom ==
    ASSUME NEW parts, Len(parts) \in Nat, NEW next, GoesOn(parts, next)
    PROVE  \A i \in 1 .. (Len(parts) + 1) :
               Joined(parts, next)[i] = JoinedAt(parts, next, Joined(parts, next), i)
<1>. DEFINE n == Len(parts)
            T == {k \in 1 .. (n + 1) : ~ \E g : JoinsFrom(parts, next, g, k)}
<1>1. T = {}
  <2>1. SUFFICES ASSUME T # {} PROVE FALSE
    OBVIOUS
  <2>2. PICK k \in T : \A j \in T : j <= k
    <3>1. T \subseteq 0 .. (n + 1) /\ n + 1 \in Nat
      OBVIOUS
    <3>. HIDE DEF T
    <3>. QED BY <2>1, <3>1, GreatestNumber
  <2>3. k # n + 1
    <3>. DEFINE g == [i \in 1 .. (n + 1) |-> <<>>]
    <3>1. g[n + 1] = <<>> /\ g = [i \in 1 .. (n + 1) |-> g[i]]
      OBVIOUS
    <3>. HIDE DEF g
    <3>2. JoinsFrom(parts, next, g, n + 1)
      BY <3>1 DEF JoinsFrom, JoinedAt
    <3>. QED BY <3>2
  <2>4. k \in 1 .. n /\ k + 1 \in 1 .. (n + 1) /\ k + 1 \notin T
    BY <2>2, <2>3
  <2>5. PICK g : JoinsFrom(parts, next, g, k + 1)
    BY <2>4
  <2>. QED BY <2>4, <2>5, JoinsOneMore
<1>2. PICK g : JoinsFrom(parts, next, g, 1)
  <2>1. 1 \in 1 .. (n + 1) /\ 1 \notin T
    BY <1>1
  <2>. QED BY <2>1
<1>3. g = [i \in 1 .. (n + 1) |-> JoinedAt(parts, next, g, i)]
  BY <1>2 DEF JoinsFrom
<1>4. Joined(parts, next) = CHOOSE f : f = [i \in 1 .. (n + 1) |-> JoinedAt(parts, next, f, i)]
  BY DEF Joined, JoinedAt
<1>5. Joined(parts, next) = [i \in 1 .. (n + 1) |-> JoinedAt(parts, next, Joined(parts, next), i)]
  BY <1>3, <1>4
<1>. QED BY <1>5

\* So Joined() meets its equation: the i-th part, then what is joined from next[i].
LEMMA JoinedSteps ==
    ASSUME NEW parts, Len(parts) \in Nat, NEW next, GoesOn(parts, next)
    PROVE  /\ \A i \in 1 .. Len(parts) :
                 Joined(parts, next)[i] = parts[i] \o Joined(parts, next)[next[i]]
           /\ Joined(parts, next)[Len(parts) + 1] = <<>>
<1>. DEFINE n == Len(parts)
            J == Joined(parts, next)
<1>1. \A i \in 1 .. (n + 1) : J[i] = JoinedAt(parts, next, J, i)
  BY JoinedFrom
<1>. HIDE DEF J
<1>2. ASSUME NEW i \in 1 .. n PROVE J[i] = parts[i] \o J[next[i]]
  <2>1. ~(i > n) /\ i \in 1 .. (n + 1)
    OBVIOUS
  <2>. QED BY <1>1, <2>1 DEF JoinedAt
<1>3. J[n + 1] = <<>>
  <2>1. n + 1 > n /\ n + 1 \in 1 .. (n + 1)
    OBVIOUS
  <2>. QED BY <1>1, <2>1 DEF JoinedAt
<1>. QED BY <1>2, <1>3 DEF J

(***************************************************************************)
(* Sequences that are put together.                                        *)
(***************************************************************************)
IsSeq(s) == \E S : s \in Seq(S)
AllSeqs(parts) == IsSeq(parts) /\ \A i \in 1 .. Len(parts) : IsSeq(parts[i])

\* The length of a sequence, and when two are the same.
LEMMA LenIsNat ==
    ASSUME NEW s, IsSeq(s)
    PROVE  Len(s) \in Nat /\ DOMAIN s = 1 .. Len(s) /\ (Len(s) = 0 => s = <<>>)
BY LenProperties, EmptySeq DEF IsSeq

\* Two sequences are sequences of what either holds.
LEMMA TwoInOne ==
    ASSUME NEW a, IsSeq(a), NEW b, IsSeq(b)
    PROVE  \E S : a \in Seq(S) /\ b \in Seq(S)
<1>1. PICK S, T : a \in Seq(S) /\ b \in Seq(T)
  BY DEF IsSeq
<1>2. a \in Seq(S \cup T) /\ b \in Seq(S \cup T)
  BY <1>1, SeqMonotonic
<1>. QED BY <1>2

\* Sequences are equal when they are as long and have the same in each place.
LEMMA SameSeq ==
    ASSUME NEW a, IsSeq(a), NEW b, IsSeq(b), Len(a) = Len(b),
           \A i \in 1 .. Len(a) : a[i] = b[i]
    PROVE  a = b
BY TwoInOne, SeqEqual

\* The shortest sequences.
LEMMA ShortSeqs ==
    ASSUME NEW x
    PROVE  /\ IsSeq(<<>>) /\ Len(<<>>) = 0
           /\ IsSeq(<<x>>) /\ Len(<<x>>) = 1 /\ <<x>>[1] = x
<1>1. <<x>> \in Seq({x}) /\ Len(<<x>>) = 1 /\ <<x>>[1] = x
  OBVIOUS
<1>. QED BY <1>1, EmptySeq DEF IsSeq

\* A function on 1 .. n is a sequence.
LEMMA FunctionIsSeq ==
    ASSUME NEW n \in Nat, NEW f, f = [i \in 1 .. n |-> f[i]]
    PROVE  IsSeq(f) /\ Len(f) = n
<1>. DEFINE S == {f[i] : i \in 1 .. n}
<1>1. f \in [1 .. n -> S]
  OBVIOUS
<1>. HIDE DEF S
<1>2. f \in Seq(S)
  BY <1>1, SeqDef
<1>3. DOMAIN f = 1 .. n /\ DOMAIN f = 1 .. Len(f) /\ Len(f) \in Nat
  BY <1>1, <1>2, LenProperties
<1>. QED BY <1>2, <1>3 DEF IsSeq

\* One sequence after the other.
LEMMA ConcatSeqs ==
    ASSUME NEW a, IsSeq(a), NEW b, IsSeq(b)
    PROVE  /\ IsSeq(a \o b) /\ Len(a \o b) = Len(a) + Len(b)
           /\ \A i \in 1 .. Len(a) : (a \o b)[i] = a[i]
           /\ \A i \in 1 .. Len(b) : (a \o b)[Len(a) + i] = b[i]
           /\ a \o <<>> = a /\ <<>> \o a = a
<1>1. PICK S : a \in Seq(S) /\ b \in Seq(S)
  BY TwoInOne
<1>2. /\ a \o b \in Seq(S) /\ Len(a \o b) = Len(a) + Len(b)
      /\ \A i \in 1 .. Len(a) + Len(b) :
            (a \o b)[i] = IF i <= Len(a) THEN a[i] ELSE b[i - Len(a)]
  BY <1>1, ConcatProperties
<1>3. Len(a) \in Nat /\ Len(b) \in Nat
  BY <1>1, LenProperties
<1>4. \A i \in 1 .. Len(b) : /\ Len(a) + i \in 1 .. Len(a) + Len(b)
                             /\ ~(Len(a) + i <= Len(a)) /\ (Len(a) + i) - Len(a) = i
  BY <1>3
<1>5. a \o <<>> = a /\ <<>> \o a = a
  BY <1>1, ConcatEmptySeq
<1>. QED BY <1>2, <1>3, <1>4, <1>5 DEF IsSeq

\* A sequence that is an element before another sequence.
StartsWith(e, x, b) ==
    /\ IsSeq(e) /\ Len(e) = Len(b) + 1 /\ e[1] = x
    /\ \A j \in 1 .. Len(b) : e[j + 1] = b[j]

\* One more in front, as each step of Display() and Codepoints() puts it.
LEMMA InFrontOf ==
    ASSUME NEW x, NEW b, IsSeq(b), NEW e, e = <<x>> \o b
    PROVE  StartsWith(e, x, b)
<1>1. PICK a : a = <<x>>
  OBVIOUS
<1>2. IsSeq(a) /\ Len(a) = 1 /\ a[1] = x
  <2>1. IsSeq(<<x>>) /\ Len(<<x>>) = 1 /\ <<x>>[1] = x
    BY ShortSeqs, Zenon
  <2>. QED BY <1>1, <2>1
<1>3. e = a \o b
  BY <1>1
<1>4. PICK S : a \in Seq(S) /\ b \in Seq(S)
  BY <1>2, TwoInOne
<1>5. /\ e \in Seq(S) /\ Len(e) = Len(a) + Len(b)
      /\ \A i \in 1 .. Len(a) + Len(b) : e[i] = IF i <= Len(a) THEN a[i] ELSE b[i - Len(a)]
  BY <1>3, <1>4, ConcatProperties
<1>6. Len(b) \in Nat
  BY LenIsNat
<1>7. Len(e) = Len(b) + 1 /\ 1 \in 1 .. Len(a) + Len(b) /\ 1 <= Len(a)
  BY <1>2, <1>5, <1>6
<1>8. \A j \in 1 .. Len(b) : /\ j + 1 \in 1 .. Len(a) + Len(b)
                             /\ ~(j + 1 <= Len(a)) /\ (j + 1) - Len(a) = j
  BY <1>2, <1>6
<1>9. IsSeq(e)
  BY <1>5 DEF IsSeq
<1>10. e[1] = x
  BY <1>2, <1>5, <1>7
<1>11. \A j \in 1 .. Len(b) : e[j + 1] = b[j]
  BY <1>5, <1>8
<1>. QED BY <1>7, <1>9, <1>10, <1>11 DEF StartsWith

\* Three texts in a row: it does not matter which two are put together first.
LEMMA Associative ==
    ASSUME NEW a, IsSeq(a), NEW b, IsSeq(b), NEW c, IsSeq(c)
    PROVE  (a \o b) \o c = a \o (b \o c)
<1>1. PICK S : a \in Seq(S) /\ b \in Seq(S)
  BY TwoInOne
<1>2. PICK T : c \in Seq(T)
  BY DEF IsSeq
<1>3. a \in Seq(S \cup T) /\ b \in Seq(S \cup T) /\ c \in Seq(S \cup T)
  BY <1>1, <1>2, SeqMonotonic
<1>. QED BY <1>3, ConcatAssociative

\* A piece of a sequence.
LEMMA Piece ==
    ASSUME NEW s, IsSeq(s), NEW m \in 1 .. Len(s) + 1, NEW n \in (m - 1) .. Len(s)
    PROVE  /\ IsSeq(SubSeq(s, m, n)) /\ Len(SubSeq(s, m, n)) = n - m + 1
           /\ \A i \in 1 .. n - m + 1 : SubSeq(s, m, n)[i] = s[m + i - 1]
<1>1. PICK S : s \in Seq(S)
  BY DEF IsSeq
<1>2. Len(s) \in Nat /\ \A i \in m .. n : s[i] \in S
  BY <1>1, LenProperties, ElementOfSeq
<1>3. m \in Int /\ n \in Int
  BY <1>2
<1>4. /\ SubSeq(s, m, n) \in Seq(S)
      /\ Len(SubSeq(s, m, n)) = IF m <= n THEN n - m + 1 ELSE 0
      /\ \A i \in 1 .. n - m + 1 : SubSeq(s, m, n)[i] = s[m + i - 1]
  BY <1>2, <1>3, SubSeqProperties
<1>. QED BY <1>2, <1>4 DEF IsSeq

\* A piece that ends where the next one begins: together they are one.
LEMMA TwoPieces ==
    ASSUME NEW s, IsSeq(s), NEW m \in 1 .. Len(s) + 1, NEW k \in (m - 1) .. Len(s),
           NEW n \in k .. Len(s)
    PROVE  SubSeq(s, m, k) \o SubSeq(s, k + 1, n) = SubSeq(s, m, n)
BY ConcatAdjacentSubSeq DEF IsSeq

\* The piece from the first place to the last is all of it.
LEMMA WholePiece == ASSUME NEW s, IsSeq(s) PROVE SubSeq(s, 1, Len(s)) = s
BY SubSeqFull DEF IsSeq

\* What is joined from texts is a text.
LEMMA JoinedType ==
    ASSUME NEW parts, AllSeqs(parts), NEW next, GoesOn(parts, next)
    PROVE  \A i \in 1 .. (Len(parts) + 1) : IsSeq(Joined(parts, next)[i])
<1>. DEFINE n == Len(parts)
            J == Joined(parts, next)
            G == {i \in 1 .. (n + 1) : IsSeq(J[i])}
<1>1. n \in Nat /\ n + 1 \in Nat
  BY LenIsNat DEF AllSeqs
<1>2. (\A i \in 1 .. n : J[i] = parts[i] \o J[next[i]]) /\ J[n + 1] = <<>>
  BY <1>1, JoinedSteps
<1>. HIDE DEF J
<1>3. ASSUME NEW k \in 1 .. (n + 1), \A j \in (k + 1) .. (n + 1) : j \in G
      PROVE  k \in G
  <2>1. CASE k = n + 1
    BY <1>2, <2>1, ShortSeqs
  <2>2. CASE k # n + 1
    <3>1. k \in 1 .. n /\ next[k] \in (k + 1) .. (n + 1)
      BY <1>1, <2>2 DEF GoesOn
    <3>2. IsSeq(parts[k]) /\ IsSeq(J[next[k]])
      BY <1>3, <3>1 DEF AllSeqs
    <3>3. IsSeq(parts[k] \o J[next[k]])
      BY <3>2, ConcatSeqs, Zenon
    <3>. QED BY <1>2, <3>1, <3>3
  <2>. QED BY <2>1, <2>2
<1>. HIDE DEF G
<1>4. \A k \in 1 .. (n + 1) : k \in G
  BY <1>1, <1>3, Downwards
<1>. QED BY <1>4 DEF G, J

\* What Concat() has joined from the i-th text on.
ConcatFrom(parts) == Joined(parts, [i \in 1 .. Len(parts) |-> i + 1])

\* Concat() puts each text in front of what follows it.
LEMMA ConcatSteps ==
    ASSUME NEW parts, AllSeqs(parts)
    PROVE  /\ Concat(parts) = ConcatFrom(parts)[1]
           /\ \A i \in 1 .. Len(parts) :
                 ConcatFrom(parts)[i] = parts[i] \o ConcatFrom(parts)[i + 1]
           /\ ConcatFrom(parts)[Len(parts) + 1] = <<>>
           /\ \A i \in 1 .. (Len(parts) + 1) : IsSeq(ConcatFrom(parts)[i])
           /\ IsSeq(Concat(parts))
<1>. DEFINE next == [i \in 1 .. Len(parts) |-> i + 1]
<1>1. Len(parts) \in Nat
  BY LenIsNat DEF AllSeqs
<1>2. \A i \in 1 .. Len(parts) : next[i] = i + 1
  OBVIOUS
<1>3. Concat(parts) = Joined(parts, next)[1] /\ ConcatFrom(parts) = Joined(parts, next)
  BY DEF Concat, ConcatFrom
<1>. HIDE DEF next
<1>4. GoesOn(parts, next)
  BY <1>1, <1>2 DEF GoesOn
<1>5. /\ \A i \in 1 .. Len(parts) :
            Joined(parts, next)[i] = parts[i] \o Joined(parts, next)[next[i]]
      /\ Joined(parts, next)[Len(parts) + 1] = <<>>
  BY <1>1, <1>4, JoinedSteps
<1>6. \A i \in 1 .. (Len(parts) + 1) : IsSeq(Joined(parts, next)[i])
  BY <1>4, JoinedType
<1>7. 1 \in 1 .. (Len(parts) + 1)
  BY <1>1
<1>. QED BY <1>2, <1>3, <1>5, <1>6, <1>7

\* A text put before others comes first.
LEMMA ConcatFirst ==
    ASSUME NEW parts, AllSeqs(parts), NEW a, IsSeq(a)
    PROVE  AllSeqs(<<a>> \o parts) /\ Concat(<<a>> \o parts) = a \o Concat(parts)
<1>. DEFINE n == Len(parts)
            J == ConcatFrom(parts)
            front == <<a>> \o parts
            F == ConcatFrom(front)
            G == {i \in 1 .. (n + 1) : F[i + 1] = J[i]}
<1>1. n \in Nat /\ n + 1 \in Nat /\ 1 \in 1 .. (n + 1) /\ IsSeq(parts)
  BY LenIsNat DEF AllSeqs
<1>2. /\ IsSeq(front) /\ Len(front) = n + 1 /\ front[1] = a
      /\ \A i \in 1 .. n : front[i + 1] = parts[i]
  BY <1>1, ShortSeqs, ConcatSeqs
<1>. HIDE DEF front
<1>3. AllSeqs(front)
  <2>1. ASSUME NEW i \in 1 .. (n + 1) PROVE IsSeq(front[i])
    <3>1. CASE i = 1
      BY <1>2, <3>1
    <3>2. CASE i # 1
      <4>1. i - 1 \in 1 .. n /\ (i - 1) + 1 = i
        BY <1>1, <3>2
      <4>2. front[i] = parts[i - 1]
        BY <1>2, <4>1
      <4>. QED BY <4>1, <4>2 DEF AllSeqs
    <3>. QED BY <3>1, <3>2
  <2>. QED BY <1>2, <2>1 DEF AllSeqs
<1>4. /\ Concat(parts) = J[1]
      /\ \A i \in 1 .. n : J[i] = parts[i] \o J[i + 1]
      /\ J[n + 1] = <<>>
  BY ConcatSteps
<1>5. /\ Concat(front) = F[1]
      /\ \A i \in 1 .. (n + 1) : F[i] = front[i] \o F[i + 1]
      /\ F[(n + 1) + 1] = <<>>
  BY <1>2, <1>3, ConcatSteps
<1>. HIDE DEF J, F
<1>6. ASSUME NEW k \in 1 .. (n + 1), \A j \in (k + 1) .. (n + 1) : j \in G
      PROVE  k \in G
  <2>1. CASE k = n + 1
    BY <1>4, <1>5, <2>1
  <2>2. CASE k # n + 1
    <3>1. k \in 1 .. n /\ k + 1 \in 1 .. (n + 1) /\ k + 1 \in (k + 1) .. (n + 1)
      BY <1>1, <2>2
    <3>2. F[(k + 1) + 1] = J[k + 1]
      BY <1>6, <3>1
    <3>3. F[k + 1] = front[k + 1] \o F[(k + 1) + 1]
      BY <1>5, <3>1
    <3>4. F[k + 1] = J[k]
      BY <1>2, <1>4, <3>1, <3>2, <3>3
    <3>. QED BY <3>4
  <2>. QED BY <2>1, <2>2
<1>7. 1 \in G
  <2>. HIDE DEF G
  <2>. QED BY <1>1, <1>6, Downwards
<1>8. F[1] = front[1] \o F[1 + 1]
  BY <1>1, <1>5
<1>. QED BY <1>2, <1>3, <1>4, <1>5, <1>7, <1>8 DEF front

\* What n texts give is the beginning of what all of them give.
LEMMA ConcatSplit ==
    ASSUME NEW parts, AllSeqs(parts), NEW n \in 0 .. Len(parts)
    PROVE  /\ AllSeqs(SubSeq(parts, 1, n))
           /\ Concat(parts) = Concat(SubSeq(parts, 1, n)) \o ConcatFrom(parts)[n + 1]
<1>. DEFINE m == Len(parts)
            J == ConcatFrom(parts)
            H(k) == ConcatFrom(SubSeq(parts, 1, k))
<1>1. m \in Nat /\ n \in Nat /\ n <= m /\ n + 1 \in Nat /\ 1 \in 1 .. (n + 1) /\ IsSeq(parts)
  BY LenIsNat DEF AllSeqs
<1>2. /\ IsSeq(SubSeq(parts, 1, n)) /\ Len(SubSeq(parts, 1, n)) = n
      /\ \A i \in 1 .. n : SubSeq(parts, 1, n)[i] = parts[i]
  <2>1. 1 \in 1 .. m + 1 /\ n \in (1 - 1) .. m /\ n - 1 + 1 = n
    BY <1>1
  <2>2. \A i \in 1 .. n : 1 + i - 1 = i
    BY <1>1
  <2>. QED BY <1>1, <2>1, <2>2, Piece
<1>3. AllSeqs(SubSeq(parts, 1, n))
  BY <1>1, <1>2 DEF AllSeqs
<1>4. /\ Concat(parts) = J[1]
      /\ \A i \in 1 .. m : J[i] = parts[i] \o J[i + 1]
      /\ \A i \in 1 .. (m + 1) : IsSeq(J[i])
  BY ConcatSteps
<1>. DEFINE F == ConcatFrom(SubSeq(parts, 1, n))
            G == {i \in 1 .. (n + 1) : J[i] = F[i] \o J[n + 1]}
<1>5. /\ Concat(SubSeq(parts, 1, n)) = F[1]
      /\ \A i \in 1 .. n : F[i] = parts[i] \o F[i + 1]
      /\ F[n + 1] = <<>>
      /\ \A i \in 1 .. (n + 1) : IsSeq(F[i])
  BY <1>2, <1>3, ConcatSteps
<1>. HIDE DEF J, F
<1>6. ASSUME NEW k \in 1 .. (n + 1), \A j \in (k + 1) .. (n + 1) : j \in G
      PROVE  k \in G
  <2>0. IsSeq(J[n + 1])
    BY <1>1, <1>4
  <2>1. CASE k = n + 1
    <3>1. <<>> \o J[n + 1] = J[n + 1]
      BY <2>0, ConcatSeqs, ShortSeqs
    <3>. QED BY <1>5, <2>1, <3>1
  <2>2. CASE k # n + 1
    <3>1. /\ k \in 1 .. n /\ k + 1 \in 1 .. (n + 1) /\ k + 1 \in (k + 1) .. (n + 1)
          /\ k \in 1 .. m
      BY <1>1, <2>2
    <3>2. J[k + 1] = F[k + 1] \o J[n + 1]
      BY <1>6, <3>1
    <3>3. J[k] = parts[k] \o (F[k + 1] \o J[n + 1])
      BY <1>4, <3>1, <3>2
    <3>4. IsSeq(parts[k]) /\ IsSeq(F[k + 1])
      BY <1>5, <3>1 DEF AllSeqs
    <3>5. (parts[k] \o F[k + 1]) \o J[n + 1] = parts[k] \o (F[k + 1] \o J[n + 1])
      <4>1. PICK a, b, c : a = parts[k] /\ b = F[k + 1] /\ c = J[n + 1]
        OBVIOUS
      <4>2. IsSeq(a) /\ IsSeq(b) /\ IsSeq(c)
        BY <2>0, <3>4, <4>1
      <4>3. (a \o b) \o c = a \o (b \o c)
        BY <4>2, Associative
      <4>. QED BY <4>1, <4>3
    <3>6. J[k] = F[k] \o J[n + 1]
      BY <1>5, <3>1, <3>3, <3>5
    <3>. QED BY <3>6
  <2>. QED BY <2>1, <2>2
<1>7. 1 \in G
  <2>. HIDE DEF G
  <2>. QED BY <1>1, <1>6, Downwards
<1>8. J[1] = F[1] \o J[n + 1]
  BY <1>7
<1>. QED BY <1>3, <1>4, <1>5, <1>8 DEF J

(***************************************************************************)
(* The tables of UTF-8.                                                    *)
(***************************************************************************)
\* A name, or a piece of one.
IsBytes(bytes) == IsSeq(bytes) /\ \A i \in 1 .. Len(bytes) : bytes[i] \in 0 .. 255

\* A short sequence is the tuple of its elements.
LEMMA ShortTuples ==
    ASSUME NEW s, IsSeq(s)
    PROVE  /\ \A a : s = <<a>> <=> Len(s) = 1 /\ s[1] = a
           /\ \A a, b : s = <<a, b>> <=> Len(s) = 2 /\ s[1] = a /\ s[2] = b
           /\ \A a, b, c : s = <<a, b, c>> <=> Len(s) = 3 /\ s[1] = a /\ s[2] = b /\ s[3] = c
           /\ \A a, b, c, d : s = <<a, b, c, d>> <=>
                 Len(s) = 4 /\ s[1] = a /\ s[2] = b /\ s[3] = c /\ s[4] = d
<1>1. PICK S : s \in Seq(S)
  BY DEF IsSeq
<1>. QED BY <1>1

\* How many bytes a value is encoded in, and which.
LEMMA EncodingOf ==
    ASSUME NEW c \in Nat
    PROVE  /\ c <= 127 => Encode(c) = <<c>>
           /\ c > 127 /\ c <= 2047 => Encode(c) = <<192 + (c \div 64), 128 + (c % 64)>>
           /\ c > 2047 /\ c <= 65535 =>
                 Encode(c) = <<224 + (c \div 4096), 128 + ((c \div 64) % 64), 128 + (c % 64)>>
           /\ c > 65535 =>
                 Encode(c) = <<240 + (c \div 262144), 128 + ((c \div 4096) % 64),
                               128 + ((c \div 64) % 64), 128 + (c % 64)>>
<1>1. Six(c, 1) = 128 + (c % 64)
  <2>1. c \div 1 = c
    OBVIOUS
  <2>. QED BY <2>1 DEF Six
<1>2. Six(c, 64) = 128 + ((c \div 64) % 64) /\ Six(c, 4096) = 128 + ((c \div 4096) % 64)
  BY DEF Six
<1>3. CASE c <= 127
  BY <1>3 DEF Encode
<1>4. CASE c > 127 /\ c <= 2047
  BY <1>1, <1>4 DEF Encode
<1>5. CASE c > 2047 /\ c <= 65535
  BY <1>1, <1>2, <1>5 DEF Encode
<1>6. CASE c > 65535
  BY <1>1, <1>2, <1>6 DEF Encode
<1>. QED BY <1>3, <1>4, <1>5, <1>6

\* The bits of a sequence, by its length.
LEMMA CodepointOf ==
    ASSUME NEW bytes, IsBytes(bytes)
    PROVE  /\ Len(bytes) = 1 => Codepoint(bytes) = bytes[1] % 128
           /\ Len(bytes) = 2 => Codepoint(bytes) = (64 * (bytes[1] % 32)) + (bytes[2] % 64)
           /\ Len(bytes) = 3 => Codepoint(bytes) =
                 (4096 * (bytes[1] % 16)) + (64 * (bytes[2] % 64)) + (bytes[3] % 64)
           /\ Len(bytes) = 4 => Codepoint(bytes) =
                 (262144 * (bytes[1] % 8)) + (4096 * (bytes[2] % 64)) + (64 * (bytes[3] % 64))
                     + (bytes[4] % 64)
<1>1. CASE Len(bytes) = 1
  BY <1>1 DEF Codepoint
<1>2. CASE Len(bytes) = 2
  BY <1>2 DEF Codepoint
<1>3. CASE Len(bytes) = 3
  BY <1>3 DEF Codepoint
<1>4. CASE Len(bytes) = 4
  BY <1>4 DEF Codepoint
<1>. QED BY <1>1, <1>2, <1>3, <1>4

\* A sequence DecodeStrictUtf8() takes for a character.
Accepted(bytes) ==
    /\ StrictLength(bytes[1]) = Len(bytes)
    /\ Len(bytes) = 1 => bytes[1] <= 127
    /\ Len(bytes) > 1 => /\ bytes[2] \in Seconds(bytes[1])
                         /\ \A k \in 2 .. (Len(bytes) - 1) : IsContinuation(bytes[k + 1])

\* Those are the encodings of the scalar values, and NextUtf8Codepoint() reads
\* them as what they encode.
LEMMA Tables ==
    ASSUME NEW bytes, IsBytes(bytes), Len(bytes) \in 1 .. 4
    PROVE  /\ IsEncoding(bytes) <=> Accepted(bytes)
           /\ Codepoint(bytes) \in Nat
           /\ Accepted(bytes) =>
                 /\ LenientLength(bytes[1]) = Len(bytes)
                 /\ \A k \in 2 .. Len(bytes) : IsContinuation(bytes[k])
                 /\ Codepoint(bytes) = 0 => bytes[1] = 0
<1>0. IsSeq(bytes)
  BY DEF IsBytes
<1>1. CASE Len(bytes) = 1
  <2>. DEFINE c == Codepoint(bytes)
  <2>1. bytes[1] \in 0 .. 255
    BY <1>1 DEF IsBytes
  <2>2. c = bytes[1] % 128
    BY <1>1, CodepointOf
  <2>3. c \in Nat /\ c <= 127
    BY <2>1, <2>2
  <2>4. Encode(c) = <<c>>
    BY <2>3, EncodingOf
  <2>5. IsEncoding(bytes) <=> bytes[1] = bytes[1] % 128
    <3>1. IsScalar(c)
      BY <2>3 DEF IsScalar
    <3>2. bytes = <<c>> <=> bytes[1] = c
      BY <1>0, <1>1, ShortTuples
    <3>. HIDE DEF c
    <3>. QED BY <2>2, <2>4, <3>1, <3>2 DEF IsEncoding, c
  <2>6. Accepted(bytes) <=> bytes[1] <= 127
    BY <1>1, <2>1 DEF Accepted, StrictLength
  <2>7. bytes[1] <= 127 => LenientLength(bytes[1]) = 1 /\ (c = 0 => bytes[1] = 0)
    BY <2>1, <2>2 DEF LenientLength
  <2>8. bytes[1] = bytes[1] % 128 <=> bytes[1] <= 127
    BY <2>1
  <2>. QED BY <1>1, <2>3, <2>5, <2>6, <2>7, <2>8
<1>2. CASE Len(bytes) = 2
  <2>0. PICK b1, b2, c : b1 = bytes[1] /\ b2 = bytes[2] /\ c = Codepoint(bytes)
    OBVIOUS
  <2>1. b1 \in 0 .. 255 /\ b2 \in 0 .. 255
    BY <1>2, <2>0 DEF IsBytes
  <2>2. c = (64 * (b1 % 32)) + (b2 % 64) /\ c \in Nat
    <3>1. c = (64 * (b1 % 32)) + (b2 % 64)
      BY <1>2, <2>0, CodepointOf
    <3>2. b1 % 32 \in Nat /\ b2 % 64 \in Nat
      BY <2>1
    <3>. QED BY <3>1, <3>2
  <2>3. /\ c <= 2047
        /\ b1 = 192 + (c \div 64) <=> b1 \in 192 .. 223
        /\ b2 = 128 + (c % 64) <=> b2 \in 128 .. 191
        /\ b1 \in 192 .. 223 => (c > 127 <=> b1 >= 194)
    <3>1. b1 % 32 \in 0 .. 31 /\ b2 % 64 \in 0 .. 63
      BY <2>1
    <3>2. c \div 64 = b1 % 32 /\ c % 64 = b2 % 64
      BY <2>1, <2>2, <3>1
    <3>3. b1 = 192 + (b1 % 32) <=> b1 \in 192 .. 223
      BY <2>1
    <3>4. b2 = 128 + (b2 % 64) <=> b2 \in 128 .. 191
      BY <2>1
    <3>. QED BY <2>1, <2>2, <3>1, <3>2, <3>3, <3>4
  <2>2a. c \in Nat
    BY <2>2
  <2>2b. c <= 2047
    BY <2>3
  <2>4. bytes = Encode(c) <=> c > 127 /\ b1 = 192 + (c \div 64) /\ b2 = 128 + (c % 64)
    <3>1. CASE c <= 127
      <4>1. Encode(c) = <<c>>
        BY <2>2a, <3>1, EncodingOf
      <4>. QED BY <1>0, <1>2, <2>2a, <3>1, <4>1, ShortTuples
    <3>2. CASE c > 127
      <4>1. Encode(c) = <<192 + (c \div 64), 128 + (c % 64)>>
        BY <2>2a, <2>2b, <3>2, EncodingOf
      <4>. QED BY <1>0, <1>2, <3>2, <4>1, ShortTuples, <2>0
    <3>. QED BY <2>2a, <3>1, <3>2
  <2>5. IsEncoding(bytes) <=> b1 \in 194 .. 223 /\ b2 \in 128 .. 191
    <3>1. IsScalar(c)
      BY <2>2, <2>3 DEF IsScalar
    <3>2. IsEncoding(bytes) <=> bytes = Encode(c)
      BY <3>1, <2>0 DEF IsEncoding
    <3>. QED BY <2>1, <2>3, <2>4, <3>2
  <2>6. Accepted(bytes) <=> b1 \in 194 .. 223 /\ b2 \in 128 .. 191
    BY <1>2, <2>1, <2>0 DEF Accepted, StrictLength, Seconds
  <2>7. b1 \in 194 .. 223 => LenientLength(b1) = 2 /\ c > 127
    BY <2>3 DEF LenientLength
  <2>8. \A k \in 2 .. Len(bytes) : bytes[k] = b2
    BY <1>2, <2>0
  <2>. QED BY <1>2, <2>2, <2>5, <2>6, <2>7, <2>8, <2>0 DEF IsContinuation
<1>3. CASE Len(bytes) = 3
  <2>0. PICK b1, b2, b3, c : b1 = bytes[1] /\ b2 = bytes[2] /\ b3 = bytes[3] /\ c = Codepoint(bytes)
    OBVIOUS
  <2>1. b1 \in 0 .. 255 /\ b2 \in 0 .. 255 /\ b3 \in 0 .. 255
    BY <1>3, <2>0 DEF IsBytes
  <2>2. c = (4096 * (b1 % 16)) + (64 * (b2 % 64)) + (b3 % 64) /\ c \in Nat
    <3>1. c = (4096 * (b1 % 16)) + (64 * (b2 % 64)) + (b3 % 64)
      BY <1>3, <2>0, CodepointOf
    <3>2. b1 % 16 \in Nat /\ b2 % 64 \in Nat /\ b3 % 64 \in Nat
      BY <2>1
    <3>. QED BY <3>1, <3>2
  <2>3. /\ c <= 65535
        /\ b1 = 224 + (c \div 4096) <=> b1 \in 224 .. 239
        /\ b2 = 128 + ((c \div 64) % 64) <=> b2 \in 128 .. 191
        /\ b3 = 128 + (c % 64) <=> b3 \in 128 .. 191
        /\ b1 \in 224 .. 239 /\ b2 \in 128 .. 191 =>
              /\ c > 2047 <=> b1 > 224 \/ b2 >= 160
              /\ c >= 55296 /\ c <= 57343 <=> b1 = 237 /\ b2 >= 160
    <3>1. b1 % 16 \in 0 .. 15 /\ b2 % 64 \in 0 .. 63 /\ b3 % 64 \in 0 .. 63
      BY <2>1
    <3>2. c \div 4096 = b1 % 16 /\ (c \div 64) % 64 = b2 % 64 /\ c % 64 = b3 % 64
      BY <2>1, <2>2, <3>1
    <3>3. b1 = 224 + (b1 % 16) <=> b1 \in 224 .. 239
      BY <2>1
    <3>4. b2 = 128 + (b2 % 64) <=> b2 \in 128 .. 191
      BY <2>1
    <3>5. b3 = 128 + (b3 % 64) <=> b3 \in 128 .. 191
      BY <2>1
    <3>6. c <= 65535
      BY <2>1, <2>2, <3>1
    <3>7. ASSUME b1 \in 224 .. 239, b2 \in 128 .. 191
          PROVE  /\ c > 2047 <=> b1 > 224 \/ b2 >= 160
                 /\ c >= 55296 /\ c <= 57343 <=> b1 = 237 /\ b2 >= 160
      BY <2>1, <2>2, <3>1, <3>3, <3>4, <3>7
    <3>. QED BY <2>1, <2>2, <3>2, <3>3, <3>4, <3>5, <3>6, <3>7
  <2>2a. c \in Nat
    BY <2>2
  <2>2b. c <= 65535
    BY <2>3
  <2>4. bytes = Encode(c) <=> /\ c > 2047 /\ b1 = 224 + (c \div 4096)
                              /\ b2 = 128 + ((c \div 64) % 64) /\ b3 = 128 + (c % 64)
    <3>1. CASE c <= 127
      <4>1. Encode(c) = <<c>>
        BY <2>2a, <3>1, EncodingOf
      <4>. QED BY <1>0, <1>3, <2>2a, <3>1, <4>1, ShortTuples
    <3>2. CASE c > 127 /\ c <= 2047
      <4>1. Encode(c) = <<192 + (c \div 64), 128 + (c % 64)>>
        BY <2>2a, <3>2, EncodingOf
      <4>. QED BY <1>0, <1>3, <2>2a, <3>2, <4>1, ShortTuples
    <3>3. CASE c > 2047
      <4>1. Encode(c) = <<224 + (c \div 4096), 128 + ((c \div 64) % 64), 128 + (c % 64)>>
        BY <2>2a, <2>2b, <3>3, EncodingOf
      <4>. QED BY <1>0, <1>3, <3>3, <4>1, ShortTuples, <2>0
    <3>. QED BY <2>2a, <3>1, <3>2, <3>3
  <2>5. IsEncoding(bytes) <=>
            /\ b1 \in 224 .. 239 /\ b2 \in 128 .. 191 /\ b3 \in 128 .. 191
            /\ b1 > 224 \/ b2 >= 160
            /\ ~(b1 = 237 /\ b2 >= 160)
    <3>1. IsScalar(c) <=> ~(c >= 55296 /\ c <= 57343)
      BY <2>2, <2>3 DEF IsScalar
    <3>2. IsEncoding(bytes) <=> IsScalar(c) /\ bytes = Encode(c)
      BY <2>0 DEF IsEncoding
    <3>. QED BY <2>1, <2>3, <2>4, <3>1, <3>2
  <2>6. Accepted(bytes) <=>
            /\ b1 \in 224 .. 239 /\ b2 \in 128 .. 191 /\ b3 \in 128 .. 191
            /\ b1 > 224 \/ b2 >= 160
            /\ ~(b1 = 237 /\ b2 >= 160)
    <3>1. Accepted(bytes) <=> /\ StrictLength(b1) = 3 /\ b2 \in Seconds(b1) /\ b3 \in 128 .. 191
      BY <1>3, <2>0 DEF Accepted, IsContinuation
    <3>2. StrictLength(b1) = 3 <=> b1 \in 224 .. 239
      BY <2>1 DEF StrictLength
    <3>3. b1 \in 224 .. 239 =>
             (b2 \in Seconds(b1) <=> /\ b2 \in 128 .. 191
                                     /\ b1 > 224 \/ b2 >= 160
                                     /\ ~(b1 = 237 /\ b2 >= 160))
      BY <2>1 DEF Seconds
    <3>. QED BY <3>1, <3>2, <3>3
  <2>7. b1 \in 224 .. 239 => LenientLength(b1) = 3
    BY DEF LenientLength
  <2>8. \A k \in 2 .. Len(bytes) : bytes[k] = b2 \/ bytes[k] = b3
    BY <1>3, <2>0
  <2>9. Accepted(bytes) => c # 0
    BY <2>2, <2>3, <2>6
  <2>. QED BY <1>3, <2>2, <2>5, <2>6, <2>7, <2>8, <2>9, <2>0 DEF IsContinuation
<1>4. CASE Len(bytes) = 4
  <2>0. PICK b1, b2, b3, b4, c : b1 = bytes[1] /\ b2 = bytes[2] /\ b3 = bytes[3] /\ b4 = bytes[4] /\ c = Codepoint(bytes)
    OBVIOUS
  <2>1. b1 \in 0 .. 255 /\ b2 \in 0 .. 255 /\ b3 \in 0 .. 255 /\ b4 \in 0 .. 255
    BY <1>4, <2>0 DEF IsBytes
  <2>2. c = (262144 * (b1 % 8)) + (4096 * (b2 % 64)) + (64 * (b3 % 64)) + (b4 % 64) /\ c \in Nat
    <3>1. c = (262144 * (b1 % 8)) + (4096 * (b2 % 64)) + (64 * (b3 % 64)) + (b4 % 64)
      BY <1>4, <2>0, CodepointOf
    <3>2. b1 % 8 \in Nat /\ b2 % 64 \in Nat /\ b3 % 64 \in Nat /\ b4 % 64 \in Nat
      BY <2>1
    <3>. QED BY <3>1, <3>2
  <2>3. /\ b1 = 240 + (c \div 262144) <=> b1 \in 240 .. 247
        /\ b2 = 128 + ((c \div 4096) % 64) <=> b2 \in 128 .. 191
        /\ b3 = 128 + ((c \div 64) % 64) <=> b3 \in 128 .. 191
        /\ b4 = 128 + (c % 64) <=> b4 \in 128 .. 191
        /\ b1 \in 240 .. 247 /\ b2 \in 128 .. 191 =>
              /\ c > 65535 <=> b1 > 240 \/ b2 >= 144
              /\ c <= 1114111 <=> b1 < 244 \/ (b1 = 244 /\ b2 <= 143)
    <3>1. b1 % 8 \in 0 .. 7 /\ b2 % 64 \in 0 .. 63 /\ b3 % 64 \in 0 .. 63 /\ b4 % 64 \in 0 .. 63
      BY <2>1
    <3>2. c \div 262144 = b1 % 8 /\ (c \div 4096) % 64 = b2 % 64
      <4>1. PICK u, v, w, x \in Nat : /\ u = b1 % 8 /\ v = b2 % 64 /\ w = b3 % 64 /\ x = b4 % 64
                                      /\ u <= 7 /\ v <= 63 /\ w <= 63 /\ x <= 63
        BY <2>1, <2>2, <3>1
      <4>2. c = (4096 * ((64 * u) + v)) + ((64 * w) + x)
        BY <2>1, <2>2, <4>1
      <4>3. c \div 4096 = (64 * u) + v
        BY <2>1, <2>2, <4>1, <4>2
      <4>4. c \div 262144 = u
        BY <2>1, <2>2, <4>1, <4>2
      <4>. QED BY <4>1, <4>3, <4>4
    <3>3. (c \div 64) % 64 = b3 % 64 /\ c % 64 = b4 % 64
      BY <2>1, <2>2, <3>1
    <3>4. b1 = 240 + (b1 % 8) <=> b1 \in 240 .. 247
      BY <2>1
    <3>5. b2 = 128 + (b2 % 64) <=> b2 \in 128 .. 191
      BY <2>1
    <3>6. b3 = 128 + (b3 % 64) <=> b3 \in 128 .. 191
      BY <2>1
    <3>7. b4 = 128 + (b4 % 64) <=> b4 \in 128 .. 191
      BY <2>1
    <3>8. ASSUME b1 \in 240 .. 247, b2 \in 128 .. 191
          PROVE  /\ c > 65535 <=> b1 > 240 \/ b2 >= 144
                 /\ c <= 1114111 <=> b1 < 244 \/ (b1 = 244 /\ b2 <= 143)
      BY <2>1, <2>2, <3>1, <3>4, <3>5, <3>8
    <3>. QED BY <2>1, <2>2, <3>2, <3>3, <3>4, <3>5, <3>6, <3>7, <3>8
  <2>2a. c \in Nat
    BY <2>2
  <2>4. bytes = Encode(c) <=> /\ c > 65535 /\ b1 = 240 + (c \div 262144)
                              /\ b2 = 128 + ((c \div 4096) % 64)
                              /\ b3 = 128 + ((c \div 64) % 64) /\ b4 = 128 + (c % 64)
    <3>1. CASE c <= 127
      <4>1. Encode(c) = <<c>>
        BY <2>2a, <3>1, EncodingOf
      <4>. QED BY <1>0, <1>4, <2>2a, <3>1, <4>1, ShortTuples
    <3>2. CASE c > 127 /\ c <= 2047
      <4>1. Encode(c) = <<192 + (c \div 64), 128 + (c % 64)>>
        BY <2>2a, <3>2, EncodingOf
      <4>. QED BY <1>0, <1>4, <2>2a, <3>2, <4>1, ShortTuples
    <3>3. CASE c > 2047 /\ c <= 65535
      <4>1. Encode(c) = <<224 + (c \div 4096), 128 + ((c \div 64) % 64), 128 + (c % 64)>>
        BY <2>2a, <3>3, EncodingOf
      <4>. QED BY <1>0, <1>4, <2>2a, <3>3, <4>1, ShortTuples
    <3>4. CASE c > 65535
      <4>1. Encode(c) = <<240 + (c \div 262144), 128 + ((c \div 4096) % 64),
                          128 + ((c \div 64) % 64), 128 + (c % 64)>>
        BY <2>2a, <3>4, EncodingOf
      <4>. QED BY <1>0, <1>4, <3>4, <4>1, ShortTuples, <2>0
    <3>. QED BY <2>2a, <3>1, <3>2, <3>3, <3>4
  <2>5. IsEncoding(bytes) <=>
            /\ b1 \in 240 .. 247 /\ b2 \in 128 .. 191 /\ b3 \in 128 .. 191 /\ b4 \in 128 .. 191
            /\ b1 > 240 \/ b2 >= 144
            /\ b1 < 244 \/ (b1 = 244 /\ b2 <= 143)
    <3>1. c > 65535 => (IsScalar(c) <=> c <= 1114111)
      BY <2>2 DEF IsScalar
    <3>2. IsEncoding(bytes) <=> IsScalar(c) /\ bytes = Encode(c)
      BY <2>0 DEF IsEncoding
    <3>. QED BY <2>1, <2>3, <2>4, <3>1, <3>2
  <2>6. Accepted(bytes) <=>
            /\ b1 \in 240 .. 247 /\ b2 \in 128 .. 191 /\ b3 \in 128 .. 191 /\ b4 \in 128 .. 191
            /\ b1 > 240 \/ b2 >= 144
            /\ b1 < 244 \/ (b1 = 244 /\ b2 <= 143)
    <3>1. Accepted(bytes) <=> /\ StrictLength(b1) = 4 /\ b2 \in Seconds(b1)
                              /\ b3 \in 128 .. 191 /\ b4 \in 128 .. 191
      BY <1>4, <2>0 DEF Accepted, IsContinuation
    <3>2. StrictLength(b1) = 4 <=> b1 \in 240 .. 244
      BY <2>1 DEF StrictLength
    <3>3. b1 \in 240 .. 244 =>
             (b2 \in Seconds(b1) <=> /\ b2 \in 128 .. 191
                                     /\ b1 > 240 \/ b2 >= 144
                                     /\ b1 < 244 \/ (b1 = 244 /\ b2 <= 143))
      BY <2>1 DEF Seconds
    <3>. QED BY <2>1, <3>1, <3>2, <3>3
  <2>7. b1 \in 240 .. 247 => LenientLength(b1) = 4
    BY DEF LenientLength
  <2>8. \A k \in 2 .. Len(bytes) : bytes[k] = b2 \/ bytes[k] = b3 \/ bytes[k] = b4
    BY <1>4, <2>0
  <2>9. Accepted(bytes) => c # 0
    BY <2>2, <2>3, <2>6
  <2>. QED BY <1>4, <2>2, <2>5, <2>6, <2>7, <2>8, <2>9, <2>0 DEF IsContinuation
<1>. QED BY <1>1, <1>2, <1>3, <1>4

(***************************************************************************)
(* The cursors.                                                            *)
(***************************************************************************)
\* The menu is open only with something enabled, and from then on until it is
\* closed, also below an error, the cursor stands on one of those items; the
\* other cursors are in their lists.
CursorInv ==
    /\ menuEnabled \subseteq 0 .. 8
    /\ menuEnabled # {} => menuIndex \in menuEnabled
    /\ overlay = "ContextMenu" => menuEnabled # {}
    /\ placeCount \in Nat /\ placeIndex \in Int
    /\ overlay = "QuickPlaces" /\ placeCount > 0 => placeIndex \in 0 .. (placeCount - 1)
    /\ settingsIndex \in {0, 1}

\* What Smallest() chooses of a set of numbers is in it.
LEMMA SmallestIn ==
    ASSUME NEW S, S \subseteq Nat, S # {}
    PROVE  Smallest(S) \in S
BY LeastNumber DEF Smallest

\* Whatever is selected, the menu has something enabled: "Refresh", the first.
LEMMA SomethingEnabled ==
    ASSUME NEW hasSelection \in BOOLEAN, NEW hasClipboard \in BOOLEAN
    PROVE  /\ Enabled(hasSelection, hasClipboard) \subseteq 0 .. 8
           /\ Enabled(hasSelection, hasClipboard) # {}
<1>1. ItemCount = 9 /\ MenuItems[1] = "Refresh"
  BY DEF ItemCount, MenuItems
<1>2. 0 \in 0 .. (ItemCount - 1) /\ 0 + 1 = 1
  BY <1>1
<1>3. 0 \in Enabled(hasSelection, hasClipboard)
  BY <1>1, <1>2 DEF Enabled
<1>4. Enabled(hasSelection, hasClipboard) \subseteq 0 .. (ItemCount - 1)
  BY DEF Enabled
<1>. QED BY <1>1, <1>3, <1>4

\* From an enabled item Move() goes to an enabled one, at the latest back to
\* where it came from.
LEMMA BesideIsEnabled ==
    ASSUME menuEnabled \subseteq 0 .. 8, menuIndex \in menuEnabled, NEW delta \in {-1, 1}
    PROVE  Beside(delta) \in menuEnabled
<1>. DEFINE at(k) == (menuIndex + delta * k) % 9
            S == {k \in 1 .. 9 : at(k) \in menuEnabled \/ k = 9}
<1>1. ItemCount = 9
  BY DEF ItemCount, MenuItems
<1>2. Beside(delta) = at(Smallest(S))
  BY <1>1 DEF Beside
<1>3. at(9) = menuIndex
  <2>1. menuIndex \in 0 .. 8
    OBVIOUS
  <2>2. CASE delta = 1
    BY <2>1, <2>2
  <2>3. CASE delta = -1
    BY <2>1, <2>3
  <2>. QED BY <2>2, <2>3
<1>4. Smallest(S) \in S
  <2>1. S \subseteq Nat /\ 9 \in S
    OBVIOUS
  <2>. HIDE DEF S
  <2>. QED BY <2>1, SmallestIn
<1>. HIDE DEF at
<1>. QED BY <1>2, <1>3, <1>4

\* It holds at first.
LEMMA CursorInit == Init => CursorInv
BY DEF Init, CursorInv

\* No step takes a cursor off.
LEMMA CursorNext ==
    ASSUME CursorInv, [Next]_vars
    PROVE  CursorInv'
<1>. USE DEF CursorInv
<1>1. CASE ReadPad
  BY <1>1 DEF ReadPad, menu, place
<1>2. CASE OperationEnds
  BY <1>2 DEF OperationEnds, menu, place
<1>3. CASE UpdateTextInput
  BY <1>3 DEF UpdateTextInput, menu, place
<1>4. CASE UseText
  BY <1>4 DEF UseText, menu, place
<1>5. CASE NoAnswer
  BY <1>5 DEF NoAnswer, menu, place
<1>6. CASE InBrowser
  BY <1>6 DEF InBrowser, menu, place
<1>7. CASE InOperation
  BY <1>7 DEF InOperation, menu, place
<1>8. CASE OpenMenu
  <2>1. /\ overlay' = "ContextMenu"
        /\ placeCount' = placeCount /\ placeIndex' = placeIndex /\ settingsIndex' = settingsIndex
    BY <1>8 DEF OpenMenu, place
  <2>2. menuEnabled' \subseteq 0 .. 8 /\ menuEnabled' # {}
    BY <1>8, SomethingEnabled DEF OpenMenu
  <2>3. menuIndex' \in menuEnabled'
    <3>1. menuIndex' = Smallest(menuEnabled')
      BY <1>8 DEF OpenMenu
    <3>2. menuEnabled' \subseteq Nat
      BY <2>2
    <3>. QED BY <2>2, <3>1, <3>2, SmallestIn
  <2>. QED BY <2>1, <2>2, <2>3
<1>9. CASE MoveInMenu
  <2>1. PICK move \in {<<"up", -1>>, <<"down", 1>>} : menuIndex' = Beside(move[2])
    BY <1>9 DEF MoveInMenu
  <2>2. move[2] \in {-1, 1}
    BY <2>1
  <2>3. /\ overlay = "ContextMenu" /\ overlay' = overlay /\ menuEnabled' = menuEnabled
        /\ placeCount' = placeCount /\ placeIndex' = placeIndex /\ settingsIndex' = settingsIndex
    BY <1>9 DEF MoveInMenu, place
  <2>4. menuIndex' \in menuEnabled
    BY <2>1, <2>2, <2>3, BesideIsEnabled
  <2>. QED BY <2>3, <2>4
<1>10. CASE CloseMenu
  BY <1>10 DEF CloseMenu, Close, place
<1>11. CASE ChooseItem
  <2>1. placeCount' = placeCount /\ placeIndex' = placeIndex /\ settingsIndex' = settingsIndex
    BY <1>11 DEF ChooseItem, place
  <2>2. /\ overlay' # "QuickPlaces"
        /\ \/ menuIndex' = menuIndex /\ menuEnabled' = menuEnabled
           \/ menuEnabled' = {} /\ overlay' # "ContextMenu"
    <3>1. overlay = "ContextMenu"
      BY <1>11 DEF ChooseItem
    <3>2. CASE UNCHANGED <<overlay, menu, text>>
      BY <3>1, <3>2 DEF menu
    <3>3. CASE overlay' = "TextInput" /\ OpenTextInput /\ Close
      BY <3>3 DEF Close
    <3>4. CASE overlay' = "Error" /\ UNCHANGED <<menu, text>>
      BY <3>4 DEF menu
    <3>5. CASE /\ overlay' \in CASE Item = "Properties" -> {"Properties", "Browsing"}
                                 [] Item = "Paste"      -> {"Running", "Finished", "Question", "Error"}
                                 [] Item = "Delete"     -> {"Question", "Browsing"}
                                 [] OTHER               -> {"Browsing"}
               /\ Close
      <4>1. overlay' \in {"Properties", "Browsing", "Running", "Finished", "Question", "Error"}
        BY <3>5
      <4>. QED BY <3>5, <4>1 DEF Close
    <3>. QED BY <1>11, <3>2, <3>3, <3>4, <3>5 DEF ChooseItem
  <2>. QED BY <1>11, <2>1, <2>2 DEF ChooseItem
<1>12. CASE CloseMessage
  BY <1>12 DEF CloseMessage, menu, place
<1>13. CASE OpenPlaces
  <2>1. PICK n \in Nat : placeCount' = n /\ placeIndex' = 0 /\ overlay' = "QuickPlaces"
    <3>1. PlaceCounts \subseteq Nat
      BY DialogsAssumption
    <3>. QED BY <1>13, <3>1 DEF OpenPlaces
  <2>2. menuIndex' = menuIndex /\ menuEnabled' = menuEnabled /\ settingsIndex' = settingsIndex
    BY <1>13 DEF OpenPlaces, menu
  <2>3. n > 0 => 0 \in 0 .. (n - 1)
    OBVIOUS
  <2>. QED BY <2>1, <2>2, <2>3
<1>14. CASE PlacesUp
  BY <1>14 DEF PlacesUp, menu
<1>15. CASE PlacesDown
  BY <1>15 DEF PlacesDown, menu
<1>16. CASE ClosePlaces
  BY <1>16 DEF ClosePlaces, menu
<1>17. CASE OpenSettings
  BY <1>17 DEF OpenSettings, menu, place
<1>18. CASE MoveInSettings
  BY <1>18 DEF MoveInSettings, menu, place
<1>19. CASE CloseSettings
  BY <1>19 DEF CloseSettings, menu, place
<1>20. CASE UNCHANGED vars
  BY <1>20 DEF vars, menu, place
<1>. QED BY <1>1, <1>2, <1>3, <1>4, <1>5, <1>6, <1>7, <1>8, <1>9, <1>10, <1>11, <1>12, <1>13,
            <1>14, <1>15, <1>16, <1>17, <1>18, <1>19, <1>20 DEF Next, Handle

\* With any number of drives, and whatever is selected and on the clipboard,
\* the cursor of every overlay stands on something that can be chosen.
THEOREM CursorStaysOnEnabled == Spec => []CursorOnEnabled
<1>1. CursorInv => CursorOnEnabled
  BY DEF CursorInv, CursorOnEnabled
<1>. QED BY <1>1, CursorInit, CursorNext, PTL DEF Spec

(***************************************************************************)
(* The buttons.                                                            *)
(***************************************************************************)
\* A button that has been answered is still held; and once the pad has been
\* read for this frame, it was held in the last one, too, so that it does not
\* count as pressed.
PressInv ==
    /\ current \subseteq Buttons
    /\ answers \in [Buttons -> 0 .. 1]
    /\ \A b \in Buttons : answers[b] = 1 => b \in current /\ (pc # "update" => b \in previous)

\* It holds at first.
LEMMA PressInit == Init => PressInv
BY DEF Init, PressInv

\* What a frame does with the pad: it answers nothing, or one button that is
\* pressed.
LEMMA HandleAnswers == Handle => NoAnswer \/ \E b : Answers(b)
<1>1. InBrowser => \E b : Answers(b)
  BY DEF InBrowser
<1>2. InOperation => \E b : Answers(b)
  BY DEF InOperation
<1>3. OpenMenu \/ MoveInMenu \/ CloseMenu \/ ChooseItem \/ CloseMessage => \E b : Answers(b)
  BY DEF OpenMenu, MoveInMenu, CloseMenu, ChooseItem, CloseMessage
<1>4. OpenPlaces \/ PlacesUp \/ PlacesDown \/ ClosePlaces => \E b : Answers(b)
  BY DEF OpenPlaces, PlacesUp, PlacesDown, ClosePlaces
<1>5. OpenSettings \/ MoveInSettings \/ CloseSettings => \E b : Answers(b)
  BY DEF OpenSettings, MoveInSettings, CloseSettings
<1>. QED BY <1>1, <1>2, <1>3, <1>4, <1>5 DEF Handle

\* An answered button is answered again only after it was released.
LEMMA PressNext ==
    ASSUME PressInv, [Next]_vars
    PROVE  PressInv'
<1>. USE DEF PressInv
<1>1. CASE ReadPad
  <2>1. /\ current' \in Readings \cup {current} /\ previous' = current
        /\ answers' = [b \in Buttons |-> IF b \in current' THEN answers[b] ELSE 0]
    BY <1>1 DEF ReadPad, Update, StillHeld
  <2>2. current' \subseteq Buttons
    BY <2>1 DEF Buttons
  <2>. QED BY <2>1, <2>2
<1>2. CASE OperationEnds
  BY <1>2 DEF OperationEnds, pad
<1>3. CASE UpdateTextInput
  BY <1>3 DEF UpdateTextInput, pad
<1>4. CASE UseText
  BY <1>4 DEF UseText, pad
<1>5. CASE NoAnswer
  BY <1>5 DEF NoAnswer, pad
<1>6. ASSUME NEW b, Answers(b) PROVE PressInv'
  <2>1. /\ pc = "handle" /\ pc' = "update" /\ b \in current /\ b \notin previous
        /\ current' = current
        /\ answers' = [answers EXCEPT ![b] = Least(@ + 1, 2)]
    BY <1>6 DEF Answers, Pressed
  <2>2. b \in Buttons /\ answers[b] = 0
    BY <2>1
  <2>3. answers' = [answers EXCEPT ![b] = 1]
    BY <2>1, <2>2 DEF Least
  <2>. QED BY <2>1, <2>2, <2>3
<1>7. CASE UNCHANGED vars
  BY <1>7 DEF vars, pad
<1>. QED BY <1>1, <1>2, <1>3, <1>4, <1>5, <1>6, <1>7, HandleAnswers DEF Next

\* Whatever the pad reports, and however often it cannot be read, no button is
\* answered twice for one time it is pressed.
THEOREM NoButtonAnsweredTwice == Spec => []OnePressOneAnswer
<1>1. PressInv => OnePressOneAnswer
  BY DEF PressInv, OnePressOneAnswer
<1>. QED BY <1>1, PressInit, PressNext, PTL DEF Spec

(***************************************************************************)
(* What the listing shows at a byte.                                       *)
(***************************************************************************)
\* A piece of a name is a sequence of bytes.
LEMMA PieceOfBytes ==
    ASSUME NEW file, IsBytes(file), NEW m \in 1 .. Len(file) + 1, NEW n \in (m - 1) .. Len(file)
    PROVE  /\ IsBytes(SubSeq(file, m, n)) /\ Len(SubSeq(file, m, n)) = n - m + 1
           /\ \A i \in 1 .. n - m + 1 : SubSeq(file, m, n)[i] = file[m + i - 1]
<1>1. IsSeq(file) /\ Len(file) \in Nat
  BY LenIsNat DEF IsBytes
<1>2. /\ IsSeq(SubSeq(file, m, n)) /\ Len(SubSeq(file, m, n)) = n - m + 1
      /\ \A i \in 1 .. n - m + 1 : SubSeq(file, m, n)[i] = file[m + i - 1]
  BY <1>1, Piece
<1>3. \A i \in 1 .. n - m + 1 : file[m + i - 1] \in 0 .. 255
  <2>1. \A i \in 1 .. n - m + 1 : m + i - 1 \in 1 .. Len(file)
    BY <1>1
  <2>. QED BY <2>1 DEF IsBytes
<1>. QED BY <1>2, <1>3 DEF IsBytes

\* A first byte says how many there should be.
LEMMA StrictLengthType ==
    ASSUME NEW b \in 0 .. 255
    PROVE  StrictLength(b) \in 1 .. 4
BY DEF StrictLength

\* DecodeStrictUtf8() takes a byte, and what should follow it, for a character
\* if the piece is accepted.
LEMMA StrictAccepts ==
    ASSUME NEW file, IsBytes(file), NEW i \in 1 .. Len(file), NEW n \in 1 .. 4,
           i + n - 1 <= Len(file), n = StrictLength(file[i])
    PROVE  DecodeStrictUtf8(file, i) <=> Accepted(SubSeq(file, i, i + n - 1))
<1>. DEFINE piece == SubSeq(file, i, i + n - 1)
<1>1. Len(file) \in Nat
  BY LenIsNat DEF IsBytes
<1>2. i \in 1 .. Len(file) + 1 /\ i + n - 1 \in (i - 1) .. Len(file) /\ (i + n - 1) - i + 1 = n
  BY <1>1
<1>3. Len(piece) = n /\ \A k \in 1 .. n : piece[k] = file[i + k - 1]
  BY <1>2, PieceOfBytes
<1>4. piece[1] = file[i]
  BY <1>3
<1>. HIDE DEF piece
<1>5. CASE n = 1
  <2>1. Accepted(piece) <=> file[i] <= 127
    BY <1>3, <1>4, <1>5 DEF Accepted
  <2>2. DecodeStrictUtf8(file, i) <=> file[i] <= 127
    BY <1>5 DEF DecodeStrictUtf8
  <2>. QED BY <2>1, <2>2 DEF piece
<1>6. CASE n # 1
  <2>1. piece[2] = file[i + 1]
    <3>1. 2 \in 1 .. n /\ i + 2 - 1 = i + 1
      BY <1>6
    <3>. QED BY <1>3, <3>1
  <2>2. \A k \in 2 .. (n - 1) : piece[k + 1] = file[i + k]
    <3>1. \A k \in 2 .. (n - 1) : k + 1 \in 1 .. n /\ i + (k + 1) - 1 = i + k
      OBVIOUS
    <3>. QED BY <1>3, <3>1
  <2>3. Accepted(piece) <=> /\ piece[2] \in Seconds(file[i])
                            /\ \A k \in 2 .. (n - 1) : IsContinuation(piece[k + 1])
    BY <1>3, <1>4, <1>6 DEF Accepted
  <2>4. DecodeStrictUtf8(file, i) <=> /\ file[i + 1] \in Seconds(file[i])
                                      /\ \A k \in 2 .. (n - 1) : IsContinuation(file[i + k])
    BY <1>6 DEF DecodeStrictUtf8
  <2>. QED BY <2>1, <2>2, <2>3, <2>4 DEF piece
<1>. QED BY <1>5, <1>6

\* So it accepts the encodings, and nothing else.
LEMMA StrictIsEncoding ==
    ASSUME NEW file, IsBytes(file), NEW i \in 1 .. Len(file)
    PROVE  /\ DecodeStrictUtf8(file, i) =>
                 /\ i + StrictLength(file[i]) - 1 <= Len(file)
                 /\ Accepted(SubSeq(file, i, i + StrictLength(file[i]) - 1))
           /\ \A n \in 1 .. 4 :
                 i + n - 1 <= Len(file) /\ IsEncoding(SubSeq(file, i, i + n - 1)) =>
                    n = StrictLength(file[i]) /\ DecodeStrictUtf8(file, i)
<1>1. Len(file) \in Nat /\ file[i] \in 0 .. 255
  BY LenIsNat DEF IsBytes
<1>2. StrictLength(file[i]) \in 1 .. 4
  BY <1>1, StrictLengthType
<1>3. ASSUME DecodeStrictUtf8(file, i)
      PROVE  /\ i + StrictLength(file[i]) - 1 <= Len(file)
             /\ Accepted(SubSeq(file, i, i + StrictLength(file[i]) - 1))
  <2>1. PICK n \in 1 .. 4 : n = StrictLength(file[i])
    BY <1>2
  <2>2. i + n - 1 <= Len(file)
    <3>1. CASE n = 1
      BY <1>1, <3>1
    <3>2. CASE n # 1
      BY <1>3, <2>1, <3>2 DEF DecodeStrictUtf8
    <3>. QED BY <3>1, <3>2
  <2>. QED BY <1>3, <2>1, <2>2, StrictAccepts
<1>4. ASSUME NEW n \in 1 .. 4, i + n - 1 <= Len(file), IsEncoding(SubSeq(file, i, i + n - 1))
      PROVE  n = StrictLength(file[i]) /\ DecodeStrictUtf8(file, i)
  <2>. DEFINE piece == SubSeq(file, i, i + n - 1)
  <2>1. i \in 1 .. Len(file) + 1 /\ i + n - 1 \in (i - 1) .. Len(file) /\ (i + n - 1) - i + 1 = n
    BY <1>1, <1>4
  <2>2. IsBytes(piece) /\ Len(piece) = n /\ \A k \in 1 .. n : piece[k] = file[i + k - 1]
    BY <2>1, PieceOfBytes
  <2>3. piece[1] = file[i] /\ IsEncoding(piece)
    BY <1>4, <2>2
  <2>. HIDE DEF piece
  <2>4. Accepted(piece)
    BY <2>2, <2>3, Tables
  <2>5. n = StrictLength(file[i])
    BY <2>2, <2>3, <2>4 DEF Accepted
  <2>. QED BY <1>4, <2>4, <2>5, StrictAccepts DEF piece
<1>. QED BY <1>3, <1>4

\* A part is a piece of the name: one byte that is escaped, or a character.
LEMMA ShownIs ==
    ASSUME NEW file, IsBytes(file), NEW i \in 1 .. Len(file)
    PROVE  /\ Len(Shown(file, i).bytes) \in 1 .. 4
           /\ i + Len(Shown(file, i).bytes) \in (i + 1) .. (Len(file) + 1)
           /\ Shown(file, i).bytes = SubSeq(file, i, i + Len(Shown(file, i).bytes) - 1)
           /\ IsBytes(Shown(file, i).bytes)
           /\ Shown(file, i).escaped \in BOOLEAN
           /\ Shown(file, i).escaped => Len(Shown(file, i).bytes) = 1
           /\ ~Shown(file, i).escaped <=> DecodeStrictUtf8(file, i) /\ ~IsControl(file[i])
           /\ ~Shown(file, i).escaped => /\ Accepted(Shown(file, i).bytes)
                                         /\ Len(Shown(file, i).bytes) = StrictLength(file[i])
<1>. DEFINE n == StrictLength(file[i])
            piece == SubSeq(file, i, i + n - 1)
<1>1. Len(file) \in Nat /\ file[i] \in 0 .. 255
  BY LenIsNat DEF IsBytes
<1>2. n \in 1 .. 4
  BY <1>1, StrictLengthType
<1>. HIDE DEF n
<1>3. CASE DecodeStrictUtf8(file, i) /\ ~IsControl(file[i])
  <2>1. i + n - 1 <= Len(file) /\ Accepted(piece)
    BY <1>3, StrictIsEncoding DEF n
  <2>2. i \in 1 .. Len(file) + 1 /\ i + n - 1 \in (i - 1) .. Len(file) /\ (i + n - 1) - i + 1 = n
    BY <1>1, <1>2, <2>1
  <2>3. IsBytes(piece) /\ Len(piece) = n
    BY <2>2, PieceOfBytes
  <2>4. Shown(file, i) = [bytes |-> piece, escaped |-> FALSE]
    BY <1>3 DEF Shown, n
  <2>. HIDE DEF piece
  <2>5. Shown(file, i).bytes = piece /\ Shown(file, i).escaped = FALSE
    BY <2>4
  <2>6. i + n \in (i + 1) .. (Len(file) + 1)
    BY <1>1, <1>2, <2>1
  <2>. QED BY <1>2, <1>3, <2>1, <2>3, <2>5, <2>6 DEF n, piece
<1>4. CASE ~(DecodeStrictUtf8(file, i) /\ ~IsControl(file[i]))
  <2>1. Shown(file, i) = [bytes |-> <<file[i]>>, escaped |-> TRUE]
    BY <1>4 DEF Shown
  <2>2. Shown(file, i).bytes = <<file[i]>> /\ Shown(file, i).escaped = TRUE
    BY <2>1
  <2>3. IsSeq(<<file[i]>>) /\ Len(<<file[i]>>) = 1 /\ <<file[i]>>[1] = file[i]
    BY ShortSeqs, Zenon
  <2>4. IsBytes(<<file[i]>>)
    <3>1. PICK a : a = <<file[i]>>
      OBVIOUS
    <3>2. IsSeq(a) /\ Len(a) = 1 /\ a[1] = file[i]
      BY <2>3, <3>1
    <3>3. \A k \in 1 .. Len(a) : k = 1
      BY <3>2
    <3>4. \A k \in 1 .. Len(a) : a[k] \in 0 .. 255
      BY <1>1, <3>2, <3>3, Zenon
    <3>. QED BY <3>1, <3>2, <3>4 DEF IsBytes
  <2>5. <<file[i]>> = SubSeq(file, i, i + 1 - 1)
    <3>1. i \in 1 .. Len(file) + 1 /\ i + 1 - 1 \in (i - 1) .. Len(file) /\ (i + 1 - 1) - i + 1 = 1
          /\ 1 \in 1 .. 1 /\ i + 1 - 1 = i
      BY <1>1
    <3>2. PICK s : s = SubSeq(file, i, i + 1 - 1)
      OBVIOUS
    <3>3. IsBytes(s) /\ Len(s) = 1 /\ s[1] = file[i]
      BY <3>1, <3>2, PieceOfBytes
    <3>4. s = <<file[i]>>
      BY <3>3, ShortTuples DEF IsBytes
    <3>. QED BY <3>2, <3>4
  <2>6. i + 1 \in (i + 1) .. (Len(file) + 1)
    BY <1>1
  <2>7. Len(Shown(file, i).bytes) = 1
    BY <2>2, <2>3
  <2>8. /\ Shown(file, i).bytes = SubSeq(file, i, i + Len(Shown(file, i).bytes) - 1)
        /\ IsBytes(Shown(file, i).bytes)
    BY <2>2, <2>4, <2>5, <2>7, Zenon
  <2>9. /\ Len(Shown(file, i).bytes) \in 1 .. 4
        /\ i + Len(Shown(file, i).bytes) \in (i + 1) .. (Len(file) + 1)
    BY <2>6, <2>7
  <2>10. Shown(file, i).escaped = TRUE
    BY <2>2
  <2>. QED BY <1>4, <2>7, <2>8, <2>9, <2>10, Zenon
<1>. QED BY <1>3, <1>4

\* After the part at a byte come the parts from the byte after it.
NextShown(file, i) == i + Len(Shown(file, i).bytes)

\* DecodeBytes goes on with the byte after the ones it has just shown.
LEMMA DisplaySteps ==
    ASSUME NEW file, IsBytes(file)
    PROVE  /\ Display(file) = DisplayFrom(file)[1]
           /\ \A i \in 1 .. Len(file) :
                 DisplayFrom(file)[i] = <<Shown(file, i)>> \o DisplayFrom(file)[NextShown(file, i)]
           /\ DisplayFrom(file)[Len(file) + 1] = <<>>
           /\ \A i \in 1 .. (Len(file) + 1) : IsSeq(DisplayFrom(file)[i])
<1>. DEFINE m == Len(file)
            parts == [i \in 1 .. m |-> <<Shown(file, i)>>]
            next == [i \in 1 .. m |-> i + Len(Shown(file, i).bytes)]
<1>1. m \in Nat
  BY LenIsNat DEF IsBytes
<1>2. \A i \in 1 .. m : parts[i] = <<Shown(file, i)>> /\ next[i] = NextShown(file, i)
  BY DEF NextShown
<1>3. parts = [i \in 1 .. m |-> parts[i]]
  OBVIOUS
<1>4. DisplayFrom(file) = Joined(parts, next)
  BY DEF DisplayFrom
<1>. HIDE DEF m, parts, next
<1>5. IsSeq(parts) /\ Len(parts) = m
  BY <1>1, <1>3, FunctionIsSeq
<1>6. AllSeqs(parts)
  <2>1. \A x : IsSeq(<<x>>)
    BY ShortSeqs
  <2>. QED BY <1>2, <1>5, <2>1 DEF AllSeqs
<1>7. GoesOn(parts, next)
  <2>1. \A i \in 1 .. m : next[i] \in (i + 1) .. (m + 1)
    BY <1>2, ShownIs DEF NextShown, m
  <2>. QED BY <1>5, <2>1 DEF GoesOn
<1>8. /\ \A i \in 1 .. m : Joined(parts, next)[i] = parts[i] \o Joined(parts, next)[next[i]]
      /\ Joined(parts, next)[m + 1] = <<>>
  BY <1>1, <1>5, <1>7, JoinedSteps
<1>9. \A i \in 1 .. (m + 1) : IsSeq(Joined(parts, next)[i])
  BY <1>5, <1>6, <1>7, JoinedType
<1>. QED BY <1>2, <1>4, <1>8, <1>9 DEF m, Display

\* A step through the parts.
LEMMA DisplayStep ==
    ASSUME NEW file, IsBytes(file), NEW i \in 1 .. Len(file),
           NEW s, s = Shown(file, i), NEW n, n = NextShown(file, i),
           NEW d, d = DisplayFrom(file)[i], NEW rest, rest = DisplayFrom(file)[n]
    PROVE  /\ n \in (i + 1) .. (Len(file) + 1)
           /\ IsSeq(rest) /\ d = <<s>> \o rest /\ StartsWith(d, s, rest)
<1>1. Len(file) \in Nat
  BY LenIsNat DEF IsBytes
<1>2. n \in (i + 1) .. (Len(file) + 1) /\ n \in 1 .. (Len(file) + 1)
  BY <1>1, ShownIs DEF NextShown
<1>3. i \in 1 .. (Len(file) + 1)
  BY <1>1
<1>4. IsSeq(d) /\ IsSeq(rest)
  BY <1>2, <1>3, DisplaySteps
<1>5. d = <<s>> \o rest
  BY DisplaySteps
<1>6. StartsWith(d, s, rest)
  BY <1>4, <1>5, InFrontOf, Zenon
<1>. QED BY <1>2, <1>4, <1>5, <1>6

\* A sequence is its first element before the rest.
LEMMA FirstAndRest ==
    ASSUME NEW f, NEW g, IsSeq(g), NEW x, StartsWith(f, x, g)
    PROVE  f = <<x>> \o g
<1>1. PICK e : e = <<x>> \o g
  OBVIOUS
<1>2. StartsWith(e, x, g)
  BY <1>1, InFrontOf, Zenon
<1>3. Len(g) \in Nat
  BY LenIsNat
<1>4. ASSUME NEW i \in 1 .. Len(f) PROVE f[i] = e[i]
  <2>1. CASE i = 1
    BY <1>2, <2>1 DEF StartsWith
  <2>2. CASE i # 1
    <3>1. PICK j \in 1 .. Len(g) : i = j + 1
      <4>1. i - 1 \in 1 .. Len(g) /\ i = (i - 1) + 1
        BY <1>3, <2>2 DEF StartsWith
      <4>. QED BY <4>1
    <3>. QED BY <1>2, <3>1 DEF StartsWith
  <2>. QED BY <2>1, <2>2
<1>5. f = e
  <2>1. IsSeq(f) /\ IsSeq(e) /\ Len(f) = Len(e)
    BY <1>2 DEF StartsWith
  <2>. QED BY <1>4, <2>1, SameSeq
<1>. QED BY <1>1, <1>5

\* Every part that is shown is what Shown() says of one of the bytes.
LEMMA DisplayParts ==
    ASSUME NEW file, IsBytes(file)
    PROVE  \A i \in 1 .. (Len(file) + 1) : \A j \in 1 .. Len(DisplayFrom(file)[i]) :
               \E k \in 1 .. Len(file) : DisplayFrom(file)[i][j] = Shown(file, k)
<1>. DEFINE m == Len(file) + 1
            G == {i \in 1 .. m : \A j \in 1 .. Len(DisplayFrom(file)[i]) :
                     \E k \in 1 .. Len(file) : DisplayFrom(file)[i][j] = Shown(file, k)}
<1>1. m \in Nat /\ Len(file) \in Nat
  BY LenIsNat DEF IsBytes
<1>2. ASSUME NEW i \in 1 .. m, \A j \in (i + 1) .. m : j \in G PROVE i \in G
  <2>1. CASE i = m
    <3>1. DisplayFrom(file)[i] = <<>>
      BY <2>1, DisplaySteps
    <3>2. Len(DisplayFrom(file)[i]) = 0
      BY <3>1, ShortSeqs
    <3>. QED BY <3>2
  <2>2. CASE i # m
    <3>1. i \in 1 .. Len(file)
      BY <1>1, <2>2
    <3>2. PICK s, n, d, rest : /\ s = Shown(file, i) /\ n = NextShown(file, i)
                               /\ d = DisplayFrom(file)[i] /\ rest = DisplayFrom(file)[n]
      OBVIOUS
    <3>3. n \in (i + 1) .. m /\ IsSeq(rest) /\ StartsWith(d, s, rest)
      BY <3>1, <3>2, DisplayStep, Zenon
    <3>4. n \in G
      BY <1>2, <3>3
    <3>5. ASSUME NEW j \in 1 .. Len(d) PROVE \E k \in 1 .. Len(file) : d[j] = Shown(file, k)
      <4>1. CASE j = 1
        BY <3>1, <3>2, <3>3, <4>1 DEF StartsWith
      <4>2. CASE j # 1
        <5>1. j - 1 \in 1 .. Len(rest) /\ (j - 1) + 1 = j
          BY <3>3, <4>2, LenIsNat DEF StartsWith
        <5>2. d[j] = rest[j - 1]
          BY <3>3, <5>1 DEF StartsWith
        <5>3. \E k \in 1 .. Len(file) : rest[j - 1] = Shown(file, k)
          BY <3>2, <3>4, <5>1
        <5>. QED BY <5>2, <5>3
      <4>. QED BY <4>1, <4>2
    <3>. QED BY <3>2, <3>5
  <2>. QED BY <2>1, <2>2
<1>. HIDE DEF G
<1>3. \A i \in 1 .. m : i \in G
  BY <1>1, <1>2, Downwards
<1>. QED BY <1>3 DEF G

\* The bytes of the parts.
BytesOf(parts) == [i \in DOMAIN parts |-> parts[i].bytes]

\* The listing shows the bytes of the name, one after the other.
LEMMA BytesAreShown ==
    ASSUME NEW file, IsBytes(file)
    PROVE  Concat(BytesOf(Display(file))) = file
<1>. DEFINE l == Len(file)
            m == l + 1
            D(i) == DisplayFrom(file)[i]
            G == {i \in 1 .. m : /\ AllSeqs(BytesOf(D(i)))
                                 /\ Concat(BytesOf(D(i))) = SubSeq(file, i, l)}
<1>1. m \in Nat /\ l \in Nat /\ IsSeq(file) /\ 1 \in 1 .. m
  BY LenIsNat DEF IsBytes
<1>2. \A d : IsSeq(d) => /\ IsSeq(BytesOf(d)) /\ Len(BytesOf(d)) = Len(d)
                         /\ \A j \in 1 .. Len(d) : BytesOf(d)[j] = d[j].bytes
  <2>1. SUFFICES ASSUME NEW d, IsSeq(d)
                 PROVE  /\ IsSeq(BytesOf(d)) /\ Len(BytesOf(d)) = Len(d)
                        /\ \A j \in 1 .. Len(d) : BytesOf(d)[j] = d[j].bytes
    OBVIOUS
  <2>2. Len(d) \in Nat /\ DOMAIN d = 1 .. Len(d)
    BY LenIsNat
  <2>3. PICK f : f = [i \in 1 .. Len(d) |-> d[i].bytes]
    OBVIOUS
  <2>4. f = [i \in 1 .. Len(d) |-> f[i]] /\ BytesOf(d) = f
    BY <2>2, <2>3 DEF BytesOf
  <2>5. IsSeq(f) /\ Len(f) = Len(d)
    BY <2>2, <2>4, FunctionIsSeq
  <2>. QED BY <2>3, <2>4, <2>5
<1>. HIDE DEF l
<1>3. ASSUME NEW i \in 1 .. m, \A j \in (i + 1) .. m : j \in G PROVE i \in G
  <2>1. CASE i = m
    <3>1. D(i) = <<>>
      BY <2>1, DisplaySteps DEF l
    <3>2. BytesOf(D(i)) = <<>>
      <4>1. IsSeq(<<>>) /\ Len(<<>>) = 0
        BY ShortSeqs
      <4>2. IsSeq(BytesOf(<<>>)) /\ Len(BytesOf(<<>>)) = 0
        BY <1>2, <4>1
      <4>3. BytesOf(<<>>) = <<>>
        BY <4>2, LenIsNat
      <4>. QED BY <3>1, <4>3
    <3>3. AllSeqs(<<>>) /\ Concat(<<>>) = <<>>
      <4>1. IsSeq(<<>>) /\ Len(<<>>) = 0
        BY ShortSeqs
      <4>2. AllSeqs(<<>>)
        BY <4>1 DEF AllSeqs
      <4>3. PICK e : e = <<>>
        OBVIOUS
      <4>4. Concat(e) = ConcatFrom(e)[1] /\ ConcatFrom(e)[Len(e) + 1] = <<>>
        BY <4>2, <4>3, ConcatSteps, Zenon
      <4>5. Len(e) + 1 = 1
        BY <4>1, <4>3
      <4>. QED BY <4>2, <4>3, <4>4, <4>5, Zenon
    <3>4. SubSeq(file, i, l) = <<>>
      <4>1. IsSeq(SubSeq(file, i, l)) /\ Len(SubSeq(file, i, l)) = 0
        <5>1. i \in 1 .. l + 1 /\ l \in (i - 1) .. l /\ l - i + 1 = 0
          BY <1>1, <2>1
        <5>. QED BY <1>1, <5>1, Piece DEF l
      <4>. QED BY <4>1, LenIsNat
    <3>. QED BY <3>2, <3>3, <3>4
  <2>2. CASE i # m
    <3>1. i \in 1 .. l
      BY <1>1, <2>2
    <3>2. PICK s, n, d, rest : /\ s = Shown(file, i) /\ n = NextShown(file, i)
                               /\ d = DisplayFrom(file)[i] /\ rest = DisplayFrom(file)[n]
      OBVIOUS
    <3>3. n \in (i + 1) .. m /\ IsSeq(rest) /\ StartsWith(d, s, rest)
      BY <3>1, <3>2, DisplayStep, Zenon DEF l
    <3>10. /\ IsSeq(d) /\ Len(d) = Len(rest) + 1 /\ d[1] = s
           /\ \A j \in 1 .. Len(rest) : d[j + 1] = rest[j]
      BY <3>3 DEF StartsWith
    <3>4. AllSeqs(BytesOf(rest)) /\ Concat(BytesOf(rest)) = SubSeq(file, n, l)
      BY <1>3, <3>2, <3>3
    <3>5. IsSeq(s.bytes) /\ s.bytes = SubSeq(file, i, n - 1)
      <4>1. i \in 1 .. Len(file) /\ IsBytes(file)
        BY <3>1 DEF l
      <4>2. IsBytes(s.bytes) /\ s.bytes = SubSeq(file, i, i + Len(s.bytes) - 1)
        BY ONLY <3>2, <4>1, ShownIs, Zenon
      <4>3. n = i + Len(s.bytes)
        BY ONLY <3>2, Zenon DEF NextShown
      <4>. QED BY ONLY <4>2, <4>3 DEF IsBytes
    <3>6. BytesOf(d) = <<s.bytes>> \o BytesOf(rest)
      <4>1. PICK f, g, x : f = BytesOf(d) /\ g = BytesOf(rest) /\ x = s.bytes
        OBVIOUS
      <4>2. IsSeq(f) /\ IsSeq(g) /\ Len(f) = Len(d) /\ Len(g) = Len(rest)
        BY <1>2, <3>3, <3>10, <4>1
      <4>3. Len(rest) \in Nat
        BY <3>3, LenIsNat
      <4>4. 1 \in 1 .. Len(d) /\ \A j \in 1 .. Len(rest) : j + 1 \in 1 .. Len(d)
        BY <3>3, <3>10, <4>3
      <4>5. f[1] = x
        BY <1>2, <3>3, <3>10, <4>1, <4>4
      <4>6. \A j \in 1 .. Len(g) : f[j + 1] = g[j]
        BY <1>2, <3>3, <3>10, <4>1, <4>2, <4>4
      <4>7. StartsWith(f, x, g)
        BY <3>10, <4>2, <4>5, <4>6 DEF StartsWith
      <4>8. f = <<x>> \o g
        BY <4>2, <4>7, FirstAndRest
      <4>. QED BY <4>1, <4>8
    <3>7. AllSeqs(BytesOf(d)) /\ Concat(BytesOf(d)) = s.bytes \o Concat(BytesOf(rest))
      <4>1. PICK a, b : a = s.bytes /\ b = BytesOf(rest)
        OBVIOUS
      <4>2. IsSeq(a) /\ AllSeqs(b)
        BY <3>4, <3>5, <4>1
      <4>3. AllSeqs(<<a>> \o b) /\ Concat(<<a>> \o b) = a \o Concat(b)
        BY <4>2, ConcatFirst
      <4>. QED BY <3>6, <4>1, <4>3
    <3>8. SubSeq(file, i, n - 1) \o SubSeq(file, (n - 1) + 1, l) = SubSeq(file, i, l)
      <4>1. i \in 1 .. l + 1 /\ n - 1 \in (i - 1) .. l /\ l \in (n - 1) .. l
        BY <1>1, <3>1, <3>3
      <4>. QED BY <1>1, <4>1, TwoPieces DEF l
    <3>9. (n - 1) + 1 = n
      BY <1>1, <3>3
    <3>. QED BY <3>2, <3>4, <3>5, <3>7, <3>8, <3>9
  <2>. QED BY <2>1, <2>2
<1>4. 1 \in G
  <2>. HIDE DEF G, m
  <2>. QED BY <1>1, <1>3, Downwards
<1>5. Concat(BytesOf(D(1))) = SubSeq(file, 1, l)
  BY <1>4
<1>6. SubSeq(file, 1, l) = file
  BY <1>1, WholePiece DEF l
<1>. QED BY <1>5, <1>6, DisplaySteps

(***************************************************************************)
(* Which names are not shown as they are.                                  *)
(***************************************************************************)
\* From this byte on nothing is escaped.
Faithful(file, i) == \A j \in 1 .. Len(DisplayFrom(file)[i]) : ~DisplayFrom(file)[i][j].escaped

\* That is so at the end, and where a character is shown after which it is so.
LEMMA FaithfulStep ==
    ASSUME NEW file, IsBytes(file)
    PROVE  /\ Faithful(file, Len(file) + 1)
           /\ Lossy(file) <=> ~Faithful(file, 1)
           /\ \A i \in 1 .. Len(file) :
                 Faithful(file, i) <=> /\ ~Shown(file, i).escaped
                                       /\ Faithful(file, NextShown(file, i))
<1>1. Faithful(file, Len(file) + 1)
  <2>1. Len(DisplayFrom(file)[Len(file) + 1]) = 0
    BY DisplaySteps, ShortSeqs
  <2>. QED BY <2>1 DEF Faithful
<1>2. Lossy(file) <=> ~Faithful(file, 1)
  <2>1. Len(file) \in Nat
    BY LenIsNat DEF IsBytes
  <2>2. 1 \in 1 .. (Len(file) + 1)
    BY <2>1
  <2>3. IsSeq(Display(file)) /\ Display(file) = DisplayFrom(file)[1]
    BY <2>2, DisplaySteps
  <2>4. DOMAIN Display(file) = 1 .. Len(Display(file))
    BY <2>3, LenIsNat
  <2>. QED BY <2>3, <2>4 DEF Lossy, Faithful
<1>3. ASSUME NEW i \in 1 .. Len(file)
      PROVE  Faithful(file, i) <=> /\ ~Shown(file, i).escaped
                                   /\ Faithful(file, NextShown(file, i))
  <2>1. PICK s, n, d, rest : /\ s = Shown(file, i) /\ n = NextShown(file, i)
                             /\ d = DisplayFrom(file)[i] /\ rest = DisplayFrom(file)[n]
    OBVIOUS
  <2>2. IsSeq(rest) /\ StartsWith(d, s, rest)
    BY <2>1, DisplayStep, Zenon
  <2>3. Len(rest) \in Nat /\ Len(d) = Len(rest) + 1
    BY <2>2, LenIsNat DEF StartsWith
  <2>4. d[1] = s /\ \A j \in 1 .. Len(rest) : d[j + 1] = rest[j]
    BY <2>2 DEF StartsWith
  <2>5. 1 \in 1 .. Len(d) /\ \A j \in 1 .. Len(rest) : j + 1 \in 1 .. Len(d)
    BY <2>3
  <2>6. \A j \in 1 .. Len(d) : j = 1 \/ \E k \in 1 .. Len(rest) : j = k + 1
    <3>1. ASSUME NEW j \in 1 .. Len(d), j # 1 PROVE j - 1 \in 1 .. Len(rest) /\ j = (j - 1) + 1
      BY <2>3, <3>1
    <3>. QED BY <3>1
  <2>7. (\A j \in 1 .. Len(d) : ~d[j].escaped) <=>
           ~s.escaped /\ \A j \in 1 .. Len(rest) : ~rest[j].escaped
    BY <2>4, <2>5, <2>6
  <2>. QED BY <2>1, <2>7 DEF Faithful
<1>. QED BY <1>1, <1>2, <1>3

\* Where a character is shown, an encoding is, and none of its bytes is a
\* control byte.
LEMMA ShownIsEncoding ==
    ASSUME NEW file, IsBytes(file), NEW i \in 1 .. Len(file), ~Shown(file, i).escaped,
           NEW n, n = Len(Shown(file, i).bytes)
    PROVE  /\ n \in 1 .. 4 /\ NextShown(file, i) = i + n /\ i + n - 1 <= Len(file)
           /\ IsEncoding(SubSeq(file, i, i + n - 1))
           /\ \A k \in i .. (i + n - 1) : ~IsControl(file[k])
<1>1. PICK piece : piece = Shown(file, i).bytes
  OBVIOUS
<1>2. Len(file) \in Nat /\ \A k \in 1 .. Len(file) : file[k] \in 0 .. 255
  BY LenIsNat DEF IsBytes
<1>3. /\ n \in 1 .. 4 /\ i + n \in (i + 1) .. (Len(file) + 1)
      /\ piece = SubSeq(file, i, i + n - 1) /\ IsBytes(piece) /\ Len(piece) = n
      /\ Accepted(piece) /\ ~IsControl(file[i])
  BY <1>1, ShownIs
<1>4. i + n - 1 <= Len(file) /\ NextShown(file, i) = i + n
  BY <1>2, <1>3 DEF NextShown
<1>5. IsEncoding(piece) /\ \A k \in 2 .. Len(piece) : IsContinuation(piece[k])
  BY <1>3, Tables
<1>6. ASSUME NEW k \in i .. (i + n - 1) PROVE ~IsControl(file[k])
  <2>1. CASE k = i
    BY <1>3, <2>1
  <2>2. CASE k # i
    <3>1. k - i + 1 \in 2 .. n /\ k - i + 1 \in 1 .. n /\ i + (k - i + 1) - 1 = k
      BY <1>3, <2>2
    <3>2. i \in 1 .. Len(file) + 1 /\ i + n - 1 \in (i - 1) .. Len(file) /\ (i + n - 1) - i + 1 = n
      BY <1>2, <1>3
    <3>3. piece[k - i + 1] = file[k]
      <4>1. \A j \in 1 .. (i + n - 1) - i + 1 : SubSeq(file, i, i + n - 1)[j] = file[i + j - 1]
        BY <3>2, PieceOfBytes
      <4>. QED BY <1>3, <3>1, <3>2, <4>1
    <3>4. IsContinuation(file[k])
      BY <1>3, <1>5, <3>1, <3>3
    <3>5. \A b \in 128 .. 191 : ~IsControl(b)
      BY DEF IsControl
    <3>. QED BY <3>4, <3>5 DEF IsContinuation
  <2>. QED BY <2>1, <2>2
<1>. QED BY <1>3, <1>4, <1>5, <1>6

\* A name that is shown as it is, is UTF-8, and has no control bytes.
LEMMA FaithfulIsClean ==
    ASSUME NEW file, IsBytes(file), ~Lossy(file)
    PROVE  WellFormed(file) /\ \A i \in DOMAIN file : ~IsControl(file[i])
<1>. DEFINE l == Len(file)
            m == l + 1
            places == {i \in 1 .. m : Faithful(file, i)}
<1>1. l \in Nat /\ m \in Nat /\ DOMAIN file = 1 .. l /\ 1 \in 1 .. m
  BY LenIsNat DEF IsBytes
<1>. HIDE DEF l
<1>2. 1 \in places /\ places \subseteq 1 .. m
  BY <1>1, FaithfulStep
<1>3. ASSUME NEW i \in places, i # m
      PROVE  /\ i \in 1 .. l
             /\ \E n \in 1 .. 4 : /\ i + n \in places /\ IsEncoding(SubSeq(file, i, i + n - 1))
                                  /\ \A k \in i .. (i + n - 1) : ~IsControl(file[k])
  <2>1. i \in 1 .. l
    BY <1>1, <1>3
  <2>2. ~Shown(file, i).escaped /\ Faithful(file, NextShown(file, i))
    BY <1>3, <2>1, FaithfulStep DEF l
  <2>3. PICK n : n = Len(Shown(file, i).bytes)
    OBVIOUS
  <2>4. /\ n \in 1 .. 4 /\ NextShown(file, i) = i + n /\ i + n - 1 <= l
        /\ IsEncoding(SubSeq(file, i, i + n - 1))
        /\ \A k \in i .. (i + n - 1) : ~IsControl(file[k])
    BY <2>1, <2>2, <2>3, ShownIsEncoding DEF l
  <2>5. i + n \in 1 .. m
    BY <1>1, <2>1, <2>4
  <2>6. i + n \in places
    BY <2>2, <2>4, <2>5
  <2>. QED BY <2>1, <2>4, <2>6
<1>. HIDE DEF places
<1>4. WellFormed(file)
  BY <1>2, <1>3 DEF WellFormed, l
<1>. DEFINE G == {i \in 1 .. m : i \in places => \A k \in i .. l : ~IsControl(file[k])}
<1>5. ASSUME NEW i \in 1 .. m, \A j \in (i + 1) .. m : j \in G PROVE i \in G
  <2>1. SUFFICES ASSUME i \in places, NEW k \in i .. l PROVE ~IsControl(file[k])
    OBVIOUS
  <2>2. i # m
    BY <1>1
  <2>3. PICK n \in 1 .. 4 : /\ i + n \in places
                            /\ \A j \in i .. (i + n - 1) : ~IsControl(file[j])
    BY <1>3, <2>1, <2>2
  <2>4. CASE k <= i + n - 1
    <3>1. k \in i .. (i + n - 1)
      BY <1>1, <2>4
    <3>. QED BY <2>3, <3>1
  <2>5. CASE ~(k <= i + n - 1)
    <3>1. i + n \in (i + 1) .. m /\ k \in (i + n) .. l
      BY <1>1, <1>2, <2>3, <2>5
    <3>2. i + n \in G
      BY <1>5, <3>1
    <3>. QED BY <2>3, <3>1, <3>2
  <2>. QED BY <2>4, <2>5
<1>6. 1 \in G
  <2>. HIDE DEF G, m
  <2>. QED BY <1>1, <1>5, Downwards
<1>. QED BY <1>1, <1>2, <1>4, <1>6

\* A name that is UTF-8 and has no control bytes is shown as it is.
LEMMA CleanIsFaithful ==
    ASSUME NEW file, IsBytes(file), WellFormed(file), \A i \in DOMAIN file : ~IsControl(file[i])
    PROVE  ~Lossy(file)
<1>. DEFINE l == Len(file)
            m == l + 1
<1>1. l \in Nat /\ m \in Nat /\ DOMAIN file = 1 .. l /\ 1 \in 1 .. m
  BY LenIsNat DEF IsBytes
<1>2. PICK places \in SUBSET (1 .. m) :
          /\ 1 \in places
          /\ \A i \in places \ {m} :
                \E n \in 1 .. 4 : i + n \in places /\ IsEncoding(SubSeq(file, i, i + n - 1))
  BY DEF WellFormed
<1>. HIDE DEF l
<1>. DEFINE G == {i \in 1 .. m : i \in places => Faithful(file, i)}
<1>3. ASSUME NEW i \in 1 .. m, \A j \in (i + 1) .. m : j \in G PROVE i \in G
  <2>1. SUFFICES ASSUME i \in places PROVE Faithful(file, i)
    OBVIOUS
  <2>2. CASE i = m
    BY <2>2, FaithfulStep DEF l
  <2>3. CASE i # m
    <3>1. PICK n \in 1 .. 4 : i + n \in places /\ IsEncoding(SubSeq(file, i, i + n - 1))
      BY <1>2, <2>1, <2>3
    <3>2. i \in 1 .. l /\ i + n - 1 <= l /\ i + n \in (i + 1) .. m
      BY <1>1, <1>2, <2>3, <3>1
    <3>3. n = StrictLength(file[i]) /\ DecodeStrictUtf8(file, i) /\ ~IsControl(file[i])
      BY <1>1, <3>1, <3>2, StrictIsEncoding DEF l
    <3>4. ~Shown(file, i).escaped
      BY <3>2, <3>3, ShownIs DEF l
    <3>5. NextShown(file, i) = i + n
      BY <3>2, <3>3, <3>4, ShownIs DEF l, NextShown
    <3>6. Faithful(file, i + n)
      BY <1>3, <3>1, <3>2
    <3>. QED BY <3>2, <3>4, <3>5, <3>6, FaithfulStep DEF l
  <2>. QED BY <2>2, <2>3
<1>4. 1 \in G
  <2>. HIDE DEF G, m
  <2>. QED BY <1>1, <1>3, Downwards
<1>. QED BY <1>2, <1>4, FaithfulStep

(***************************************************************************)
(* Where a name that is too long is cut.                                   *)
(***************************************************************************)
\* An escape, of which only the first character is a backslash.
IsEscape(chars) ==
    /\ Len(chars) = 4 /\ chars[1] = 92 /\ chars[2] = 120
    /\ IsHexDigit(chars[3]) /\ IsHexDigit(chars[4])

\* What is shown of a name: single characters, and escapes.
AreParts(chars) ==
    /\ AllSeqs(chars)
    /\ \A i \in 1 .. Len(chars) : Len(chars[i]) = 1 \/ IsEscape(chars[i])

\* How many characters the first n parts have.
End(chars, n) == Len(Concat(SubSeq(chars, 1, n)))

\* What is shown of a part is one or the other.
LEMMA CharactersOf ==
    ASSUME NEW file, IsBytes(file), NEW k \in 1 .. Len(file)
    PROVE  /\ IsSeq(Characters(Shown(file, k)))
           /\ Len(Characters(Shown(file, k))) = 1 \/ IsEscape(Characters(Shown(file, k)))
<1>1. PICK s : s = Shown(file, k)
  OBVIOUS
<1>2. CASE s.escaped
  <2>1. PICK b \in 0 .. 255 : b = s.bytes[1]
    <3>1. IsBytes(s.bytes) /\ 1 \in 1 .. Len(s.bytes)
      BY <1>1, ShownIs
    <3>. QED BY <3>1 DEF IsBytes
  <2>2. PICK h, d : h = b \div 16 /\ d = b % 16
    OBVIOUS
  <2>3. h \in 0 .. 15 /\ d \in 0 .. 15
    BY <2>2
  <2>4. IsHexDigit(Hex(h)) /\ IsHexDigit(Hex(d))
    BY <2>3 DEF IsHexDigit, Hex
  <2>5. PICK c : c = Characters(s)
    OBVIOUS
  <2>6. c = <<92, 120, Hex(h), Hex(d)>>
    BY <1>2, <2>1, <2>2, <2>5 DEF Characters, Escape
  <2>7. PICK x, y : x = Hex(h) /\ y = Hex(d)
    OBVIOUS
  <2>8. c \in Seq({92, 120, x, y}) /\ Len(c) = 4 /\ c[1] = 92 /\ c[2] = 120 /\ c[3] = x /\ c[4] = y
    BY <2>6, <2>7
  <2>9. IsSeq(c) /\ IsEscape(c)
    BY <2>4, <2>7, <2>8 DEF IsSeq, IsEscape
  <2>. QED BY <1>1, <2>5, <2>9
<1>3. CASE ~s.escaped
  <2>1. Characters(s) = <<Codepoint(s.bytes)>>
    BY <1>3 DEF Characters
  <2>2. IsSeq(<<Codepoint(s.bytes)>>) /\ Len(<<Codepoint(s.bytes)>>) = 1
    BY ShortSeqs, Zenon
  <2>. QED BY <1>1, <2>1, <2>2
<1>. QED BY <1>2, <1>3

\* The first n parts are the beginning of the text, and the next one follows.
LEMMA EndIs ==
    ASSUME NEW chars, AllSeqs(chars), NEW n \in 0 .. Len(chars)
    PROVE  /\ IsSeq(Concat(chars)) /\ End(chars, n) \in 0 .. Len(Concat(chars))
           /\ Concat(SubSeq(chars, 1, n)) = SubSeq(Concat(chars), 1, End(chars, n))
<1>. DEFINE full == Concat(chars)
            head == Concat(SubSeq(chars, 1, n))
            rest == ConcatFrom(chars)[n + 1]
<1>1. AllSeqs(SubSeq(chars, 1, n)) /\ full = head \o rest
  BY ConcatSplit
<1>2. IsSeq(full) /\ IsSeq(head) /\ IsSeq(rest)
  <2>1. Len(chars) \in Nat
    BY LenIsNat DEF AllSeqs
  <2>2. n + 1 \in 1 .. (Len(chars) + 1)
    BY <2>1
  <2>. QED BY <1>1, <2>2, ConcatSteps
<1>3. Len(head) \in Nat /\ Len(rest) \in Nat
  BY <1>2, LenIsNat
<1>. HIDE DEF full, head, rest
<1>4. PICK e : e = head \o rest
  OBVIOUS
<1>5. Len(e) = Len(head) + Len(rest) /\ \A i \in 1 .. Len(head) : e[i] = head[i]
  BY <1>2, <1>4, ConcatSeqs
<1>6. IsSeq(e) /\ e = full
  BY <1>1, <1>2, <1>4
<1>7. 1 \in 1 .. Len(e) + 1 /\ Len(head) \in (1 - 1) .. Len(e) /\ Len(head) - 1 + 1 = Len(head)
      /\ \A i \in 1 .. Len(head) : 1 + i - 1 = i
  BY <1>3, <1>5
<1>8. /\ IsSeq(SubSeq(e, 1, Len(head))) /\ Len(SubSeq(e, 1, Len(head))) = Len(head)
      /\ \A i \in 1 .. Len(head) : SubSeq(e, 1, Len(head))[i] = e[i]
  BY <1>6, <1>7, Piece
<1>9. head = SubSeq(e, 1, Len(head))
  BY <1>2, <1>5, <1>8, SameSeq
<1>10. End(chars, n) = Len(head)
  BY DEF End, head
<1>. QED BY <1>2, <1>3, <1>5, <1>6, <1>9, <1>10 DEF head, full

\* Where one text ends the next one begins, and the whole holds it there.
LEMMA EndSteps ==
    ASSUME NEW chars, AllSeqs(chars)
    PROVE  /\ End(chars, 0) = 0 /\ End(chars, Len(chars)) = Len(Concat(chars))
           /\ \A n \in 1 .. Len(chars) :
                 /\ End(chars, n) = End(chars, n - 1) + Len(chars[n])
                 /\ \A k \in 1 .. Len(chars[n]) :
                       Concat(chars)[End(chars, n - 1) + k] = chars[n][k]
<1>. DEFINE m == Len(chars)
            J == ConcatFrom(chars)
            full == Concat(chars)
            H(n) == Concat(SubSeq(chars, 1, n))
<1>1. m \in Nat /\ IsSeq(chars)
  BY LenIsNat DEF AllSeqs
<1>2. /\ full = J[1] /\ IsSeq(full)
      /\ \A n \in 1 .. m : J[n] = chars[n] \o J[n + 1]
      /\ J[m + 1] = <<>>
      /\ \A n \in 1 .. (m + 1) : IsSeq(J[n])
  BY ConcatSteps
<1>3. \A n \in 0 .. m : IsSeq(H(n)) /\ full = H(n) \o J[n + 1] /\ Len(H(n)) = End(chars, n)
  <2>1. SUFFICES ASSUME NEW n \in 0 .. m
                 PROVE  IsSeq(H(n)) /\ full = H(n) \o J[n + 1] /\ Len(H(n)) = End(chars, n)
    OBVIOUS
  <2>2. AllSeqs(SubSeq(chars, 1, n)) /\ full = H(n) \o J[n + 1]
    BY ConcatSplit
  <2>3. IsSeq(H(n))
    BY <2>2, ConcatSteps
  <2>. QED BY <2>2, <2>3 DEF End
<1>. HIDE DEF J, full, H, m
\* What two sequences one after the other are.
<1>4. \A a, b : IsSeq(a) /\ IsSeq(b) =>
         /\ Len(a) \in Nat /\ Len(b) \in Nat /\ Len(a \o b) = Len(a) + Len(b)
         /\ \A k \in 1 .. Len(a) : (a \o b)[k] = a[k]
         /\ \A k \in 1 .. Len(b) : (a \o b)[Len(a) + k] = b[k]
  BY ConcatSeqs, LenIsNat
<1>5. \A n \in 0 .. m : End(chars, n) + Len(J[n + 1]) = Len(full) /\ Len(J[n + 1]) \in Nat
                        /\ End(chars, n) \in Nat
  <2>1. SUFFICES ASSUME NEW n \in 0 .. m
                 PROVE  /\ End(chars, n) + Len(J[n + 1]) = Len(full) /\ Len(J[n + 1]) \in Nat
                        /\ End(chars, n) \in Nat
    OBVIOUS
  <2>2. n + 1 \in 1 .. (m + 1)
    BY <1>1
  <2>3. PICK a, b : a = H(n) /\ b = J[n + 1]
    OBVIOUS
  <2>4. IsSeq(a) /\ IsSeq(b) /\ full = a \o b /\ Len(a) = End(chars, n)
    BY <1>2, <1>3, <2>2, <2>3
  <2>5. Len(a) \in Nat /\ Len(b) \in Nat /\ Len(a \o b) = Len(a) + Len(b)
    BY <1>4, <2>4, Zenon
  <2>. QED BY <2>3, <2>4, <2>5
<1>6. End(chars, 0) = 0
  <2>1. 0 \in 0 .. m /\ 0 + 1 = 1
    BY <1>1
  <2>. QED BY <1>2, <1>5, <2>1
<1>7. End(chars, m) = Len(full)
  <2>1. m \in 0 .. m
    BY <1>1
  <2>2. Len(J[m + 1]) = 0
    BY <1>2, ShortSeqs
  <2>. QED BY <1>5, <2>1, <2>2
<1>8. ASSUME NEW n \in 1 .. m
      PROVE  /\ End(chars, n) = End(chars, n - 1) + Len(chars[n])
             /\ \A k \in 1 .. Len(chars[n]) : full[End(chars, n - 1) + k] = chars[n][k]
  <2>1. /\ n - 1 \in 0 .. m /\ n \in 0 .. m /\ (n - 1) + 1 = n
        /\ n \in 1 .. (m + 1) /\ n + 1 \in 1 .. (m + 1)
    BY <1>1
  <2>2. PICK a, b, c, d : a = H(n - 1) /\ b = J[n] /\ c = chars[n] /\ d = J[n + 1]
    OBVIOUS
  <2>3. /\ IsSeq(a) /\ IsSeq(b) /\ IsSeq(c) /\ IsSeq(d)
        /\ full = a \o b /\ b = c \o d /\ Len(a) = End(chars, n - 1)
    <3>1. IsSeq(a) /\ full = a \o b /\ Len(a) = End(chars, n - 1)
      BY <1>3, <2>1, <2>2
    <3>2. IsSeq(b) /\ IsSeq(d) /\ b = c \o d
      BY <1>2, <2>1, <2>2
    <3>3. IsSeq(c)
      BY <2>2 DEF AllSeqs, m
    <3>. QED BY <3>1, <3>2, <3>3
  <2>4. /\ Len(b) = Len(c) + Len(d) /\ Len(c) \in Nat /\ Len(d) \in Nat
        /\ \A k \in 1 .. Len(c) : b[k] = c[k]
    BY <1>4, <2>3, Zenon
  <2>5. Len(a) \in Nat /\ \A k \in 1 .. Len(b) : full[Len(a) + k] = b[k]
    <3>0. IsSeq(a) /\ IsSeq(b)
      BY <2>3
    <3>1. \A k \in 1 .. Len(b) : (a \o b)[Len(a) + k] = b[k]
      BY <3>0, ConcatSeqs
    <3>2. Len(a) \in Nat
      BY <1>4, <2>3, Zenon
    <3>3. full = a \o b
      BY <2>3
    <3>. QED BY <3>1, <3>2, <3>3, Zenon
  <2>6. \A k \in 1 .. Len(c) : k \in 1 .. Len(b)
    BY <2>4
  <2>7. \A k \in 1 .. Len(c) : full[End(chars, n - 1) + k] = c[k]
    BY <2>3, <2>4, <2>5, <2>6
  <2>8. /\ End(chars, n) + Len(d) = Len(full) /\ End(chars, n) \in Nat
        /\ End(chars, n - 1) + Len(b) = Len(full) /\ End(chars, n - 1) \in Nat
    BY <1>5, <2>1, <2>2
  <2>9. End(chars, n) = End(chars, n - 1) + Len(c)
    <3>1. PICK p, q, u, v, w, z : /\ p = End(chars, n) /\ q = End(chars, n - 1)
                                  /\ u = Len(c) /\ v = Len(d) /\ w = Len(b) /\ z = Len(full)
      OBVIOUS
    <3>2. w = u + v /\ u \in Nat /\ v \in Nat /\ p + v = z /\ p \in Nat /\ q + w = z /\ q \in Nat
      BY <2>4, <2>8, <3>1, Zenon
    <3>3. p = q + u
      BY <3>2
    <3>. QED BY <3>1, <3>3
  <2>. QED BY <2>2, <2>7, <2>9
<1>. QED BY <1>6, <1>7, <1>8 DEF m, full

\* In what is shown of a name an escape that the cut would split begins where
\* a part does; and a cut that is not between two parts splits one.
LEMMA SplitAtPart ==
    ASSUME NEW chars, AreParts(chars), NEW start \in Nat, start + 1 <= Len(Concat(chars)),
           Concat(chars)[start + 1] = 92
    PROVE  \E n \in 0 .. Len(chars) : start = End(chars, n)
<1>. DEFINE m == Len(chars)
            full == Concat(chars)
            S == {n \in 0 .. m : End(chars, n) <= start}
<1>1. m \in Nat /\ AllSeqs(chars)
  BY LenIsNat DEF AreParts, AllSeqs
<1>2. /\ End(chars, 0) = 0 /\ End(chars, m) = Len(full)
      /\ \A n \in 1 .. m : /\ End(chars, n) = End(chars, n - 1) + Len(chars[n])
                           /\ \A k \in 1 .. Len(chars[n]) : full[End(chars, n - 1) + k] = chars[n][k]
  BY <1>1, EndSteps
<1>3. \A n \in 0 .. m : End(chars, n) \in Nat
  <2>1. SUFFICES ASSUME NEW n \in 0 .. m PROVE End(chars, n) \in Nat
    OBVIOUS
  <2>2. End(chars, n) \in 0 .. Len(full) /\ IsSeq(full)
    BY <1>1, EndIs
  <2>. QED BY <2>2, LenIsNat
<1>. HIDE DEF m, full
<1>4. S \subseteq 0 .. m /\ 0 \in S
  BY <1>1, <1>2
<1>5. PICK n \in S : \A k \in S : k <= n
  <2>. HIDE DEF S
  <2>. QED BY <1>1, <1>4, GreatestNumber
<1>6. n \in 0 .. m /\ End(chars, n) <= start /\ End(chars, n) \in Nat
  BY <1>3, <1>5
<1>7. n # m
  <2>1. CASE n = m
    <3>1. start + 1 <= Len(full) /\ End(chars, n) = Len(full) /\ End(chars, n) \in Nat
      BY <1>2, <1>6, <2>1 DEF full
    <3>. QED BY <1>6, <3>1
  <2>. QED BY <2>1
<1>8. n + 1 \in 1 .. m /\ n + 1 \in 0 .. m /\ n + 1 \notin S /\ (n + 1) - 1 = n
  BY <1>1, <1>5, <1>6, <1>7
<1>9. ~(End(chars, n + 1) <= start) /\ End(chars, n + 1) \in Nat
  BY <1>3, <1>8
<1>10. End(chars, n + 1) = End(chars, n) + Len(chars[n + 1])
  BY <1>2, <1>8
<1>11. IsSeq(chars[n + 1]) /\ Len(chars[n + 1]) \in Nat
  BY <1>1, <1>8, LenIsNat DEF AllSeqs, m
<1>12. PICK p, k, u : p = End(chars, n) /\ k = start + 1 - p /\ u = Len(chars[n + 1])
  OBVIOUS
<1>13. k \in 1 .. u /\ p + k = start + 1
  BY <1>6, <1>9, <1>10, <1>11, <1>12
<1>14. chars[n + 1][k] = 92
  <2>1. full[p + k] = chars[n + 1][k]
    BY <1>2, <1>8, <1>12, <1>13
  <2>. QED BY <1>13, <2>1 DEF full
<1>15. k = 1
  <2>1. CASE u = 1
    BY <1>13, <2>1
  <2>2. CASE IsEscape(chars[n + 1])
    <3>0. \A x : IsHexDigit(x) => x # 92
      BY DEF IsHexDigit
    <3>1. u = 4 /\ chars[n + 1][2] # 92 /\ chars[n + 1][3] # 92 /\ chars[n + 1][4] # 92
      BY <1>12, <2>2, <3>0 DEF IsEscape
    <3>2. k = 1 \/ k = 2 \/ k = 3 \/ k = 4
      BY <1>13, <3>1
    <3>. QED BY <1>14, <3>1, <3>2
  <2>. QED BY <1>8, <1>12, <2>1, <2>2 DEF AreParts, m
<1>. QED BY <1>6, <1>12, <1>13, <1>15 DEF m

\* A limit that is not the end of a part lies in an escape: every longer part is one.
LEMMA SplitInPart ==
    ASSUME NEW chars, AreParts(chars), NEW limit \in Nat, limit < Len(Concat(chars)),
           \A n \in 0 .. Len(chars) : limit # End(chars, n)
    PROVE  SplitEscapes(Concat(chars), limit) # {}
<1>. DEFINE m == Len(chars)
            full == Concat(chars)
            S == {n \in 0 .. m : End(chars, n) <= limit}
<1>1. m \in Nat /\ AllSeqs(chars)
  BY LenIsNat DEF AreParts, AllSeqs
<1>2. /\ End(chars, 0) = 0 /\ End(chars, m) = Len(full)
      /\ \A n \in 1 .. m : /\ End(chars, n) = End(chars, n - 1) + Len(chars[n])
                           /\ \A k \in 1 .. Len(chars[n]) : full[End(chars, n - 1) + k] = chars[n][k]
  BY <1>1, EndSteps
<1>3. \A n \in 0 .. m : End(chars, n) \in Nat /\ End(chars, n) <= Len(full) /\ Len(full) \in Nat
  <2>1. SUFFICES ASSUME NEW n \in 0 .. m
                 PROVE  End(chars, n) \in Nat /\ End(chars, n) <= Len(full) /\ Len(full) \in Nat
    OBVIOUS
  <2>2. End(chars, n) \in 0 .. Len(full) /\ IsSeq(full)
    BY <1>1, EndIs
  <2>. QED BY <2>2, LenIsNat
<1>. HIDE DEF m, full
<1>4. S \subseteq 0 .. m /\ 0 \in S
  BY <1>1, <1>2
<1>5. PICK n \in S : \A k \in S : k <= n
  <2>. HIDE DEF S
  <2>. QED BY <1>1, <1>4, GreatestNumber
<1>6. n \in 0 .. m /\ End(chars, n) < limit /\ End(chars, n) \in Nat
  <2>1. n \in 0 .. m /\ End(chars, n) <= limit /\ End(chars, n) # limit /\ End(chars, n) \in Nat
    BY <1>3, <1>5 DEF m
  <2>. QED BY <2>1
<1>7. n # m
  <2>1. CASE n = m
    <3>1. limit < Len(full) /\ End(chars, n) = Len(full)
      BY <1>2, <2>1 DEF full
    <3>. QED BY <1>6, <3>1
  <2>. QED BY <2>1
<1>8. n + 1 \in 1 .. m /\ n + 1 \in 0 .. m /\ n + 1 \notin S /\ (n + 1) - 1 = n
  BY <1>1, <1>5, <1>6, <1>7
<1>9. /\ ~(End(chars, n + 1) <= limit) /\ End(chars, n + 1) \in Nat
      /\ End(chars, n + 1) <= Len(full) /\ Len(full) \in Nat
  BY <1>3, <1>8
<1>10. End(chars, n + 1) = End(chars, n) + Len(chars[n + 1])
  BY <1>2, <1>8
<1>11. IsSeq(chars[n + 1]) /\ Len(chars[n + 1]) \in Nat
  BY <1>1, <1>8, LenIsNat DEF AllSeqs, m
<1>12. PICK p, c : p = End(chars, n) /\ c = chars[n + 1]
  OBVIOUS
<1>13. Len(c) # 1
  <2>1. PICK q : q = End(chars, n + 1)
    OBVIOUS
  <2>2. p < limit /\ p \in Nat /\ ~(q <= limit) /\ q \in Nat /\ q = p + Len(c)
    BY <1>6, <1>9, <1>10, <1>12, <2>1
  <2>3. q # p + 1
    BY <2>2
  <2>. QED BY <2>2, <2>3
<1>14. IsEscape(c)
  BY <1>8, <1>12, <1>13 DEF AreParts, m
<1>15. \A k \in 1 .. 4 : full[p + k] = c[k]
  <2>1. \A k \in 1 .. Len(chars[n + 1]) : full[End(chars, (n + 1) - 1) + k] = chars[n + 1][k]
    BY <1>2, <1>8
  <2>2. Len(c) = 4
    BY <1>14 DEF IsEscape
  <2>. QED BY <1>8, <1>12, <2>1, <2>2
<1>16. /\ full[p + 1] = 92 /\ full[p + 2] = 120
       /\ IsHexDigit(full[p + 3]) /\ IsHexDigit(full[p + 4])
  BY <1>14, <1>15 DEF IsEscape
<1>17. p \in (limit - 3) .. (limit - 1) /\ p >= 0 /\ p + 4 <= Len(full)
  <2>1. Len(c) = 4
    BY <1>14 DEF IsEscape
  <2>. QED BY <1>6, <1>9, <1>10, <1>12, <2>1
<1>18. p \in SplitEscapes(full, limit)
  BY <1>16, <1>17 DEF SplitEscapes
<1>. QED BY <1>18 DEF full

\* Truncate() cuts between two parts, at most three characters before the limit.
LEMMA CutsBetween ==
    ASSUME NEW chars, AreParts(chars), NEW limit \in Nat, limit < Len(Concat(chars))
    PROVE  \E n \in 0 .. Len(chars) :
              /\ Truncate(Concat(chars), limit) = Concat(SubSeq(chars, 1, n)) \o Dots
              /\ limit \in Len(Concat(SubSeq(chars, 1, n))) .. (Len(Concat(SubSeq(chars, 1, n))) + 3)
<1>. DEFINE full == Concat(chars)
            splits == SplitEscapes(full, limit)
            greatest == CHOOSE i \in splits : \A j \in splits : j <= i
            cut == IF splits = {} THEN limit ELSE greatest
<1>1. AllSeqs(chars)
  BY DEF AreParts
<1>2. IsSeq(full) /\ Len(full) \in Nat
  <2>1. IsSeq(full)
    BY <1>1, ConcatSteps
  <2>. QED BY <2>1, LenIsNat
<1>3. splits \subseteq 0 .. limit
  BY DEF SplitEscapes
<1>4. \A start \in splits : /\ start \in Nat /\ start + 1 <= Len(full) /\ full[start + 1] = 92
                            /\ start \in (limit - 3) .. (limit - 1)
  BY <1>2 DEF SplitEscapes
<1>5. splits # {} => greatest \in splits
  <2>. SUFFICES ASSUME splits # {} PROVE greatest \in splits
    OBVIOUS
  <2>. HIDE DEF splits
  <2>1. \E i \in splits : \A j \in splits : j <= i
    BY <1>3, GreatestNumber
  <2>. QED BY <2>1
<1>6. ~(limit >= Len(full))
  BY <1>2
<1>7. Truncate(full, limit) = SubSeq(full, 1, cut) \o Dots
  BY <1>6 DEF Truncate
<1>. HIDE DEF greatest
<1>8. cut \in (limit - 3) .. limit /\ \E n \in 0 .. Len(chars) : cut = End(chars, n)
  <2>1. CASE splits = {}
    <3>1. cut = limit
      BY <2>1
    <3>2. \E n \in 0 .. Len(chars) : limit = End(chars, n)
      BY <2>1, SplitInPart
    <3>. QED BY <3>1, <3>2
  <2>2. CASE splits # {}
    <3>1. cut = greatest /\ greatest \in splits
      BY <1>5, <2>2
    <3>2. /\ greatest \in Nat /\ greatest + 1 <= Len(full) /\ full[greatest + 1] = 92
          /\ greatest \in (limit - 3) .. (limit - 1)
      BY <1>4, <3>1
    <3>3. \E n \in 0 .. Len(chars) : greatest = End(chars, n)
      BY <3>2, SplitAtPart
    <3>. QED BY <3>1, <3>2, <3>3
  <2>. QED BY <2>1, <2>2
<1>9. PICK n \in 0 .. Len(chars) : cut = End(chars, n)
  BY <1>8
<1>. HIDE DEF cut, full
<1>10. Concat(SubSeq(chars, 1, n)) = SubSeq(full, 1, cut)
  BY <1>1, <1>9, EndIs DEF full
<1>11. Len(Concat(SubSeq(chars, 1, n))) = cut
  BY <1>9 DEF End
<1>12. limit \in cut .. (cut + 3)
  BY <1>8
<1>. QED BY <1>7, <1>10, <1>11, <1>12 DEF full

\* So of every name: cut short, it ends between two of its parts.
LEMMA NameIsCutBetween ==
    ASSUME IsBytes(name)
    PROVE  CutBetweenParts
<1>. DEFINE parts == Display(name)
            chars == [i \in DOMAIN parts |-> Characters(parts[i])]
            full == DisplayText(parts)
            kept == {DisplayText(SubSeq(parts, 1, n)) : n \in 0 .. Len(parts)}
<1>1. Len(name) \in Nat /\ 1 \in 1 .. (Len(name) + 1)
  <2>1. Len(name) \in Nat
    BY LenIsNat DEF IsBytes
  <2>. QED BY <2>1
<1>2. /\ IsSeq(parts)
      /\ \A j \in 1 .. Len(parts) : \E k \in 1 .. Len(name) : parts[j] = Shown(name, k)
  <2>1. IsSeq(DisplayFrom(name)[1]) /\ Display(name) = DisplayFrom(name)[1]
    BY <1>1, DisplaySteps
  <2>2. \A j \in 1 .. Len(DisplayFrom(name)[1]) :
           \E k \in 1 .. Len(name) : DisplayFrom(name)[1][j] = Shown(name, k)
    BY <1>1, DisplayParts
  <2>. QED BY <2>1, <2>2
<1>3. Len(parts) \in Nat /\ DOMAIN parts = 1 .. Len(parts)
  BY <1>2, LenIsNat
<1>. HIDE DEF parts
<1>4. chars = [i \in 1 .. Len(parts) |-> chars[i]]
  BY <1>3
<1>5. \A i \in 1 .. Len(parts) : chars[i] = Characters(parts[i])
  BY <1>3
<1>6. full = Concat(chars)
  BY DEF DisplayText
<1>. HIDE DEF chars, full
<1>7. IsSeq(chars) /\ Len(chars) = Len(parts)
  BY <1>3, <1>4, FunctionIsSeq
<1>8. AreParts(chars)
  <2>1. ASSUME NEW i \in 1 .. Len(chars)
        PROVE  IsSeq(chars[i]) /\ (Len(chars[i]) = 1 \/ IsEscape(chars[i]))
    <3>1. i \in 1 .. Len(parts)
      BY <1>7
    <3>2. PICK k \in 1 .. Len(name) : parts[i] = Shown(name, k)
      BY <1>2, <3>1
    <3>3. chars[i] = Characters(Shown(name, k))
      BY <1>5, <3>1, <3>2
    <3>. QED BY <3>3, CharactersOf
  <2>. QED BY <1>7, <2>1 DEF AreParts, AllSeqs
<1>9. ASSUME NEW n \in 0 .. Len(parts)
      PROVE  DisplayText(SubSeq(parts, 1, n)) = Concat(SubSeq(chars, 1, n))
  <2>1. /\ 1 \in 1 .. Len(parts) + 1 /\ n \in (1 - 1) .. Len(parts) /\ n - 1 + 1 = n
        /\ \A i \in 1 .. n : 1 + i - 1 = i /\ i \in 1 .. Len(parts)
    BY <1>3
  <2>2. PICK some, head : some = SubSeq(parts, 1, n) /\ head = SubSeq(chars, 1, n)
    OBVIOUS
  <2>3. IsSeq(some) /\ Len(some) = n /\ \A i \in 1 .. n : some[i] = parts[i]
    BY <1>2, <2>1, <2>2, Piece
  <2>4. IsSeq(head) /\ Len(head) = n /\ \A i \in 1 .. n : head[i] = chars[i]
    BY <1>7, <2>1, <2>2, Piece
  <2>5. PICK e : e = [i \in DOMAIN some |-> Characters(some[i])]
    OBVIOUS
  <2>6. DOMAIN some = 1 .. n
    BY <2>3, LenIsNat
  <2>7. e = [i \in 1 .. n |-> e[i]] /\ \A i \in 1 .. n : e[i] = Characters(some[i])
    BY <2>5, <2>6
  <2>8. IsSeq(e) /\ Len(e) = n
    BY <2>7, FunctionIsSeq
  <2>9. \A i \in 1 .. n : e[i] = head[i]
    BY <1>5, <2>1, <2>3, <2>4, <2>7
  <2>10. e = head
    BY <2>4, <2>8, <2>9, SameSeq
  <2>. QED BY <2>2, <2>5, <2>10 DEF DisplayText
<1>10. ASSUME NEW limit \in 0 .. (Len(full) - 1)
       PROVE  \E head \in kept : /\ Truncate(full, limit) = head \o Dots
                                 /\ limit \in Len(head) .. (Len(head) + 3)
  <2>1. IsSeq(full) /\ Len(full) \in Nat
    <3>1. IsSeq(full)
      BY <1>6, <1>8, ConcatSteps DEF AreParts
    <3>. QED BY <3>1, LenIsNat
  <2>2. limit \in Nat /\ limit < Len(full)
    BY <2>1
  <2>3. PICK n \in 0 .. Len(chars) :
           /\ Truncate(full, limit) = Concat(SubSeq(chars, 1, n)) \o Dots
           /\ limit \in Len(Concat(SubSeq(chars, 1, n))) .. (Len(Concat(SubSeq(chars, 1, n))) + 3)
    BY <1>6, <1>8, <2>2, CutsBetween
  <2>4. Concat(SubSeq(chars, 1, n)) \in kept
    <3>1. n \in 0 .. Len(parts)
      BY <1>7
    <3>. QED BY <1>9, <3>1
  <2>. QED BY <2>3, <2>4
<1>. QED BY <1>10 DEF CutBetweenParts, full, parts

(***************************************************************************)
(* The text dialog.                                                        *)
(***************************************************************************)
\* The encodings of the characters of a text.
Encoded(wide) == [i \in 1 .. Len(wide) |-> Encode(wide[i])]

\* NextUtf8Codepoint() goes on, and over an encoding it reads what is encoded.
LEMMA NextCodepoint ==
    ASSUME NEW file, IsBytes(file), NEW i \in 1 .. Len(file)
    PROVE  /\ NextUtf8Codepoint(file, i).next \in (i + 1) .. (Len(file) + 1)
           /\ \A n \in 1 .. 4 :
                 i + n - 1 <= Len(file) /\ IsEncoding(SubSeq(file, i, i + n - 1)) =>
                    /\ NextUtf8Codepoint(file, i).next = i + n
                    /\ NextUtf8Codepoint(file, i).codepoint = Codepoint(SubSeq(file, i, i + n - 1))
                    /\ Codepoint(SubSeq(file, i, i + n - 1)) = 0 => file[i] = 0
<1>. DEFINE n == LenientLength(file[i])
            whole == SubSeq(file, i, i + n - 1)
            read == NextUtf8Codepoint(file, i)
<1>1. Len(file) \in Nat /\ file[i] \in 0 .. 255
  BY LenIsNat DEF IsBytes
<1>2. n \in 0 .. 4
  BY <1>1 DEF LenientLength
<1>. HIDE DEF n
<1>3. CASE n > 0 /\ i + n - 1 > Len(file)
  <2>1. read.next = Len(file) + 1
    BY <1>3 DEF NextUtf8Codepoint, n
  <2>2. \A k \in 1 .. 4 : i + k - 1 <= Len(file) => k # n
    BY <1>3
  <2>. HIDE DEF read
  <2>3. read.next \in (i + 1) .. (Len(file) + 1)
    BY <1>1, <2>1
  <2>4. ASSUME NEW k \in 1 .. 4, i + k - 1 <= Len(file), IsEncoding(SubSeq(file, i, i + k - 1))
        PROVE  FALSE
    <3>1. i \in 1 .. Len(file) + 1 /\ i + k - 1 \in (i - 1) .. Len(file) /\ (i + k - 1) - i + 1 = k
          /\ 1 \in 1 .. k /\ i + 1 - 1 = i
      BY <1>1, <2>4
    <3>2. PICK piece : piece = SubSeq(file, i, i + k - 1)
      OBVIOUS
    <3>3. IsBytes(piece) /\ Len(piece) = k /\ piece[1] = file[i]
      <4>1. IsBytes(piece) /\ Len(piece) = k /\ \A j \in 1 .. k : piece[j] = file[i + j - 1]
        BY <3>1, <3>2, PieceOfBytes
      <4>. QED BY <3>1, <4>1
    <3>4. Accepted(piece)
      BY <2>4, <3>2, <3>3, Tables
    <3>5. LenientLength(piece[1]) = Len(piece)
      BY <3>3, <3>4, Tables
    <3>. QED BY <2>2, <2>4, <3>3, <3>5 DEF n
  <2>. QED BY <2>3, <2>4 DEF read
<1>4. CASE ~(n > 0 /\ i + n - 1 > Len(file))
  <2>1. read = IF n = 0 \/ \E k \in 2 .. n : ~IsContinuation(whole[k])
               THEN [codepoint |-> Replacement, next |-> i + 1]
               ELSE [codepoint |-> Codepoint(whole), next |-> i + n]
    BY <1>4 DEF NextUtf8Codepoint, n
  <2>. HIDE DEF read, whole
  <2>2. read.next \in (i + 1) .. (Len(file) + 1)
    <3>1. CASE n = 0 \/ \E k \in 2 .. n : ~IsContinuation(whole[k])
      <4>1. read.next = i + 1
        BY <2>1, <3>1
      <4>. QED BY <1>1, <4>1
    <3>2. CASE ~(n = 0 \/ \E k \in 2 .. n : ~IsContinuation(whole[k]))
      <4>1. read.next = i + n
        BY <2>1, <3>2
      <4>2. n # 0
        BY <3>2
      <4>. QED BY <1>1, <1>2, <1>4, <4>1, <4>2
    <3>. QED BY <3>1, <3>2
  <2>3. ASSUME NEW k \in 1 .. 4, i + k - 1 <= Len(file), IsEncoding(SubSeq(file, i, i + k - 1))
        PROVE  /\ read.next = i + k
               /\ read.codepoint = Codepoint(SubSeq(file, i, i + k - 1))
               /\ Codepoint(SubSeq(file, i, i + k - 1)) = 0 => file[i] = 0
    <3>1. i \in 1 .. Len(file) + 1 /\ i + k - 1 \in (i - 1) .. Len(file) /\ (i + k - 1) - i + 1 = k
          /\ 1 \in 1 .. k /\ i + 1 - 1 = i
      BY <1>1, <2>3
    <3>2. PICK piece : piece = SubSeq(file, i, i + k - 1)
      OBVIOUS
    <3>3. IsBytes(piece) /\ Len(piece) = k /\ piece[1] = file[i]
      <4>1. IsBytes(piece) /\ Len(piece) = k /\ \A j \in 1 .. k : piece[j] = file[i + j - 1]
        BY <3>1, <3>2, PieceOfBytes
      <4>. QED BY <3>1, <4>1
    <3>4. Accepted(piece)
      BY <2>3, <3>2, <3>3, Tables
    <3>5. /\ LenientLength(piece[1]) = Len(piece)
          /\ \A j \in 2 .. Len(piece) : IsContinuation(piece[j])
          /\ Codepoint(piece) = 0 => piece[1] = 0
      BY <3>3, <3>4, Tables
    <3>6. k = n
      BY <3>3, <3>5 DEF n
    <3>7. piece = whole /\ n # 0
      BY <3>2, <3>6 DEF whole
    <3>8. ~(n = 0 \/ \E j \in 2 .. n : ~IsContinuation(whole[j]))
      BY <3>3, <3>5, <3>6, <3>7
    <3>9. read.next = i + n /\ read.codepoint = Codepoint(whole)
      BY <2>1, <3>8
    <3>. QED BY <3>2, <3>3, <3>5, <3>6, <3>7, <3>9
  <2>. QED BY <2>2, <2>3 DEF read
<1>. QED BY <1>3, <1>4

\* After the character read at a byte come those read from where it ends.
LEMMA CodepointSteps ==
    ASSUME NEW file, IsBytes(file)
    PROVE  /\ Codepoints(file) = CodepointsFrom(file)[1]
           /\ \A i \in 1 .. Len(file) :
                 CodepointsFrom(file)[i] =
                    <<NextUtf8Codepoint(file, i).codepoint>>
                        \o CodepointsFrom(file)[NextUtf8Codepoint(file, i).next]
           /\ CodepointsFrom(file)[Len(file) + 1] = <<>>
           /\ \A i \in 1 .. (Len(file) + 1) : IsSeq(CodepointsFrom(file)[i])
<1>. DEFINE m == Len(file)
            parts == [i \in 1 .. m |-> <<NextUtf8Codepoint(file, i).codepoint>>]
            next == [i \in 1 .. m |-> NextUtf8Codepoint(file, i).next]
<1>1. m \in Nat
  BY LenIsNat DEF IsBytes
<1>2. \A i \in 1 .. m : /\ parts[i] = <<NextUtf8Codepoint(file, i).codepoint>>
                        /\ next[i] = NextUtf8Codepoint(file, i).next
  OBVIOUS
<1>3. parts = [i \in 1 .. m |-> parts[i]]
  OBVIOUS
<1>4. CodepointsFrom(file) = Joined(parts, next)
  BY DEF CodepointsFrom
<1>. HIDE DEF m, parts, next
<1>5. IsSeq(parts) /\ Len(parts) = m
  BY <1>1, <1>3, FunctionIsSeq
<1>6. AllSeqs(parts)
  <2>1. \A x : IsSeq(<<x>>)
    BY ShortSeqs
  <2>. QED BY <1>2, <1>5, <2>1 DEF AllSeqs
<1>7. GoesOn(parts, next)
  <2>1. \A i \in 1 .. m : next[i] \in (i + 1) .. (m + 1)
    BY <1>2, NextCodepoint DEF m
  <2>. QED BY <1>5, <2>1 DEF GoesOn
<1>8. /\ \A i \in 1 .. m : Joined(parts, next)[i] = parts[i] \o Joined(parts, next)[next[i]]
      /\ Joined(parts, next)[m + 1] = <<>>
  BY <1>1, <1>5, <1>7, JoinedSteps
<1>9. \A i \in 1 .. (m + 1) : IsSeq(Joined(parts, next)[i])
  BY <1>5, <1>6, <1>7, JoinedType
<1>. QED BY <1>2, <1>4, <1>8, <1>9 DEF m, Codepoints

\* What is read of a name that is UTF-8 has no terminator in it, is not longer
\* than the name, and is encoded as the name.
LEMMA ReadAndEncoded ==
    ASSUME NEW file, IsBytes(file), WellFormed(file), \A i \in DOMAIN file : file[i] # 0
    PROVE  /\ IsSeq(Codepoints(file)) /\ Len(Codepoints(file)) <= Len(file)
           /\ \A j \in 1 .. Len(Codepoints(file)) : Codepoints(file)[j] # 0
           /\ Concat(Encoded(Codepoints(file))) = file
<1>. DEFINE l == Len(file)
            m == l + 1
            C(i) == CodepointsFrom(file)[i]
            Fits(i) == /\ Len(C(i)) <= m - i
                       /\ \A j \in 1 .. Len(C(i)) : C(i)[j] # 0
                       /\ AllSeqs(Encoded(C(i)))
                       /\ Concat(Encoded(C(i))) = SubSeq(file, i, l)
<1>1. l \in Nat /\ m \in Nat /\ DOMAIN file = 1 .. l /\ 1 \in 1 .. m /\ IsSeq(file)
  BY LenIsNat DEF IsBytes
<1>2. PICK places \in SUBSET (1 .. m) :
          /\ 1 \in places
          /\ \A i \in places \ {m} :
                \E n \in 1 .. 4 : i + n \in places /\ IsEncoding(SubSeq(file, i, i + n - 1))
  BY DEF WellFormed
<1>3. \A w : IsSeq(w) => /\ IsSeq(Encoded(w)) /\ Len(Encoded(w)) = Len(w)
                         /\ \A j \in 1 .. Len(w) : Encoded(w)[j] = Encode(w[j])
  <2>1. SUFFICES ASSUME NEW w, IsSeq(w)
                 PROVE  /\ IsSeq(Encoded(w)) /\ Len(Encoded(w)) = Len(w)
                        /\ \A j \in 1 .. Len(w) : Encoded(w)[j] = Encode(w[j])
    OBVIOUS
  <2>2. Len(w) \in Nat
    BY LenIsNat
  <2>3. PICK f : f = [j \in 1 .. Len(w) |-> Encode(w[j])]
    OBVIOUS
  <2>4. f = [j \in 1 .. Len(w) |-> f[j]] /\ Encoded(w) = f
    BY <2>3 DEF Encoded
  <2>5. IsSeq(f) /\ Len(f) = Len(w)
    BY <2>2, <2>4, FunctionIsSeq
  <2>. QED BY <2>3, <2>4, <2>5
<1>. HIDE DEF l, Fits
<1>. DEFINE G == {i \in 1 .. m : i \in places => Fits(i)}
<1>4. Fits(m)
  <2>1. PICK e : e = C(m)
    OBVIOUS
  <2>2. e = <<>> /\ IsSeq(e) /\ Len(e) = 0
    BY <2>1, CodepointSteps, ShortSeqs DEF l
  <2>3. IsSeq(Encoded(e)) /\ Len(Encoded(e)) = 0
    BY <1>3, <2>2
  <2>4. Encoded(e) = e /\ AllSeqs(e)
    <3>1. Encoded(e) = <<>>
      BY <2>3, LenIsNat
    <3>. QED BY <2>2, <3>1 DEF AllSeqs
  <2>5. Concat(e) = <<>>
    <3>1. Concat(e) = ConcatFrom(e)[1] /\ ConcatFrom(e)[Len(e) + 1] = <<>>
      BY <2>4, ConcatSteps, Zenon
    <3>2. Len(e) + 1 = 1
      BY <2>2
    <3>. QED BY <3>1, <3>2
  <2>6. SubSeq(file, m, l) = <<>>
    <3>1. IsSeq(SubSeq(file, m, l)) /\ Len(SubSeq(file, m, l)) = 0
      <4>1. m \in 1 .. l + 1 /\ l \in (m - 1) .. l /\ l - m + 1 = 0
        BY <1>1
      <4>. QED BY <1>1, <4>1, Piece DEF l
    <3>. QED BY <3>1, LenIsNat
  <2>7. Len(e) <= m - m /\ \A j \in 1 .. Len(e) : e[j] # 0
    BY <1>1, <2>2
  <2>. QED BY <2>1, <2>4, <2>5, <2>6, <2>7 DEF Fits
<1>5. ASSUME NEW i \in 1 .. m, \A j \in (i + 1) .. m : j \in G PROVE i \in G
  <2>1. SUFFICES ASSUME i \in places, i # m PROVE Fits(i)
    BY <1>4
  <2>2. PICK n \in 1 .. 4 : i + n \in places /\ IsEncoding(SubSeq(file, i, i + n - 1))
    BY <1>2, <2>1
  <2>3. i \in 1 .. l /\ i + n - 1 <= l /\ i + n \in (i + 1) .. m /\ i + n \in 1 .. m
    BY <1>1, <1>2, <2>1, <2>2
  <2>4. PICK piece, x, c, rest : /\ piece = SubSeq(file, i, i + n - 1) /\ x = Codepoint(piece)
                                 /\ c = C(i) /\ rest = C(i + n)
    OBVIOUS
  <2>5. c = <<x>> \o rest /\ IsSeq(rest) /\ x # 0
    <3>1. /\ NextUtf8Codepoint(file, i).next = i + n
          /\ NextUtf8Codepoint(file, i).codepoint = x
          /\ x = 0 => file[i] = 0
      BY <2>2, <2>3, <2>4, NextCodepoint DEF l
    <3>2. file[i] # 0
      BY <1>1, <2>3
    <3>3. C(i) = <<NextUtf8Codepoint(file, i).codepoint>> \o C(NextUtf8Codepoint(file, i).next)
      BY <2>3, CodepointSteps DEF l
    <3>4. IsSeq(rest)
      BY <2>3, <2>4, CodepointSteps DEF l
    <3>. QED BY <2>4, <3>1, <3>2, <3>3, <3>4
  <2>6. StartsWith(c, x, rest)
    BY <2>5, InFrontOf, Zenon
  <2>7. /\ IsSeq(c) /\ Len(rest) \in Nat /\ Len(c) = Len(rest) + 1 /\ c[1] = x
        /\ \A j \in 1 .. Len(rest) : c[j + 1] = rest[j]
    BY <2>5, <2>6, LenIsNat DEF StartsWith
  <2>8. i + n \in G
    BY <1>5, <2>3
  <2>9. Fits(i + n)
    BY <2>2, <2>3, <2>8
  <2>10. /\ Len(rest) <= m - (i + n) /\ \A j \in 1 .. Len(rest) : rest[j] # 0
         /\ AllSeqs(Encoded(rest)) /\ Concat(Encoded(rest)) = SubSeq(file, i + n, l)
    BY <2>4, <2>9 DEF Fits
  <2>11. Len(c) <= m - i
    BY <1>1, <2>3, <2>7, <2>10
  <2>12. \A j \in 1 .. Len(c) : c[j] # 0
    <3>1. ASSUME NEW j \in 1 .. Len(c), j # 1 PROVE c[j] # 0
      <4>1. j - 1 \in 1 .. Len(rest) /\ (j - 1) + 1 = j
        BY <2>7, <3>1
      <4>. QED BY <2>7, <2>10, <4>1
    <3>. QED BY <2>5, <2>7, <3>1
  <2>13. IsSeq(piece) /\ Encode(x) = piece
    <3>1. i \in 1 .. Len(file) + 1 /\ i + n - 1 \in (i - 1) .. Len(file)
      BY <1>1, <2>3 DEF l
    <3>2. IsBytes(piece)
      BY <2>4, <3>1, PieceOfBytes
    <3>. QED BY <2>2, <2>4, <3>2 DEF IsEncoding, IsBytes
  <2>14. Encoded(c) = <<piece>> \o Encoded(rest)
    <3>1. PICK f, g : f = Encoded(c) /\ g = Encoded(rest)
      OBVIOUS
    <3>2. /\ IsSeq(f) /\ Len(f) = Len(c) /\ \A j \in 1 .. Len(c) : f[j] = Encode(c[j])
      BY <1>3, <2>7, <3>1
    <3>3. /\ IsSeq(g) /\ Len(g) = Len(rest) /\ \A j \in 1 .. Len(rest) : g[j] = Encode(rest[j])
      BY <1>3, <2>5, <3>1
    <3>4. 1 \in 1 .. Len(c) /\ \A j \in 1 .. Len(rest) : j + 1 \in 1 .. Len(c)
      BY <2>7
    <3>5. f[1] = piece
      BY <2>7, <2>13, <3>2, <3>4
    <3>6. \A j \in 1 .. Len(g) : f[j + 1] = g[j]
      BY <2>7, <3>2, <3>3, <3>4
    <3>7. StartsWith(f, piece, g)
      BY <2>7, <3>2, <3>3, <3>5, <3>6 DEF StartsWith
    <3>8. f = <<piece>> \o g
      BY <3>3, <3>7, FirstAndRest
    <3>. QED BY <3>1, <3>8
  <2>15. AllSeqs(Encoded(c)) /\ Concat(Encoded(c)) = piece \o Concat(Encoded(rest))
    <3>1. PICK b : b = Encoded(rest)
      OBVIOUS
    <3>2. AllSeqs(b)
      BY <2>10, <3>1
    <3>3. AllSeqs(<<piece>> \o b) /\ Concat(<<piece>> \o b) = piece \o Concat(b)
      BY <2>13, <3>2, ConcatFirst
    <3>. QED BY <2>14, <3>1, <3>3
  <2>16. SubSeq(file, i, i + n - 1) \o SubSeq(file, (i + n - 1) + 1, l) = SubSeq(file, i, l)
    <3>1. i \in 1 .. l + 1 /\ i + n - 1 \in (i - 1) .. l /\ l \in (i + n - 1) .. l
      BY <1>1, <2>3
    <3>. QED BY <1>1, <3>1, TwoPieces DEF l
  <2>17. (i + n - 1) + 1 = i + n
    BY <2>3
  <2>18. Concat(Encoded(c)) = SubSeq(file, i, l)
    BY <2>4, <2>10, <2>15, <2>16, <2>17
  <2>. QED BY <2>4, <2>11, <2>12, <2>15, <2>18 DEF Fits
<1>6. Fits(1)
  <2>1. 1 \in G
    <3>. HIDE DEF G, m
    <3>. QED BY <1>1, <1>5, Downwards
  <2>. QED BY <1>2, <2>1
<1>7. SubSeq(file, 1, l) = file
  BY <1>1, WholePiece DEF l
<1>8. Codepoints(file) = C(1) /\ IsSeq(C(1))
  BY <1>1, CodepointSteps DEF l
<1>9. Len(C(1)) \in Nat
  BY <1>8, LenIsNat
<1>10. m - 1 = l
  BY <1>1
<1>11. /\ Len(C(1)) <= l /\ \A j \in 1 .. Len(C(1)) : C(1)[j] # 0
       /\ Concat(Encoded(C(1))) = file
  BY <1>6, <1>7, <1>10 DEF Fits
<1>. QED BY <1>8, <1>11 DEF l

\* So the dialog gives back the name it was opened on.
LEMMA DialogKeeps ==
    ASSUME NEW file, IsBytes(file), WellFormed(file), \A i \in DOMAIN file : file[i] # 0,
           Len(file) < BufferCount
    PROVE  Utf8FromWide(WideFromUtf8(file, BufferCount)) = file
<1>1. PICK wide : wide = Codepoints(file)
  OBVIOUS
<1>2. /\ IsSeq(wide) /\ Len(wide) <= Len(file) /\ \A j \in 1 .. Len(wide) : wide[j] # 0
      /\ Concat(Encoded(wide)) = file
  BY <1>1, ReadAndEncoded
<1>3. Len(wide) \in Nat /\ DOMAIN wide = 1 .. Len(wide) /\ Len(file) \in Nat
  BY <1>2, LenIsNat DEF IsBytes
<1>4. BufferCount \in Nat
  BY DialogsAssumption
<1>5. Least(Len(wide), BufferCount - 1) = Len(wide)
  BY <1>2, <1>3, <1>4 DEF Least
<1>6. WideFromUtf8(file, BufferCount) = wide
  <2>1. WideFromUtf8(file, BufferCount) = SubSeq(wide, 1, Len(wide))
    BY <1>1, <1>5 DEF WideFromUtf8
  <2>. QED BY <1>2, <2>1, WholePiece
<1>7. Utf8FromWide(wide) = Concat(Encoded(wide))
  <2>1. {i \in DOMAIN wide : wide[i] = 0} = {}
    BY <1>2, <1>3
  <2>. QED BY <2>1 DEF Utf8FromWide, Encoded
<1>. QED BY <1>2, <1>6, <1>7

\* The names there may be are bytes, with no terminator, and have room.
LEMMA NamesHaveRoom ==
    ASSUME NEW file \in Samples \cup {<<>>}
    PROVE  IsBytes(file) /\ (\A i \in DOMAIN file : file[i] # 0) /\ Len(file) < BufferCount
<1>1. BufferCount \in Nat \ {0}
  BY DialogsAssumption
<1>2. CASE file \in Samples
  <2>1. file \in Seq(0 .. 255) /\ IsValidBytes(file) /\ Len(file) < BufferCount
    BY <1>2, DialogsAssumption
  <2>2. IsSeq(file)
    BY <2>1 DEF IsSeq
  <2>3. \A i \in 1 .. Len(file) : file[i] \in 0 .. 255
    BY <2>1, ElementOfSeq
  <2>. QED BY <2>1, <2>2, <2>3 DEF IsBytes, IsValidBytes
<1>3. CASE file = <<>>
  <2>1. IsSeq(file) /\ Len(file) = 0
    BY <1>3, ShortSeqs
  <2>2. DOMAIN file = 1 .. 0
    BY <2>1, LenIsNat
  <2>. QED BY <1>1, <2>1, <2>2 DEF IsBytes
<1>. QED BY <1>2, <1>3

\* While the dialog is open its buffer holds the name, and what was accepted is
\* read back from it.
NameInv ==
    /\ name \in Samples \cup {<<>>}
    /\ overlay = "TextInput" => input = WideFromUtf8(name, BufferCount)
    /\ pc = "renamed" => value = Utf8FromWide(WideFromUtf8(name, BufferCount))

\* It holds at first.
LEMMA NameInit == Init => NameInv
BY DEF Init, NameInv

\* Only the dialog writes its buffer, and only when it is opened.
LEMMA NameNext ==
    ASSUME NameInv, [Next]_vars
    PROVE  NameInv'
<1>. DEFINE Kept == name' = name /\ input' = input /\ value' = value
<1>1. Kept /\ (overlay' = "TextInput" => overlay = "TextInput") /\ (pc' = "renamed" => pc = "renamed")
        => NameInv'
  BY DEF NameInv
<1>2. CASE ReadPad
  <2>1. Kept /\ pc' = "text"
    BY <1>2 DEF ReadPad, text
  <2>2. overlay' = "TextInput" => overlay = "TextInput"
    BY <1>2 DEF ReadPad
  <2>. QED BY <1>1, <2>1, <2>2
<1>3. CASE OperationEnds
  BY <1>1, <1>3 DEF OperationEnds, text
<1>4. CASE UpdateTextInput
  <2>1. CASE pc' = "handle" /\ UNCHANGED <<overlay, text>>
    BY <1>1, <2>1 DEF text
  <2>2. CASE /\ overlay = "TextInput" /\ overlay' = "Browsing"
             /\ pc' = "renamed"
             /\ value' = Utf8FromWide(input)
             /\ UNCHANGED <<name, input>>
    BY <2>2 DEF NameInv
  <2>3. CASE /\ overlay = "TextInput" /\ overlay' = "Browsing"
             /\ pc' = "handle"
             /\ name' = <<>> /\ input' = <<>> /\ UNCHANGED value
    BY <2>3 DEF NameInv
  <2>. QED BY <1>4, <2>1, <2>2, <2>3 DEF UpdateTextInput
<1>5. CASE UseText
  <2>1. name' = <<>> /\ pc' = "handle" /\ overlay' \in {"Browsing", "Error"}
    BY <1>5 DEF UseText
  <2>. QED BY <2>1 DEF NameInv
<1>6. CASE NoAnswer
  BY <1>1, <1>6 DEF NoAnswer, text
<1>7. CASE ChooseItem
  <2>1. pc' = "update" /\ overlay = "ContextMenu"
    BY <1>7 DEF ChooseItem, Answers
  <2>2. CASE UNCHANGED <<overlay, menu, text>>
    BY <1>1, <2>1, <2>2 DEF text
  <2>3. CASE overlay' = "TextInput" /\ OpenTextInput
    <3>1. name' \in Samples \cup {<<>>} /\ input' = WideFromUtf8(name', BufferCount)
      BY <2>3 DEF OpenTextInput
    <3>. QED BY <2>1, <2>3, <3>1 DEF NameInv
  <2>4. CASE overlay' = "Error" /\ UNCHANGED <<menu, text>>
    BY <1>1, <2>1, <2>4 DEF text
  <2>5. CASE /\ overlay' \in CASE Item = "Properties" -> {"Properties", "Browsing"}
                               [] Item = "Paste"      -> {"Running", "Finished", "Question", "Error"}
                               [] Item = "Delete"     -> {"Question", "Browsing"}
                               [] OTHER               -> {"Browsing"}
             /\ UNCHANGED text
    <3>1. overlay' # "TextInput"
      BY <2>5
    <3>. QED BY <1>1, <2>1, <2>5, <3>1 DEF text
  <2>. QED BY <1>7, <2>2, <2>3, <2>4, <2>5 DEF ChooseItem
<1>8. CASE InBrowser \/ InOperation
  <2>1. UNCHANGED text /\ pc' = "update" /\ overlay \in {"Browsing", "Running", "Finished"}
        /\ (overlay' = overlay \/ overlay' = "Browsing")
    BY <1>8 DEF InBrowser, InOperation, Answers
  <2>. QED BY <1>1, <2>1 DEF text
<1>9. CASE OpenMenu \/ MoveInMenu \/ CloseMenu
  <2>1. UNCHANGED text /\ pc' = "update" /\ overlay' \in {"ContextMenu", "Browsing"}
    BY <1>9 DEF OpenMenu, MoveInMenu, CloseMenu, Answers
  <2>. QED BY <1>1, <2>1 DEF text
<1>10. CASE CloseMessage
  <2>1. UNCHANGED text /\ pc' = "update" /\ overlay' # "TextInput"
    BY <1>10 DEF CloseMessage, Answers
  <2>. QED BY <1>1, <2>1 DEF text
<1>11. CASE OpenPlaces \/ PlacesUp \/ PlacesDown \/ ClosePlaces
  <2>1. UNCHANGED text /\ pc' = "update" /\ overlay' \in {"QuickPlaces", "Crashed", "Browsing"}
    BY <1>11 DEF OpenPlaces, PlacesUp, PlacesDown, ClosePlaces, Answers
  <2>. QED BY <1>1, <2>1 DEF text
<1>12. CASE OpenSettings \/ MoveInSettings \/ CloseSettings
  <2>1. UNCHANGED text /\ pc' = "update" /\ overlay' \in {"Settings", "Browsing"}
    BY <1>12 DEF OpenSettings, MoveInSettings, CloseSettings, Answers
  <2>. QED BY <1>1, <2>1 DEF text
<1>13. CASE UNCHANGED vars
  BY <1>1, <1>13 DEF vars, text
<1>. QED BY <1>2, <1>3, <1>4, <1>5, <1>6, <1>7, <1>8, <1>9, <1>10, <1>11, <1>12, <1>13
         DEF Next, Handle

\* A name of any length, of any bytes a file name may have, is shown byte for
\* byte, marked as not faithful exactly when it is not UTF-8 or has control
\* bytes, and cut between two of its parts.
THEOREM NamesAreShownFaithfully == Spec => []DisplayIsFaithful
<1>1. NameInv => DisplayIsFaithful
  <2>1. SUFFICES ASSUME NameInv PROVE DisplayIsFaithful
    OBVIOUS
  <2>2. IsBytes(name)
    BY <2>1, NamesHaveRoom DEF NameInv
  <2>3. Concat(BytesOf(Display(name))) = name
    BY <2>2, BytesAreShown
  <2>4. Lossy(name) <=> ~WellFormed(name) \/ \E i \in DOMAIN name : IsControl(name[i])
    BY <2>2, FaithfulIsClean, CleanIsFaithful
  <2>5. CutBetweenParts
    BY <2>2, NameIsCutBetween
  <2>. QED BY <2>3, <2>4, <2>5 DEF DisplayIsFaithful, BytesOf
<1>. QED BY <1>1, NameInit, NameNext, PTL DEF Spec

\* Every name that is UTF-8 and has room in the buffer, the longest one
\* included, comes back from the rename dialog as it was put in.
THEOREM RenameKeepsTheName == Spec => []AcceptedNameIsKept
<1>1. NameInv => AcceptedNameIsKept
  <2>1. SUFFICES ASSUME NameInv, pc = "renamed", WellFormed(name) PROVE value = name
    BY DEF AcceptedNameIsKept
  <2>2. IsBytes(name) /\ (\A i \in DOMAIN name : name[i] # 0) /\ Len(name) < BufferCount
    BY <2>1, NamesHaveRoom DEF NameInv
  <2>3. Utf8FromWide(WideFromUtf8(name, BufferCount)) = name
    BY <2>1, <2>2, DialogKeeps
  <2>. QED BY <2>1, <2>3 DEF NameInv
<1>. QED BY <1>1, NameInit, NameNext, PTL DEF Spec
=============================================================================
