--------------------------- MODULE BlockMapProofs ---------------------------
(***************************************************************************)
(* Proofs about the map of free blocks (mem_block_map.c), for every group  *)
(* size from three on, all sizes and all offsets: its properties as        *)
(* invariants of Spec.                                                     *)
(*                                                                         *)
(* The groups are the pieces of one sequence of items, cut at ascending    *)
(* places (Cut).  Whatever moves items between groups moves the cuts and   *)
(* leaves the sequence alone; the searches are about the place a size has  *)
(* in the sequence (Rank) and the cuts around it (Places).  Tree says that *)
(* the sequence is sorted and holds the entries; Good and Calm add what    *)
(* the root, its count and the empty groups are like, always and between   *)
(* two calls; IInv adds what the locals of a waiting insertion say of it.  *)
(***************************************************************************)
EXTENDS BlockMap, LeastNumber, SequenceTheorems, FiniteSetTheorems, TLAPS

-----------------------------------------------------------------------------
(* Sequences, and loops                                                      *)

\* A part of a sequence, element by element
LEMMA SubSeqIs ==
    ASSUME NEW S, NEW s \in Seq(S), NEW m \in Int, NEW n \in Int, 1 <= m, n <= Len(s), m <= n + 1
    PROVE  /\ SubSeq(s, m, n) \in Seq(S)
           /\ Len(SubSeq(s, m, n)) = n - m + 1
           /\ \A i \in 1 .. n - m + 1 : SubSeq(s, m, n)[i] = s[m + i - 1]
  <1>1. \A i \in m .. n : s[i] \in S
    OBVIOUS
  <1>2. /\ SubSeq(s, m, n) \in Seq(S)
        /\ Len(SubSeq(s, m, n)) = IF m <= n THEN n - m + 1 ELSE 0
        /\ \A i \in 1 .. n - m + 1 : SubSeq(s, m, n)[i] = s[m + i - 1]
    BY <1>1, SubSeqProperties
  <1> QED BY <1>2

\* A sequence without one of its elements
LEMMA RemoveAtIs ==
    ASSUME NEW S, NEW s \in Seq(S), NEW i \in 1 .. Len(s)
    PROVE  /\ RemoveAt(s, i) \in Seq(S)
           /\ Len(RemoveAt(s, i)) = Len(s) - 1
           /\ \A j \in 1 .. Len(s) - 1 : RemoveAt(s, i)[j] = IF j < i THEN s[j] ELSE s[j + 1]
  <1> DEFINE a == SubSeq(s, 1, i - 1)
             b == SubSeq(s, i + 1, Len(s))
  <1>1. a \in Seq(S) /\ Len(a) = i - 1 /\ \A j \in 1 .. i - 1 : a[j] = s[j]
    BY SubSeqIs
  <1>2. b \in Seq(S) /\ Len(b) = Len(s) - i /\ \A j \in 1 .. Len(s) - i : b[j] = s[i + j]
    BY SubSeqIs
  <1>3. RemoveAt(s, i) = a \o b
    BY DEF RemoveAt
  <1> HIDE DEF a, b
  <1>4. /\ a \o b \in Seq(S) /\ Len(a \o b) = Len(a) + Len(b)
        /\ \A j \in 1 .. Len(a) + Len(b) : (a \o b)[j] = IF j <= Len(a) THEN a[j] ELSE b[j - Len(a)]
    BY <1>1, <1>2, ConcatProperties
  <1> QED BY <1>1, <1>2, <1>3, <1>4

\* A sequence with one more element
LEMMA InsertAtIs ==
    ASSUME NEW S, NEW s \in Seq(S), NEW i \in 1 .. Len(s) + 1, NEW e \in S
    PROVE  /\ InsertAt(s, i, e) \in Seq(S)
           /\ Len(InsertAt(s, i, e)) = Len(s) + 1
           /\ \A j \in 1 .. Len(s) + 1 :
                 InsertAt(s, i, e)[j] = IF j < i THEN s[j] ELSE IF j = i THEN e ELSE s[j - 1]
  <1> DEFINE a == SubSeq(s, 1, i - 1)
             b == SubSeq(s, i, Len(s))
             ae == a \o <<e>>
  <1>1. a \in Seq(S) /\ Len(a) = i - 1 /\ \A j \in 1 .. i - 1 : a[j] = s[j]
    BY SubSeqIs
  <1>2. b \in Seq(S) /\ Len(b) = Len(s) - i + 1 /\ \A j \in 1 .. Len(s) - i + 1 : b[j] = s[i + j - 1]
    BY SubSeqIs
  <1>3. InsertAt(s, i, e) = ae \o b
    BY DEF InsertAt
  <1>4. <<e>> \in Seq(S) /\ Len(<<e>>) = 1 /\ <<e>>[1] = e
    OBVIOUS
  <1> HIDE DEF a, b
  <1>5. /\ ae \in Seq(S) /\ Len(ae) = Len(a) + 1
        /\ \A j \in 1 .. Len(a) + 1 : ae[j] = IF j <= Len(a) THEN a[j] ELSE <<e>>[j - Len(a)]
    BY <1>1, <1>4, ConcatProperties
  <1>6. ae \in Seq(S) /\ Len(ae) = i /\ ae[i] = e /\ \A j \in 1 .. i - 1 : ae[j] = s[j]
    <2> HIDE DEF ae
    <2>1. Len(a) = i - 1 /\ i \in Nat /\ i > 0
      BY <1>1
    <2>2. Len(ae) = i /\ i \in 1 .. Len(a) + 1 /\ ~(i <= Len(a)) /\ i - Len(a) = 1
      BY <1>5, <2>1
    <2>3. ae[i] = e
      BY <1>4, <1>5, <2>2
    <2>4. ASSUME NEW j \in 1 .. i - 1 PROVE ae[j] = s[j]
      <3>1. j \in 1 .. Len(a) + 1 /\ j <= Len(a)
        BY <2>1
      <3> QED BY <1>1, <1>5, <3>1
    <2> QED BY <1>5, <2>2, <2>3, <2>4
  <1> HIDE DEF ae
  <1>7. /\ ae \o b \in Seq(S) /\ Len(ae \o b) = Len(ae) + Len(b)
        /\ \A j \in 1 .. Len(ae) + Len(b) : (ae \o b)[j] = IF j <= Len(ae) THEN ae[j] ELSE b[j - Len(ae)]
    BY <1>2, <1>6, ConcatProperties
  <1> QED BY <1>2, <1>3, <1>6, <1>7

\* What holds first and is kept by each step holds throughout
LEMMA Stepwise ==
    ASSUME NEW n \in Nat, NEW G, 0 \in G, \A k \in 0 .. n - 1 : k \in G => k + 1 \in G
    PROVE  \A k \in 0 .. n : k \in G
  <1> SUFFICES ASSUME NEW m \in 0 .. n, m \notin G PROVE FALSE
    OBVIOUS
  <1>1. {k \in 0 .. n : k \notin G} \in SUBSET Nat /\ {k \in 0 .. n : k \notin G} # {}
    OBVIOUS
  <1>2. PICK k \in {k \in 0 .. n : k \notin G} : \A j \in {j \in 0 .. n : j \notin G} : k <= j
    BY <1>1, Least
  <1>3. k - 1 \in 0 .. n - 1 /\ k - 1 \in G
    BY <1>2
  <1> QED BY <1>2, <1>3

\* The course of a loop of n rounds
Course(f, n, S, s, step) == f \in [0 .. n -> S] /\ f[0] = s /\ \A k \in 1 .. n : f[k] = step[f[k - 1]]

\* Every loop has one
LEMMA Rounds ==
    ASSUME NEW n \in Nat, NEW S, NEW step \in [S -> S], NEW s \in S
    PROVE  \E f : Course(f, n, S, s, step)
  <1> DEFINE G == {m \in 0 .. n : \E f : Course(f, m, S, s, step)}
  <1>1. 0 \in G
    <2>1. Course([k \in 0 .. 0 |-> s], 0, S, s, step)
      BY DEF Course
    <2> QED BY <2>1
  <1>2. ASSUME NEW m \in 0 .. n - 1, m \in G
        PROVE  m + 1 \in G
    <2>1. PICK f : Course(f, m, S, s, step)
      BY <1>2
    <2> DEFINE g == [k \in 0 .. m + 1 |-> IF k <= m THEN f[k] ELSE step[f[m]]]
    <2>2. Course(g, m + 1, S, s, step)
      BY <2>1 DEF Course
    <2> HIDE DEF g
    <2> QED BY <2>2
  <1>3. n \in G
    <2> HIDE DEF G
    <2> QED BY <1>1, <1>2, Stepwise
  <1> QED BY <1>3

-----------------------------------------------------------------------------
(* Groups as one sequence of items and the places where it is cut            *)

ItemType == [size : Sizes, offsets : SUBSET Nat]

Groups == Seq(Seq(ItemType))

\* The part of f behind place x, up to place y
Piece(a, f, x, y) ==
    /\ a \in Seq(ItemType) /\ x \in Nat /\ y \in Nat /\ Len(a) = y - x
    /\ \A j \in 1 .. Len(a) : a[j] = f[x + j]

\* How long a piece is
LEMMA PieceLen ==
    ASSUME NEW a, NEW f, NEW x, NEW y, Piece(a, f, x, y)
    PROVE  /\ a \in Seq(ItemType) /\ Len(a) \in Nat /\ DOMAIN a = 1 .. Len(a)
           /\ x \in Nat /\ y \in Nat /\ x <= y /\ Len(a) = y - x /\ y = x + Len(a)
  BY DEF Piece

\* An item of a piece is the one of f at its place
LEMMA PieceItem ==
    ASSUME NEW a, NEW f, NEW x, NEW y, Piece(a, f, x, y), NEW j \in Nat, 1 <= j, j <= y - x
    PROVE  a[j] = f[x + j] /\ a[j] \in ItemType
  BY DEF Piece

\* A piece is empty when its two places are the same
LEMMA PieceEmpty ==
    ASSUME NEW a, NEW f, NEW x, NEW y, Piece(a, f, x, y)
    PROVE  a = <<>> <=> x = y
  <1>1. a = <<>> <=> Len(a) = 0
    BY PieceLen, EmptySeq
  <1> QED BY <1>1, PieceLen

\* The empty piece
LEMMA NoPiece ==
    ASSUME NEW f, NEW x \in Nat
    PROVE  Piece(<<>>, f, x, x)
  BY DEF Piece

\* A piece of one item
LEMMA OnePiece ==
    ASSUME NEW f, NEW x \in Nat, f[x + 1] \in ItemType
    PROVE  Piece(<<f[x + 1]>>, f, x, x + 1)
  <1> DEFINE e == f[x + 1]
  <1> HIDE DEF e
  <1>1. e \in ItemType
    BY DEF e
  <1>2. <<e>> \in Seq(ItemType) /\ Len(<<e>>) = 1 /\ <<e>>[1] = e
    BY <1>1
  <1> QED BY <1>2 DEF Piece, e

\* What is needed of f for a piece is f there
LEMMA PieceOf ==
    ASSUME NEW f \in Seq(ItemType), NEW x \in Nat, NEW y \in Nat, x <= y, y <= Len(f)
    PROVE  Piece(SubSeq(f, x + 1, y), f, x, y)
  <1> DEFINE a == SubSeq(f, x + 1, y)
  <1>1. a \in Seq(ItemType) /\ Len(a) = y - (x + 1) + 1 /\ \A j \in 1 .. y - (x + 1) + 1 : a[j] = f[(x + 1) + j - 1]
    BY SubSeqIs
  <1> HIDE DEF a
  <1>2. ASSUME NEW j \in 1 .. Len(a)
        PROVE  a[j] = f[x + j]
    <2>1. (x + 1) + j - 1 = x + j /\ j \in 1 .. y - (x + 1) + 1
      BY <1>1
    <2> QED BY <1>1, <2>1
  <1>3. Len(a) = y - x
    BY <1>1
  <1> QED BY <1>1, <1>2, <1>3 DEF Piece, a

\* A piece is known by its places
LEMMA PieceSame ==
    ASSUME NEW a, NEW b, NEW f, NEW x, NEW y, Piece(a, f, x, y), Piece(b, f, x, y)
    PROVE  a = b
  <1>1. /\ a \in Seq(ItemType) /\ b \in Seq(ItemType) /\ Len(a) = Len(b)
        /\ \A j \in 1 .. Len(a) : a[j] = f[x + j]
        /\ \A j \in 1 .. Len(b) : b[j] = f[x + j]
    BY DEF Piece
  <1>2. \A j \in 1 .. Len(a) : a[j] = b[j]
    BY <1>1
  <1> QED BY <1>1, <1>2, SeqEqual

\* Two pieces that meet are one
LEMMA PieceJoin ==
    ASSUME NEW a, NEW b, NEW f, NEW x, NEW y, NEW z, Piece(a, f, x, y), Piece(b, f, y, z)
    PROVE  Piece(a \o b, f, x, z)
  <1> DEFINE ab == a \o b
  <1>1. /\ a \in Seq(ItemType) /\ b \in Seq(ItemType) /\ x \in Nat /\ y \in Nat /\ z \in Nat
        /\ Len(a) = y - x /\ Len(b) = z - y /\ Len(a) \in Nat /\ Len(b) \in Nat
        /\ \A j \in 1 .. Len(a) : a[j] = f[x + j]
        /\ \A j \in 1 .. Len(b) : b[j] = f[y + j]
    BY DEF Piece
  <1>2. /\ ab \in Seq(ItemType) /\ Len(ab) = Len(a) + Len(b)
        /\ \A j \in 1 .. Len(a) + Len(b) : ab[j] = IF j <= Len(a) THEN a[j] ELSE b[j - Len(a)]
    BY <1>1, ConcatProperties
  <1> HIDE DEF ab
  <1>3. ASSUME NEW j \in 1 .. Len(ab)
        PROVE  ab[j] = f[x + j]
    <2>1. CASE j <= Len(a)
      BY <1>1, <1>2, <2>1
    <2>2. CASE j > Len(a)
      <3>1. j - Len(a) \in 1 .. Len(b) /\ y + (j - Len(a)) = x + j
        BY <1>1, <1>2, <2>2
      <3>2. ab[j] = b[j - Len(a)]
        BY <1>1, <1>2, <2>2
      <3>3. b[j - Len(a)] = f[y + (j - Len(a))]
        BY <1>1, <3>1
      <3> QED BY <3>1, <3>2, <3>3
    <2> QED BY <1>1, <2>1, <2>2
  <1>4. Len(ab) = z - x
    BY <1>1, <1>2
  <1> QED BY <1>1, <1>2, <1>3, <1>4 DEF Piece, ab

\* A piece cut at a place inside it
LEMMA PieceSplit ==
    ASSUME NEW a, NEW f, NEW x, NEW y, NEW z, Piece(a, f, x, z), y \in Nat, x <= y, y <= z,
           NEW m, m = y - x
    PROVE  /\ Piece(SubSeq(a, 1, m), f, x, y)
           /\ Piece(SubSeq(a, m + 1, Len(a)), f, y, z)
  <1> DEFINE p == SubSeq(a, 1, m)
             q == SubSeq(a, m + 1, Len(a))
  <1>1. /\ a \in Seq(ItemType) /\ x \in Nat /\ z \in Nat /\ Len(a) = z - x /\ Len(a) \in Nat
        /\ \A j \in 1 .. Len(a) : a[j] = f[x + j]
    BY DEF Piece
  <1>2. m \in Nat /\ m <= Len(a)
    BY <1>1
  <1>3. p \in Seq(ItemType) /\ Len(p) = m /\ \A j \in 1 .. m : p[j] = a[j]
    BY <1>1, <1>2, SubSeqIs
  <1>4. q \in Seq(ItemType) /\ Len(q) = Len(a) - m /\ \A j \in 1 .. Len(a) - m : q[j] = a[m + j]
    <2>1. m + 1 \in Int /\ 1 <= m + 1 /\ Len(a) <= Len(a) /\ m + 1 <= Len(a) + 1 /\ Len(a) \in Int
      BY <1>1, <1>2
    <2>2. q \in Seq(ItemType) /\ Len(q) = Len(a) - (m + 1) + 1 /\ \A j \in 1 .. Len(a) - (m + 1) + 1 : q[j] = a[(m + 1) + j - 1]
      BY <1>1, <2>1, SubSeqIs
    <2> HIDE DEF q
    <2>3. Len(a) - (m + 1) + 1 = Len(a) - m /\ \A j \in 1 .. Len(a) - m : (m + 1) + j - 1 = m + j
      BY <1>1, <1>2
    <2> QED BY <2>2, <2>3
  <1> HIDE DEF p, q
  <1>5. Piece(p, f, x, y)
    BY <1>1, <1>2, <1>3 DEF Piece
  <1>6. ASSUME NEW j \in 1 .. Len(q)
        PROVE  q[j] = f[y + j]
    <2>1. m + j \in 1 .. Len(a) /\ x + (m + j) = y + j /\ j \in 1 .. Len(a) - m
      BY <1>1, <1>2, <1>4
    <2>2. q[j] = a[m + j] /\ a[m + j] = f[x + (m + j)]
      BY <1>1, <1>4, <2>1
    <2> QED BY <2>1, <2>2
  <1>7. Len(q) = z - y
    BY <1>1, <1>2, <1>4
  <1> QED BY <1>1, <1>4, <1>5, <1>6, <1>7 DEF Piece, p, q

\* Group u of g has the items of f behind place c[u - 1], up to place c[u]
Cut(g, f, c) ==
    /\ g \in Groups /\ f \in Seq(ItemType)
    /\ c \in [0 .. Len(g) -> Nat] /\ c[0] = 0 /\ c[Len(g)] = Len(f)
    /\ \A u \in 1 .. Len(g) : Piece(g[u], f, c[u - 1], c[u])

\* What is known of groups, of their items and of the cut
LEMMA CutTypes ==
    ASSUME NEW g, NEW f, NEW c, Cut(g, f, c)
    PROVE  /\ Len(g) \in Nat /\ DOMAIN g = 1 .. Len(g) /\ g \in Seq(Seq(ItemType))
           /\ Len(f) \in Nat /\ DOMAIN f = 1 .. Len(f) /\ f \in Seq(ItemType)
           /\ \A k \in 1 .. Len(f) : f[k] \in ItemType
           /\ \A u \in 0 .. Len(g) : c[u] \in Nat
           /\ DOMAIN c = 0 .. Len(g) /\ c[0] = 0 /\ c[Len(g)] = Len(f)
  <1>1. /\ g \in Seq(Seq(ItemType)) /\ f \in Seq(ItemType)
        /\ c \in [0 .. Len(g) -> Nat] /\ c[0] = 0 /\ c[Len(g)] = Len(f)
    BY DEF Cut, Groups
  <1>2. Len(g) \in Nat /\ DOMAIN g = 1 .. Len(g)
    BY <1>1
  <1>3. Len(f) \in Nat /\ DOMAIN f = 1 .. Len(f) /\ \A k \in 1 .. Len(f) : f[k] \in ItemType
    BY <1>1
  <1>4. DOMAIN c = 0 .. Len(g) /\ \A u \in 0 .. Len(g) : c[u] \in Nat
    BY <1>1
  <1> QED BY <1>1, <1>2, <1>3, <1>4

\* A group is the piece between its two places of the cut
LEMMA CutGroup ==
    ASSUME NEW g, NEW f, NEW c, Cut(g, f, c), NEW u \in 1 .. Len(g)
    PROVE  /\ Piece(g[u], f, c[u - 1], c[u])
           /\ c[u] \in Nat /\ c[u - 1] \in Nat /\ c[u - 1] <= c[u] /\ c[u] = c[u - 1] + Len(g[u])
           /\ g[u] \in Seq(ItemType) /\ Len(g[u]) \in Nat /\ DOMAIN g[u] = 1 .. Len(g[u])
           /\ g[u] = <<>> <=> c[u - 1] = c[u]
  <1>1. Piece(g[u], f, c[u - 1], c[u])
    BY DEF Cut
  <1>2. u \in 0 .. Len(g) /\ u - 1 \in 0 .. Len(g)
    BY CutTypes
  <1> QED BY <1>1, <1>2, PieceLen, PieceEmpty

\* The places of a cut ascend
LEMMA CutOrder ==
    ASSUME NEW g, NEW f, NEW c, Cut(g, f, c), NEW u \in 0 .. Len(g), NEW v \in 0 .. Len(g), u <= v
    PROVE  c[u] <= c[v]
  <1>1. Len(g) \in Nat
    BY CutTypes
  <1> DEFINE G == {k \in 0 .. Len(g) : u <= k => c[u] <= c[k]}
  <1>2. 0 \in G
    <2>1. u <= 0 => u = 0
      OBVIOUS
    <2> QED BY <1>1, <2>1, CutTypes
  <1>3. ASSUME NEW k \in 0 .. Len(g) - 1, k \in G
        PROVE  k + 1 \in G
    <2>1. k + 1 \in 1 .. Len(g) /\ (k + 1) - 1 = k /\ c[u] \in Nat
      BY <1>1, CutTypes
    <2> DEFINE m == k + 1
    <2>0. c[m - 1] \in Nat /\ c[m] \in Nat /\ c[m - 1] <= c[m]
      <3>1. m \in 1 .. Len(g)
        BY <2>1
      <3> HIDE DEF m
      <3> QED BY <3>1, CutGroup
    <2>2. c[k] \in Nat /\ c[k + 1] \in Nat /\ c[k] <= c[k + 1]
      BY <2>0, <2>1
    <2>3. u <= k + 1 => u = k + 1 \/ u <= k
      BY <1>1
    <2>4. ASSUME u <= k + 1 PROVE c[u] <= c[k + 1]
      <3>1. CASE u = k + 1
        BY <2>2, <3>1
      <3>2. CASE u <= k
        <4> DEFINE x == c[u]
                   y == c[k]
                   z == c[k + 1]
        <4>1. x <= y /\ y <= z /\ x \in Nat /\ y \in Nat /\ z \in Nat
          BY <1>3, <2>1, <2>2, <3>2
        <4> HIDE DEF x, y, z
        <4>2. x <= z
          BY <4>1
        <4> QED BY <4>2 DEF x, z
      <3> QED BY <2>3, <2>4, <3>1, <3>2
    <2> QED BY <1>1, <2>1, <2>4
  <1>4. \A k \in 0 .. Len(g) : k \in G
    <2> HIDE DEF G
    <2> QED BY <1>1, <1>2, <1>3, Stepwise
  <1> QED BY <1>4

\* Where an item is
LEMMA CutFind ==
    ASSUME NEW g, NEW f, NEW c, Cut(g, f, c), NEW k \in 1 .. Len(f)
    PROVE  \E u \in 1 .. Len(g) : c[u - 1] < k /\ k <= c[u]
  <1> DEFINE G == {u \in 0 .. Len(g) : k <= c[u]}
  <1>1. Len(g) \in Nat /\ Len(f) \in Nat
    BY CutTypes
  <1>2. Len(g) \in G /\ G \in SUBSET Nat /\ 0 \notin G
    BY <1>1, CutTypes
  <1>3. PICK u \in G : \A v \in G : u <= v
    <2> HIDE DEF G
    <2> QED BY <1>2, Least
  <1>4. u \in 1 .. Len(g) /\ k <= c[u]
    BY <1>1, <1>2, <1>3
  <1>5. u - 1 \notin G /\ u - 1 \in 0 .. Len(g)
    BY <1>1, <1>3, <1>4
  <1>6. c[u - 1] < k
    <2> DEFINE x == c[u - 1]
    <2>1. ~(k <= x)
      BY <1>5
    <2>2. x \in Nat
      BY <1>5, CutTypes
    <2>3. k \in Nat
      BY <1>1
    <2> HIDE DEF x
    <2>4. x < k
      BY <2>1, <2>2, <2>3
    <2> QED BY <2>4 DEF x
  <1> QED BY <1>4, <1>6

\* The place of an item of a group among all items
LEMMA CutItem ==
    ASSUME NEW g, NEW f, NEW c, Cut(g, f, c), NEW u \in 1 .. Len(g), NEW j \in 1 .. Len(g[u])
    PROVE  /\ c[u - 1] + j \in 1 .. Len(f) /\ c[u - 1] < c[u - 1] + j /\ c[u - 1] + j <= c[u]
           /\ g[u][j] = f[c[u - 1] + j] /\ g[u][j] \in ItemType
  <1>1. c[u] <= Len(f)
    <2>1. u \in 0 .. Len(g) /\ Len(g) \in 0 .. Len(g) /\ u <= Len(g)
      BY CutTypes
    <2> QED BY <2>1, CutOrder, CutTypes
  <1>2. /\ Piece(g[u], f, c[u - 1], c[u]) /\ c[u - 1] \in Nat /\ c[u] \in Nat /\ c[u] = c[u - 1] + Len(g[u])
        /\ Len(g[u]) \in Nat /\ Len(f) \in Nat
    BY CutGroup, CutTypes
  <1>3. j \in Nat /\ 1 <= j /\ j <= c[u] - c[u - 1]
    BY <1>2
  <1>4. g[u][j] = f[c[u - 1] + j] /\ g[u][j] \in ItemType
    BY <1>2, <1>3, PieceItem
  <1> DEFINE b == c[u - 1]
             e == c[u]
             l == Len(f)
  <1>5. b \in Nat /\ e \in Nat /\ l \in Nat /\ e <= l /\ j \in Nat /\ 1 <= j /\ j <= e - b
    BY <1>1, <1>2, <1>3
  <1> HIDE DEF b, e, l
  <1>6. b + j \in 1 .. l /\ b < b + j /\ b + j <= e
    BY <1>5
  <1> QED BY <1>4, <1>6 DEF b, e, l

\* The other way round
LEMMA ItemCut ==
    ASSUME NEW g, NEW f, NEW c, Cut(g, f, c), NEW u \in 1 .. Len(g), NEW k \in Nat, c[u - 1] < k, k <= c[u]
    PROVE  k \in 1 .. Len(f) /\ k - c[u - 1] \in 1 .. Len(g[u]) /\ g[u][k - c[u - 1]] = f[k]
  <1>1. c[u - 1] \in Nat /\ c[u] = c[u - 1] + Len(g[u]) /\ Len(g[u]) \in Nat
    BY CutGroup
  <1>2. k - c[u - 1] \in 1 .. Len(g[u]) /\ c[u - 1] + (k - c[u - 1]) = k
    BY <1>1
  <1> QED BY <1>2, CutItem

\* The loop of FlattenSeq
Flattening(h, g) == h = [i \in 1 .. Len(g) |-> IF i = 1 THEN g[i] ELSE h[i - 1] \o g[i]]

\* FlattenSeq ends with the last of its partial results
LEMMA FlattenLoop ==
    ASSUME NEW g, Len(g) # 0, \E h : Flattening(h, g)
    PROVE  \E h : Flattening(h, g) /\ FlattenSeq(g) = h[Len(g)]
  <1> DEFINE l == CHOOSE h : Flattening(h, g)
  <1>1. Flattening(l, g)
    OBVIOUS
  <1>2. FlattenSeq(g) = l[Len(g)]
    BY DEF FlattenSeq, Flattening
  <1> QED BY <1>1, <1>2

\* The groups one after the other are the sequence that is cut
LEMMA Flattened ==
    ASSUME NEW g, NEW f, NEW c, Cut(g, f, c)
    PROVE  FlattenSeq(g) = f
  <1> DEFINE n == Len(g)
             Upto(i) == SubSeq(f, 0 + 1, c[i])
             w == [i \in 1 .. n |-> Upto(i)]
  <1>1. n \in Nat /\ f \in Seq(ItemType) /\ Len(f) \in Nat /\ c[0] = 0 /\ c[n] = Len(f)
    BY CutTypes
  <1>2. Piece(f, f, 0, Len(f))
    BY <1>1 DEF Piece
  <1>3. CASE n = 0
    <2>1. f = <<>>
      BY <1>1, <1>2, <1>3, PieceEmpty
    <2>2. g = <<>>
      BY <1>3, CutTypes, EmptySeq
    <2> QED BY <1>3, <2>1, <2>2 DEF FlattenSeq
  <1>4. CASE n # 0
    <2>1. ASSUME NEW i \in 0 .. n
          PROVE  Piece(Upto(i), f, 0, c[i])
      <3>1. c[i] \in Nat /\ c[i] <= c[n]
        BY <1>1, CutOrder, CutTypes
      <3> QED BY <1>1, <3>1, PieceOf
    <2> HIDE DEF Upto
    <2>2. ASSUME NEW i \in 1 .. n
          PROVE  Upto(i - 1) \o g[i] = Upto(i)
      <3>1. i - 1 \in 0 .. n /\ i \in 0 .. n
        BY <1>1
      <3>2. Piece(Upto(i - 1), f, 0, c[i - 1]) /\ Piece(Upto(i), f, 0, c[i]) /\ Piece(g[i], f, c[i - 1], c[i])
        BY <2>1, <3>1, CutGroup
      <3>3. Piece(Upto(i - 1) \o g[i], f, 0, c[i])
        BY <3>2, PieceJoin
      <3> QED BY <3>2, <3>3, PieceSame
    <2>3. g[1] = Upto(1)
      <3>1. 1 \in 1 .. n /\ 1 \in 0 .. n /\ 1 - 1 = 0
        BY <1>1, <1>4
      <3>2. Piece(g[1], f, 0, c[1]) /\ Piece(Upto(1), f, 0, c[1])
        BY <1>1, <2>1, <3>1, CutGroup
      <3> QED BY <3>2, PieceSame
    <2>4. Flattening(w, g)
      <3>1. ASSUME NEW i \in 1 .. n
            PROVE  Upto(i) = IF i = 1 THEN g[i] ELSE w[i - 1] \o g[i]
        <4>1. i # 1 => i - 1 \in 1 .. n
          BY <1>1
        <4> QED BY <2>2, <2>3, <4>1
      <3> QED BY <3>1 DEF Flattening
    <2>5. PICK h : Flattening(h, g) /\ FlattenSeq(g) = h[n]
      BY <1>4, <2>4, FlattenLoop
    <2>6. ASSUME NEW i \in 1 .. n
          PROVE  h[i] = IF i = 1 THEN g[i] ELSE h[i - 1] \o g[i]
      BY <2>5 DEF Flattening
    <2> DEFINE G == {k \in 0 .. n : k # 0 => h[k] = Upto(k)}
    <2>7. 0 \in G
      BY <1>1
    <2>8. ASSUME NEW k \in 0 .. n - 1, k \in G
          PROVE  k + 1 \in G
      <3>1. k + 1 \in 1 .. n /\ k + 1 \in 0 .. n /\ (k + 1) - 1 = k
        BY <1>1
      <3>2. CASE k = 0
        BY <2>3, <2>6, <3>1, <3>2
      <3>3. CASE k # 0
        <4>1. h[k] = Upto(k)
          BY <2>8, <3>3
        <4>2. h[k + 1] = h[k] \o g[k + 1]
          <5>1. k + 1 # 1
            BY <3>3
          <5> QED BY <2>6, <3>1, <5>1
        <4>3. Upto(k) \o g[k + 1] = Upto(k + 1)
          BY <2>2, <3>1
        <4> QED BY <3>1, <4>1, <4>2, <4>3
      <3> QED BY <3>2, <3>3
    <2>9. \A k \in 0 .. n : k \in G
      <3> HIDE DEF G
      <3> QED BY <1>1, <2>7, <2>8, Stepwise
    <2>10. n \in 0 .. n
      BY <1>1
    <2>11. h[n] = Upto(n)
      BY <1>4, <2>9, <2>10
    <2>12. Upto(n) = f
      BY <1>1, <1>2, <2>1, <2>10, PieceSame
    <2> QED BY <2>5, <2>11, <2>12
  <1> QED BY <1>3, <1>4

-----------------------------------------------------------------------------
(* The place of a size among the items                                       *)

Sorted(f) == \A i, j \in 1 .. Len(f) : i < j => f[i].size < f[j].size

\* p items are smaller than the size, q not bigger
Rank(f, size, p, q) ==
    /\ p \in Nat /\ q \in Nat /\ p <= q /\ q <= p + 1 /\ q <= Len(f)
    /\ \A k \in 1 .. Len(f) : (f[k].size < size <=> k <= p) /\ (f[k].size > size <=> k > q)

\* The size of an item is a positive number
LEMMA SizeNat ==
    ASSUME NEW f \in Seq(ItemType), NEW k \in 1 .. Len(f)
    PROVE  f[k] \in ItemType /\ f[k].size \in Sizes /\ f[k].size \in Nat /\ f[k].size > 0
  <1>1. f[k] \in ItemType
    OBVIOUS
  <1>2. f[k].size \in Sizes
    BY <1>1 DEF ItemType
  <1>3. Sizes \subseteq Nat \ {0}
    BY BlockMapAssumption
  <1>4. f[k].size \in Nat \ {0}
    BY <1>2, <1>3
  <1> QED BY <1>1, <1>2, <1>4

\* A size is at most once among sorted items
LEMMA RankTypes ==
    ASSUME NEW f, NEW size, NEW p, NEW q, Rank(f, size, p, q)
    PROVE  p \in Nat /\ q \in Nat /\ p <= q /\ (q = p \/ q = p + 1) /\ q <= p + 1 /\ q <= Len(f)
  BY DEF Rank

\* How an item compares with a size, by their places
LEMMA RankItem ==
    ASSUME NEW f \in Seq(ItemType), NEW size \in Nat, NEW p, NEW q, Rank(f, size, p, q), NEW k \in 1 .. Len(f)
    PROVE  /\ f[k].size < size <=> k <= p
           /\ f[k].size > size <=> k > q
           /\ f[k].size = size <=> (p < k /\ k <= q)
           /\ f[k].size >= size <=> k > p
           /\ f[k].size <= size <=> k <= q
  <1>1. /\ f[k].size < size <=> k <= p
        /\ f[k].size > size <=> k > q
        /\ p \in Nat /\ q \in Nat /\ f[k].size \in Nat
    BY SizeNat DEF Rank
  <1> DEFINE e == f[k].size
  <1> HIDE DEF e
  <1>2. (e < size <=> k <= p) /\ (e > size <=> k > q) /\ p \in Nat /\ q \in Nat /\ e \in Nat
    BY <1>1 DEF e
  <1>3. /\ e = size <=> (p < k /\ k <= q)
        /\ e >= size <=> k > p
        /\ e <= size <=> k <= q
    BY <1>2
  <1> QED BY <1>2, <1>3 DEF e

\* Every size has a place in a sorted sequence
LEMMA RankExists ==
    ASSUME NEW f \in Seq(ItemType), Sorted(f), NEW size \in Nat
    PROVE  \E p, q : Rank(f, size, p, q)
  <1> DEFINE l == Len(f)
             P == {k \in 0 .. l : \A j \in 1 .. l : j > k => f[j].size >= size}
             Q == {k \in 0 .. l : \A j \in 1 .. l : j > k => f[j].size > size}
  <1>1. l \in Nat
    OBVIOUS
  <1>2. P \in SUBSET Nat /\ Q \in SUBSET Nat /\ l \in P /\ l \in Q
    BY <1>1
  <1>3. PICK p \in P : \A k \in P : p <= k
    <2> HIDE DEF P
    <2> QED BY <1>2, Least
  <1>4. PICK q \in Q : \A k \in Q : q <= k
    <2> HIDE DEF Q
    <2> QED BY <1>2, Least
  <1>5. \A k \in 1 .. l : f[k].size \in Nat
    BY SizeNat
  <1>6. p \in 0 .. l /\ q \in 0 .. l
    BY <1>3, <1>4
  <1>7. \A j \in 1 .. l : j > p => f[j].size >= size
    BY <1>3
  <1>8. \A j \in 1 .. l : j > q => f[j].size > size
    BY <1>4
  <1>9. ASSUME p > 0 PROVE f[p].size < size
    <2>1. p - 1 \notin P /\ p - 1 \in 0 .. l
      <3>1. p - 1 \in P => p <= p - 1
        BY <1>3
      <3> QED BY <1>6, <1>9, <3>1, <1>1
    <2>2. PICK j \in 1 .. l : j > p - 1 /\ ~(f[j].size >= size)
      BY <2>1
    <2>3. j = p
      BY <1>7, <1>6, <2>2
    <2> QED BY <1>5, <2>2, <2>3
  <1>10. ASSUME q > 0 PROVE f[q].size <= size
    <2>1. q - 1 \notin Q /\ q - 1 \in 0 .. l
      <3>1. q - 1 \in Q => q <= q - 1
        BY <1>4
      <3> QED BY <1>6, <1>10, <3>1, <1>1
    <2>2. PICK j \in 1 .. l : j > q - 1 /\ ~(f[j].size > size)
      BY <2>1
    <2>3. j = q
      BY <1>8, <1>6, <2>2
    <2> QED BY <1>5, <2>2, <2>3
  <1> HIDE DEF P, Q
  <1>11. ASSUME NEW i \in 1 .. l, NEW j \in 1 .. l, i < j
         PROVE  f[i].size < f[j].size
    BY <1>11 DEF Sorted
  <1>12. \A k \in 1 .. l : k <= p => f[k].size < size
    <2> SUFFICES ASSUME NEW k \in 1 .. l, k <= p PROVE f[k].size < size
      OBVIOUS
    <2>1. p \in 1 .. l /\ p > 0 /\ f[p].size < size
      BY <1>6, <1>9
    <2>2. k = p \/ f[k].size < f[p].size
      BY <1>11, <2>1
    <2> QED BY <1>5, <2>1, <2>2
  <1>13. \A k \in 1 .. l : k <= q => f[k].size <= size
    <2> SUFFICES ASSUME NEW k \in 1 .. l, k <= q PROVE f[k].size <= size
      OBVIOUS
    <2>1. q \in 1 .. l /\ q > 0 /\ f[q].size <= size
      BY <1>6, <1>10
    <2>2. k = q \/ f[k].size < f[q].size
      BY <1>11, <2>1
    <2> QED BY <1>5, <2>1, <2>2
  <1>14. p <= q
    <2>1. SUFFICES ASSUME q < p PROVE FALSE
      BY <1>6
    <2>2. p \in 1 .. l /\ p > 0
      BY <1>6, <2>1
    <2> QED BY <1>5, <1>8, <1>9, <2>1, <2>2
  <1>15. q <= p + 1
    <2>1. SUFFICES ASSUME q > p + 1 PROVE FALSE
      BY <1>6
    <2>2. p + 1 \in 1 .. l /\ q \in 1 .. l /\ p + 1 < q /\ p + 1 > p /\ q > 0
      BY <1>6, <2>1
    <2>3. f[p + 1].size < f[q].size
      BY <1>11, <2>2
    <2>4. f[p + 1].size >= size
      BY <1>7, <2>2
    <2> QED BY <1>5, <1>10, <2>2, <2>3, <2>4
  <1>16. ASSUME NEW k \in 1 .. l
         PROVE  (f[k].size < size <=> k <= p) /\ (f[k].size > size <=> k > q)
    <2> DEFINE e == f[k].size
    <2>1. e \in Nat /\ (k <= p => e < size) /\ (k > p => e >= size) /\ (k <= q => e <= size) /\ (k > q => e > size)
      BY <1>5, <1>7, <1>8, <1>12, <1>13
    <2> HIDE DEF e
    <2>2. (e < size <=> k <= p) /\ (e > size <=> k > q)
      BY <1>6, <2>1
    <2> QED BY <2>2 DEF e
  <1>17. Rank(f, size, p, q)
    BY <1>6, <1>14, <1>15, <1>16 DEF Rank
  <1> QED BY <1>17

-----------------------------------------------------------------------------
(* The search in a group                                                     *)

ItemStates == [start : Int, end : Int, last : Int]

ItemSearch(h, group, size) ==
    h = [k \in 0 .. Len(group) |->
            IF k = 0 THEN [start |-> 1, end |-> Len(group) + 1, last |-> 1]
            ELSE ItemStep(group, size, h[k - 1])]

\* The states the search in a group goes through
LEMMA ItemCourse ==
    ASSUME NEW group \in Seq(ItemType), NEW size \in Nat
    PROVE  \E h : /\ h \in [0 .. Len(group) -> ItemStates]
                  /\ h[0] = [start |-> 1, end |-> Len(group) + 1, last |-> 1]
                  /\ \A k \in 1 .. Len(group) : h[k] = ItemStep(group, size, h[k - 1])
                  /\ ItemPos(group, size) = h[Len(group)].last
  <1> DEFINE n == Len(group)
             s0 == [start |-> 1, end |-> n + 1, last |-> 1]
             step == [s \in ItemStates |-> ItemStep(group, size, s)]
  <1>1. n \in Nat /\ s0 \in ItemStates
    BY DEF ItemStates
  <1>2. ASSUME NEW s \in ItemStates
        PROVE  ItemStep(group, size, s) \in ItemStates
    <2> DEFINE pos == s.start + (s.end - s.start) \div 2
    <2>1. s.start \in Int /\ s.end \in Int /\ s.last \in Int /\ pos \in Int
      BY DEF ItemStates
    <2>2. ItemStep(group, size, s) = IF s.start >= s.end THEN s
                ELSE IF group[pos].size > size THEN [start |-> s.start, end |-> pos, last |-> pos]
                ELSE IF group[pos].size < size THEN [start |-> pos + 1, end |-> s.end, last |-> pos]
                ELSE [start |-> pos, end |-> pos, last |-> pos]
      BY DEF ItemStep
    <2> HIDE DEF pos
    <2> QED BY <2>1, <2>2 DEF ItemStates
  <1>3. step \in [ItemStates -> ItemStates]
    BY <1>2
  <1>4. PICK f : Course(f, n, ItemStates, s0, step)
    <2> HIDE DEF s0, step
    <2> QED BY <1>1, <1>3, Rounds
  <1>5. /\ f \in [0 .. n -> ItemStates] /\ f[0] = s0
        /\ \A k \in 1 .. n : f[k] = ItemStep(group, size, f[k - 1])
    <2>1. f \in [0 .. n -> ItemStates] /\ f[0] = s0 /\ \A k \in 1 .. n : f[k] = step[f[k - 1]]
      BY <1>4 DEF Course
    <2>2. \A k \in 1 .. n : f[k - 1] \in ItemStates
      BY <1>1, <2>1
    <2> QED BY <2>1, <2>2
  <1>6. ItemSearch(f, group, size)
    <2>1. \A k \in 0 .. n : f[k] = IF k = 0 THEN s0 ELSE ItemStep(group, size, f[k - 1])
      BY <1>1, <1>5
    <2> QED BY <1>5, <2>1 DEF ItemSearch
  <1> DEFINE h == CHOOSE h : ItemSearch(h, group, size)
  <1>7. ItemSearch(h, group, size)
    BY <1>6
  <1>8. ItemPos(group, size) = h[n].last
    BY DEF ItemPos, ItemSearch
  <1> HIDE DEF h
  <1>9. /\ h[0] = s0 /\ \A k \in 1 .. n : h[k] = ItemStep(group, size, h[k - 1])
        /\ h = [k \in 0 .. n |-> h[k]]
    BY <1>1, <1>7 DEF ItemSearch
  <1> DEFINE G == {k \in 0 .. n : h[k] = f[k]}
  <1>10. 0 \in G
    BY <1>1, <1>5, <1>9
  <1>11. ASSUME NEW k \in 0 .. n - 1, k \in G PROVE k + 1 \in G
    <2>1. k + 1 \in 1 .. n /\ (k + 1) - 1 = k /\ k + 1 \in 0 .. n
      BY <1>1
    <2>2. h[k + 1] = ItemStep(group, size, h[k]) /\ f[k + 1] = ItemStep(group, size, f[k])
      BY <1>5, <1>9, <2>1
    <2> QED BY <1>11, <2>1, <2>2
  <1>12. \A k \in 0 .. n : k \in G
    <2> HIDE DEF G
    <2> QED BY <1>1, <1>10, <1>11, Stepwise
  <1>13. h \in [0 .. n -> ItemStates]
    BY <1>5, <1>9, <1>12
  <1> QED BY <1>8, <1>9, <1>13

\* What the search keeps: it narrows the place of the size down, and has looked
\* next to what is left last
Near(start, end, last, x, n, p, r) ==
    /\ start \in Int /\ end \in Int /\ last \in Int
    /\ 1 <= start /\ start <= end /\ end <= n + 1 /\ 1 <= last /\ last <= n
    /\ \/ x + start - 1 <= p /\ x + end > r
          /\ (last = end \/ last = start - 1 \/ (start = 1 /\ end = n + 1))
       \/ r = p + 1 /\ start = end /\ x + last = r

\* The middle lies in the interval
LEMMA HalfWay ==
    ASSUME NEW v \in Int, NEW w \in Int, v < w
    PROVE  v + (w - v) \div 2 \in Int /\ v <= v + (w - v) \div 2 /\ v + (w - v) \div 2 < w
  OBVIOUS

\* A look at the middle keeps the place of the size between the ends
LEMMA NearStep ==
    ASSUME NEW start, NEW end, NEW last, NEW x \in Nat, NEW n \in Nat, NEW p \in Nat, NEW r \in Nat,
           p <= r, r <= p + 1, Near(start, end, last, x, n, p, r), start < end,
           NEW pos \in Int, start <= pos, pos < end
    PROVE  /\ 1 <= pos /\ pos <= n
           /\ x + pos > r => Near(start, pos, pos, x, n, p, r)
           /\ x + pos <= p => Near(pos + 1, end, pos, x, n, p, r)
           /\ p < x + pos /\ x + pos <= r => Near(pos, pos, pos, x, n, p, r)
  BY DEF Near

\* When the ends meet, the last look was next to the place, or at the size
LEMMA NearEnd ==
    ASSUME NEW start, NEW end, NEW last, NEW x \in Nat, NEW n \in Nat, NEW p \in Nat, NEW r \in Nat, n > 0,
           p <= r, r <= p + 1, Near(start, end, last, x, n, p, r), start >= end
    PROVE  /\ last \in 1 .. n
           /\ x + last = p \/ x + last = p + 1
           /\ p < r => x + last = r
  BY DEF Near

\* Within a group: the position of the size, or one next to its place
LEMMA ItemPosIs ==
    ASSUME NEW a, NEW f \in Seq(ItemType), NEW x, NEW y, Piece(a, f, x, y), x < y, y <= Len(f),
           NEW size \in Nat, NEW p, NEW q, Rank(f, size, p, q), x <= p, p <= y
    PROVE  /\ ItemPos(a, size) \in 1 .. Len(a)
           /\ x + ItemPos(a, size) = p \/ x + ItemPos(a, size) = p + 1
           /\ p < q /\ p < y => x + ItemPos(a, size) = q
  <1> DEFINE n == Len(a)
             r == IF p = y THEN p ELSE q
  <1>1. a \in Seq(ItemType) /\ n \in Nat /\ x \in Nat /\ y \in Nat /\ n = y - x /\ n > 0
    BY PieceLen
  <1>2. PICK h : /\ h \in [0 .. n -> ItemStates]
                 /\ h[0] = [start |-> 1, end |-> n + 1, last |-> 1]
                 /\ \A k \in 1 .. n : h[k] = ItemStep(a, size, h[k - 1])
                 /\ ItemPos(a, size) = h[n].last
    BY <1>1, ItemCourse
  <1>q. p \in Nat /\ q \in Nat /\ p <= q /\ (q = p \/ q = p + 1)
    BY RankTypes
  <1>3. r \in Nat /\ p <= r /\ r <= p + 1 /\ r <= y /\ (p < q /\ p < y => r = q)
    BY <1>1, <1>q
  <1> DEFINE N(s) == Near(s.start, s.end, s.last, x, n, p, r)
             G == {k \in 0 .. n : N(h[k]) /\ (h[k].start < h[k].end => h[k].end - h[k].start <= n - k)}
  <1>4. 0 \in G
    <2> DEFINE s == h[0]
    <2>1. s.start = 1 /\ s.end = n + 1 /\ s.last = 1
      BY <1>2
    <2> HIDE DEF r
    <2>2. Near(1, n + 1, 1, x, n, p, r)
      <3> HIDE DEF n
      <3> QED BY <1>1, <1>3, <1>q DEF Near
    <2> QED BY <1>1, <2>1, <2>2
  <1>5. ASSUME NEW k \in 0 .. n - 1, k \in G PROVE k + 1 \in G
    <2> DEFINE s == h[k]
               t == h[k + 1]
               pos == s.start + (s.end - s.start) \div 2
               e == a[pos].size
    <2>1. k + 1 \in 1 .. n /\ k + 1 \in 0 .. n /\ (k + 1) - 1 = k /\ k \in 0 .. n
      BY <1>1
    <2>2. t = ItemStep(a, size, s)
      BY <1>2, <2>1
    <2>3. t = IF s.start >= s.end THEN s
                ELSE IF e > size THEN [start |-> s.start, end |-> pos, last |-> pos]
                ELSE IF e < size THEN [start |-> pos + 1, end |-> s.end, last |-> pos]
                ELSE [start |-> pos, end |-> pos, last |-> pos]
      BY <2>2 DEF ItemStep
    <2>4. N(s) /\ (s.start < s.end => s.end - s.start <= n - k)
      BY <1>5
    <2>5. s.start \in Int /\ s.end \in Int
      <3> HIDE DEF s
      <3> QED BY <2>4 DEF Near
    <2>6. CASE s.start >= s.end
      <3>1. t = s /\ ~(s.start < s.end)
        BY <2>3, <2>5, <2>6
      <3> QED BY <2>1, <2>4, <3>1
    <2>7. CASE s.start < s.end
      <3>1. pos \in Int /\ s.start <= pos /\ pos < s.end
        <4> HIDE DEF s
        <4> QED BY <2>5, <2>7, HalfWay
      <3> HIDE DEF pos, r
      <3>2. /\ 1 <= pos /\ pos <= n
            /\ x + pos > r => Near(s.start, pos, pos, x, n, p, r)
            /\ x + pos <= p => Near(pos + 1, s.end, pos, x, n, p, r)
            /\ p < x + pos /\ x + pos <= r => Near(pos, pos, pos, x, n, p, r)
        <4> DEFINE st == s.start
                   en == s.end
                   la == s.last
        <4>1. /\ Near(st, en, la, x, n, p, r) /\ st < en /\ st <= pos /\ pos < en /\ pos \in Int
              /\ x \in Nat /\ n \in Nat /\ p \in Nat /\ r \in Nat /\ p <= r /\ r <= p + 1
          BY <1>1, <1>3, <1>q, <2>4, <2>7, <3>1
        <4> HIDE DEF st, en, la, n
        <4>2. /\ 1 <= pos /\ pos <= n
              /\ x + pos > r => Near(st, pos, pos, x, n, p, r)
              /\ x + pos <= p => Near(pos + 1, en, pos, x, n, p, r)
              /\ p < x + pos /\ x + pos <= r => Near(pos, pos, pos, x, n, p, r)
          BY <4>1, NearStep
        <4> QED BY <4>2 DEF st, en
      <3>3. a[pos] = f[x + pos] /\ x + pos \in 1 .. Len(f) /\ x + pos \in Nat /\ x + pos <= y
        <4>1. pos \in Nat /\ 1 <= pos /\ pos <= y - x
          BY <1>1, <3>1, <3>2
        <4>2. x + pos \in 1 .. Len(f) /\ x + pos <= y /\ x + pos \in Nat
          <5>1. Len(f) \in Nat
            OBVIOUS
          <5> QED BY <1>1, <4>1, <5>1
        <4> QED BY <4>1, <4>2, PieceItem
      <3>4. /\ e \in Nat
            /\ e < size <=> x + pos <= p
            /\ e > size <=> x + pos > r
            /\ e = size <=> (p < x + pos /\ x + pos <= r)
        <4> DEFINE m == x + pos
        <4>1. m \in 1 .. Len(f) /\ e = f[m].size /\ m \in Nat /\ m <= y
          BY <3>3
        <4> HIDE DEF m, e
        <4>2. /\ e \in Nat
              /\ e < size <=> m <= p
              /\ e > size <=> m > q
              /\ e = size <=> (p < m /\ m <= q)
          BY <4>1, SizeNat, RankItem
        <4>3. (m > q <=> m > r) /\ (m <= q <=> m <= r)
          BY <1>1, <1>q, <4>1 DEF r
        <4> QED BY <4>2, <4>3 DEF m
      <3> HIDE DEF e, s, t, G, n
      <3>5. CASE e > size
        <4>1. t.start = s.start /\ t.end = pos /\ t.last = pos
          BY <2>3, <2>5, <2>7, <3>4, <3>5
        <4>2. N(t) /\ t.end - t.start <= n - (k + 1)
          BY <1>1, <2>4, <2>5, <2>7, <3>1, <3>2, <3>4, <3>5, <4>1
        <4> QED BY <2>1, <4>2 DEF G, t
      <3>6. CASE e < size
        <4>1. t.start = pos + 1 /\ t.end = s.end /\ t.last = pos
          BY <2>3, <2>5, <2>7, <3>4, <3>6
        <4>2. N(t) /\ t.end - t.start <= n - (k + 1)
          BY <1>1, <2>4, <2>5, <2>7, <3>1, <3>2, <3>4, <3>6, <4>1
        <4> QED BY <2>1, <4>2 DEF G, t
      <3>7. CASE e = size
        <4>1. t.start = pos /\ t.end = pos /\ t.last = pos
          BY <2>3, <2>5, <2>7, <3>4, <3>7
        <4>2. N(t) /\ ~(t.start < t.end)
          BY <3>1, <3>2, <3>4, <3>7, <4>1
        <4> QED BY <2>1, <4>2 DEF G, t
      <3> QED BY <3>4, <3>5, <3>6, <3>7
    <2> QED BY <2>5, <2>6, <2>7
  <1>6. \A k \in 0 .. n : k \in G
    <2> HIDE DEF G
    <2> QED BY <1>1, <1>4, <1>5, Stepwise
  <1> DEFINE s == h[n]
  <1>7. n \in G /\ n \in 0 .. n
    BY <1>1, <1>6
  <1>8. N(s) /\ (s.start < s.end => s.end - s.start <= n - n)
    BY <1>7
  <1> HIDE DEF s, r
  <1>9. s.start >= s.end
    BY <1>1, <1>8 DEF Near
  <1>10. /\ s.last \in 1 .. n
         /\ x + s.last = p \/ x + s.last = p + 1
         /\ p < r => x + s.last = r
    <2> DEFINE st == s.start
               en == s.end
               la == s.last
    <2>1. /\ Near(st, en, la, x, n, p, r) /\ st >= en /\ n > 0
          /\ x \in Nat /\ n \in Nat /\ p \in Nat /\ r \in Nat /\ p <= r /\ r <= p + 1
      BY <1>1, <1>3, <1>q, <1>8, <1>9
    <2> HIDE DEF st, en, la, n
    <2> QED BY <2>1, NearEnd DEF la
  <1> QED BY <1>2, <1>3, <1>q, <1>10 DEF s

\* ... and for a size that is in the group, its place
LEMMA ItemPosHit ==
    ASSUME NEW a, NEW f \in Seq(ItemType), NEW x, NEW y, Piece(a, f, x, y), y <= Len(f), NEW size \in Nat,
           NEW p, NEW q, Rank(f, size, p, q), x <= p, p < y, p < q, NEW pos, pos = ItemPos(a, size)
    PROVE  pos \in 1 .. Len(a) /\ x + pos = q
  <1>1. x < y /\ p <= y
    BY PieceLen, RankTypes
  <1> QED BY <1>1, ItemPosIs

-----------------------------------------------------------------------------
(* The search among the groups                                               *)

NoneEmpty(g) == \A u \in 1 .. Len(g) : g[u] # <<>>

\* The sizes at the ends of a group
LEMMA GroupEnds ==
    ASSUME NEW g, NEW f, NEW c, Cut(g, f, c), NEW size \in Nat, NEW p, NEW q, Rank(f, size, p, q),
           NEW u \in 1 .. Len(g), g[u] # <<>>
    PROVE  /\ c[u - 1] < c[u] /\ g[u][1] = f[c[u - 1] + 1] /\ Last(g[u]) = f[c[u]]
           /\ g[u][1].size > size <=> q <= c[u - 1]
           /\ g[u][1].size >= size <=> p <= c[u - 1]
           /\ Last(g[u]).size < size <=> c[u] <= p
           /\ Last(g[u]).size <= size <=> c[u] <= q
  <1> DEFINE l == Len(g[u])
             b == c[u - 1]
             e == c[u]
  <1>1. b \in Nat /\ e \in Nat /\ l \in Nat /\ e = b + l /\ b # e /\ f \in Seq(ItemType)
    BY CutGroup, CutTypes
  <1>2. l > 0 /\ 1 \in 1 .. l /\ l \in 1 .. l
    BY <1>1
  <1>3. b + 1 \in 1 .. Len(f) /\ g[u][1] = f[b + 1]
    BY <1>2, CutItem
  <1>4. b + l \in 1 .. Len(f) /\ g[u][l] = f[b + l]
    BY <1>2, CutItem
  <1>5. Last(g[u]) = g[u][l]
    BY DEF Last
  <1>6. p \in Nat /\ q \in Nat
    BY RankTypes
  <1> HIDE DEF l, b, e
  <1>7. e \in 1 .. Len(f) /\ Last(g[u]) = f[e]
    BY <1>1, <1>4, <1>5
  <1>8. /\ f[b + 1].size > size <=> b + 1 > q
        /\ f[b + 1].size >= size <=> b + 1 > p
    <2> DEFINE m == b + 1
    <2>1. m \in 1 .. Len(f)
      BY <1>3
    <2> HIDE DEF m
    <2>2. /\ f[m].size > size <=> m > q
          /\ f[m].size >= size <=> m > p
      BY <1>1, <2>1, RankItem
    <2> QED BY <2>2 DEF m
  <1>9. /\ f[e].size < size <=> e <= p
        /\ f[e].size <= size <=> e <= q
    BY <1>1, <1>7, RankItem
  <1>10. (b + 1 > q <=> q <= b) /\ (b + 1 > p <=> p <= b) /\ b < e
    BY <1>1, <1>2, <1>6
  <1> QED BY <1>3, <1>7, <1>8, <1>9, <1>10 DEF b, e

ProbeStates == [start : Int, end : Int, empty : Int, last : Int, hit : BOOLEAN, over : BOOLEAN]

ProbeStart(n) == [start |-> 0, end |-> n, empty |-> 0, last |-> 0, hit |-> FALSE, over |-> FALSE]

ProbeSearch(h, groups, size) ==
    h = [k \in 0 .. 2 * Len(groups) |->
            IF k = 0 THEN ProbeStart(Len(groups)) ELSE ProbeStep(groups, size, h[k - 1])]

\* A state of the search with other numbers is one
LEMMA ProbeChanged ==
    ASSUME NEW s \in ProbeStates, NEW i \in Int, NEW j \in Int, NEW l \in Int
    PROVE  /\ [s EXCEPT !.end = i, !.empty = j, !.last = l] \in ProbeStates
           /\ [s EXCEPT !.start = i, !.empty = j, !.last = l] \in ProbeStates
  BY DEF ProbeStates

\* A step of the search leads to a state of it
LEMMA ProbeStepType ==
    ASSUME NEW groups, NEW size, NEW s \in ProbeStates
    PROVE  ProbeStep(groups, size, s) \in ProbeStates
  <1> DEFINE half == (s.end - s.start) \div 2
             pos == s.start + half + s.empty
             group == groups[pos + 1]
             back == IF s.empty < 0 THEN s.empty - 1 ELSE -1
             o == half + back < s.start
  <1>1. s.start \in Int /\ s.end \in Int /\ s.empty \in Int /\ s.last \in Int /\ half \in Int
    BY DEF ProbeStates
  <1>2. pos \in Int /\ back \in Int /\ o \in BOOLEAN /\ pos + 1 \in Int /\ s.empty + 1 \in Int
    BY <1>1
  <1>3. ProbeStep(groups, size, s) =
            IF s.over \/ s.start >= s.end THEN s
            ELSE IF group = <<>> THEN
                 IF s.empty >= 0 /\ half + s.empty + 1 < s.end
                 THEN [s EXCEPT !.empty = s.empty + 1, !.last = pos]
                 ELSE [s EXCEPT !.empty = back, !.last = pos, !.over = o]
            ELSE IF group[1].size > size THEN [s EXCEPT !.end = pos, !.empty = 0, !.last = pos]
            ELSE IF Last(group).size < size THEN [s EXCEPT !.start = pos + 1, !.empty = 0, !.last = pos]
            ELSE [s EXCEPT !.start = pos, !.last = pos, !.hit = TRUE, !.over = TRUE]
    BY DEF ProbeStep
  <1> HIDE DEF half, pos, group, back, o
  <1>4. [s EXCEPT !.empty = s.empty + 1, !.last = pos] \in ProbeStates
    BY <1>2 DEF ProbeStates
  <1>5. [s EXCEPT !.empty = back, !.last = pos, !.over = o] \in ProbeStates
    BY <1>2 DEF ProbeStates
  <1>6. [s EXCEPT !.end = pos, !.empty = 0, !.last = pos] \in ProbeStates
    <2>1. 0 \in Int
      OBVIOUS
    <2> QED BY <1>2, <2>1, ProbeChanged
  <1>7. [s EXCEPT !.start = pos + 1, !.empty = 0, !.last = pos] \in ProbeStates
    <2>1. 0 \in Int
      OBVIOUS
    <2> QED BY <1>2, <2>1, ProbeChanged
  <1>8. [s EXCEPT !.start = pos, !.last = pos, !.hit = TRUE, !.over = TRUE] \in ProbeStates
    BY <1>2 DEF ProbeStates
  <1> QED BY <1>3, <1>4, <1>5, <1>6, <1>7, <1>8

\* The states the search of the parent group goes through
LEMMA ProbeCourse ==
    ASSUME NEW groups, Len(groups) \in Nat, NEW size
    PROVE  \E h : /\ h \in [0 .. 2 * Len(groups) -> ProbeStates]
                  /\ h[0] = ProbeStart(Len(groups))
                  /\ \A k \in 1 .. 2 * Len(groups) : h[k] = ProbeStep(groups, size, h[k - 1])
                  /\ Probe(groups, size) = h[2 * Len(groups)]
  <1> DEFINE l == Len(groups)
             n == 2 * l
             s0 == ProbeStart(l)
             step == [s \in ProbeStates |-> ProbeStep(groups, size, s)]
  <1>1. l \in Nat /\ n \in Nat
    OBVIOUS
  <1>2. s0 \in ProbeStates
    BY DEF ProbeStates, ProbeStart
  <1>3. step \in [ProbeStates -> ProbeStates]
    BY ProbeStepType
  <1>4. PICK f : Course(f, n, ProbeStates, s0, step)
    <2> HIDE DEF s0, step, n
    <2> QED BY <1>1, <1>2, <1>3, Rounds
  <1>5. /\ f \in [0 .. n -> ProbeStates] /\ f[0] = s0
        /\ \A k \in 1 .. n : f[k] = ProbeStep(groups, size, f[k - 1])
    <2> HIDE DEF s0, n
    <2>1. f \in [0 .. n -> ProbeStates] /\ f[0] = s0 /\ \A k \in 1 .. n : f[k] = step[f[k - 1]]
      BY <1>4 DEF Course
    <2>2. \A k \in 1 .. n : f[k - 1] \in ProbeStates
      BY <1>1, <2>1
    <2> QED BY <2>1, <2>2
  <1>6. ProbeSearch(f, groups, size)
    <2>1. \A k \in 0 .. n : f[k] = IF k = 0 THEN s0 ELSE ProbeStep(groups, size, f[k - 1])
      BY <1>1, <1>5
    <2> QED BY <1>5, <2>1 DEF ProbeSearch
  <1> DEFINE h == CHOOSE h : ProbeSearch(h, groups, size)
  <1>7. ProbeSearch(h, groups, size)
    BY <1>6
  <1>8. Probe(groups, size) = h[n]
    BY DEF Probe, ProbeSearch, ProbeStart
  <1> HIDE DEF h, s0, n
  <1>9. /\ h[0] = s0 /\ \A k \in 1 .. n : h[k] = ProbeStep(groups, size, h[k - 1])
        /\ h = [k \in 0 .. n |-> h[k]]
    <2>1. h = [k \in 0 .. n |-> IF k = 0 THEN s0 ELSE ProbeStep(groups, size, h[k - 1])]
      BY <1>7 DEF ProbeSearch, s0, n
    <2>2. DOMAIN h = 0 .. n /\ \A k \in 0 .. n : h[k] = IF k = 0 THEN s0 ELSE ProbeStep(groups, size, h[k - 1])
      BY <2>1
    <2>3. 0 \in 0 .. n /\ \A k \in 1 .. n : k \in 0 .. n /\ k # 0
      BY <1>1
    <2>4. h = [k \in 0 .. n |-> h[k]]
      BY <2>1, <2>2
    <2> QED BY <2>2, <2>3, <2>4
  <1> DEFINE G == {k \in 0 .. n : h[k] = f[k]}
  <1>10. 0 \in G
    BY <1>1, <1>5, <1>9
  <1>11. ASSUME NEW k \in 0 .. n - 1, k \in G PROVE k + 1 \in G
    <2>1. k + 1 \in 1 .. n /\ (k + 1) - 1 = k /\ k + 1 \in 0 .. n
      BY <1>1
    <2>2. h[k + 1] = ProbeStep(groups, size, h[k]) /\ f[k + 1] = ProbeStep(groups, size, f[k])
      BY <1>5, <1>9, <2>1
    <2> QED BY <1>11, <2>1, <2>2
  <1>12. \A k \in 0 .. n : k \in G
    <2> HIDE DEF G
    <2> QED BY <1>1, <1>10, <1>11, Stepwise
  <1>13. h \in [0 .. n -> ProbeStates]
    BY <1>5, <1>9, <1>12
  <1> QED BY <1>8, <1>9, <1>13 DEF s0, n

\* What the search keeps while it looks
Nearing(start, end, last, n, c, p, q) ==
    /\ start \in Int /\ end \in Int /\ last \in Int
    /\ 0 <= start /\ start <= end /\ end <= n /\ 0 <= last /\ last < n
    /\ c[start] <= p /\ q <= c[end]
    /\ last = end \/ last = start - 1 \/ (start = 0 /\ end = n)

\* ... and when it has found the group
Hitting(last, n, c, p, q) ==
    last \in Int /\ 0 <= last /\ last < n /\ c[last] < q /\ p < c[last + 1]

\* The search of groups none of which is empty: it hits the group with the size, or ends at the gap
LEMMA ProbeIs ==
    ASSUME NEW g, NEW f, NEW c, Cut(g, f, c), Len(g) > 0, NoneEmpty(g),
           NEW size \in Nat, NEW p, NEW q, Rank(f, size, p, q),
           NEW s, s = Probe(g, size)
    PROVE  /\ s.last \in 0 .. Len(g) - 1 /\ s.hit \in BOOLEAN
           /\ s.hit => s.start = s.last /\ c[s.last] < q /\ p < c[s.last + 1]
           /\ ~s.hit => /\ s.start \in 0 .. Len(g) /\ p = c[s.start] /\ q = p
                        /\ s.last = s.start \/ s.last = s.start - 1
  <1> DEFINE n == Len(g)
             m == 2 * n
  <1>1. n \in Nat /\ n > 0 /\ m \in Nat /\ m >= n /\ p \in Nat /\ q \in Nat /\ p <= q /\ q <= Len(f)
    BY CutTypes, RankTypes
  <1>2. PICK h : /\ h \in [0 .. m -> ProbeStates]
                 /\ h[0] = ProbeStart(n)
                 /\ \A k \in 1 .. m : h[k] = ProbeStep(g, size, h[k - 1])
                 /\ Probe(g, size) = h[m]
    BY <1>1, ProbeCourse
  <1> DEFINE P(t) == /\ t.empty = 0 /\ t.hit = t.over
                     /\ ~t.over => Nearing(t.start, t.end, t.last, n, c, p, q)
                     /\ t.over => t.start = t.last /\ Hitting(t.last, n, c, p, q)
             G == {k \in 0 .. m : P(h[k]) /\ (~h[k].over /\ h[k].start < h[k].end => h[k].end - h[k].start <= n - k)}
  <1>3. 0 \in G
    <2>1. c[0] = 0 /\ c[n] = Len(f)
      BY CutTypes
    <2>2. Nearing(0, n, 0, n, c, p, q)
      <3> HIDE DEF n, m
      <3> QED BY <1>1, <2>1 DEF Nearing
    <2> DEFINE v == h[0]
    <2>3. v.start = 0 /\ v.end = n /\ v.last = 0 /\ v.empty = 0 /\ v.hit = FALSE /\ v.over = FALSE
      BY <1>2 DEF ProbeStart
    <2> HIDE DEF v
    <2>4. P(v) /\ (~v.over /\ v.start < v.end => v.end - v.start <= n - 0)
      <3>1. Nearing(v.start, v.end, v.last, n, c, p, q)
        <4> HIDE DEF n
        <4> QED BY <2>2, <2>3, Zenon
      <3>2. v.empty = 0 /\ ~v.over /\ v.hit = v.over
        BY <2>3, Zenon
      <3>3. v.end - v.start <= n - 0
        BY <1>1, <2>3
      <3> QED BY <3>1, <3>2, <3>3, Zenon
    <2> QED BY <1>1, <2>4 DEF v
  <1>4. ASSUME NEW k \in 0 .. m - 1, k \in G PROVE k + 1 \in G
    <2> DEFINE v == h[k]
               t == h[k + 1]
               half == (v.end - v.start) \div 2
               pos == v.start + half
    <2>1. k + 1 \in 1 .. m /\ k + 1 \in 0 .. m /\ (k + 1) - 1 = k /\ k \in 0 .. m
      BY <1>1
    <2>2. t = ProbeStep(g, size, v) /\ v \in ProbeStates
      BY <1>2, <2>1
    <2>3. P(v) /\ (~v.over /\ v.start < v.end => v.end - v.start <= n - k)
      BY <1>4
    <2>4. v.start \in Int /\ v.end \in Int /\ v.last \in Int /\ v.over \in BOOLEAN /\ v.hit \in BOOLEAN
      BY <2>2 DEF ProbeStates
    <2> HIDE DEF v, t, m
    <2>5. CASE v.over \/ v.start >= v.end
      <3>1. t = v
        BY <2>2, <2>5 DEF ProbeStep
      <3>2. ~(~v.over /\ v.start < v.end)
        BY <2>4, <2>5
      <3> HIDE DEF P
      <3> QED BY <2>1, <2>3, <3>1, <3>2 DEF t, v
    <2>6. CASE ~v.over /\ v.start < v.end
      <3> DEFINE st == v.start
                 en == v.end
                 la == v.last
      <3>1. pos \in Int /\ st <= pos /\ pos < en
        BY <2>4, <2>6, HalfWay
      <3>2. v.start + half + v.empty = pos /\ v.empty = 0
        <4>1. v.empty = 0
          BY <2>3
        <4>2. half \in Int
          BY <2>4
        <4> HIDE DEF half
        <4> QED BY <2>4, <4>1, <4>2
      <3> DEFINE u == pos + 1
      <3>3. t = IF g[u] = <<>> THEN t
                ELSE IF g[u][1].size > size THEN [v EXCEPT !.end = pos, !.empty = 0, !.last = pos]
                ELSE IF Last(g[u]).size < size THEN [v EXCEPT !.start = pos + 1, !.empty = 0, !.last = pos]
                ELSE [v EXCEPT !.start = pos, !.last = pos, !.hit = TRUE, !.over = TRUE]
        <4> DEFINE back == IF v.empty < 0 THEN v.empty - 1 ELSE -1
                   ps == v.start + half + v.empty
        <4>1. t = IF v.over \/ v.start >= v.end THEN v
                ELSE IF g[ps + 1] = <<>> THEN
                     IF v.empty >= 0 /\ half + v.empty + 1 < v.end
                     THEN [v EXCEPT !.empty = v.empty + 1, !.last = ps]
                     ELSE [v EXCEPT !.empty = back, !.last = ps, !.over = half + back < v.start]
                ELSE IF g[ps + 1][1].size > size THEN [v EXCEPT !.end = ps, !.empty = 0, !.last = ps]
                ELSE IF Last(g[ps + 1]).size < size THEN [v EXCEPT !.start = ps + 1, !.empty = 0, !.last = ps]
                ELSE [v EXCEPT !.start = ps, !.last = ps, !.hit = TRUE, !.over = TRUE]
          BY <2>2 DEF ProbeStep
        <4>2. ps = pos
          BY <3>2
        <4>3. ~(v.over \/ v.start >= v.end)
          BY <2>4, <2>6
        <4> HIDE DEF ps, pos, back, half
        <4> QED BY <4>1, <4>2, <4>3
      <3>4. Nearing(st, en, la, n, c, p, q)
        BY <2>3, <2>6
      <3> HIDE DEF pos
      <3>5. u \in 1 .. n /\ u - 1 = pos /\ pos \in 0 .. n
        <4> HIDE DEF st, en, la, n
        <4> QED BY <1>1, <3>1, <3>4 DEF Nearing
      <3>6. g[u] # <<>>
        BY <3>5 DEF NoneEmpty
      <3>7. c[pos] \in Nat /\ c[u] \in Nat
        BY <3>5, CutTypes
      <3>8. /\ g[u][1].size > size <=> q <= c[pos]
            /\ Last(g[u]).size < size <=> c[u] <= p
        <4> HIDE DEF u
        <4>1. /\ g[u][1].size > size <=> q <= c[u - 1]
              /\ Last(g[u]).size < size <=> c[u] <= p
          BY <3>5, <3>6, GroupEnds
        <4> QED BY <3>5, <4>1
      <3>9. CASE q <= c[pos]
        <4>1. t = [v EXCEPT !.end = pos, !.empty = 0, !.last = pos]
          BY <3>3, <3>6, <3>8, <3>9
        <4>2. t.start = st /\ t.end = pos /\ t.last = pos /\ t.empty = 0 /\ t.hit = v.hit /\ t.over = v.over
          BY <4>1, <2>2 DEF ProbeStates
        <4> HIDE DEF st, en, la, n
        <4>3. Nearing(st, pos, pos, n, c, p, q) /\ pos - st <= n - (k + 1)
          <5>1. en - st <= n - k /\ st \in Int /\ en \in Int
            BY <2>3, <2>4, <2>6 DEF st, en
          <5> QED BY <1>1, <3>1, <3>4, <3>5, <3>9, <5>1 DEF Nearing
        <4>4. P(t)
          BY <2>3, <2>6, <4>2, <4>3
        <4> HIDE DEF P
        <4> QED BY <2>1, <4>2, <4>3, <4>4 DEF t
      <3>10. CASE ~(q <= c[pos]) /\ c[u] <= p
        <4>1. t = [v EXCEPT !.start = u, !.empty = 0, !.last = pos]
          BY <3>3, <3>6, <3>8, <3>10
        <4>2. t.start = u /\ t.end = en /\ t.last = pos /\ t.empty = 0 /\ t.hit = v.hit /\ t.over = v.over
          BY <4>1, <2>2 DEF ProbeStates
        <4> HIDE DEF st, en, la, n, u
        <4>3. Nearing(u, en, pos, n, c, p, q) /\ en - u <= n - (k + 1)
          <5>1. en - st <= n - k /\ st \in Int /\ en \in Int
            BY <2>3, <2>4, <2>6 DEF st, en
          <5> QED BY <1>1, <3>1, <3>4, <3>5, <3>10, <5>1 DEF Nearing
        <4>4. P(t)
          BY <2>3, <2>6, <4>2, <4>3
        <4> HIDE DEF P
        <4> QED BY <2>1, <4>2, <4>3, <4>4 DEF t
      <3>11. CASE ~(q <= c[pos]) /\ ~(c[u] <= p)
        <4>1. t = [v EXCEPT !.start = pos, !.last = pos, !.hit = TRUE, !.over = TRUE]
          BY <3>3, <3>6, <3>8, <3>11
        <4>2. t.start = pos /\ t.last = pos /\ t.empty = v.empty /\ t.hit = TRUE /\ t.over = TRUE
          BY <4>1, <2>2 DEF ProbeStates
        <4>3. Hitting(pos, n, c, p, q)
          BY <1>1, <3>1, <3>5, <3>7, <3>11 DEF Hitting
        <4>4. P(t)
          BY <2>3, <2>6, <4>2, <4>3
        <4> HIDE DEF P
        <4> QED BY <2>1, <4>2, <4>4 DEF t
      <3> QED BY <3>9, <3>10, <3>11
    <2> QED BY <2>4, <2>5, <2>6
  <1>5. \A k \in 0 .. m : k \in G
    <2> HIDE DEF G
    <2> QED BY <1>1, <1>3, <1>4, Stepwise
  <1>6. m \in G /\ m \in 0 .. m
    BY <1>1, <1>5
  <1>7. s \in ProbeStates /\ s = h[m]
    BY <1>2, <1>6
  <1>8. P(s) /\ (~s.over /\ s.start < s.end => s.end - s.start <= n - m)
    BY <1>6, <1>7
  <1>9. s.hit \in BOOLEAN /\ s.over \in BOOLEAN /\ s.hit = s.over /\ s.start \in Int /\ s.end \in Int /\ s.last \in Int
    BY <1>7, <1>8 DEF ProbeStates
  <1>10. CASE s.hit
    <2>1. s.start = s.last /\ Hitting(s.last, n, c, p, q)
      BY <1>8, <1>9, <1>10
    <2> HIDE DEF n
    <2>2. s.last \in 0 .. n - 1 /\ c[s.last] < q /\ p < c[s.last + 1]
      BY <1>1, <2>1 DEF Hitting
    <2> QED BY <1>10, <1>9, <2>1, <2>2 DEF n
  <1>11. CASE ~s.hit
    <2> DEFINE st == s.start
               en == s.end
               la == s.last
    <2>1. Nearing(st, en, la, n, c, p, q)
      BY <1>8, <1>9, <1>11
    <2>2. st >= en
      BY <1>1, <1>8, <1>9, <1>11
    <2> HIDE DEF st, en, la, n
    <2>3. st = en /\ st \in 0 .. n /\ la \in 0 .. n - 1 /\ (la = st \/ la = st - 1)
      BY <1>1, <2>1, <2>2 DEF Nearing
    <2>4. c[st] <= p /\ q <= c[st]
      BY <2>1, <2>3 DEF Nearing
    <2>5. c[st] \in Nat
      BY <2>3, CutTypes DEF n
    <2>6. p = c[st] /\ q = p
      BY <1>1, <2>4, <2>5
    <2> QED BY <1>9, <1>11, <2>3, <2>6 DEF st, la, n
  <1> QED BY <1>9, <1>10, <1>11

-----------------------------------------------------------------------------
(* Where a size belongs                                                      *)

\* The groups that can take it without the order being broken
Places(c, n, p, q) == {u \in 1 .. n : c[u - 1] <= p /\ q <= c[u]}

\* A lower bound in the set is its minimum
LEMMA MinOf ==
    ASSUME NEW T \in SUBSET Int, NEW m \in T, \A k \in T : m <= k
    PROVE  Min(T) = m
  <1> DEFINE w == Min(T)
  <1>1. w \in T /\ \A k \in T : w <= k
    BY DEF Min
  <1> HIDE DEF w
  <1>2. w <= m /\ m <= w /\ w \in Int /\ m \in Int
    BY <1>1
  <1> QED BY <1>2 DEF w

\* A set of numbers has its minimum, which bounds it
LEMMA MinIn ==
    ASSUME NEW T \in SUBSET Nat, T # {}
    PROVE  Min(T) \in T /\ \A k \in T : Min(T) <= k
  <1>1. PICK m \in T : \A k \in T : m <= k
    BY Least
  <1> QED BY <1>1, MinOf

\* The minimum of two numbers
LEMMA MinPair ==
    ASSUME NEW a \in Int, NEW b \in Int
    PROVE  Min({a, b}) = IF a <= b THEN a ELSE b
  <1>1. {a, b} \in SUBSET Int
    OBVIOUS
  <1>2. CASE a <= b
    BY <1>1, <1>2, MinOf
  <1>3. CASE ~(a <= b)
    BY <1>1, <1>3, MinOf
  <1> QED BY <1>2, <1>3

\* Behind a group that is not empty the cut is further on
LEMMA CutStrict ==
    ASSUME NEW g, NEW f, NEW c, Cut(g, f, c), NEW u \in 0 .. Len(g), NEW v \in 1 .. Len(g), u < v, g[v] # <<>>
    PROVE  c[u] < c[v]
  <1>1. u <= v - 1 /\ v - 1 \in 0 .. Len(g) /\ v \in 0 .. Len(g)
    BY CutTypes
  <1>2. c[u] <= c[v - 1]
    BY <1>1, CutOrder
  <1>3. c[v - 1] <= c[v] /\ c[v - 1] # c[v] /\ c[v] \in Nat /\ c[v - 1] \in Nat
    BY CutGroup
  <1>4. c[u] \in Nat
    BY CutTypes
  <1> DEFINE x == c[u]
             y == c[v - 1]
             z == c[v]
  <1>5. x \in Nat /\ y \in Nat /\ z \in Nat /\ x <= y /\ y <= z /\ y # z
    BY <1>2, <1>3, <1>4
  <1> HIDE DEF x, y, z
  <1>6. x < z
    BY <1>5
  <1> QED BY <1>6 DEF x, z

\* The places around a group are numbers
LEMMA CutNumbers ==
    ASSUME NEW g, NEW f, NEW c, Cut(g, f, c), NEW u \in 1 .. Len(g)
    PROVE  /\ u \in 0 .. Len(g) /\ u - 1 \in 0 .. Len(g) /\ c[u] \in Nat /\ c[u - 1] \in Nat
           /\ c[u - 1] <= c[u] /\ c[u] <= Len(f)
  <1>1. u \in 0 .. Len(g) /\ u - 1 \in 0 .. Len(g) /\ Len(g) \in 0 .. Len(g) /\ u <= Len(g)
    BY CutTypes
  <1>2. c[u] \in Nat /\ c[u - 1] \in Nat /\ c[u - 1] <= c[u] /\ c[Len(g)] = Len(f)
    BY CutTypes, CutGroup
  <1>3. c[u] <= c[Len(g)]
    BY <1>1, CutOrder
  <1> QED BY <1>1, <1>2, <1>3

\* parent_group_get_insert_pos is given a search that has hit a group, or the gap
\* in front of which it ended
LEMMA InsertPosHit ==
    ASSUME NEW g, Len(g) \in Nat, NEW size, NEW s, s = Probe(g, size), s.hit, s.start \in 0 .. Len(g) - 1
    PROVE  InsertPos(g, size) = {s.start + 1}
  <1>1. Min({s.start, Len(g) - 1}) = s.start
    BY MinPair
  <1> QED BY <1>1 DEF InsertPos

\* The groups around a gap before or behind group u
Around(P, g, size, u) ==
    P = IF u > 1 /\ (g[u] = <<>> \/ g[u][1].size >= size) THEN {u - 1, u}
        ELSE IF u < Len(g) /\ (g[u] = <<>> \/ Last(g[u]).size <= size) THEN {u, u + 1}
        ELSE {u}

\* parent_group_get_insert_pos when the search did not hit
LEMMA InsertPosGap ==
    ASSUME NEW g, Len(g) \in Nat, Len(g) > 0, NEW size, NEW s, s = Probe(g, size), ~s.hit, s.start \in 0 .. Len(g),
           NEW u, u = IF s.start < Len(g) THEN s.start + 1 ELSE Len(g)
    PROVE  Around(InsertPos(g, size), g, size, u)
  <1>1. 1 + Min({s.start, Len(g) - 1}) = u
    BY MinPair
  <1> QED BY <1>1 DEF InsertPos, Around

\* The insertion looks at exactly these groups
LEMMA InsertPosIs ==
    ASSUME NEW g, NEW f, NEW c, Cut(g, f, c), Len(g) > 0, NoneEmpty(g),
           NEW size \in Nat, NEW p, NEW q, Rank(f, size, p, q)
    PROVE  InsertPos(g, size) = Places(c, Len(g), p, q)
  <1> DEFINE n == Len(g)
             s == Probe(g, size)
             P == Places(c, n, p, q)
  <1>1. n \in Nat /\ n > 0 /\ p \in Nat /\ q \in Nat /\ p <= q /\ q <= p + 1
    BY CutTypes, RankTypes
  <1>2. /\ s.last \in 0 .. n - 1 /\ s.hit \in BOOLEAN
        /\ s.hit => s.start = s.last /\ c[s.last] < q /\ p < c[s.last + 1]
        /\ ~s.hit => /\ s.start \in 0 .. n /\ p = c[s.start] /\ q = p
                     /\ s.last = s.start \/ s.last = s.start - 1
    BY ProbeIs
  <1> HIDE DEF s
  <1>3. CASE s.hit
    <2> DEFINE u == s.start + 1
    <2>1. s.start \in 0 .. n - 1 /\ u \in 1 .. n /\ u - 1 = s.start /\ c[s.start] < q /\ p < c[u]
      BY <1>1, <1>2, <1>3
    <2>2. InsertPos(g, size) = {u}
      BY <1>1, <1>3, <2>1, InsertPosHit DEF s
    <2> HIDE DEF u
    <2>3. c[u - 1] < q
      BY <2>1
    <2>4. c[u] \in Nat /\ c[u - 1] \in Nat
      BY <2>1, CutNumbers
    <2>5. u \in P
      BY <1>1, <2>1, <2>3, <2>4 DEF Places
    <2>6. ASSUME NEW v \in P PROVE v = u
      <3>1. v \in 1 .. n /\ c[v - 1] <= p /\ q <= c[v]
        BY DEF Places
      <3>2. c[v] \in Nat /\ c[v - 1] \in Nat /\ v \in 0 .. n /\ v - 1 \in 0 .. n /\ u \in 0 .. n /\ u - 1 \in 0 .. n
        BY <2>1, <3>1, CutNumbers
      <3>3. CASE v < u
        <4>1. v <= u - 1
          BY <2>1, <3>1, <3>3
        <4>2. c[v] <= c[u - 1]
          BY <3>2, <4>1, CutOrder
        <4> QED BY <1>1, <2>3, <2>4, <3>1, <3>2, <4>2
      <3>4. CASE u < v
        <4>1. u <= v - 1
          BY <2>1, <3>1, <3>4
        <4>2. c[u] <= c[v - 1]
          BY <3>2, <4>1, CutOrder
        <4> QED BY <1>1, <2>1, <2>4, <3>1, <3>2, <4>2
      <3> QED BY <2>1, <3>1, <3>3, <3>4
    <2> QED BY <2>2, <2>5, <2>6
  <1>4. CASE ~s.hit
    <2> DEFINE b == s.start
               u == IF b < n THEN b + 1 ELSE n
    <2>1. b \in 0 .. n /\ p = c[b] /\ q = p /\ b \in Nat
      BY <1>2, <1>4
    <2>2. u \in 1 .. n
      BY <1>1, <2>1
    <2>3. InsertPos(g, size) =
              IF u > 1 /\ (g[u] = <<>> \/ g[u][1].size >= size) THEN {u - 1, u}
              ELSE IF u < n /\ (g[u] = <<>> \/ Last(g[u]).size <= size) THEN {u, u + 1}
              ELSE {u}
      <3>1. s = Probe(g, size) /\ u = IF s.start < n THEN s.start + 1 ELSE n
        BY DEF s
      <3> HIDE DEF s, u
      <3>2. Around(InsertPos(g, size), g, size, u)
        BY <1>1, <1>4, <2>1, <3>1, InsertPosGap
      <3> QED BY <3>2 DEF Around
    <2> HIDE DEF u, b
    <2>4. g[u] # <<>>
      BY <2>2 DEF NoneEmpty
    <2>5. /\ g[u][1].size >= size <=> p <= c[u - 1]
          /\ Last(g[u]).size <= size <=> c[u] <= q
      BY <2>2, <2>4, GroupEnds
    <2>6. c[u] \in Nat /\ c[u - 1] \in Nat /\ u \in 0 .. n /\ u - 1 \in 0 .. n
      BY <2>2, CutNumbers
    <2>7. ASSUME NEW v \in 1 .. n, v - 1 = b \/ v = b
          PROVE  v \in P
      <3>1. c[v] \in Nat /\ c[v - 1] \in Nat /\ c[v - 1] <= c[v]
        BY CutNumbers
      <3>2. c[v - 1] = p \/ c[v] = p
        BY <2>1, <2>7
      <3> QED BY <1>1, <2>1, <3>1, <3>2 DEF Places
    <2>8. ASSUME NEW v \in P
          PROVE  v \in 1 .. n /\ (v - 1 = b \/ v = b)
      <3>1. v \in 1 .. n /\ c[v - 1] <= p /\ q <= c[v]
        BY DEF Places
      <3>2. c[v] \in Nat /\ c[v - 1] \in Nat /\ v \in 0 .. n /\ v - 1 \in 0 .. n
        BY <3>1, CutNumbers
      <3>3. ~(v < b)
        <4>1. SUFFICES ASSUME v < b PROVE FALSE
          OBVIOUS
        <4>2. b \in 1 .. n
          BY <2>1, <3>1, <4>1
        <4>3. g[b] # <<>>
          BY <4>2 DEF NoneEmpty
        <4>4. c[v] < c[b]
          BY <3>2, <4>1, <4>2, <4>3, CutStrict
        <4> QED BY <1>1, <2>1, <3>1, <3>2, <4>4
      <3>4. ~(b < v - 1)
        <4> DEFINE w == v - 1
        <4>1. SUFFICES ASSUME b < w PROVE FALSE
          OBVIOUS
        <4>2. w \in 1 .. n
          BY <2>1, <3>1, <3>2, <4>1
        <4>3. g[w] # <<>>
          BY <4>2 DEF NoneEmpty
        <4>5. c[w] \in Nat /\ c[w] <= p
          BY <3>1, <3>2
        <4> HIDE DEF w
        <4>4. c[b] < c[w]
          BY <2>1, <4>1, <4>2, <4>3, CutStrict
        <4> QED BY <1>1, <2>1, <4>4, <4>5
      <3> QED BY <2>1, <3>1, <3>3, <3>4
    <2>9. ASSUME NEW v
          PROVE  v \in P <=> v \in 1 .. n /\ (v = b + 1 \/ v = b)
      <3>1. v \in 1 .. n => (v - 1 = b <=> v = b + 1)
        BY <2>1
      <3> QED BY <2>7, <2>8, <3>1
    <2>10. CASE b = n
      <3>1. u = n /\ c[u] = p
        BY <2>1, <2>10 DEF u
      <3>2. c[u - 1] < c[u]
        BY <2>2, <2>4, GroupEnds
      <3>3. ~(p <= c[u - 1])
        BY <1>1, <2>6, <3>1, <3>2
      <3>4. InsertPos(g, size) = {u}
        BY <1>1, <2>2, <2>3, <2>4, <2>5, <3>1, <3>3
      <3>5. ASSUME NEW v PROVE v \in P <=> v = u
        BY <1>1, <2>1, <2>2, <2>9, <2>10, <3>1
      <3> QED BY <3>4, <3>5
    <2>11. CASE b < n
      <3>1. u = b + 1 /\ u - 1 = b
        BY <2>1, <2>11 DEF u
      <3>2. c[u - 1] = p /\ c[u - 1] < c[u]
        BY <2>1, <2>2, <2>4, <3>1, GroupEnds
      <3>3. ~(c[u] <= q) /\ p <= c[u - 1]
        BY <1>1, <2>1, <2>6, <3>2
      <3>4. InsertPos(g, size) = IF u > 1 THEN {u - 1, u} ELSE {u}
        BY <2>3, <2>4, <2>5, <3>3
      <3>5. ASSUME NEW v PROVE v \in P <=> v = u \/ (u > 1 /\ v = u - 1)
        BY <1>1, <2>1, <2>2, <2>9, <2>11, <3>1
      <3> QED BY <3>4, <3>5
    <2> QED BY <1>1, <2>1, <2>10, <2>11
  <1> QED BY <1>2, <1>3, <1>4

\* A round of the search: nothing is left to do, a group is looked at, or the last
\* group is passed because it is empty
LEMMA ProbeRests ==
    ASSUME NEW g, NEW size, NEW s, s.over \/ s.start >= s.end
    PROVE  ProbeStep(g, size, s) = s
  BY DEF ProbeStep

\* One look of the search at a group with items
LEMMA ProbeLooks ==
    ASSUME NEW g, NEW size, NEW s \in ProbeStates, NEW a \in Int, NEW b \in Int, NEW pos \in Int, NEW u,
           s.start = a, s.end = b, s.empty = 0, ~s.over, a < b, pos = a + (b - a) \div 2, u = pos + 1, g[u] # <<>>,
           NEW t, t = ProbeStep(g, size, s)
    PROVE  /\ g[u][1].size > size => t.start = a /\ t.end = pos /\ t.empty = 0 /\ t.hit = s.hit /\ ~t.over
           /\ ~(g[u][1].size > size) /\ Last(g[u]).size < size =>
                 t.start = u /\ t.end = b /\ t.empty = 0 /\ t.hit = s.hit /\ ~t.over
           /\ ~(g[u][1].size > size) /\ ~(Last(g[u]).size < size) => t.start = pos /\ t.hit /\ t.over
  <1>1. s.start + (s.end - s.start) \div 2 + s.empty = pos /\ ~(s.start >= s.end)
    <2> DEFINE half == (b - a) \div 2
    <2>1. half \in Int
      OBVIOUS
    <2> HIDE DEF half
    <2>2. a + half + 0 = a + half
      BY <2>1
    <2> QED BY <2>2 DEF half
  <1>2. t = IF g[u][1].size > size THEN [s EXCEPT !.end = pos, !.empty = 0, !.last = pos]
            ELSE IF Last(g[u]).size < size THEN [s EXCEPT !.start = u, !.empty = 0, !.last = pos]
            ELSE [s EXCEPT !.start = pos, !.last = pos, !.hit = TRUE, !.over = TRUE]
    BY <1>1 DEF ProbeStep
  <1>3. CASE g[u][1].size > size
    <2>1. t = [s EXCEPT !.end = pos, !.empty = 0, !.last = pos]
      BY <1>2, <1>3
    <2>2. t.start = s.start /\ t.end = pos /\ t.empty = 0 /\ t.hit = s.hit /\ t.over = s.over
      BY <2>1 DEF ProbeStates
    <2> QED BY <1>3, <2>2
  <1>4. CASE ~(g[u][1].size > size) /\ Last(g[u]).size < size
    <2>1. t = [s EXCEPT !.start = u, !.empty = 0, !.last = pos]
      BY <1>2, <1>4
    <2>2. t.start = u /\ t.end = s.end /\ t.empty = 0 /\ t.hit = s.hit /\ t.over = s.over
      BY <2>1 DEF ProbeStates
    <2> QED BY <1>4, <2>2
  <1>5. CASE ~(g[u][1].size > size) /\ ~(Last(g[u]).size < size)
    <2>1. t = [s EXCEPT !.start = pos, !.last = pos, !.hit = TRUE, !.over = TRUE]
      BY <1>2, <1>5
    <2>2. t.start = pos /\ t.hit /\ t.over
      BY <2>1 DEF ProbeStates
    <2> QED BY <1>5, <2>2
  <1> QED BY <1>3, <1>4, <1>5

\* The search gives up at an empty first group when none is left
LEMMA ProbePasses ==
    ASSUME NEW g, NEW size, NEW s \in ProbeStates, s.start = 0, s.end = 1, s.empty = 0, ~s.over, g[1] = <<>>,
           NEW t, t = ProbeStep(g, size, s)
    PROVE  t.start = 0 /\ t.hit = s.hit /\ t.over
  <1> DEFINE half == (s.end - s.start) \div 2
             pos == s.start + half + s.empty
             back == IF s.empty < 0 THEN s.empty - 1 ELSE -1
             o == half + back < s.start
  <1>1. half = 0
    OBVIOUS
  <1> HIDE DEF half
  <1>2. pos = 0 /\ back = -1 /\ o /\ ~(s.start >= s.end) /\ pos + 1 = 1 /\ ~(half + s.empty + 1 < s.end)
    BY <1>1
  <1>3. t = IF s.over \/ s.start >= s.end THEN s
            ELSE IF g[pos + 1] = <<>> THEN
                 IF s.empty >= 0 /\ half + s.empty + 1 < s.end
                 THEN [s EXCEPT !.empty = s.empty + 1, !.last = pos]
                 ELSE [s EXCEPT !.empty = back, !.last = pos, !.over = o]
            ELSE t
    BY DEF ProbeStep, half
  <1> HIDE DEF pos, back, o
  <1>4. t = [s EXCEPT !.empty = back, !.last = pos, !.over = o]
    BY <1>2, <1>3
  <1> QED BY <1>2, <1>4 DEF ProbeStates

\* What the split of a group makes of it when an allocation had left it one item
Emptied(g) == Len(g) = 2 /\ g[1] = <<>> /\ g[2] # <<>>

\* ... also then
LEMMA InsertPosEmptied ==
    ASSUME NEW g, NEW f, NEW c, Cut(g, f, c), Emptied(g),
           NEW size \in Nat, NEW p, NEW q, Rank(f, size, p, q)
    PROVE  InsertPos(g, size) = Places(c, Len(g), p, q)
  <1> DEFINE P == Places(c, 2, p, q)
             s == Probe(g, size)
  <1>1. p \in Nat /\ q \in Nat /\ p <= q /\ q <= p + 1 /\ q <= Len(f) /\ Len(f) \in Nat /\ Len(g) \in Nat
    BY CutTypes, RankTypes
  <1>0. /\ 1 \in 1 .. Len(g) /\ 2 \in 1 .. Len(g) /\ 1 - 1 = 0 /\ 2 - 1 = 1 /\ 1 \in 0 .. Len(g) /\ 2 \in 0 .. Len(g)
        /\ Len(g) = 2 /\ g[1] = <<>> /\ g[2] # <<>> /\ 2 * Len(g) = 4 /\ Len(g) > 0
    BY DEF Emptied
  <1>a. /\ 1 \in 1 .. Len(g) /\ 2 \in 1 .. Len(g)
        /\ g[1] = <<>> /\ g[2] # <<>>
    BY <1>0
  <1>b. (g[1] = <<>> <=> c[1 - 1] = c[1]) /\ c[0] = 0 /\ c[Len(g)] = Len(f)
    BY <1>a, CutGroup, CutTypes
  <1>c. /\ c[2 - 1] < c[2]
        /\ g[2][1].size > size <=> q <= c[2 - 1]
        /\ g[2][1].size >= size <=> p <= c[2 - 1]
        /\ Last(g[2]).size < size <=> c[2] <= p
    BY <1>a, GroupEnds
  <1>d. \E h : /\ h \in [0 .. 2 * Len(g) -> ProbeStates]
               /\ h[0] = ProbeStart(Len(g))
               /\ \A k \in 1 .. 2 * Len(g) : h[k] = ProbeStep(g, size, h[k - 1])
               /\ s = h[2 * Len(g)]
    BY <1>1, ProbeCourse
  <1>2. c[0] = 0 /\ c[1] = 0 /\ c[2] = Len(f) /\ Len(f) > 0
    BY <1>0, <1>1, <1>b, <1>c
  <1>3. /\ g[2][1].size > size <=> q <= 0
        /\ g[2][1].size >= size <=> p <= 0
        /\ Last(g[2]).size < size <=> Len(f) <= p
    BY <1>0, <1>2, <1>c
  <1>4. \E h : /\ h \in [0 .. 4 -> ProbeStates]
               /\ h[0] = ProbeStart(2)
               /\ \A k \in 1 .. 4 : h[k] = ProbeStep(g, size, h[k - 1])
               /\ s = h[4]
    BY <1>0, <1>d
  <1>5. PICK h : /\ h \in [0 .. 4 -> ProbeStates]
                 /\ h[0] = ProbeStart(2)
                 /\ \A k \in 1 .. 4 : h[k] = ProbeStep(g, size, h[k - 1])
                 /\ s = h[4]
    BY <1>4
  <1> DEFINE h0 == h[0]
             h1 == h[1]
             h2 == h[2]
             h3 == h[3]
  <1>6. /\ h0 \in ProbeStates /\ h1 \in ProbeStates /\ h2 \in ProbeStates
        /\ h1 = ProbeStep(g, size, h0) /\ h2 = ProbeStep(g, size, h1)
        /\ h3 = ProbeStep(g, size, h2) /\ s = ProbeStep(g, size, h3)
    BY <1>5
  <1>7. h0.start = 0 /\ h0.end = 2 /\ h0.empty = 0 /\ ~h0.hit /\ ~h0.over
    BY <1>5 DEF ProbeStart
  <1> HIDE DEF h0, h1, h2, h3, s
  <1>8. /\ q <= 0 => h1.start = 0 /\ h1.end = 1 /\ h1.empty = 0 /\ ~h1.hit /\ ~h1.over
        /\ ~(q <= 0) /\ Len(f) <= p => h1.start = 2 /\ h1.end = 2 /\ ~h1.hit /\ ~h1.over
        /\ ~(q <= 0) /\ ~(Len(f) <= p) => h1.start = 1 /\ h1.hit /\ h1.over
    <2>1. 1 = 0 + (2 - 0) \div 2 /\ 2 = 1 + 1 /\ 0 < 2 /\ 0 \in Int /\ 1 \in Int /\ 2 \in Int
      OBVIOUS
    <2>2. /\ g[2][1].size > size => h1.start = 0 /\ h1.end = 1 /\ h1.empty = 0 /\ h1.hit = h0.hit /\ ~h1.over
          /\ ~(g[2][1].size > size) /\ Last(g[2]).size < size =>
                h1.start = 2 /\ h1.end = 2 /\ h1.empty = 0 /\ h1.hit = h0.hit /\ ~h1.over
          /\ ~(g[2][1].size > size) /\ ~(Last(g[2]).size < size) => h1.start = 1 /\ h1.hit /\ h1.over
      BY <1>0, <1>6, <1>7, <2>1, ProbeLooks
    <2> QED BY <1>3, <1>7, <2>2
  <1>9. CASE q <= 0
    <2>1. h2.start = 0 /\ h2.hit = h1.hit /\ h2.over /\ ~h1.hit
      BY <1>0, <1>6, <1>8, <1>9, ProbePasses
    <2>2. h3 = h2 /\ s = h3
      BY <1>6, <2>1, ProbeRests
    <2>3. ~s.hit /\ s.start = 0
      BY <2>1, <2>2
    <2>4. InsertPos(g, size) =
              IF 1 > 1 /\ (g[1] = <<>> \/ g[1][1].size >= size) THEN {1 - 1, 1}
              ELSE IF 1 < Len(g) /\ (g[1] = <<>> \/ Last(g[1]).size <= size) THEN {1, 1 + 1}
              ELSE {1}
      <3>1. s.start \in 0 .. Len(g) /\ 1 = (IF s.start < Len(g) THEN s.start + 1 ELSE Len(g)) /\ ~s.hit /\ Len(g) > 0
        BY <1>0, <1>1, <2>3
      <3> QED BY <1>1, <3>1, InsertPosGap DEF s, Around
    <2>5. 1 \in P /\ 2 \in P
      BY <1>1, <1>2, <1>9, <1>0 DEF Places
    <2> QED BY <1>0, <2>4, <2>5 DEF Places
  <1>10. CASE ~(q <= 0) /\ Len(f) <= p
    <2>1. h2 = h1 /\ h3 = h2 /\ s = h3
      <3>1. h1.start >= h1.end
        BY <1>8, <1>10
      <3> QED BY <1>6, <3>1, ProbeRests
    <2>2. ~s.hit /\ s.start = 2
      BY <1>8, <1>10, <2>1
    <2>3. ~(g[2][1].size >= size)
      BY <1>1, <1>2, <1>3, <1>10
    <2>4. InsertPos(g, size) =
              IF 2 > 1 /\ (g[2] = <<>> \/ g[2][1].size >= size) THEN {2 - 1, 2}
              ELSE IF 2 < Len(g) /\ (g[2] = <<>> \/ Last(g[2]).size <= size) THEN {2, 2 + 1}
              ELSE {2}
      <3>1. s.start \in 0 .. Len(g) /\ 2 = (IF s.start < Len(g) THEN s.start + 1 ELSE Len(g)) /\ ~s.hit /\ Len(g) > 0
        BY <1>0, <1>1, <2>2
      <3> QED BY <1>1, <3>1, InsertPosGap DEF s, Around
    <2>5. 1 \notin P /\ 2 \in P
      BY <1>1, <1>2, <1>10, <1>0 DEF Places
    <2> QED BY <1>0, <2>3, <2>4, <2>5 DEF Places
  <1>11. CASE ~(q <= 0) /\ ~(Len(f) <= p)
    <2>1. h2 = h1 /\ h3 = h2 /\ s = h3
      <3>1. h1.over
        BY <1>8, <1>11
      <3> QED BY <1>6, <3>1, ProbeRests
    <2>2. s.hit /\ s.start = 1 /\ s.start \in 0 .. Len(g) - 1 /\ s.start + 1 = 2
      BY <1>0, <1>8, <1>11, <2>1
    <2>3. InsertPos(g, size) = {s.start + 1}
      BY <1>1, <2>2, InsertPosHit DEF s
    <2>4. 1 \notin P /\ 2 \in P
      BY <1>1, <1>2, <1>11, <1>0 DEF Places
    <2> QED BY <1>0, <2>2, <2>3, <2>4 DEF Places
  <1> QED BY <1>9, <1>10, <1>11

\* Whether a group has the size
LEMMA HasIs ==
    ASSUME NEW g, NEW f, NEW c, Cut(g, f, c), NEW size \in Nat, NEW p, NEW q, Rank(f, size, p, q),
           NEW u \in 1 .. Len(g)
    PROVE  Has(g[u], size) <=> p < q /\ c[u - 1] < q /\ q <= c[u]
  <1>1. p \in Nat /\ q \in Nat /\ p <= q /\ q <= p + 1 /\ f \in Seq(ItemType)
    BY CutTypes, RankTypes
  <1>2. c[u] \in Nat /\ c[u - 1] \in Nat /\ c[u] <= Len(f) /\ DOMAIN g[u] = 1 .. Len(g[u])
    BY CutNumbers, CutGroup
  <1>3. ASSUME Has(g[u], size)
        PROVE  p < q /\ c[u - 1] < q /\ q <= c[u]
    <2>1. PICK j \in 1 .. Len(g[u]) : g[u][j].size = size
      BY <1>2, <1>3 DEF Has
    <2> DEFINE k == c[u - 1] + j
    <2>2. k \in 1 .. Len(f) /\ c[u - 1] < k /\ k <= c[u] /\ g[u][j] = f[k]
      BY CutItem
    <2> HIDE DEF k
    <2>3. p < k /\ k <= q
      <3>1. f[k].size = size
        BY <2>1, <2>2
      <3> QED BY <1>1, <2>2, <3>1, RankItem
    <2>4. k = q
      BY <1>1, <2>2, <2>3
    <2> QED BY <1>1, <2>2, <2>3, <2>4
  <1>4. ASSUME p < q, c[u - 1] < q, q <= c[u]
        PROVE  Has(g[u], size)
    <2>1. q \in 1 .. Len(f) /\ q - c[u - 1] \in 1 .. Len(g[u]) /\ g[u][q - c[u - 1]] = f[q]
      BY <1>1, <1>4, ItemCut
    <2>2. f[q].size = size
      BY <1>1, <1>4, <2>1, RankItem
    <2> QED BY <1>2, <2>1, <2>2 DEF Has
  <1> QED BY <1>3, <1>4

\* The group that is chosen, if there is one
LEMMA CandidateIs ==
    ASSUME NEW g, Len(g) \in Nat, NEW size, NEW c, NEW p, NEW q, InsertPos(g, size) = Places(c, Len(g), p, q),
           NEW u, u = Candidate(g, size)
    PROVE  /\ u = 0 \/ u \in Places(c, Len(g), p, q)
           /\ u # 0 => u \in 1 .. Len(g) /\ (Has(g[u], size) \/ Len(g[u]) < GroupSize)
           /\ u = 0 => \A v \in Places(c, Len(g), p, q) : ~Has(g[v], size) /\ ~(Len(g[v]) < GroupSize)
  <1> DEFINE able == {v \in Places(c, Len(g), p, q) : Has(g[v], size) \/ Len(g[v]) < GroupSize}
  <1>1. u = IF able = {} THEN 0 ELSE Min(able)
    BY DEF Candidate
  <1>2. able \in SUBSET Nat /\ able \subseteq 1 .. Len(g)
    BY DEF Places
  <1>3. CASE able = {}
    BY <1>1, <1>3
  <1>4. CASE able # {}
    <2>1. u \in able
      <3> HIDE DEF able
      <3> QED BY <1>1, <1>2, <1>4, MinIn
    <2>2. u # 0
      BY <1>2, <2>1
    <2> QED BY <1>2, <2>1, <2>2
  <1> QED BY <1>3, <1>4

-----------------------------------------------------------------------------
(* What the searches are for                                                 *)

\* The group that was looked at last has the place of the size
LEMMA ProbeLast ==
    ASSUME NEW g, NEW f, NEW c, Cut(g, f, c), Len(g) > 0, NoneEmpty(g),
           NEW size \in Nat, NEW p, NEW q, Rank(f, size, p, q), NEW s, s = Probe(g, size), NEW u, u = s.last + 1
    PROVE  /\ u \in 1 .. Len(g) /\ u - 1 = s.last /\ c[u - 1] < c[u] /\ c[u - 1] <= p /\ p <= c[u]
           /\ s.hit => c[u - 1] < q /\ p < c[u]
           /\ ~s.hit => p = q
  <1>0. Len(g) \in Nat
    BY CutTypes
  <1>1. Len(g) \in Nat /\ p \in Nat /\ q \in Nat /\ p <= q /\ q <= p + 1
    BY <1>0, RankTypes
  <1>2. /\ s.last \in 0 .. Len(g) - 1 /\ s.hit \in BOOLEAN
        /\ s.hit => s.start = s.last /\ c[s.last] < q /\ p < c[s.last + 1]
        /\ ~s.hit => /\ s.start \in 0 .. Len(g) /\ p = c[s.start] /\ q = p
                     /\ s.last = s.start \/ s.last = s.start - 1
    BY ProbeIs
  <1>3. u \in 1 .. Len(g) /\ u - 1 = s.last
    BY <1>1, <1>2
  <1>4. g[u] # <<>>
    BY <1>3 DEF NoneEmpty
  <1>5. c[u - 1] < c[u] /\ c[u - 1] \in Nat /\ c[u] \in Nat
    BY <1>3, <1>4, GroupEnds, CutNumbers
  <1>6. CASE s.hit
    <2>1. c[u - 1] < q /\ p < c[u]
      BY <1>2, <1>3, <1>6
    <2> QED BY <1>1, <1>3, <1>5, <1>6, <2>1
  <1>7. CASE ~s.hit
    <2>1. p = q /\ (p = c[u - 1] \/ p = c[u])
      BY <1>2, <1>3, <1>7
    <2> QED BY <1>1, <1>3, <1>5, <1>7, <2>1
  <1> QED BY <1>2, <1>6, <1>7

\* multi_heap_malloc_fit: the item behind the smaller ones
LEMMA FitFoundIs ==
    ASSUME NEW t, NEW f, NEW c, Cut(t.groups, f, c), t.root # "none", Len(t.groups) > 0, NoneEmpty(t.groups),
           NEW size \in Nat, NEW p, NEW q, Rank(f, size, p, q)
    PROVE  FitFound(t, size) = IF p < Len(f) THEN f[p + 1].size ELSE 0
  <1> DEFINE g == t.groups
             u == Probe(g, size).last + 1
             b == c[u - 1]
             e == c[u]
             i == ItemPos(g[u], size)
  <1>1. p \in Nat /\ q \in Nat /\ p <= q /\ q <= p + 1 /\ Len(g) \in Nat /\ Len(f) \in Nat /\ f \in Seq(ItemType)
    BY CutTypes, RankTypes
  <1>2. u \in 1 .. Len(g) /\ b < e /\ b <= p /\ p <= e
    BY ProbeLast
  <1>3. FitFound(t, size) = IF g[u][i].size >= size THEN g[u][i].size
                            ELSE IF i < Len(g[u]) THEN g[u][i + 1].size
                            ELSE IF u < Len(g) THEN g[u + 1][1].size
                            ELSE 0
    BY DEF FitFound
  <1> HIDE DEF u, g
  <1>4. Piece(g[u], f, b, e) /\ b \in Nat /\ e \in Nat /\ e <= Len(f) /\ Len(g[u]) \in Nat /\ e = b + Len(g[u])
    <2>1. Piece(g[u], f, b, e) /\ Len(g[u]) \in Nat /\ e = b + Len(g[u])
      BY <1>2, CutGroup DEF g
    <2>2. b \in Nat /\ e \in Nat /\ e <= Len(f)
      BY <1>2, CutNumbers DEF g
    <2> QED BY <2>1, <2>2
  <1>5. i \in 1 .. Len(g[u]) /\ (b + i = p \/ b + i = p + 1)
    <2> HIDE DEF b, e
    <2> QED BY <1>1, <1>2, <1>4, ItemPosIs
  <1>6. g[u][i] = f[b + i] /\ b + i \in 1 .. Len(f) /\ b + i <= e
    BY <1>2, <1>5, CutItem DEF g
  <1> DEFINE k == b + i
  <1>7. k \in 1 .. Len(f) /\ (k = p \/ k = p + 1) /\ k <= e /\ g[u][i] = f[k] /\ i \in Nat
    BY <1>5, <1>6
  <1>8. (i < Len(g[u]) <=> k < e) /\ (i < Len(g[u]) => g[u][i + 1] = f[k + 1])
    <2>1. i < Len(g[u]) <=> k < e
      BY <1>4, <1>5
    <2>2. ASSUME i < Len(g[u]) PROVE g[u][i + 1] = f[k + 1]
      <3> DEFINE j == i + 1
      <3>1. j \in 1 .. Len(g[u])
        BY <1>4, <1>5, <2>2
      <3>2. b + j = k + 1
        BY <1>4, <1>5
      <3> HIDE DEF j, k, b
      <3>3. g[u][j] = f[b + j]
        BY <1>2, <3>1, CutItem DEF g, b
      <3> QED BY <3>2, <3>3 DEF j
    <2> QED BY <2>1, <2>2
  <1> HIDE DEF k, i
  <1>9. f[k].size >= size <=> k > p
    BY <1>1, <1>7, RankItem
  <1>10. CASE k = p + 1
    <2>1. p < Len(f) /\ k > p
      BY <1>1, <1>7, <1>10
    <2> QED BY <1>3, <1>7, <1>9, <1>10, <2>1
  <1>11. CASE k = p
    <2>1. ~(g[u][i].size >= size)
      BY <1>1, <1>7, <1>9, <1>11
    <2>2. CASE k < e
      <3>1. p < Len(f)
        <4> HIDE DEF b, e
        <4> QED BY <1>1, <1>4, <1>11, <2>2
      <3> QED BY <1>3, <1>8, <1>11, <2>1, <2>2, <3>1
    <2>3. CASE k = e /\ u < Len(g)
      <3> DEFINE v == u + 1
      <3>1. v \in 1 .. Len(g) /\ v - 1 = u
        BY <1>1, <1>2, <2>3
      <3> HIDE DEF v, e, b
      <3>2. g[v] # <<>>
        BY <3>1 DEF NoneEmpty, g
      <3>3. g[v][1] = f[c[v - 1] + 1] /\ c[v - 1] < c[v] /\ c[v] <= Len(f) /\ c[v - 1] \in Nat /\ c[v] \in Nat
        <4>1. g[v][1] = f[c[v - 1] + 1] /\ c[v - 1] < c[v]
          BY <3>1, <3>2, GroupEnds DEF g
        <4>2. c[v] <= Len(f) /\ c[v - 1] \in Nat /\ c[v] \in Nat
          BY <3>1, CutNumbers DEF g
        <4> QED BY <4>1, <4>2
      <3>4. c[v - 1] = p
        BY <1>11, <2>3, <3>1 DEF e
      <3>5. p < Len(f) /\ g[v][1] = f[p + 1]
        BY <1>1, <3>3, <3>4
      <3>6. ~(i < Len(g[u]))
        BY <1>4, <1>8, <2>3
      <3> QED BY <1>3, <2>1, <2>3, <3>5, <3>6 DEF v
    <2>4. CASE k = e /\ ~(u < Len(g))
      <3>1. u = Len(g)
        BY <1>1, <1>2, <2>4
      <3>2. e = Len(f)
        BY <3>1, CutTypes DEF g
      <3>3. ~(i < Len(g[u])) /\ ~(p < Len(f))
        BY <1>1, <1>4, <1>8, <1>11, <2>4, <3>2
      <3> QED BY <1>3, <2>1, <2>4, <3>3
    <2>5. k < e \/ k = e
      BY <1>1, <1>4, <1>7
    <2> QED BY <2>2, <2>3, <2>4, <2>5
  <1> QED BY <1>7, <1>10, <1>11

\* The items are the entries
Holds(f, en) ==
    /\ \A k \in 1 .. Len(f) : /\ f[k].offsets = en[f[k].size] /\ f[k].offsets # {} /\ IsFiniteSet(f[k].offsets)
    /\ \A s \in Sizes : en[s] # {} => \E k \in 1 .. Len(f) : f[k].size = s

\* The place of a size and the entries
LEMMA RankEntries ==
    ASSUME NEW f \in Seq(ItemType), NEW en, Holds(f, en), NEW size \in Sizes, NEW p, NEW q, Rank(f, size, p, q)
    PROVE  /\ en[size] # {} <=> p < q
           /\ p < q => q \in 1 .. Len(f) /\ f[q].size = size /\ f[q].offsets = en[size] /\ q = p + 1
  <1>1. p \in Nat /\ q \in Nat /\ p <= q /\ q <= p + 1 /\ q <= Len(f) /\ size \in Nat
    BY RankTypes, BlockMapAssumption
  <1>2. ASSUME p < q
        PROVE  q \in 1 .. Len(f) /\ f[q].size = size /\ f[q].offsets = en[size] /\ en[size] # {} /\ q = p + 1
    <2>1. q \in 1 .. Len(f)
      BY <1>1, <1>2
    <2>2. f[q].size = size
      BY <1>1, <1>2, <2>1, RankItem
    <2> QED BY <1>1, <1>2, <2>1, <2>2 DEF Holds
  <1>3. ASSUME en[size] # {}
        PROVE  p < q
    <2>1. PICK k \in 1 .. Len(f) : f[k].size = size
      BY <1>3 DEF Holds
    <2>2. p < k /\ k <= q
      BY <1>1, <2>1, RankItem
    <2> QED BY <1>1, <2>2
  <1> QED BY <1>2, <1>3

\* The size of an item is that of an entry
LEMMA EntryItem ==
    ASSUME NEW f \in Seq(ItemType), NEW en, Holds(f, en), NEW k \in 1 .. Len(f)
    PROVE  f[k].size \in Sizes /\ en[f[k].size] = f[k].offsets /\ en[f[k].size] # {}
  BY SizeNat DEF Holds

Enough(enough, size, en) == enough = {s \in Sizes : s >= size /\ en[s] # {}}

Best(enough, f, p) ==
    /\ p < Len(f) => enough # {} /\ Min(enough) = f[p + 1].size
    /\ ~(p < Len(f)) => enough = {}

\* The item behind the smaller ones is the smallest of the big enough entries
LEMMA BestIs ==
    ASSUME NEW f \in Seq(ItemType), Sorted(f), NEW en, Holds(f, en), NEW size \in Sizes, NEW p, NEW q, Rank(f, size, p, q),
           NEW enough, Enough(enough, size, en)
    PROVE  Best(enough, f, p)
  <1>1. p \in Nat /\ q \in Nat /\ p <= q /\ q <= p + 1 /\ q <= Len(f) /\ size \in Nat /\ Sizes \subseteq Nat /\ Len(f) \in Nat
    BY RankTypes, BlockMapAssumption
  <1>2. ASSUME NEW s \in enough
        PROVE  \E k \in 1 .. Len(f) : f[k].size = s /\ k > p
    <2>0. s \in Sizes /\ s >= size /\ en[s] # {}
      BY <1>2 DEF Enough
    <2>1. PICK k \in 1 .. Len(f) : f[k].size = s
      BY <2>0 DEF Holds
    <2>2. k > p
      BY <1>1, <2>0, <2>1, RankItem
    <2> QED BY <2>1, <2>2
  <1>3. ASSUME p < Len(f)
        PROVE  enough # {} /\ Min(enough) = f[p + 1].size
    <2> DEFINE m == p + 1
    <2>1. m \in 1 .. Len(f) /\ m > p
      BY <1>1, <1>3
    <2> HIDE DEF m
    <2>2. f[m].size >= size
      BY <1>1, <2>1, RankItem
    <2>3. f[m].size \in enough
      BY <2>1, <2>2, EntryItem DEF Enough
    <2>4. ASSUME NEW s \in enough
          PROVE  f[m].size <= s
      <3>1. PICK k \in 1 .. Len(f) : f[k].size = s /\ k > p
        BY <1>2
      <3>2. m = k \/ m < k
        BY <1>1, <2>1, <3>1 DEF m
      <3>3. m < k => f[m].size < f[k].size
        BY <2>1 DEF Sorted
      <3>4. f[m].size \in Nat /\ f[k].size \in Nat
        BY <2>1, SizeNat
      <3> QED BY <3>1, <3>2, <3>3, <3>4
    <2>5. enough \in SUBSET Int
      BY <1>1 DEF Enough
    <2>6. Min(enough) = f[m].size
      BY <2>3, <2>4, <2>5, MinOf
    <2> QED BY <2>3, <2>6 DEF m
  <1>4. ASSUME ~(p < Len(f))
        PROVE  enough = {}
    <2> SUFFICES ASSUME NEW s \in enough PROVE FALSE
      OBVIOUS
    <2>1. PICK k \in 1 .. Len(f) : f[k].size = s /\ k > p
      BY <1>2
    <2> QED BY <1>1, <1>4, <2>1
  <1> QED BY <1>3, <1>4 DEF Best

\* What the items hold, as sets of offsets by size
LEMMA ContentsAre ==
    ASSUME NEW t, NEW f \in Seq(ItemType), Items(t) = f, Sorted(f), NEW en \in [Sizes -> SUBSET Nat], Holds(f, en)
    PROVE  Contents(t) = en
  <1>1. Range(f) = {f[k] : k \in 1 .. Len(f)}
    BY DEF Range
  <1> DEFINE its(s) == {i \in Range(f) : i.size = s}
             offs(s) == UNION {item.offsets : item \in its(s)}
  <1>2. ASSUME NEW s \in Sizes
        PROVE  offs(s) = en[s]
    <2>1. ASSUME NEW o \in offs(s) PROVE o \in en[s]
      <3>1. PICK item \in its(s) : o \in item.offsets
        OBVIOUS
      <3>2. PICK k \in 1 .. Len(f) : item = f[k]
        BY <1>1, <3>1
      <3> QED BY <3>1, <3>2 DEF Holds
    <2>2. ASSUME NEW o \in en[s] PROVE o \in offs(s)
      <3>1. PICK k \in 1 .. Len(f) : f[k].size = s
        BY <2>2 DEF Holds
      <3>2. f[k] \in its(s) /\ o \in f[k].offsets
        BY <1>1, <2>2, <3>1 DEF Holds
      <3> QED BY <3>2
    <2> HIDE DEF offs
    <2> QED BY <2>1, <2>2
  <1>3. Contents(t) = [s \in Sizes |-> offs(s)]
    BY DEF Contents
  <1> HIDE DEF offs
  <1> QED BY <1>2, <1>3

-----------------------------------------------------------------------------
(* Moving the cuts: what is done to the groups leaves the items as they are  *)

\* A function by its values
LEMMA Function ==
    ASSUME NEW D, NEW S, NEW g, NEW h, g = [u \in D |-> h[u]], \A u \in D : h[u] \in S
    PROVE  g \in [D -> S]
  OBVIOUS

\* g is a function on these numbers
Over(g, m, n) == g = [u \in m .. n |-> g[u]]

\* Pieces between ascending places make a cut
LEMMA MakeCut ==
    ASSUME NEW n \in Nat, NEW g, Over(g, 1, n), NEW f \in Seq(ItemType),
           NEW c, Over(c, 0, n), c[0] = 0, c[n] = Len(f),
           \A u \in 1 .. n : Piece(g[u], f, c[u - 1], c[u])
    PROVE  Cut(g, f, c) /\ Len(g) = n
  <1>1. \A u \in 1 .. n : g[u] \in Seq(ItemType) /\ c[u] \in Nat
    BY PieceLen
  <1>2. g \in Groups /\ Len(g) = n
    <2>1. g \in [1 .. n -> Seq(ItemType)]
      BY <1>1, Function, Zenon DEF Over
    <2> QED BY <2>1 DEF Groups
  <1>3. \A u \in 0 .. n : c[u] \in Nat
    <2> SUFFICES ASSUME NEW u \in 0 .. n PROVE c[u] \in Nat
      OBVIOUS
    <2>1. u = 0 \/ u \in 1 .. n
      OBVIOUS
    <2> QED BY <1>1, <2>1
  <1>4. c \in [0 .. n -> Nat]
    BY <1>3, Function, Zenon DEF Over
  <1> QED BY <1>2, <1>4 DEF Cut

\* A function with one value changed
Changed(g, u, a) == [g EXCEPT ![u] = a]

\* The last items of a group go to the next one
LEMMA MovedForth ==
    ASSUME NEW g, NEW f, NEW c, Cut(g, f, c), NEW u \in 1 .. Len(g), NEW v \in 1 .. Len(g), v = u + 1,
           NEW count \in Nat, count <= Len(g[u]), NEW k, k = Moved(g, u, v, count), NEW e, e = Changed(c, u, c[u] - count)
    PROVE  Cut(k, f, e) /\ Len(k) = Len(g)
  <1> DEFINE n == Len(g)
             src == g[u]
             rest == Len(src) - count
             head == SubSeq(src, 1, rest)
             tail == SubSeq(src, rest + 1, Len(src))
             h == [g EXCEPT ![v] = tail \o g[v], ![u] = head]
             m == c[u] - count
             d == [c EXCEPT ![u] = m]
  <1>1. n \in Nat /\ f \in Seq(ItemType) /\ g \in Seq(Seq(ItemType)) /\ DOMAIN c = 0 .. n /\ c[0] = 0 /\ c[n] = Len(f)
        /\ DOMAIN g = 1 .. n /\ u \in 1 .. n /\ v \in 1 .. n
    BY CutTypes
  <1>2. Moved(g, u, v, count) = h
    <2>1. ~(u > v)
      BY <1>1
    <2> QED BY <2>1 DEF Moved
  <1>3. /\ Piece(src, f, c[u - 1], c[u]) /\ c[u] \in Nat /\ c[u - 1] \in Nat /\ c[u] = c[u - 1] + Len(src) /\ Len(src) \in Nat
        /\ Piece(g[v], f, c[v - 1], c[v]) /\ v - 1 = u
    <2>1. v - 1 = u
      BY <1>1
    <2>2. Piece(src, f, c[u - 1], c[u]) /\ c[u] \in Nat /\ c[u - 1] \in Nat /\ c[u] = c[u - 1] + Len(src) /\ Len(src) \in Nat
      BY CutGroup
    <2>3. Piece(g[v], f, c[v - 1], c[v])
      BY CutGroup
    <2> QED BY <2>1, <2>2, <2>3
  <1>4. m \in Nat /\ c[u - 1] <= m /\ m <= c[u] /\ rest = m - c[u - 1]
    <2> DEFINE x == c[u - 1]
               y == c[u]
               l == Len(src)
    <2>1. x \in Nat /\ y \in Nat /\ l \in Nat /\ y = x + l /\ count <= l
      BY <1>3
    <2> HIDE DEF x, y, l
    <2>2. y - count \in Nat /\ x <= y - count /\ y - count <= y /\ l - count = (y - count) - x
      BY <2>1
    <2> QED BY <2>2 DEF x, y, l
  <1> HIDE DEF src, m, rest, n
  <1>5. Piece(head, f, c[u - 1], m) /\ Piece(tail, f, m, c[u])
    BY <1>3, <1>4, PieceSplit
  <1> HIDE DEF head, tail
  <1>6. Piece(tail \o g[v], f, m, c[v])
    BY <1>3, <1>5, PieceJoin
  <1>7. ASSUME NEW w \in 1 .. n
        PROVE  Piece(h[w], f, d[w - 1], d[w])
    <2>1. w \in 0 .. n /\ w - 1 \in 0 .. n /\ u # v /\ u \in 0 .. n
      BY <1>1
    <2>2. CASE w = u
      <3>1. h[w] = head /\ d[w] = m /\ d[w - 1] = c[u - 1]
        BY <1>1, <2>1, <2>2
      <3> HIDE DEF h, d
      <3> QED BY <1>5, <3>1
    <2>3. CASE w = v
      <3>1. h[w] = tail \o g[v] /\ d[w] = c[v] /\ d[w - 1] = m
        BY <1>1, <1>3, <2>1, <2>3
      <3> HIDE DEF h, d
      <3> QED BY <1>6, <3>1
    <2>4. CASE w # u /\ w # v
      <3>1. w - 1 # u
        BY <1>1, <2>4
      <3>2. h[w] = g[w] /\ d[w] = c[w] /\ d[w - 1] = c[w - 1]
        BY <1>1, <2>1, <2>4, <3>1
      <3> HIDE DEF h, d
      <3>3. Piece(g[w], f, c[w - 1], c[w])
        BY CutGroup DEF n
      <3> QED BY <3>2, <3>3
    <2> QED BY <2>2, <2>3, <2>4
  <1>8. Over(h, 1, n)
    BY <1>1 DEF Over
  <1>9. Over(d, 0, n) /\ d[0] = 0 /\ d[n] = Len(f)
    <2>1. 0 # u /\ n # u /\ 0 \in 0 .. n /\ n \in 0 .. n
      BY <1>1
    <2>2. d[0] = c[0] /\ d[n] = c[n]
      BY <1>1, <2>1
    <2>3. Over(d, 0, n)
      BY <1>1 DEF Over
    <2> QED BY <1>1, <2>2, <2>3
  <1>10. Cut(h, f, d) /\ Len(h) = n
    <2> HIDE DEF h, d
    <2> QED BY <1>1, <1>7, <1>8, <1>9, MakeCut
  <1>11. k = h /\ e = d
    BY <1>2 DEF Changed, m
  <1> QED BY <1>10, <1>11 DEF n

\* The first items of a group go to the one before
LEMMA MovedBack ==
    ASSUME NEW g, NEW f, NEW c, Cut(g, f, c), NEW u \in 1 .. Len(g), NEW v \in 1 .. Len(g), u = v + 1,
           NEW count \in Nat, count <= Len(g[u])
    PROVE  /\ Cut(Moved(g, u, v, count), f, [c EXCEPT ![v] = c[v] + count])
           /\ Len(Moved(g, u, v, count)) = Len(g)
  <1> DEFINE n == Len(g)
             src == g[u]
             head == SubSeq(src, 1, count)
             tail == SubSeq(src, count + 1, Len(src))
             h == [g EXCEPT ![v] = g[v] \o head, ![u] = tail]
             m == c[v] + count
             d == [c EXCEPT ![v] = m]
  <1>1. n \in Nat /\ f \in Seq(ItemType) /\ g \in Seq(Seq(ItemType)) /\ DOMAIN c = 0 .. n /\ c[0] = 0 /\ c[n] = Len(f)
        /\ DOMAIN g = 1 .. n /\ u \in 1 .. n /\ v \in 1 .. n
    BY CutTypes
  <1>2. Moved(g, u, v, count) = h
    <2>1. u > v
      BY <1>1
    <2> QED BY <2>1 DEF Moved
  <1>3. /\ Piece(src, f, c[v], c[u]) /\ c[u] \in Nat /\ c[v] \in Nat /\ c[u] = c[v] + Len(src) /\ Len(src) \in Nat
        /\ Piece(g[v], f, c[v - 1], c[v]) /\ u - 1 = v
    <2>1. u - 1 = v
      BY <1>1
    <2>2. Piece(src, f, c[u - 1], c[u]) /\ c[u] \in Nat /\ c[u - 1] \in Nat /\ c[u] = c[u - 1] + Len(src) /\ Len(src) \in Nat
      BY CutGroup
    <2>3. Piece(g[v], f, c[v - 1], c[v])
      BY CutGroup
    <2> QED BY <2>1, <2>2, <2>3
  <1>4. m \in Nat /\ c[v] <= m /\ m <= c[u] /\ count = m - c[v]
    <2> DEFINE x == c[v]
               y == c[u]
               l == Len(src)
    <2>1. x \in Nat /\ y \in Nat /\ l \in Nat /\ y = x + l /\ count <= l
      BY <1>3
    <2> HIDE DEF x, y, l
    <2>2. x + count \in Nat /\ x <= x + count /\ x + count <= y /\ count = (x + count) - x
      BY <2>1
    <2> QED BY <2>2 DEF x, y, l
  <1> HIDE DEF src, m, n
  <1>5. Piece(head, f, c[v], m) /\ Piece(tail, f, m, c[u])
    BY <1>3, <1>4, PieceSplit
  <1> HIDE DEF head, tail
  <1>6. Piece(g[v] \o head, f, c[v - 1], m)
    BY <1>3, <1>5, PieceJoin
  <1>7. ASSUME NEW w \in 1 .. n
        PROVE  Piece(h[w], f, d[w - 1], d[w])
    <2>1. w \in 0 .. n /\ w - 1 \in 0 .. n /\ u # v /\ u \in 0 .. n
      BY <1>1
    <2>2. CASE w = v
      <3>a. h[w] = g[v] \o head
        BY <1>1, <2>1, <2>2
      <3>b. d[w] = m /\ d[w - 1] = c[v - 1]
        BY <1>1, <2>1, <2>2
      <3> HIDE DEF h, d
      <3> QED BY <1>6, <3>a, <3>b
    <2>3. CASE w = u
      <3>1. h[w] = tail /\ d[w] = c[u] /\ d[w - 1] = m
        BY <1>1, <1>3, <2>1, <2>3
      <3> HIDE DEF h, d
      <3> QED BY <1>5, <3>1
    <2>4. CASE w # u /\ w # v
      <3>1. w - 1 # v
        BY <1>1, <2>4
      <3>2. h[w] = g[w] /\ d[w] = c[w] /\ d[w - 1] = c[w - 1]
        BY <1>1, <2>1, <2>4, <3>1
      <3> HIDE DEF h, d
      <3>3. Piece(g[w], f, c[w - 1], c[w])
        BY CutGroup DEF n
      <3> QED BY <3>2, <3>3
    <2> QED BY <2>2, <2>3, <2>4
  <1>8. Over(h, 1, n)
    BY <1>1 DEF Over
  <1>9. Over(d, 0, n) /\ d[0] = 0 /\ d[n] = Len(f)
    <2>1. 0 # v /\ n # v /\ 0 \in 0 .. n /\ n \in 0 .. n
      BY <1>1
    <2>2. d[0] = c[0] /\ d[n] = c[n]
      BY <1>1, <2>1
    <2>3. Over(d, 0, n)
      BY <1>1 DEF Over
    <2> QED BY <1>1, <2>2, <2>3
  <1>10. Cut(h, f, d) /\ Len(h) = n
    <2> HIDE DEF h, d
    <2> QED BY <1>1, <1>7, <1>8, <1>9, MakeCut
  <1> QED BY <1>2, <1>10 DEF m, n

\* A new group in front of place u
Widened(c, n, u) == [v \in 0 .. n + 1 |-> IF v < u THEN c[v] ELSE c[v - 1]]

\* An empty group more
LEMMA GroupInserted ==
    ASSUME NEW g, NEW f, NEW c, Cut(g, f, c), NEW u \in 1 .. Len(g) + 1
    PROVE  /\ Cut(InsertAt(g, u, <<>>), f, Widened(c, Len(g), u)) /\ Len(InsertAt(g, u, <<>>)) = Len(g) + 1
           /\ \A j \in 1 .. Len(g) + 1 : InsertAt(g, u, <<>>)[j] = IF j < u THEN g[j] ELSE IF j = u THEN <<>> ELSE g[j - 1]
  <1> DEFINE n == Len(g)
             h == InsertAt(g, u, <<>>)
             d == Widened(c, n, u)
  <1>1. n \in Nat /\ f \in Seq(ItemType) /\ g \in Seq(Seq(ItemType)) /\ c[0] = 0 /\ c[n] = Len(f) /\ <<>> \in Seq(ItemType)
        /\ u \in 1 .. n + 1
    BY CutTypes
  <1>2. /\ h \in Seq(Seq(ItemType)) /\ Len(h) = n + 1
        /\ \A j \in 1 .. n + 1 : h[j] = IF j < u THEN g[j] ELSE IF j = u THEN <<>> ELSE g[j - 1]
    <2> DEFINE e == <<>>
    <2>1. e \in Seq(ItemType)
      OBVIOUS
    <2> HIDE DEF e
    <2>2. /\ InsertAt(g, u, e) \in Seq(Seq(ItemType)) /\ Len(InsertAt(g, u, e)) = Len(g) + 1
          /\ \A j \in 1 .. Len(g) + 1 : InsertAt(g, u, e)[j] = IF j < u THEN g[j] ELSE IF j = u THEN e ELSE g[j - 1]
      <3> DEFINE S == Seq(ItemType)
      <3>1. e \in S /\ g \in Seq(S)
        BY <1>1, <2>1
      <3> HIDE DEF S
      <3>2. /\ InsertAt(g, u, e) \in Seq(S) /\ Len(InsertAt(g, u, e)) = Len(g) + 1
            /\ \A j \in 1 .. Len(g) + 1 : InsertAt(g, u, e)[j] = IF j < u THEN g[j] ELSE IF j = u THEN e ELSE g[j - 1]
        BY <3>1, InsertAtIs
      <3> QED BY <3>2 DEF S
    <2> QED BY <2>2 DEF e
  <1>3. \A v \in 0 .. n + 1 : d[v] = IF v < u THEN c[v] ELSE c[v - 1]
    BY DEF Widened
  <1>4. Over(d, 0, n + 1)
    BY DEF Widened, Over
  <1> HIDE DEF h, d, n
  <1>5. ASSUME NEW w \in 1 .. n + 1
        PROVE  Piece(h[w], f, d[w - 1], d[w])
    <2>1. w \in 0 .. n + 1 /\ w - 1 \in 0 .. n + 1
      BY <1>1
    <2>2. CASE w < u
      <3>1. h[w] = g[w] /\ d[w] = c[w] /\ d[w - 1] = c[w - 1] /\ w \in 1 .. n
        <4>1. w \in 1 .. n /\ w - 1 < u
          BY <1>1, <2>2
        <4>2. h[w] = g[w]
          BY <1>2, <2>2
        <4>3. d[w] = c[w] /\ d[w - 1] = c[w - 1]
          BY <1>3, <2>1, <2>2, <4>1
        <4> QED BY <4>1, <4>2, <4>3
      <3> QED BY <3>1, CutGroup DEF n
    <2>3. CASE w = u
      <3>1. h[w] = <<>> /\ d[w] = c[w - 1] /\ d[w - 1] = c[w - 1] /\ w - 1 \in 0 .. n
        <4>1. w - 1 < u /\ w - 1 \in 0 .. n
          BY <1>1, <2>3
        <4>2. h[w] = <<>>
          BY <1>2, <2>3
        <4>3. d[w] = c[w - 1] /\ d[w - 1] = c[w - 1]
          BY <1>3, <2>1, <2>3, <4>1
        <4> QED BY <4>1, <4>2, <4>3
      <3>2. c[w - 1] \in Nat
        BY <3>1, CutTypes DEF n
      <3> QED BY <3>1, <3>2, NoPiece
    <2>4. CASE w > u
      <3> DEFINE x == w - 1
      <3>1. h[w] = g[x] /\ d[w] = c[x] /\ d[w - 1] = c[x - 1] /\ x \in 1 .. n
        <4>1. ~(w - 1 < u) /\ ~(w < u) /\ w # u /\ x \in 1 .. n
          BY <1>1, <2>4
        <4>2. h[w] = g[w - 1]
          BY <1>2, <4>1
        <4>3. d[w] = c[w - 1] /\ d[w - 1] = c[(w - 1) - 1]
          BY <1>3, <2>1, <4>1
        <4> QED BY <4>1, <4>2, <4>3
      <3> HIDE DEF x
      <3>2. Piece(g[x], f, c[x - 1], c[x])
        BY <3>1, CutGroup DEF n
      <3> QED BY <3>1, <3>2
    <2> QED BY <1>1, <2>2, <2>3, <2>4 DEF n
  <1>6. Over(h, 1, n + 1)
    BY <1>1, <1>2 DEF Over
  <1>7. d[0] = 0 /\ d[n + 1] = Len(f) /\ n + 1 \in Nat
    <2>1. 0 < u /\ ~(n + 1 < u) /\ 0 \in 0 .. n + 1 /\ n + 1 \in 0 .. n + 1 /\ (n + 1) - 1 = n
      BY <1>1 DEF n
    <2> QED BY <1>1, <1>3, <2>1
  <1> DEFINE m == n + 1
  <1>8. Cut(h, f, d)
    <2>1. m \in Nat /\ Over(h, 1, m) /\ Over(d, 0, m) /\ d[0] = 0 /\ d[m] = Len(f)
      BY <1>4, <1>6, <1>7
    <2>2. \A w \in 1 .. m : Piece(h[w], f, d[w - 1], d[w])
      BY <1>5
    <2> HIDE DEF m
    <2> QED BY <1>1, <2>1, <2>2, MakeCut
  <1> QED BY <1>2, <1>8 DEF n, h, d

\* An empty group goes
Narrowed(c, n, u) == [v \in 0 .. n - 1 |-> IF v < u THEN c[v] ELSE c[v + 1]]

\* An empty group less
LEMMA GroupRemoved ==
    ASSUME NEW g, NEW f, NEW c, Cut(g, f, c), NEW u \in 1 .. Len(g), g[u] = <<>>
    PROVE  /\ Cut(RemoveAt(g, u), f, Narrowed(c, Len(g), u)) /\ Len(RemoveAt(g, u)) = Len(g) - 1
           /\ \A j \in 1 .. Len(g) - 1 : RemoveAt(g, u)[j] = IF j < u THEN g[j] ELSE g[j + 1]
  <1> DEFINE n == Len(g)
             m == n - 1
             h == RemoveAt(g, u)
             d == Narrowed(c, n, u)
  <1>1. n \in Nat /\ m \in Nat /\ f \in Seq(ItemType) /\ g \in Seq(Seq(ItemType)) /\ c[0] = 0 /\ c[n] = Len(f)
        /\ u \in 1 .. n
    BY CutTypes
  <1>2. /\ h \in Seq(Seq(ItemType)) /\ Len(h) = m
        /\ \A j \in 1 .. m : h[j] = IF j < u THEN g[j] ELSE g[j + 1]
    BY <1>1, RemoveAtIs
  <1>3. \A v \in 0 .. m : d[v] = IF v < u THEN c[v] ELSE c[v + 1]
    BY DEF Narrowed
  <1>4. Over(d, 0, m)
    BY DEF Narrowed, Over
  <1>u. c[u - 1] = c[u]
    BY CutGroup
  <1> HIDE DEF h, d, n
  <1>5. ASSUME NEW w \in 1 .. m
        PROVE  Piece(h[w], f, d[w - 1], d[w])
    <2>1. w \in 0 .. m /\ w - 1 \in 0 .. m
      BY <1>1
    <2>2. CASE w < u
      <3>1. h[w] = g[w] /\ d[w] = c[w] /\ d[w - 1] = c[w - 1] /\ w \in 1 .. n
        <4>1. w \in 1 .. n /\ w - 1 < u
          BY <1>1, <2>2
        <4>2. h[w] = g[w]
          BY <1>2, <2>2
        <4>3. d[w] = c[w] /\ d[w - 1] = c[w - 1]
          BY <1>3, <2>1, <2>2, <4>1
        <4> QED BY <4>1, <4>2, <4>3
      <3> QED BY <3>1, CutGroup DEF n
    <2>3. CASE w >= u
      <3> DEFINE x == w + 1
      <3>1. h[w] = g[x] /\ d[w] = c[x] /\ x \in 1 .. n /\ x - 1 = w
        <4>1. ~(w < u) /\ x \in 1 .. n /\ x - 1 = w
          BY <1>1, <2>3
        <4>2. h[w] = g[w + 1] /\ d[w] = c[w + 1]
          BY <1>2, <1>3, <2>1, <4>1
        <4> QED BY <4>1, <4>2
      <3>2. d[w - 1] = c[w]
        <4>1. CASE w = u
          <5>0. w - 1 < u
            BY <1>1, <4>1
          <5>1. d[w - 1] = c[u - 1]
            BY <1>3, <2>1, <4>1, <5>0
          <5> QED BY <1>u, <4>1, <5>1
        <4>2. CASE w # u
          <5>1. ~(w - 1 < u) /\ (w - 1) + 1 = w
            BY <1>1, <2>3, <4>2
          <5> QED BY <1>3, <2>1, <5>1
        <4> QED BY <4>1, <4>2
      <3> HIDE DEF x
      <3>3. Piece(g[x], f, c[x - 1], c[x])
        BY <3>1, CutGroup DEF n
      <3> QED BY <3>1, <3>2, <3>3
    <2> QED BY <1>1, <2>2, <2>3
  <1>6. Over(h, 1, m)
    BY <1>1, <1>2 DEF Over
  <1>7. d[0] = 0 /\ d[m] = Len(f)
    <2>1. d[0] = 0
      BY <1>1, <1>3
    <2>2. d[m] = c[n]
      <3>1. CASE m < u
        <4>1. u = n /\ u - 1 = m
          BY <1>1, <3>1
        <4>2. m \in 0 .. m /\ d[m] = c[m]
          BY <1>1, <1>3, <3>1
        <4> QED BY <1>u, <4>1, <4>2
      <3>2. CASE ~(m < u)
        <4>1. m + 1 = n
          BY <1>1
        <4>2. m \in 0 .. m
          BY <1>1
        <4>3. d[m] = c[m + 1]
          BY <1>3, <3>2, <4>2
        <4> QED BY <4>1, <4>3
      <3> QED BY <3>1, <3>2
    <2> QED BY <1>1, <2>1, <2>2
  <1>8. Cut(h, f, d)
    <2> HIDE DEF m
    <2> QED BY <1>1, <1>4, <1>5, <1>6, <1>7, MakeCut
  <1> QED BY <1>2, <1>8 DEF h, d, n

\* A piece without its first item
LEMMA PieceTail ==
    ASSUME NEW a, NEW f, NEW x, NEW y, Piece(a, f, x, y), x < y
    PROVE  Piece(Tail(a), f, x + 1, y)
  <1>1. a \in Seq(ItemType) /\ Len(a) \in Nat /\ x \in Nat /\ y \in Nat /\ Len(a) = y - x
    BY PieceLen
  <1>2. Tail(a) = SubSeq(a, 1 + 1, Len(a))
    <2>1. a # <<>>
      BY <1>1
    <2>2. /\ Tail(a) \in Seq(ItemType) /\ Len(Tail(a)) = Len(a) - 1
          /\ \A i \in 1 .. Len(Tail(a)) : Tail(a)[i] = a[i + 1]
      BY <1>1, <2>1
    <2>3. /\ SubSeq(a, 1 + 1, Len(a)) \in Seq(ItemType) /\ Len(SubSeq(a, 1 + 1, Len(a))) = Len(a) - 1
          /\ \A i \in 1 .. Len(a) - 1 : SubSeq(a, 1 + 1, Len(a))[i] = a[i + 1]
      <3>1. 1 + 1 \in Int /\ 1 <= 1 + 1 /\ 1 + 1 <= Len(a) + 1 /\ Len(a) \in Int /\ Len(a) <= Len(a)
        BY <1>1
      <3>2. /\ SubSeq(a, 1 + 1, Len(a)) \in Seq(ItemType) /\ Len(SubSeq(a, 1 + 1, Len(a))) = Len(a) - (1 + 1) + 1
            /\ \A i \in 1 .. Len(a) - (1 + 1) + 1 : SubSeq(a, 1 + 1, Len(a))[i] = a[(1 + 1) + i - 1]
        BY <1>1, <3>1, SubSeqIs
      <3>3. Len(a) - (1 + 1) + 1 = Len(a) - 1 /\ \A i \in 1 .. Len(a) - 1 : (1 + 1) + i - 1 = i + 1
        BY <1>1
      <3> DEFINE sub == SubSeq(a, 1 + 1, Len(a))
      <3> HIDE DEF sub
      <3> QED BY <3>2, <3>3
    <2> QED BY <2>2, <2>3, SeqEqual
  <1>3. x + 1 \in Nat /\ x <= x + 1 /\ x + 1 <= y /\ 1 = (x + 1) - x
    BY <1>1
  <1> QED BY <1>2, <1>3, PieceSplit

\* A piece without its last item
LEMMA PieceFront ==
    ASSUME NEW a, NEW f, NEW x, NEW y, Piece(a, f, x, y), x < y
    PROVE  Piece(Front(a), f, x, y - 1)
  <1>1. Len(a) \in Nat /\ x \in Nat /\ y \in Nat /\ Len(a) = y - x
    BY PieceLen
  <1> DEFINE m == Len(a) - 1
  <1>2. y - 1 \in Nat /\ x <= y - 1 /\ y - 1 <= y /\ m = (y - 1) - x
    BY <1>1
  <1>3. Front(a) = SubSeq(a, 1, m)
    BY DEF Front
  <1> HIDE DEF m
  <1> QED BY <1>2, <1>3, PieceSplit

\* One item goes from each group to its neighbour, towards the free place in
\* front or behind
LEMMA SpaceMovedForth ==
    ASSUME NEW g, NEW f, NEW c, Cut(g, f, c), NoneEmpty(g), NEW u \in 1 .. Len(g), NEW v \in 1 .. Len(g), u < v,
           NEW d, d = [w \in 0 .. Len(g) |-> IF u <= w /\ w < v THEN c[w] + 1 ELSE c[w]]
    PROVE  Cut(SpaceMoved(g, u, v), f, d) /\ Len(SpaceMoved(g, u, v)) = Len(g)
  <1> DEFINE n == Len(g)
             h == SpaceMoved(g, u, v)
             A(w) == IF w > u THEN Tail(g[w]) ELSE g[w]
             B(w) == IF w < v THEN <<g[w + 1][1]>> ELSE <<>>
  <1>1. n \in Nat /\ f \in Seq(ItemType) /\ c[0] = 0 /\ c[n] = Len(f) /\ DOMAIN g = 1 .. n
    BY CutTypes
  <1>2. h = [w \in 1 .. n |-> IF u <= w /\ w <= v THEN A(w) \o B(w) ELSE g[w]]
    <2>1. u < v /\ ~(v < u)
      BY <1>1
    <2> QED BY <1>1, <2>1 DEF SpaceMoved
  <1>3. Over(h, 1, n) /\ \A w \in 1 .. n : h[w] = IF u <= w /\ w <= v THEN A(w) \o B(w) ELSE g[w]
    BY <1>2 DEF Over
  <1>4. Over(d, 0, n) /\ \A w \in 0 .. n : d[w] = IF u <= w /\ w < v THEN c[w] + 1 ELSE c[w]
    BY DEF Over
  <1> HIDE DEF h
  <1>5. ASSUME NEW w \in 1 .. n
        PROVE  /\ c[w - 1] < c[w] /\ c[w] <= Len(f) /\ c[w] \in Nat /\ c[w - 1] \in Nat /\ Piece(g[w], f, c[w - 1], c[w])
               /\ g[w][1] = f[c[w - 1] + 1]
    <2>1. g[w] # <<>>
      BY DEF NoneEmpty
    <2>2. c[w - 1] < c[w] /\ g[w][1] = f[c[w - 1] + 1]
      <3>2. c[w - 1] # c[w] /\ c[w - 1] <= c[w] /\ c[w - 1] \in Nat /\ c[w] \in Nat /\ Len(g[w]) \in Nat /\ c[w] = c[w - 1] + Len(g[w])
        BY <2>1, CutGroup
      <3>3. 1 \in 1 .. Len(g[w])
        BY <3>2
      <3> QED BY <3>2, <3>3, CutItem
    <2> QED BY <2>2, CutGroup, CutNumbers
  <1>6. ASSUME NEW w \in 1 .. n
        PROVE  Piece(h[w], f, d[w - 1], d[w])
    <2>1. w \in 0 .. n /\ w - 1 \in 0 .. n
      BY <1>1
    <2>2. CASE u <= w /\ w <= v
      <3>1. h[w] = A(w) \o B(w)
        BY <1>3, <2>2
      <3>2. Piece(A(w), f, d[w - 1], c[w])
        <4>1. CASE w > u
          <5>1. u <= w - 1 /\ w - 1 < v
            BY <1>1, <2>2, <4>1
          <5>2. d[w - 1] = c[w - 1] + 1 /\ A(w) = Tail(g[w])
            BY <1>4, <2>1, <4>1, <5>1
          <5> QED BY <1>5, <5>2, PieceTail
        <4>2. CASE w = u
          <5>1. ~(u <= w - 1)
            BY <1>1, <4>2
          <5>2. d[w - 1] = c[w - 1] /\ A(w) = g[w]
            BY <1>1, <1>4, <2>1, <4>2, <5>1
          <5> QED BY <1>5, <5>2
        <4> QED BY <1>1, <2>2, <4>1, <4>2
      <3>3. Piece(B(w), f, c[w], d[w])
        <4>1. CASE w < v
          <5> DEFINE x == w + 1
          <5>1. x \in 1 .. n /\ x - 1 = w
            BY <1>1, <4>1
          <5>2. d[w] = c[w] + 1 /\ B(w) = <<g[x][1]>>
            BY <1>4, <2>1, <2>2, <4>1
          <5> HIDE DEF x
          <5>3. c[x - 1] < c[x] /\ c[x] <= Len(f) /\ c[x] \in Nat /\ c[x - 1] \in Nat /\ g[x][1] = f[c[x - 1] + 1]
            BY <1>5, <5>1
          <5>4. c[w] \in Nat /\ c[w] + 1 \in 1 .. Len(f) /\ g[x][1] = f[c[w] + 1]
            BY <1>1, <5>1, <5>3
          <5>5. f[c[w] + 1] \in ItemType
            BY <1>1, <5>4, SizeNat
          <5>6. Piece(<<f[c[w] + 1]>>, f, c[w], c[w] + 1)
            BY <5>4, <5>5, OnePiece
          <5> QED BY <5>2, <5>4, <5>6
        <4>2. CASE w = v
          <5>1. d[w] = c[w] /\ B(w) = <<>>
            BY <1>1, <1>4, <2>1, <4>2
          <5> QED BY <1>5, <5>1, NoPiece
        <4> QED BY <1>1, <2>2, <4>1, <4>2
      <3> QED BY <3>1, <3>2, <3>3, PieceJoin
    <2>3. CASE ~(u <= w /\ w <= v)
      <3>1. ~(u <= w /\ w < v) /\ ~(u <= w - 1 /\ w - 1 < v)
        BY <1>1, <2>3
      <3>2. h[w] = g[w] /\ d[w] = c[w] /\ d[w - 1] = c[w - 1]
        BY <1>3, <1>4, <2>1, <2>3, <3>1
      <3> QED BY <1>5, <3>2
    <2> QED BY <2>2, <2>3
  <1>7. d[0] = 0 /\ d[n] = Len(f)
    <2>1. ~(u <= 0) /\ ~(n < v)
      BY <1>1
    <2> QED BY <1>1, <1>4, <2>1
  <1>8. Cut(h, f, d) /\ Len(h) = n
    <2>1. /\ n \in Nat /\ Over(h, 1, n) /\ f \in Seq(ItemType)
          /\ Over(d, 0, n) /\ d[0] = 0 /\ d[n] = Len(f)
      BY <1>1, <1>3, <1>4, <1>7
    <2>2. \A w \in 1 .. n : Piece(h[w], f, d[w - 1], d[w])
      BY <1>6
    <2> HIDE DEF n
    <2> QED BY <2>1, <2>2, MakeCut
  <1> QED BY <1>8 DEF h

\* move_space towards the front keeps the items and their order
LEMMA SpaceMovedBack ==
    ASSUME NEW g, NEW f, NEW c, Cut(g, f, c), NoneEmpty(g), NEW u \in 1 .. Len(g), NEW v \in 1 .. Len(g), v < u,
           NEW d, d = [w \in 0 .. Len(g) |-> IF v <= w /\ w < u THEN c[w] - 1 ELSE c[w]]
    PROVE  Cut(SpaceMoved(g, u, v), f, d) /\ Len(SpaceMoved(g, u, v)) = Len(g)
  <1> DEFINE n == Len(g)
             h == SpaceMoved(g, u, v)
             A(w) == IF w > v THEN <<Last(g[w - 1])>> ELSE <<>>
             B(w) == IF w < u THEN Front(g[w]) ELSE g[w]
  <1>1. n \in Nat /\ f \in Seq(ItemType) /\ c[0] = 0 /\ c[n] = Len(f) /\ DOMAIN g = 1 .. n
    BY CutTypes
  <1>2. h = [w \in 1 .. n |-> IF v <= w /\ w <= u THEN A(w) \o B(w) ELSE g[w]]
    <2>1. v < u /\ ~(u < v)
      BY <1>1
    <2> QED BY <1>1, <2>1 DEF SpaceMoved
  <1>3. Over(h, 1, n) /\ \A w \in 1 .. n : h[w] = IF v <= w /\ w <= u THEN A(w) \o B(w) ELSE g[w]
    BY <1>2 DEF Over
  <1>4. Over(d, 0, n) /\ \A w \in 0 .. n : d[w] = IF v <= w /\ w < u THEN c[w] - 1 ELSE c[w]
    BY DEF Over
  <1> HIDE DEF h
  <1>5. ASSUME NEW w \in 1 .. n
        PROVE  /\ c[w - 1] < c[w] /\ c[w] <= Len(f) /\ c[w] \in Nat /\ c[w - 1] \in Nat /\ Piece(g[w], f, c[w - 1], c[w])
               /\ Last(g[w]) = f[c[w]]
    <2>1. g[w] # <<>>
      BY DEF NoneEmpty
    <2>2. c[w - 1] # c[w] /\ c[w - 1] <= c[w] /\ c[w - 1] \in Nat /\ c[w] \in Nat /\ Len(g[w]) \in Nat /\ c[w] = c[w - 1] + Len(g[w])
      <3>1. c[w - 1] <= c[w] /\ c[w - 1] \in Nat /\ c[w] \in Nat /\ Len(g[w]) \in Nat /\ c[w] = c[w - 1] + Len(g[w])
        BY CutGroup
      <3>2. c[w - 1] # c[w]
        BY <2>1, CutGroup
      <3> QED BY <3>1, <3>2
    <2>3. Len(g[w]) \in 1 .. Len(g[w])
      BY <2>2
    <2>4. Last(g[w]) = f[c[w]]
      <3> DEFINE l == Len(g[w])
      <3>1. g[w][l] = f[c[w - 1] + l]
        BY <2>3, CutItem
      <3> QED BY <2>2, <3>1 DEF Last
    <2>5. c[w - 1] < c[w]
      BY <2>2
    <2> QED BY <2>2, <2>4, <2>5, CutGroup, CutNumbers
  <1>6. ASSUME NEW w \in 1 .. n
        PROVE  Piece(h[w], f, d[w - 1], d[w])
    <2>1. w \in 0 .. n /\ w - 1 \in 0 .. n
      BY <1>1
    <2>2. CASE v <= w /\ w <= u
      <3>1. h[w] = A(w) \o B(w)
        BY <1>3, <2>2
      <3>2. Piece(A(w), f, d[w - 1], c[w - 1])
        <4>1. CASE w > v
          <5> DEFINE x == w - 1
          <5>1. x \in 1 .. n /\ x \in 0 .. n /\ v <= x /\ x < u
            BY <1>1, <2>2, <4>1
          <5>2. d[x] = c[x] - 1 /\ A(w) = <<Last(g[x])>>
            BY <1>4, <4>1, <5>1
          <5> HIDE DEF x, A
          <5>3. c[x - 1] < c[x] /\ c[x] <= Len(f) /\ c[x] \in Nat /\ c[x - 1] \in Nat /\ Last(g[x]) = f[c[x]]
            BY <1>5, <5>1
          <5> DEFINE y == c[x] - 1
          <5>4. y \in Nat /\ y + 1 \in 1 .. Len(f) /\ y + 1 = c[x] /\ Last(g[x]) = f[y + 1]
            BY <1>1, <5>3
          <5>5. f[y + 1] \in ItemType
            <6> HIDE DEF y
            <6> QED BY <1>1, <5>4, SizeNat
          <5>6. Piece(<<f[y + 1]>>, f, y, y + 1)
            <6> HIDE DEF y
            <6> QED BY <5>4, <5>5, OnePiece
          <5>7. Piece(A(w), f, d[x], c[x])
            BY <5>2, <5>4, <5>6
          <5> QED BY <5>7 DEF x
        <4>2. CASE w = v
          <5>1. ~(v <= w - 1)
            BY <1>1, <4>2
          <5>2. d[w - 1] = c[w - 1] /\ A(w) = <<>>
            BY <1>1, <1>4, <2>1, <4>2, <5>1
          <5> QED BY <1>5, <5>2, NoPiece
        <4> QED BY <1>1, <2>2, <4>1, <4>2
      <3>3. Piece(B(w), f, c[w - 1], d[w])
        <4>1. CASE w < u
          <5>1. d[w] = c[w] - 1 /\ B(w) = Front(g[w])
            BY <1>4, <2>1, <2>2, <4>1
          <5> QED BY <1>5, <5>1, PieceFront
        <4>2. CASE w = u
          <5>1. d[w] = c[w] /\ B(w) = g[w]
            BY <1>1, <1>4, <2>1, <4>2
          <5> QED BY <1>5, <5>1
        <4> QED BY <1>1, <2>2, <4>1, <4>2
      <3> QED BY <3>1, <3>2, <3>3, PieceJoin
    <2>3. CASE ~(v <= w /\ w <= u)
      <3>1. ~(v <= w /\ w < u) /\ ~(v <= w - 1 /\ w - 1 < u)
        BY <1>1, <2>3
      <3>2. h[w] = g[w] /\ d[w] = c[w] /\ d[w - 1] = c[w - 1]
        BY <1>3, <1>4, <2>1, <2>3, <3>1
      <3> QED BY <1>5, <3>2
    <2> QED BY <2>2, <2>3
  <1>7. d[0] = 0 /\ d[n] = Len(f)
    <2>1. ~(v <= 0) /\ ~(n < u)
      BY <1>1
    <2> QED BY <1>1, <1>4, <2>1
  <1>8. Cut(h, f, d) /\ Len(h) = n
    <2>1. /\ n \in Nat /\ Over(h, 1, n) /\ f \in Seq(ItemType)
          /\ Over(d, 0, n) /\ d[0] = 0 /\ d[n] = Len(f)
      BY <1>1, <1>3, <1>4, <1>7
    <2>2. \A w \in 1 .. n : Piece(h[w], f, d[w - 1], d[w])
      BY <1>6
    <2> HIDE DEF n
    <2> QED BY <2>1, <2>2, MakeCut
  <1> QED BY <1>8 DEF h

-----------------------------------------------------------------------------
(* Adding, removing and changing an item                                     *)

\* A group with one more item
LEMMA ItemInserted ==
    ASSUME NEW s \in Seq(ItemType), NEW i \in 1 .. Len(s) + 1, NEW item \in ItemType
    PROVE  /\ InsertAt(s, i, item) \in Seq(ItemType)
           /\ Len(InsertAt(s, i, item)) = Len(s) + 1
           /\ \A j \in 1 .. Len(s) + 1 :
                 InsertAt(s, i, item)[j] = IF j < i THEN s[j] ELSE IF j = i THEN item ELSE s[j - 1]
  <1> DEFINE S == ItemType
  <1>1. s \in Seq(S) /\ item \in S /\ i \in 1 .. Len(s) + 1
    OBVIOUS
  <1> HIDE DEF S
  <1>2. /\ InsertAt(s, i, item) \in Seq(S)
        /\ Len(InsertAt(s, i, item)) = Len(s) + 1
        /\ \A j \in 1 .. Len(s) + 1 :
              InsertAt(s, i, item)[j] = IF j < i THEN s[j] ELSE IF j = i THEN item ELSE s[j - 1]
    BY <1>1, InsertAtIs
  <1> QED BY <1>2 DEF S

\* How long it is then
LEMMA InsertedLen ==
    ASSUME NEW s \in Seq(ItemType), NEW i \in 1 .. Len(s) + 1, NEW item \in ItemType
    PROVE  Len(InsertAt(s, i, item)) = Len(s) + 1
  BY ItemInserted

\* b is s with an item at place i
Placed(b, s, i, item) ==
    /\ b \in Seq(ItemType) /\ Len(b) = Len(s) + 1
    /\ \A j \in 1 .. Len(s) + 1 : b[j] = IF j < i THEN s[j] ELSE IF j = i THEN item ELSE s[j - 1]

\* InsertAt is that
LEMMA PlacedIs ==
    ASSUME NEW s \in Seq(ItemType), NEW i \in 1 .. Len(s) + 1, NEW item \in ItemType, NEW b, b = InsertAt(s, i, item)
    PROVE  Placed(b, s, i, item)
  <1> DEFINE S == ItemType
  <1>1. s \in Seq(S) /\ item \in S /\ i \in 1 .. Len(s) + 1
    OBVIOUS
  <1> HIDE DEF S
  <1>2. /\ InsertAt(s, i, item) \in Seq(S)
        /\ Len(InsertAt(s, i, item)) = Len(s) + 1
        /\ \A j \in 1 .. Len(s) + 1 :
              InsertAt(s, i, item)[j] = IF j < i THEN s[j] ELSE IF j = i THEN item ELSE s[j - 1]
    BY <1>1, InsertAtIs
  <1>3. Placed(InsertAt(s, i, item), s, i, item)
    BY <1>2 DEF Placed, S
  <1> QED BY <1>3

\* A piece when an item is put before, behind or into it
LEMMA PieceWith ==
    ASSUME NEW f \in Seq(ItemType), NEW item \in ItemType, NEW p \in 0 .. Len(f), NEW e, e = InsertAt(f, p + 1, item),
           NEW a, NEW x, NEW y, Piece(a, f, x, y), y <= Len(f)
    PROVE  /\ y <= p => Piece(a, e, x, y)
           /\ p <= x => Piece(a, e, x + 1, y + 1)
           /\ x <= p /\ p <= y => Piece(InsertAt(a, p - x + 1, item), e, x, y + 1)
  <1> DEFINE n == Len(f)
             l == Len(a)
             i == p + 1
  <1>1. n \in Nat /\ i \in 1 .. n + 1 /\ p \in Nat
    OBVIOUS
  <1>0. e = InsertAt(f, i, item)
    OBVIOUS
  <1>2. \A j \in 1 .. n + 1 : e[j] = IF j < i THEN f[j] ELSE IF j = i THEN item ELSE f[j - 1]
    <2>1. i \in 1 .. Len(f) + 1
      BY <1>1
    <2> HIDE DEF i
    <2>2. \A j \in 1 .. Len(f) + 1 : InsertAt(f, i, item)[j] = IF j < i THEN f[j] ELSE IF j = i THEN item ELSE f[j - 1]
      BY <2>1, ItemInserted
    <2> QED BY <1>0, <2>2
  <1>3. /\ a \in Seq(ItemType) /\ l \in Nat /\ x \in Nat /\ y \in Nat /\ x <= y /\ l = y - x /\ y = x + l
        /\ \A j \in 1 .. l : a[j] = f[x + j]
    BY PieceLen DEF Piece
  <1> HIDE DEF n, l
  <1>n. y <= n
    BY DEF n
  <1>i. i = p + 1 /\ i \in Int
    BY <1>1
  <1> HIDE DEF i
  <1>4. ASSUME y <= p PROVE Piece(a, e, x, y)
    <2>1. ASSUME NEW j \in 1 .. l PROVE a[j] = e[x + j]
      <3>1. x + j \in 1 .. n + 1 /\ x + j < i
        BY <1>1, <1>3, <1>i, <1>n, <1>4
      <3> QED BY <1>2, <1>3, <3>1
    <2> QED BY <1>3, <2>1 DEF Piece, l
  <1>5. ASSUME p <= x PROVE Piece(a, e, x + 1, y + 1)
    <2>1. ASSUME NEW j \in 1 .. l PROVE a[j] = e[(x + 1) + j]
      <3> DEFINE m == (x + 1) + j
      <3>1. m \in 1 .. n + 1 /\ ~(m < i) /\ m # i /\ m - 1 = x + j
        BY <1>1, <1>3, <1>i, <1>n, <1>5
      <3> HIDE DEF m
      <3>2. e[m] = f[m - 1]
        BY <1>2, <3>1
      <3> QED BY <1>3, <3>1, <3>2 DEF m
    <2>2. x + 1 \in Nat /\ y + 1 \in Nat /\ l = (y + 1) - (x + 1)
      BY <1>3
    <2> QED BY <1>3, <2>1, <2>2 DEF Piece, l
  <1>6. ASSUME x <= p, p <= y PROVE Piece(InsertAt(a, p - x + 1, item), e, x, y + 1)
    <2> DEFINE k == p - x + 1
               b == InsertAt(a, k, item)
    <2>1. k \in 1 .. l + 1
      BY <1>1, <1>3, <1>6
    <2>2. /\ b \in Seq(ItemType) /\ Len(b) = l + 1
          /\ \A j \in 1 .. l + 1 : b[j] = IF j < k THEN a[j] ELSE IF j = k THEN item ELSE a[j - 1]
      <3>1. k \in 1 .. Len(a) + 1 /\ a \in Seq(ItemType)
        BY <1>3, <2>1 DEF l
      <3>2. b = InsertAt(a, k, item)
        OBVIOUS
      <3> HIDE DEF k, b
      <3>3. Placed(b, a, k, item)
        BY <3>1, <3>2, PlacedIs
      <3> QED BY <3>3 DEF l, Placed
    <2> HIDE DEF b
    <2>3. ASSUME NEW j \in 1 .. l + 1 PROVE b[j] = e[x + j]
      <3>1. x + j \in 1 .. n + 1 /\ (j < k <=> x + j < i) /\ (j = k <=> x + j = i)
        BY <1>1, <1>3, <1>i, <1>n, <1>6
      <3>2. CASE j < k
        <4>1. j \in 1 .. l
          BY <1>3, <2>1, <3>2
        <4>2. b[j] = a[j] /\ e[x + j] = f[x + j]
          BY <1>2, <2>2, <3>1, <3>2
        <4> QED BY <1>3, <4>1, <4>2
      <3>3. CASE j = k
        <4>1. ~(j < k) /\ ~(x + j < i) /\ x + j = i
          BY <1>1, <2>1, <3>1, <3>3
        <4>2. b[j] = item
          BY <2>2, <3>3, <4>1
        <4>3. e[x + j] = item
          <5> HIDE DEF i
          <5> QED BY <1>2, <3>1, <4>1
        <4> QED BY <4>2, <4>3
      <3>4. CASE j > k
        <4> DEFINE w == j - 1
        <4>1. w \in 1 .. l /\ ~(j < k) /\ j # k /\ (x + j) - 1 = x + w
          BY <1>3, <2>1, <3>4
        <4>2. b[j] = a[w] /\ e[x + j] = f[(x + j) - 1]
          BY <1>2, <2>2, <3>1, <4>1
        <4> HIDE DEF w
        <4> QED BY <1>3, <4>1, <4>2
      <3> QED BY <2>1, <3>2, <3>3, <3>4
    <2>4. y + 1 \in Nat /\ l + 1 = (y + 1) - x
      BY <1>3
    <2> QED BY <1>3, <2>2, <2>3, <2>4 DEF Piece, b
  <1> QED BY <1>4, <1>5, <1>6

\* A piece when an item goes before, behind or in it
LEMMA PieceWithout ==
    ASSUME NEW f \in Seq(ItemType), NEW k \in 1 .. Len(f), NEW e, e = RemoveAt(f, k),
           NEW a, NEW x, NEW y, Piece(a, f, x, y), y <= Len(f)
    PROVE  /\ y < k => Piece(a, e, x, y)
           /\ k <= x => Piece(a, e, x - 1, y - 1)
           /\ x < k /\ k <= y => Piece(RemoveAt(a, k - x), e, x, y - 1)
  <1> DEFINE n == Len(f)
             l == Len(a)
  <1>1. n \in Nat /\ k \in 1 .. n
    OBVIOUS
  <1>2. \A j \in 1 .. n - 1 : e[j] = IF j < k THEN f[j] ELSE f[j + 1]
    BY RemoveAtIs
  <1>3. /\ a \in Seq(ItemType) /\ l \in Nat /\ x \in Nat /\ y \in Nat /\ x <= y /\ l = y - x /\ y = x + l
        /\ \A j \in 1 .. l : a[j] = f[x + j]
    BY PieceLen DEF Piece
  <1> HIDE DEF n, l
  <1>n. y <= n
    BY DEF n
  <1>4. ASSUME y < k PROVE Piece(a, e, x, y)
    <2>1. ASSUME NEW j \in 1 .. l PROVE a[j] = e[x + j]
      <3>1. x + j \in 1 .. n - 1 /\ x + j < k
        BY <1>1, <1>3, <1>n, <1>4
      <3> QED BY <1>2, <1>3, <3>1
    <2> QED BY <1>3, <2>1 DEF Piece, l
  <1>5. ASSUME k <= x PROVE Piece(a, e, x - 1, y - 1)
    <2>1. ASSUME NEW j \in 1 .. l PROVE a[j] = e[(x - 1) + j]
      <3> DEFINE m == (x - 1) + j
      <3>1. m \in 1 .. n - 1 /\ ~(m < k) /\ m + 1 = x + j
        BY <1>1, <1>3, <1>n, <1>5
      <3> HIDE DEF m
      <3>2. e[m] = f[m + 1]
        BY <1>2, <3>1
      <3> QED BY <1>3, <3>1, <3>2 DEF m
    <2>2. x - 1 \in Nat /\ y - 1 \in Nat /\ l = (y - 1) - (x - 1)
      BY <1>1, <1>3, <1>5
    <2> QED BY <1>3, <2>1, <2>2 DEF Piece, l
  <1>6. ASSUME x < k, k <= y PROVE Piece(RemoveAt(a, k - x), e, x, y - 1)
    <2> DEFINE i == k - x
               b == RemoveAt(a, i)
    <2>1. i \in 1 .. l
      BY <1>1, <1>3, <1>6
    <2>2. /\ b \in Seq(ItemType) /\ Len(b) = l - 1
          /\ \A j \in 1 .. l - 1 : b[j] = IF j < i THEN a[j] ELSE a[j + 1]
      <3> HIDE DEF i
      <3> QED BY <1>3, <2>1, RemoveAtIs DEF l
    <2> HIDE DEF b
    <2>3. ASSUME NEW j \in 1 .. l - 1 PROVE b[j] = e[x + j]
      <3>1. x + j \in 1 .. n - 1 /\ (j < i <=> x + j < k)
        BY <1>1, <1>3, <1>n, <1>6
      <3>2. CASE j < i
        <4>1. j \in 1 .. l
          BY <1>3
        <4>2. b[j] = a[j] /\ e[x + j] = f[x + j]
          BY <1>2, <2>2, <3>1, <3>2
        <4> QED BY <1>3, <4>1, <4>2
      <3>3. CASE ~(j < i)
        <4> DEFINE w == j + 1
        <4>1. w \in 1 .. l /\ (x + j) + 1 = x + w
          BY <1>3
        <4>2. b[j] = a[w] /\ e[x + j] = f[(x + j) + 1]
          BY <1>2, <2>2, <3>1, <3>3
        <4> HIDE DEF w
        <4> QED BY <1>3, <4>1, <4>2
      <3> QED BY <3>2, <3>3
    <2>4. y - 1 \in Nat /\ l - 1 = (y - 1) - x
      BY <1>1, <1>3, <1>6
    <2> QED BY <1>3, <2>2, <2>3, <2>4 DEF Piece, b
  <1> QED BY <1>4, <1>5, <1>6

\* A piece when an item is changed before, behind or in it
LEMMA PieceChanged ==
    ASSUME NEW f \in Seq(ItemType), NEW k \in 1 .. Len(f), NEW item \in ItemType, NEW e, e = [f EXCEPT ![k] = item],
           NEW a, NEW x, NEW y, Piece(a, f, x, y), y <= Len(f)
    PROVE  /\ y < k => Piece(a, e, x, y)
           /\ k <= x => Piece(a, e, x, y)
           /\ x < k /\ k <= y => Piece([a EXCEPT ![k - x] = item], e, x, y)
  <1> DEFINE n == Len(f)
             l == Len(a)
  <1>1. n \in Nat /\ k \in 1 .. n
    OBVIOUS
  <1>2. \A j \in 1 .. n : e[j] = IF j = k THEN item ELSE f[j]
    OBVIOUS
  <1>3. /\ a \in Seq(ItemType) /\ l \in Nat /\ x \in Nat /\ y \in Nat /\ x <= y /\ l = y - x /\ y = x + l
        /\ \A j \in 1 .. l : a[j] = f[x + j]
    BY PieceLen DEF Piece
  <1> HIDE DEF n, l
  <1>n. y <= n
    BY DEF n
  <1>4. ASSUME y < k \/ k <= x PROVE Piece(a, e, x, y)
    <2>1. ASSUME NEW j \in 1 .. l PROVE a[j] = e[x + j]
      <3>1. x + j \in 1 .. n /\ x + j # k
        BY <1>1, <1>3, <1>n, <1>4
      <3> QED BY <1>2, <1>3, <3>1
    <2> QED BY <1>3, <2>1 DEF Piece, l
  <1>5. ASSUME x < k, k <= y PROVE Piece([a EXCEPT ![k - x] = item], e, x, y)
    <2> DEFINE i == k - x
               b == [a EXCEPT ![i] = item]
    <2>1. i \in 1 .. l
      BY <1>1, <1>3, <1>5
    <2>2. /\ b \in Seq(ItemType) /\ Len(b) = l
          /\ \A j \in 1 .. l : b[j] = IF j = i THEN item ELSE a[j]
      <3> HIDE DEF i
      <3> QED BY <1>3, <2>1 DEF l
    <2> HIDE DEF b
    <2>3. ASSUME NEW j \in 1 .. l PROVE b[j] = e[x + j]
      <3>1. x + j \in 1 .. n /\ (j = i <=> x + j = k)
        BY <1>1, <1>3, <1>n, <1>5
      <3> QED BY <1>2, <1>3, <2>2, <3>1
    <2> QED BY <1>3, <2>2, <2>3 DEF Piece, b
  <1> QED BY <1>4, <1>5

\* A sequence with one element changed
LEMMA ChangedIs ==
    ASSUME NEW S, NEW g \in Seq(S), NEW u \in 1 .. Len(g), NEW a \in S
    PROVE  /\ Changed(g, u, a) \in Seq(S) /\ Len(Changed(g, u, a)) = Len(g) /\ Changed(g, u, a)[u] = a
           /\ \A v \in 1 .. Len(g) : v # u => Changed(g, u, a)[v] = g[v]
  BY DEF Changed

\* A function with one value changed
LEMMA ChangedAt ==
    ASSUME NEW S, NEW T, NEW en \in [S -> T], NEW u \in S, NEW a \in T
    PROVE  /\ Changed(en, u, a) \in [S -> T] /\ Changed(en, u, a)[u] = a
           /\ \A v \in S : v # u => Changed(en, u, a)[v] = en[v]
  BY DEF Changed

\* A piece that the changed item is not in
LEMMA PieceKept ==
    ASSUME NEW f \in Seq(ItemType), NEW k \in 1 .. Len(f), NEW item \in ItemType, NEW e, e = Changed(f, k, item),
           NEW a, NEW x, NEW y, Piece(a, f, x, y), y <= Len(f), y < k \/ k <= x
    PROVE  Piece(a, e, x, y)
  <1>1. e = [f EXCEPT ![k] = item]
    BY DEF Changed
  <1> QED BY <1>1, PieceChanged

\* The cuts after an item was added to group u, removed, or changed
CutsWith(c, n, u) == [v \in 0 .. n |-> IF v < u THEN c[v] ELSE c[v] + 1]

CutsWithout(c, n, k) == [v \in 0 .. n |-> IF k <= c[v] THEN c[v] - 1 ELSE c[v]]

\* An item put into a group is put into all items, at its place
LEMMA ItemAdded ==
    ASSUME NEW g, NEW f, NEW c, Cut(g, f, c), NEW u \in 1 .. Len(g), NEW p \in 0 .. Len(f), c[u - 1] <= p, p <= c[u],
           NEW item \in ItemType, NEW i, i = p - c[u - 1] + 1, NEW k, k = p + 1
    PROVE  /\ Cut(Changed(g, u, InsertAt(g[u], i, item)), InsertAt(f, k, item), CutsWith(c, Len(g), u))
           /\ Len(Changed(g, u, InsertAt(g[u], i, item))) = Len(g)
  <1> DEFINE n == Len(g)
             b == c[u - 1]
             e == InsertAt(f, p + 1, item)
             a == InsertAt(g[u], p - b + 1, item)
             h == [g EXCEPT ![u] = a]
             d == CutsWith(c, n, u)
  <1>1. n \in Nat /\ f \in Seq(ItemType) /\ DOMAIN g = 1 .. n /\ c[0] = 0 /\ c[n] = Len(f) /\ u \in 1 .. n /\ Len(f) \in Nat
        /\ g \in Seq(Seq(ItemType))
    BY CutTypes
  <1>2. e \in Seq(ItemType) /\ Len(e) = Len(f) + 1
    <2>1. k \in 1 .. Len(f) + 1 /\ e = InsertAt(f, k, item)
      BY <1>1
    <2> HIDE DEF e
    <2>2. InsertAt(f, k, item) \in Seq(ItemType) /\ Len(InsertAt(f, k, item)) = Len(f) + 1
      BY <1>1, <2>1, ItemInserted
    <2> QED BY <2>1, <2>2
  <1>3. ASSUME NEW w \in 1 .. n
        PROVE  /\ w \in 0 .. n /\ w - 1 \in 0 .. n /\ c[w] \in Nat /\ c[w - 1] \in Nat /\ c[w - 1] <= c[w] /\ c[w] <= Len(f)
               /\ Piece(g[w], f, c[w - 1], c[w])
    BY CutNumbers, CutGroup
  <1>4. \A v \in 0 .. n : d[v] = IF v < u THEN c[v] ELSE c[v] + 1
    BY DEF CutsWith
  <1>5. Over(d, 0, n)
    BY DEF CutsWith, Over
  <1>6. Over(h, 1, n) /\ h[u] = a /\ \A w \in 1 .. n : w # u => h[w] = g[w]
    <2> HIDE DEF a, n
    <2> QED BY <1>1 DEF Over
  <1>u. \A v \in 0 .. n, w \in 0 .. n : v <= w => c[v] <= c[w]
    BY CutOrder
  <1> HIDE DEF d, h, n, e
  <1>7. ASSUME NEW w \in 1 .. n
        PROVE  Piece(h[w], e, d[w - 1], d[w])
    <2>0. u \in 0 .. n /\ u - 1 \in 0 .. n
      BY <1>1, <1>3
    <2>1. CASE w < u
      <3>1. d[w] = c[w] /\ d[w - 1] = c[w - 1] /\ h[w] = g[w]
        <4>1. w - 1 < u /\ w # u
          BY <1>1, <2>1
        <4> QED BY <1>3, <1>4, <1>6, <2>1, <4>1
      <3>2. c[w] <= p
        <4> DEFINE t == u - 1
        <4>a. w <= t
          BY <1>1, <2>1
        <4>b. t \in 0 .. n /\ w \in 0 .. n /\ c[t] <= p
          BY <1>3, <2>0
        <4>c. c[t] \in Nat
          BY <1>1, <1>3
        <4>1. w <= t /\ t \in 0 .. n /\ w \in 0 .. n /\ c[t] <= p /\ c[t] \in Nat
          BY <4>a, <4>b, <4>c
        <4> HIDE DEF t
        <4>2. c[w] <= c[t] /\ c[w] \in Nat
          BY <1>3, <1>u, <4>1
        <4> QED BY <1>1, <4>1, <4>2
      <3> QED BY <1>1, <1>3, <3>1, <3>2, PieceWith DEF e
    <2>2. CASE w = u
      <3>1. d[w] = c[w] + 1 /\ d[w - 1] = c[w - 1] /\ h[w] = a
        <4>1. w - 1 < u /\ ~(w < u)
          BY <1>1, <2>2
        <4> QED BY <1>3, <1>4, <1>6, <2>2, <4>1
      <3>2. c[w - 1] <= p /\ p <= c[w] /\ a = InsertAt(g[w], p - c[w - 1] + 1, item)
        BY <2>2
      <3> HIDE DEF a
      <3> QED BY <1>1, <1>3, <3>1, <3>2, PieceWith DEF e
    <2>3. CASE w > u
      <3>1. d[w] = c[w] + 1 /\ d[w - 1] = c[w - 1] + 1 /\ h[w] = g[w]
        <4>1. ~(w - 1 < u) /\ ~(w < u) /\ w # u
          BY <1>1, <2>3
        <4> QED BY <1>3, <1>4, <1>6, <2>3, <4>1
      <3>2. p <= c[w - 1]
        <4>1. u <= w - 1
          BY <1>1, <2>3
        <4>2. c[u] <= c[w - 1] /\ c[u] \in Nat /\ c[w - 1] \in Nat
          BY <1>1, <1>3, <1>u, <2>0, <4>1
        <4> DEFINE y == c[u]
                   z == c[w - 1]
        <4>3. p <= y /\ y <= z /\ y \in Nat /\ z \in Nat /\ p \in Nat
          BY <4>2
        <4> HIDE DEF y, z
        <4>4. p <= z
          BY <4>3
        <4> QED BY <4>4 DEF z
      <3> QED BY <1>1, <1>3, <3>1, <3>2, PieceWith DEF e
    <2> QED BY <1>1, <2>1, <2>2, <2>3
  <1>8. d[0] = 0 /\ d[n] = Len(e)
    <2>1. 0 \in 0 .. n /\ n \in 0 .. n /\ 0 < u /\ ~(n < u)
      BY <1>1
    <2>2. d[0] = c[0] /\ d[n] = c[n] + 1
      BY <1>4, <2>1
    <2> QED BY <1>1, <1>2, <2>2
  <1>9. Cut(h, e, d) /\ Len(h) = n
    BY <1>1, <1>2, <1>5, <1>6, <1>7, <1>8, MakeCut
  <1> QED BY <1>9 DEF n, e, h, d, Changed

\* An item that leaves a group leaves all items
LEMMA ItemRemoved ==
    ASSUME NEW g, NEW f, NEW c, Cut(g, f, c), NEW u \in 1 .. Len(g), NEW k \in 1 .. Len(f), c[u - 1] < k, k <= c[u],
           NEW i, i = k - c[u - 1]
    PROVE  /\ Cut(Changed(g, u, RemoveAt(g[u], i)), RemoveAt(f, k), CutsWithout(c, Len(g), k))
           /\ Len(Changed(g, u, RemoveAt(g[u], i))) = Len(g)
  <1> DEFINE n == Len(g)
             b == c[u - 1]
             e == RemoveAt(f, k)
             a == RemoveAt(g[u], k - b)
             h == [g EXCEPT ![u] = a]
             d == CutsWithout(c, n, k)
  <1>1. n \in Nat /\ f \in Seq(ItemType) /\ DOMAIN g = 1 .. n /\ c[0] = 0 /\ c[n] = Len(f) /\ u \in 1 .. n /\ Len(f) \in Nat
        /\ g \in Seq(Seq(ItemType)) /\ k \in Nat
    BY CutTypes
  <1>2. e \in Seq(ItemType) /\ Len(e) = Len(f) - 1
    BY <1>1, RemoveAtIs
  <1>3. ASSUME NEW w \in 1 .. n
        PROVE  /\ w \in 0 .. n /\ w - 1 \in 0 .. n /\ c[w] \in Nat /\ c[w - 1] \in Nat /\ c[w - 1] <= c[w] /\ c[w] <= Len(f)
               /\ Piece(g[w], f, c[w - 1], c[w])
    BY CutNumbers, CutGroup
  <1>4. \A v \in 0 .. n : d[v] = IF k <= c[v] THEN c[v] - 1 ELSE c[v]
    BY DEF CutsWithout
  <1>5. Over(d, 0, n)
    BY DEF CutsWithout, Over
  <1>6. Over(h, 1, n) /\ h[u] = a /\ \A w \in 1 .. n : w # u => h[w] = g[w]
    <2> HIDE DEF a, n
    <2> QED BY <1>1 DEF Over
  <1>u. \A v \in 0 .. n, w \in 0 .. n : v <= w => c[v] <= c[w]
    BY CutOrder
  <1> HIDE DEF d, h, n, e
  <1>7. ASSUME NEW w \in 1 .. n
        PROVE  Piece(h[w], e, d[w - 1], d[w])
    <2>0. u \in 0 .. n /\ u - 1 \in 0 .. n /\ c[u] \in Nat /\ c[u - 1] \in Nat
      BY <1>1, <1>3
    <2>1. CASE w < u
      <3>1. w <= u - 1 /\ w # u
        BY <1>1, <2>1
      <3>2. c[w] <= c[u - 1]
        BY <1>3, <1>u, <2>0, <3>1
      <3>3. c[w] < k /\ ~(k <= c[w]) /\ ~(k <= c[w - 1])
        <4> DEFINE x == c[w - 1]
                   y == c[w]
                   z == c[u - 1]
        <4>1. x <= y /\ y <= z /\ z < k /\ x \in Nat /\ y \in Nat /\ z \in Nat /\ k \in Nat
          BY <1>1, <1>3, <2>0, <3>2
        <4> HIDE DEF x, y, z
        <4>2. y < k /\ ~(k <= y) /\ ~(k <= x)
          BY <4>1
        <4> QED BY <4>2 DEF x, y
      <3>4. d[w] = c[w] /\ d[w - 1] = c[w - 1] /\ h[w] = g[w]
        BY <1>3, <1>4, <1>6, <3>1, <3>3
      <3> QED BY <1>1, <1>3, <3>3, <3>4, PieceWithout DEF e
    <2>2. CASE w = u
      <3>1. c[w - 1] < k /\ k <= c[w] /\ a = RemoveAt(g[w], k - c[w - 1]) /\ ~(k <= c[w - 1])
        BY <1>1, <2>0, <2>2
      <3>2. d[w] = c[w] - 1 /\ d[w - 1] = c[w - 1] /\ h[w] = a
        BY <1>3, <1>4, <1>6, <2>2, <3>1
      <3> HIDE DEF a
      <3> QED BY <1>1, <1>3, <3>1, <3>2, PieceWithout DEF e
    <2>3. CASE w > u
      <3>1. u <= w - 1 /\ w # u
        BY <1>1, <2>3
      <3>2. c[u] <= c[w - 1]
        BY <1>3, <1>u, <2>0, <3>1
      <3>3. k <= c[w - 1] /\ k <= c[w]
        <4> DEFINE y == c[u]
                   z == c[w - 1]
                   v == c[w]
        <4>1. k <= y /\ y <= z /\ z <= v /\ y \in Nat /\ z \in Nat /\ v \in Nat /\ k \in Nat
          BY <1>1, <1>3, <2>0, <3>2
        <4> HIDE DEF y, z, v
        <4>2. k <= z /\ k <= v
          BY <4>1
        <4> QED BY <4>2 DEF z, v
      <3>4. d[w] = c[w] - 1 /\ d[w - 1] = c[w - 1] - 1 /\ h[w] = g[w]
        BY <1>3, <1>4, <1>6, <3>1, <3>3
      <3> QED BY <1>1, <1>3, <3>3, <3>4, PieceWithout DEF e
    <2> QED BY <1>1, <2>1, <2>2, <2>3
  <1>8. d[0] = 0 /\ d[n] = Len(e)
    <2>1. 0 \in 0 .. n /\ n \in 0 .. n /\ ~(k <= 0) /\ k <= Len(f)
      BY <1>1
    <2>2. d[0] = c[0] /\ d[n] = c[n] - 1
      BY <1>1, <1>4, <2>1
    <2> QED BY <1>1, <1>2, <2>2
  <1>9. Cut(h, e, d) /\ Len(h) = n
    BY <1>1, <1>2, <1>5, <1>6, <1>7, <1>8, MakeCut
  <1> QED BY <1>9 DEF n, e, h, d, Changed

\* The same, for what is made of it
LEMMA ItemTaken ==
    ASSUME NEW g, NEW f, NEW c, Cut(g, f, c), NEW u \in 1 .. Len(g), NEW k \in 1 .. Len(f), c[u - 1] < k, k <= c[u],
           NEW i, i = k - c[u - 1], NEW h, h = Changed(g, u, RemoveAt(g[u], i)), NEW e, e = RemoveAt(f, k),
           NEW d, d = CutsWithout(c, Len(g), k)
    PROVE  Cut(h, e, d) /\ Len(h) = Len(g)
  BY ItemRemoved

\* An item changed in a group is changed in all items
LEMMA ItemChanged ==
    ASSUME NEW g, NEW f, NEW c, Cut(g, f, c), NEW u \in 1 .. Len(g), NEW k \in 1 .. Len(f), c[u - 1] < k, k <= c[u],
           NEW item \in ItemType, NEW i, i = k - c[u - 1]
    PROVE  /\ Cut(Changed(g, u, Changed(g[u], i, item)), Changed(f, k, item), c)
           /\ Len(Changed(g, u, Changed(g[u], i, item))) = Len(g)
  <1> DEFINE n == Len(g)
             b == c[u - 1]
             e == [f EXCEPT ![k] = item]
             a == [g[u] EXCEPT ![k - b] = item]
             h == [g EXCEPT ![u] = a]
  <1>1. n \in Nat /\ f \in Seq(ItemType) /\ DOMAIN g = 1 .. n /\ c[0] = 0 /\ c[n] = Len(f) /\ u \in 1 .. n /\ Len(f) \in Nat
        /\ g \in Seq(Seq(ItemType)) /\ k \in Nat
    BY CutTypes
  <1>2. e \in Seq(ItemType) /\ Len(e) = Len(f)
    BY <1>1
  <1>3. ASSUME NEW w \in 1 .. n
        PROVE  /\ w \in 0 .. n /\ w - 1 \in 0 .. n /\ c[w] \in Nat /\ c[w - 1] \in Nat /\ c[w - 1] <= c[w] /\ c[w] <= Len(f)
               /\ Piece(g[w], f, c[w - 1], c[w])
    BY CutNumbers, CutGroup
  <1>5. Over(c, 0, n)
    BY DEF Cut, Over
  <1>6. Over(h, 1, n) /\ h[u] = a /\ \A w \in 1 .. n : w # u => h[w] = g[w]
    <2> HIDE DEF a, n
    <2> QED BY <1>1 DEF Over
  <1>u. \A v \in 0 .. n, w \in 0 .. n : v <= w => c[v] <= c[w]
    BY CutOrder
  <1>e. e = Changed(f, k, item)
    BY DEF Changed
  <1> HIDE DEF h, n, e
  <1>7. ASSUME NEW w \in 1 .. n
        PROVE  Piece(h[w], e, c[w - 1], c[w])
    <2>0. u \in 0 .. n /\ u - 1 \in 0 .. n /\ c[u] \in Nat /\ c[u - 1] \in Nat
      BY <1>1, <1>3
    <2>1. CASE w < u
      <3>1. w <= u - 1 /\ w # u
        BY <1>1, <2>1
      <3>2. c[w] <= c[u - 1]
        BY <1>3, <1>u, <2>0, <3>1
      <3>3. c[w] < k
        <4> DEFINE y == c[w]
                   z == c[u - 1]
        <4>1. y \in Nat /\ z \in Nat /\ y <= z /\ z < k /\ k \in Nat
          BY <1>1, <1>3, <2>0, <3>2
        <4> HIDE DEF y, z
        <4>2. y < k
          BY <4>1
        <4> QED BY <4>2 DEF y
      <3>4. Piece(g[w], e, c[w - 1], c[w])
        <4> DEFINE x == c[w - 1]
                   y == c[w]
                   m == g[w]
        <4>1. Piece(m, f, x, y) /\ y <= Len(f) /\ y < k
          BY <1>3, <3>3
        <4> HIDE DEF x, y, m
        <4>2. Piece(m, e, x, y)
          BY <1>1, <1>e, <4>1, PieceKept
        <4> QED BY <4>2 DEF x, y, m
      <3> QED BY <1>6, <3>1, <3>4
    <2>2. CASE w = u
      <3>1. c[w - 1] < k /\ k <= c[w] /\ a = [g[w] EXCEPT ![k - c[w - 1]] = item] /\ h[w] = a
        BY <1>6, <2>0, <2>2
      <3>2. Piece([g[w] EXCEPT ![k - c[w - 1]] = item], e, c[w - 1], c[w])
        BY <1>1, <1>3, <3>1, PieceChanged DEF e
      <3> HIDE DEF a
      <3> QED BY <3>1, <3>2
    <2>3. CASE w > u
      <3>1. u <= w - 1 /\ w # u
        BY <1>1, <2>3
      <3>2. c[u] <= c[w - 1]
        BY <1>3, <1>u, <2>0, <3>1
      <3>3. k <= c[w - 1]
        <4> DEFINE y == c[u]
                   z == c[w - 1]
                   v == c[w]
        <4>1. k <= y /\ y <= z /\ z <= v /\ y \in Nat /\ z \in Nat /\ v \in Nat /\ k \in Nat
          BY <1>1, <1>3, <2>0, <3>2
        <4> HIDE DEF y, z, v
        <4>2. k <= z /\ k <= v
          BY <4>1
        <4> QED BY <4>2 DEF z, v
      <3>4. Piece(g[w], e, c[w - 1], c[w])
        <4> DEFINE x == c[w - 1]
                   y == c[w]
                   m == g[w]
        <4>1. Piece(m, f, x, y) /\ y <= Len(f) /\ k <= x
          BY <1>3, <3>3
        <4> HIDE DEF x, y, m
        <4>2. Piece(m, e, x, y)
          BY <1>1, <1>e, <4>1, PieceKept
        <4> QED BY <4>2 DEF x, y, m
      <3> QED BY <1>6, <3>1, <3>4
    <2> QED BY <1>1, <2>1, <2>2, <2>3
  <1>9. Cut(h, e, c) /\ Len(h) = n
    <2>1. n \in Nat /\ Over(h, 1, n) /\ Over(c, 0, n) /\ e \in Seq(ItemType) /\ c[0] = 0 /\ c[n] = Len(e)
      BY <1>1, <1>2, <1>5, <1>6
    <2>2. \A w \in 1 .. n : Piece(h[w], e, c[w - 1], c[w])
      BY <1>7
    <2> QED BY <2>1, <2>2, MakeCut
  <1> QED BY <1>9 DEF n, e, h, Changed

-----------------------------------------------------------------------------
(* The group a size belongs into, said without positions: groups before it   *)
(* hold smaller sizes, groups behind it bigger ones.                         *)

Belongs(g, size, u) ==
    \A v \in 1 .. Len(g) : \A i \in 1 .. Len(g[v]) :
        (v < u => g[v][i].size < size) /\ (v > u => g[v][i].size > size)

\* These groups are the places between the items below the size and those above it
LEMMA BelongsIs ==
    ASSUME NEW g, NEW f, NEW c, Cut(g, f, c), NEW size \in Nat, NEW p, NEW q, Rank(f, size, p, q),
           NEW u \in 1 .. Len(g)
    PROVE  Belongs(g, size, u) <=> u \in Places(c, Len(g), p, q)
  <1> DEFINE n == Len(g)
             x == c[u - 1]
             y == c[u]
  <1>1. n \in Nat /\ f \in Seq(ItemType) /\ u \in 1 .. n /\ Len(f) \in Nat
    BY CutTypes
  <1>2. p \in Nat /\ q \in Nat /\ p <= q /\ q <= Len(f)
    BY RankTypes
  <1>3. u \in 0 .. n /\ u - 1 \in 0 .. n /\ x \in Nat /\ y \in Nat /\ x <= y /\ y <= Len(f)
    BY CutNumbers
  <1>4. ASSUME x <= p, q <= y, NEW v \in 1 .. Len(g), NEW i \in 1 .. Len(g[v])
        PROVE  (v < u => g[v][i].size < size) /\ (v > u => g[v][i].size > size)
    <2> DEFINE a == c[v - 1]
               b == c[v]
               k == a + i
    <2>1. k \in 1 .. Len(f) /\ a < k /\ k <= b /\ g[v][i] = f[k]
      BY CutItem
    <2>2. v \in 0 .. n /\ v - 1 \in 0 .. n /\ a \in Nat /\ b \in Nat /\ v \in 1 .. n
      BY CutNumbers
    <2>3. (f[k].size < size <=> k <= p) /\ (f[k].size > size <=> k > q)
      BY <1>1, <2>1, RankItem
    <2>4. ASSUME v < u PROVE b <= x
      <3>1. v <= u - 1
        BY <1>1, <2>2, <2>4
      <3> QED BY <1>3, <2>2, <3>1, CutOrder
    <2>5. ASSUME v > u PROVE y <= a
      <3>1. u <= v - 1
        BY <1>1, <2>2, <2>5
      <3> QED BY <1>3, <2>2, <3>1, CutOrder
    <2>6. k \in Nat
      BY <2>1
    <2> HIDE DEF a, b, k, x, y
    <2>7. (v < u => k <= p) /\ (v > u => k > q)
      BY <1>2, <1>3, <1>4, <2>1, <2>2, <2>4, <2>5, <2>6
    <2> QED BY <2>1, <2>3, <2>7
  <1>5. ASSUME Belongs(g, size, u) PROVE x <= p
    <2> SUFFICES ASSUME x > p PROVE FALSE
      BY <1>2, <1>3
    <2>1. x \in 1 .. Len(f)
      BY <1>1, <1>2, <1>3
    <2>2. PICK v \in 1 .. Len(g) : c[v - 1] < x /\ x <= c[v]
      <3> HIDE DEF x
      <3> QED BY <2>1, CutFind
    <2>3. v \in 0 .. n /\ v - 1 \in 0 .. n /\ c[v] \in Nat /\ c[v - 1] \in Nat /\ v \in 1 .. n
      BY CutNumbers
    <2>4. v < u
      <3> SUFFICES ASSUME ~(v < u) PROVE FALSE
        OBVIOUS
      <3>1. u - 1 <= v - 1
        BY <1>1, <2>3
      <3>2. x <= c[v - 1]
        BY <1>3, <2>3, <3>1, CutOrder
      <3> QED BY <1>3, <2>2, <2>3, <3>2
    <2> HIDE DEF x
    <2>5. x - c[v - 1] \in 1 .. Len(g[v]) /\ g[v][x - c[v - 1]] = f[x]
      BY <1>3, <2>2, ItemCut
    <2>6. f[x].size < size
      BY <1>5, <2>4, <2>5 DEF Belongs
    <2>7. x <= p
      BY <1>1, <2>1, <2>6, RankItem
    <2> QED BY <1>2, <1>3, <2>7
  <1>6. ASSUME Belongs(g, size, u) PROVE q <= y
    <2> SUFFICES ASSUME q > y PROVE FALSE
      BY <1>2, <1>3
    <2>1. q \in 1 .. Len(f)
      BY <1>1, <1>2, <1>3
    <2>2. PICK v \in 1 .. Len(g) : c[v - 1] < q /\ q <= c[v]
      BY <2>1, CutFind
    <2>3. v \in 0 .. n /\ v - 1 \in 0 .. n /\ c[v] \in Nat /\ c[v - 1] \in Nat /\ v \in 1 .. n
      BY CutNumbers
    <2>4. v > u
      <3> SUFFICES ASSUME ~(v > u) PROVE FALSE
        OBVIOUS
      <3>1. v <= u
        BY <1>1, <2>3
      <3>2. c[v] <= y
        BY <1>3, <2>3, <3>1, CutOrder
      <3> HIDE DEF y
      <3> QED BY <1>2, <1>3, <2>2, <2>3, <3>2
    <2>5. q - c[v - 1] \in 1 .. Len(g[v]) /\ g[v][q - c[v - 1]] = f[q]
      BY <1>2, <2>2, ItemCut
    <2>6. f[q].size > size
      BY <1>6, <2>4, <2>5 DEF Belongs
    <2>7. q > q
      BY <1>1, <2>1, <2>6, RankItem
    <2> QED BY <1>2, <2>7
  <1>7. u \in Places(c, n, p, q) <=> x <= p /\ q <= y
    BY <1>1 DEF Places
  <1>8. x <= p /\ q <= y => Belongs(g, size, u)
    BY <1>4 DEF Belongs
  <1> QED BY <1>5, <1>6, <1>7, <1>8

\* get_insert_pos inserts behind the smaller sizes
LEMMA WithItemIs ==
    ASSUME NEW a, NEW f \in Seq(ItemType), NEW x \in Nat, NEW y \in Nat, Piece(a, f, x, y), y <= Len(f),
           NEW item \in ItemType, NEW p \in Nat, NEW q, Rank(f, item.size, p, q), x <= p, p <= y,
           NEW j \in Nat, j = p - x + 1, NEW b, b = InsertAt(a, j, item)
    PROVE  WithItem(a, item) = b
  <1> DEFINE l == Len(a)
             size == item.size
             small == {i \in DOMAIN a : a[i].size < size}
  <1>1. /\ a \in Seq(ItemType) /\ l \in Nat /\ x \in Nat /\ y \in Nat /\ x <= y /\ l = y - x /\ DOMAIN a = 1 .. l
    BY PieceLen
  <1>2. p \in Nat /\ Len(f) \in Nat
    BY RankTypes
  <1>3. size \in Nat
    <2>1. item.size \in Sizes
      BY DEF ItemType
    <2> QED BY <2>1, BlockMapAssumption
  <1>4. ASSUME NEW i \in 1 .. l PROVE a[i].size < size <=> i <= p - x
    <2> DEFINE k == x + i
    <2>1. k \in 1 .. Len(f) /\ i \in Nat /\ 1 <= i /\ i <= y - x
      BY <1>1, <1>2
    <2>2. a[i] = f[k]
      BY <2>1, PieceItem
    <2>3. f[k].size < size <=> k <= p
      <3>1. Rank(f, size, p, q)
        OBVIOUS
      <3> HIDE DEF k, size
      <3> QED BY <1>3, <2>1, <3>1, RankItem
    <2> QED BY <1>1, <1>2, <2>1, <2>2, <2>3
  <1>5. small = 1 .. p - x
    <2> HIDE DEF l
    <2>1. \A i \in 1 .. l : i \in small <=> i <= p - x
      BY <1>1, <1>4
    <2>2. small \subseteq 1 .. l
      BY <1>1
    <2>3. p - x <= l /\ p - x \in Int
      BY <1>1, <1>2
    <2> DEFINE m == p - x
    <2> HIDE DEF small
    <2>4. ASSUME NEW i PROVE i \in small <=> i \in 1 .. m
      <3>1. i \in small => i \in 1 .. l /\ i <= m
        BY <2>1, <2>2
      <3>2. i \in 1 .. m => i \in 1 .. l /\ i <= m
        BY <1>1, <2>3
      <3>3. i \in 1 .. l /\ i <= m => i \in 1 .. m
        BY <1>1, <2>3
      <3> QED BY <2>1, <3>1, <3>2, <3>3
    <2> HIDE DEF m
    <2>5. small = 1 .. m
      BY <2>4
    <2> QED BY <2>5 DEF m
  <1>6. Cardinality(small) = p - x
    <2> DEFINE m == p - x
    <2>1. m \in Int /\ m >= 0
      BY <1>1, <1>2
    <2>2. small = 1 .. m
      BY <1>5
    <2> HIDE DEF m, small
    <2>3. Cardinality(1 .. m) = IF 1 > m THEN 0 ELSE m - 1 + 1
      BY <2>1, FS_Interval
    <2>4. Cardinality(1 .. m) = m
      BY <2>1, <2>3
    <2> QED BY <2>2, <2>4 DEF m
  <1>7. 1 + (p - x) = p - x + 1
    BY <1>1, <1>2
  <1> HIDE DEF small, l
  <1>8. WithItem(a, item) = InsertAt(a, 1 + Cardinality(small), item)
    BY DEF WithItem, small
  <1> QED BY <1>6, <1>7, <1>8

-----------------------------------------------------------------------------
(* The items in order, after one was added, removed or changed               *)

\* An item has the size and offsets it was made with
LEMMA ItemIs ==
    ASSUME NEW size \in Sizes, NEW offsets \in SUBSET Nat
    PROVE  Item(size, offsets) \in ItemType /\ Item(size, offsets).size = size /\ Item(size, offsets).offsets = offsets
  BY DEF Item, ItemType

\* A new item at the place of its size: still sorted, and one entry more
LEMMA FlatAdded ==
    ASSUME NEW f \in Seq(ItemType), Sorted(f), NEW en \in [Sizes -> SUBSET Nat], Holds(f, en), NEW item \in ItemType,
           NEW size, size = item.size, item.offsets # {}, IsFiniteSet(item.offsets), NEW p, Rank(f, size, p, p),
           NEW e, e = InsertAt(f, p + 1, item), NEW after, after = Changed(en, size, item.offsets)
    PROVE  Sorted(e) /\ Holds(e, after)
  <1> DEFINE n == Len(f)
             i == p + 1
  <1>1. p \in Nat /\ p <= n /\ n \in Nat
    BY RankTypes
  <1>s. size \in Sizes /\ size \in Nat
    <2>1. size \in Sizes
      BY DEF ItemType
    <2> QED BY <2>1, BlockMapAssumption
  <1>2. i \in 1 .. n + 1 /\ i \in Nat /\ i - 1 = p
    BY <1>1
  <1>3. Len(e) = n + 1 /\ \A j \in 1 .. n + 1 : e[j] = IF j < i THEN f[j] ELSE IF j = i THEN item ELSE f[j - 1]
    <2> HIDE DEF i
    <2>1. /\ Len(InsertAt(f, i, item)) = Len(f) + 1
          /\ \A j \in 1 .. Len(f) + 1 : InsertAt(f, i, item)[j] = IF j < i THEN f[j] ELSE IF j = i THEN item ELSE f[j - 1]
      BY <1>2, ItemInserted
    <2>2. e = InsertAt(f, i, item)
      BY DEF i
    <2> QED BY <2>1, <2>2
  <1>4. \A k \in 1 .. n : f[k].size \in Nat /\ f[k].size \in Sizes
    BY SizeNat
  <1>5. \A k \in 1 .. n : (f[k].size < size <=> k < i) /\ (f[k].size > size <=> k >= i)
    <2>1. \A k \in 1 .. n : (f[k].size < size <=> k <= p) /\ (f[k].size > size <=> k > p)
      BY <1>s, RankItem
    <2> QED BY <1>1, <2>1
  <1>a. \A k \in 1 .. n, l \in 1 .. n : k < l => f[k].size < f[l].size
    BY DEF Sorted
  <1> HIDE DEF i, n
  <1>6. ASSUME NEW j \in 1 .. n + 1, j < i PROVE e[j] = f[j] /\ j \in 1 .. n /\ e[j].size < size
    <2>1. j \in 1 .. n
      BY <1>1, <1>2, <1>6
    <2>2. e[j] = f[j]
      BY <1>3, <1>6
    <2> QED BY <1>5, <1>6, <2>1, <2>2
  <1>7. ASSUME NEW j \in 1 .. n + 1, j > i PROVE e[j] = f[j - 1] /\ j - 1 \in 1 .. n /\ e[j].size > size
    <2>1. j - 1 \in 1 .. n /\ ~(j < i) /\ j # i /\ j - 1 >= i
      BY <1>1, <1>2, <1>7
    <2>2. e[j] = f[j - 1]
      BY <1>3, <2>1
    <2> QED BY <1>5, <2>1, <2>2
  <1>8. e[i] = item
    BY <1>2, <1>3
  <1>9. ASSUME NEW j \in 1 .. n + 1, NEW k \in 1 .. n + 1, j < k PROVE e[j].size < e[k].size
    <2>0. j \in Int /\ k \in Int
      BY <1>1
    <2>1. CASE k < i
      <3>1. j < i
        BY <1>2, <1>9, <2>0, <2>1
      <3> QED BY <1>6, <1>9, <1>a, <2>1, <3>1
    <2>2. CASE k = i
      BY <1>6, <1>8, <1>9, <2>2
    <2>3. CASE k > i /\ j = i
      <3>1. e[k].size > size
        BY <1>7, <2>3
      <3> QED BY <1>8, <2>3, <3>1
    <2>4. CASE k > i /\ j > i
      <3>1. e[k] = f[k - 1] /\ k - 1 \in 1 .. n /\ e[j] = f[j - 1] /\ j - 1 \in 1 .. n
        BY <1>7, <2>4
      <3>2. j - 1 < k - 1
        BY <1>9, <2>0
      <3> QED BY <1>a, <3>1, <3>2
    <2>5. CASE k > i /\ j < i
      <3>1. e[j].size < size /\ e[k].size > size
        BY <1>6, <1>7, <2>5
      <3>2. e[j].size \in Nat /\ e[k].size \in Nat
        BY <1>4, <1>6, <1>7, <2>5
      <3> DEFINE x == e[j].size
                 y == e[k].size
      <3>3. x < size /\ y > size /\ x \in Nat /\ y \in Nat
        BY <3>1, <3>2
      <3> HIDE DEF x, y
      <3>4. x < y
        BY <1>s, <3>3
      <3> QED BY <3>4 DEF x, y
    <2> QED BY <1>2, <2>0, <2>1, <2>2, <2>3, <2>4, <2>5
  <1>10. Sorted(e)
    BY <1>3, <1>9 DEF Sorted
  <1>b. after[size] = item.offsets /\ \A s \in Sizes : s # size => after[s] = en[s]
    BY <1>s DEF Changed
  <1>c. \A k \in 1 .. n : f[k].offsets = en[f[k].size] /\ f[k].offsets # {} /\ IsFiniteSet(f[k].offsets)
    BY DEF Holds, n
  <1>11. ASSUME NEW j \in 1 .. n + 1 PROVE e[j].offsets = after[e[j].size] /\ e[j].offsets # {} /\ IsFiniteSet(e[j].offsets)
    <2>1. CASE j = i
      BY <1>8, <1>b, <2>1
    <2>2. CASE j < i
      <3>1. e[j].size # size /\ e[j].size \in Sizes /\ e[j] = f[j] /\ j \in 1 .. n
        BY <1>4, <1>6, <1>s, <2>2
      <3> QED BY <1>b, <1>c, <3>1
    <2>3. CASE j > i
      <3>1. e[j].size # size /\ e[j].size \in Sizes /\ e[j] = f[j - 1] /\ j - 1 \in 1 .. n
        BY <1>4, <1>7, <1>s, <2>3
      <3> QED BY <1>b, <1>c, <3>1
    <2> QED BY <1>2, <2>1, <2>2, <2>3
  <1>12. ASSUME NEW s \in Sizes, after[s] # {} PROVE \E k \in 1 .. n + 1 : e[k].size = s
    <2>1. CASE s = size
      BY <1>2, <1>8, <2>1
    <2>2. CASE s # size
      <3>1. PICK k \in 1 .. n : f[k].size = s
        BY <1>12, <1>b, <2>2 DEF Holds, n
      <3>2. CASE k < i
        <4>1. k \in 1 .. n + 1
          BY <1>1
        <4> QED BY <1>3, <3>1, <3>2, <4>1
      <3>3. CASE k >= i
        <4>1. k + 1 \in 1 .. n + 1 /\ ~(k + 1 < i) /\ k + 1 # i /\ (k + 1) - 1 = k
          BY <1>1, <1>2, <3>3
        <4>2. e[k + 1] = f[k]
          <5> DEFINE m == k + 1
          <5>1. m \in 1 .. n + 1 /\ ~(m < i) /\ m # i /\ m - 1 = k
            BY <4>1
          <5> HIDE DEF m
          <5>2. e[m] = f[m - 1]
            BY <1>3, <5>1
          <5> QED BY <5>1, <5>2 DEF m
        <4> QED BY <3>1, <4>1, <4>2
      <3> QED BY <1>1, <1>2, <3>2, <3>3
    <2> QED BY <2>1, <2>2
  <1>13. Holds(e, after)
    BY <1>11, <1>12, <1>3 DEF Holds
  <1> QED BY <1>10, <1>13

\* An item less: still sorted, and one entry less
LEMMA FlatRemoved ==
    ASSUME NEW f \in Seq(ItemType), Sorted(f), NEW en \in [Sizes -> SUBSET Nat], Holds(f, en), NEW k \in 1 .. Len(f),
           NEW size, size = f[k].size, NEW e, e = RemoveAt(f, k), NEW after, after = Changed(en, size, {})
    PROVE  Sorted(e) /\ Holds(e, after)
  <1> DEFINE n == Len(f)
  <1>1. n \in Nat /\ k \in 1 .. n
    OBVIOUS
  <1>2. Len(e) = n - 1 /\ \A j \in 1 .. n - 1 : e[j] = IF j < k THEN f[j] ELSE f[j + 1]
    BY RemoveAtIs
  <1>3. \A l \in 1 .. n : f[l].size \in Nat /\ f[l].size \in Sizes
    BY SizeNat
  <1>4. \A i \in 1 .. n, j \in 1 .. n : i < j => f[i].size < f[j].size
    BY DEF Sorted
  <1>5. size \in Sizes /\ size \in Nat
    BY <1>3
  <1> HIDE DEF n
  <1>6. ASSUME NEW j \in 1 .. n - 1
        PROVE  /\ j < k => e[j] = f[j] /\ j \in 1 .. n
               /\ ~(j < k) => e[j] = f[j + 1] /\ j + 1 \in 1 .. n
    <2>1. j \in 1 .. n /\ j + 1 \in 1 .. n
      BY <1>1
    <2> QED BY <1>2, <2>1
  <1>7. ASSUME NEW j \in 1 .. n - 1, NEW l \in 1 .. n - 1, j < l PROVE e[j].size < e[l].size
    <2>0. j \in Int /\ l \in Int /\ k \in Int /\ j < l + 1 /\ j + 1 < l + 1
      BY <1>1, <1>7
    <2>1. CASE l < k
      <3>1. j < k
        BY <1>7, <2>0, <2>1
      <3> QED BY <1>4, <1>6, <1>7, <2>1, <3>1
    <2>2. CASE ~(l < k) /\ j < k
      BY <1>4, <1>6, <2>0, <2>2
    <2>3. CASE ~(l < k) /\ ~(j < k)
      BY <1>4, <1>6, <2>0, <2>3
    <2> QED BY <2>1, <2>2, <2>3
  <1>8. Sorted(e)
    BY <1>2, <1>7 DEF Sorted
  <1>9. after[size] = {} /\ \A s \in Sizes : s # size => after[s] = en[s]
    BY <1>5 DEF Changed
  <1>10. \A l \in 1 .. n : l # k => f[l].size # size
    <2> SUFFICES ASSUME NEW l \in 1 .. n, l # k PROVE f[l].size # size
      OBVIOUS
    <2>1. l < k \/ k < l
      BY <1>1
    <2>2. f[l].size < f[k].size \/ f[k].size < f[l].size
      BY <1>1, <1>4, <2>1
    <2> QED BY <1>3, <1>5, <2>2
  <1>11. \A l \in 1 .. n : f[l].offsets = en[f[l].size] /\ f[l].offsets # {} /\ IsFiniteSet(f[l].offsets)
    BY DEF Holds, n
  <1>12. ASSUME NEW j \in 1 .. n - 1
         PROVE  e[j].offsets = after[e[j].size] /\ e[j].offsets # {} /\ IsFiniteSet(e[j].offsets)
    <2>1. PICK l \in 1 .. n : l # k /\ e[j] = f[l]
      <3>1. CASE j < k
        BY <1>1, <1>6, <3>1
      <3>2. CASE ~(j < k)
        <4>1. j + 1 # k
          BY <1>1, <3>2
        <4> QED BY <1>6, <3>2, <4>1
      <3> QED BY <3>1, <3>2
    <2>2. e[j].size # size /\ e[j].size \in Sizes
      BY <1>3, <1>10, <2>1
    <2> QED BY <1>9, <1>11, <2>1, <2>2
  <1>13. ASSUME NEW s \in Sizes, after[s] # {} PROVE \E j \in 1 .. n - 1 : e[j].size = s
    <2>1. s # size /\ en[s] # {}
      BY <1>9, <1>13
    <2>2. PICK l \in 1 .. n : f[l].size = s
      BY <2>1 DEF Holds, n
    <2>3. l # k /\ l \in Int
      BY <2>1, <2>2
    <2>4. CASE l < k
      <3>1. l \in 1 .. n - 1
        BY <1>1, <2>4
      <3> QED BY <1>6, <2>2, <2>4, <3>1
    <2>5. CASE l > k
      <3> DEFINE m == l - 1
      <3>1. m \in 1 .. n - 1 /\ ~(m < k) /\ m + 1 = l
        BY <1>1, <2>5
      <3> HIDE DEF m
      <3>2. e[m] = f[m + 1]
        BY <1>6, <3>1
      <3> QED BY <2>2, <3>1, <3>2
    <2> QED BY <1>1, <2>3, <2>4, <2>5
  <1>14. Holds(e, after)
    BY <1>2, <1>12, <1>13 DEF Holds
  <1> QED BY <1>8, <1>14

\* An item with other offsets: still sorted, and that entry changed
LEMMA FlatChanged ==
    ASSUME NEW f \in Seq(ItemType), Sorted(f), NEW en \in [Sizes -> SUBSET Nat], Holds(f, en), NEW k \in 1 .. Len(f),
           NEW size, size = f[k].size, NEW item \in ItemType, item.size = size, item.offsets # {},
           IsFiniteSet(item.offsets), NEW e, e = Changed(f, k, item),
           NEW after, after = Changed(en, size, item.offsets)
    PROVE  Sorted(e) /\ Holds(e, after)
  <1> DEFINE n == Len(f)
  <1>1. n \in Nat /\ k \in 1 .. n
    OBVIOUS
  <1>2. Len(e) = n /\ \A j \in 1 .. n : e[j] = IF j = k THEN item ELSE f[j]
    BY DEF Changed
  <1>3. \A l \in 1 .. n : f[l].size \in Nat /\ f[l].size \in Sizes
    BY SizeNat
  <1>4. \A i \in 1 .. n, j \in 1 .. n : i < j => f[i].size < f[j].size
    BY DEF Sorted
  <1>5. size \in Sizes /\ size \in Nat
    BY <1>3
  <1> HIDE DEF n
  <1>6. \A j \in 1 .. n : e[j].size = f[j].size
    BY <1>2
  <1>8. Sorted(e)
    BY <1>2, <1>4, <1>6 DEF Sorted
  <1>9. after[size] = item.offsets /\ \A s \in Sizes : s # size => after[s] = en[s]
    BY <1>5 DEF Changed
  <1>10. \A l \in 1 .. n : l # k => f[l].size # size
    <2> SUFFICES ASSUME NEW l \in 1 .. n, l # k PROVE f[l].size # size
      OBVIOUS
    <2>1. l < k \/ k < l
      BY <1>1
    <2>2. f[l].size < f[k].size \/ f[k].size < f[l].size
      BY <1>1, <1>4, <2>1
    <2> QED BY <1>3, <1>5, <2>2
  <1>11. \A l \in 1 .. n : f[l].offsets = en[f[l].size] /\ f[l].offsets # {} /\ IsFiniteSet(f[l].offsets)
    BY DEF Holds, n
  <1>12. ASSUME NEW j \in 1 .. n
         PROVE  e[j].offsets = after[e[j].size] /\ e[j].offsets # {} /\ IsFiniteSet(e[j].offsets)
    <2>1. CASE j = k
      <3>1. e[j] = item
        BY <1>2, <2>1
      <3> QED BY <1>9, <3>1
    <2>2. CASE j # k
      <3>1. e[j] = f[j] /\ f[j].size # size /\ f[j].size \in Sizes
        BY <1>2, <1>3, <1>10, <2>2
      <3> QED BY <1>9, <1>11, <3>1
    <2> QED BY <2>1, <2>2
  <1>13. ASSUME NEW s \in Sizes, after[s] # {} PROVE \E j \in 1 .. n : e[j].size = s
    <2>1. CASE s = size
      BY <1>1, <1>6, <2>1
    <2>2. CASE s # size
      <3>1. PICK l \in 1 .. n : f[l].size = s
        BY <1>9, <1>13, <2>2 DEF Holds, n
      <3> QED BY <1>6, <3>1
    <2> QED BY <2>1, <2>2
  <1>14. Holds(e, after)
    BY <1>2, <1>12, <1>13 DEF Holds
  <1> QED BY <1>8, <1>14

-----------------------------------------------------------------------------
(* The groups and the entries they hold                                      *)

Tree(g, en) ==
    /\ Sorted(FlattenSeq(g)) /\ Holds(FlattenSeq(g), en)
    /\ \E c : Cut(g, FlattenSeq(g), c)

\* Groups cut out of sorted items that hold the entries are a tree
LEMMA TreeOf ==
    ASSUME NEW g, NEW f, NEW c, Cut(g, f, c), Sorted(f), NEW en, Holds(f, en)
    PROVE  Tree(g, en) /\ FlattenSeq(g) = f
  <1>1. FlattenSeq(g) = f
    BY Flattened
  <1> QED BY <1>1 DEF Tree

\* h is the tree g with one more item in group u, for these entries
Put(h, g, u, after) ==
    /\ Tree(h, after) /\ Len(h) = Len(g) /\ Len(h[u]) = Len(g[u]) + 1
    /\ \A v \in 1 .. Len(g) : v # u => h[v] = g[v]
    /\ Len(FlattenSeq(h)) = Len(FlattenSeq(g)) + 1

\* An item more
LEMMA ItemPut ==
    ASSUME NEW g, NEW en \in [Sizes -> SUBSET Nat], Tree(g, en), NEW size \in Sizes, NEW offset \in Nat, en[size] = {},
           NEW u \in 1 .. Len(g), Belongs(g, size, u),
           NEW h, h = Changed(g, u, WithItem(g[u], Item(size, {offset}))),
           NEW after, after = Changed(en, size, en[size] \cup {offset})
    PROVE  Put(h, g, u, after)
  <1> DEFINE f == FlattenSeq(g)
             item == Item(size, {offset})
  <1>1. PICK c : Cut(g, f, c)
    BY DEF Tree
  <1>2. Sorted(f) /\ Holds(f, en)
    BY DEF Tree
  <1> HIDE DEF f, item
  <1>3. f \in Seq(ItemType) /\ Len(f) \in Nat /\ DOMAIN g = 1 .. Len(g) /\ Len(g) \in Nat
    BY <1>1, CutTypes
  <1>4. size \in Nat
    BY BlockMapAssumption
  <1>5. PICK p, q : Rank(f, size, p, q)
    BY <1>2, <1>3, <1>4, RankExists
  <1>6. p = q /\ p \in Nat /\ p <= Len(f)
    <2>1. ~(p < q)
      BY <1>2, <1>3, <1>5, RankEntries
    <2> QED BY <1>5, <2>1, RankTypes
  <1>7. c[u - 1] <= p /\ p <= c[u]
    <2>1. u \in Places(c, Len(g), p, q)
      BY <1>1, <1>4, <1>5, BelongsIs
    <2> QED BY <1>6, <2>1 DEF Places
  <1>8. item \in ItemType /\ item.size = size /\ item.offsets = {offset}
    BY ItemIs DEF item
  <1>9. Piece(g[u], f, c[u - 1], c[u]) /\ c[u] <= Len(f) /\ c[u - 1] \in Nat /\ c[u] \in Nat /\ Len(g[u]) \in Nat
        /\ Len(g[u]) = c[u] - c[u - 1] /\ g[u] \in Seq(ItemType)
    BY <1>1, CutGroup, CutNumbers, PieceLen
  <1> DEFINE b == c[u - 1]
             i == p - b + 1
             k == p + 1
             e == InsertAt(f, k, item)
             d == CutsWith(c, Len(g), u)
  <1>10. WithItem(g[u], item) = InsertAt(g[u], i, item)
    <2> DEFINE x == c[u - 1]
               y == c[u]
               a == g[u]
    <2>1. i = p - x + 1
      OBVIOUS
    <2>2. Piece(a, f, x, y) /\ y <= Len(f) /\ Rank(f, item.size, p, q) /\ x <= p /\ p <= y
      BY <1>5, <1>7, <1>8, <1>9
    <2>4. x \in Nat /\ y \in Nat /\ p \in Nat /\ i \in Nat
      BY <1>6, <1>7, <1>9
    <2> HIDE DEF i, x, y, a, k, e, d
    <2>3. WithItem(a, item) = InsertAt(a, i, item)
      BY <1>3, <1>8, <2>1, <2>2, <2>4, WithItemIs
    <2> QED BY <2>3 DEF a
  <1>11. h = Changed(g, u, InsertAt(g[u], i, item))
    BY <1>10 DEF item
  <1>12. p \in 0 .. Len(f)
    BY <1>3, <1>6
  <1>b. i \in 1 .. Len(g[u]) + 1 /\ k \in 1 .. Len(f) + 1 /\ i = p - c[u - 1] + 1 /\ k = p + 1
    BY <1>6, <1>7, <1>9, <1>12
  <1> HIDE DEF i, k
  <1>13. Cut(h, e, d) /\ Len(h) = Len(g)
    <2>1. /\ Cut(Changed(g, u, InsertAt(g[u], i, item)), InsertAt(f, k, item), CutsWith(c, Len(g), u))
          /\ Len(Changed(g, u, InsertAt(g[u], i, item))) = Len(g)
      BY <1>1, <1>7, <1>8, <1>12, <1>b, ItemAdded
    <2> QED BY <1>11, <2>1
  <1>14. Sorted(e) /\ Holds(e, after)
    <2>1. after = Changed(en, size, item.offsets) /\ item.offsets # {} /\ IsFiniteSet(item.offsets)
      BY <1>8, FS_Singleton
    <2>2. Rank(f, size, p, p) /\ size = item.size
      BY <1>5, <1>6, <1>8
    <2> HIDE DEF e
    <2>3. e = InsertAt(f, p + 1, item)
      BY <1>b DEF e
    <2> QED BY <1>2, <1>3, <1>8, <2>1, <2>2, <2>3, FlatAdded
  <1>15. Tree(h, after) /\ FlattenSeq(h) = e
    <2> HIDE DEF e, d
    <2> QED BY <1>13, <1>14, TreeOf
  <1>16. Len(e) = Len(f) + 1
    BY <1>3, <1>8, <1>b, InsertedLen
  <1>17. h[u] = InsertAt(g[u], i, item) /\ \A v \in 1 .. Len(g) : v # u => h[v] = g[v]
    BY <1>3, <1>11 DEF Changed
  <1>18. Len(h[u]) = Len(g[u]) + 1
    <2>1. Len(InsertAt(g[u], i, item)) = Len(g[u]) + 1
      BY <1>8, <1>9, <1>b, InsertedLen
    <2> QED BY <1>17, <2>1
  <1> QED BY <1>13, <1>15, <1>16, <1>17, <1>18 DEF f, Put

\* Item k of all is item i of group u
Spot(g, f, c, u, k, i) ==
    u \in 1 .. Len(g) /\ k \in 1 .. Len(f) /\ c[u - 1] < k /\ k <= c[u] /\ i = k - c[u - 1]

\* The place of an item in its group and among all items
LEMMA SpotIs ==
    ASSUME NEW g, NEW f, NEW c, Cut(g, f, c), NEW u, NEW k, NEW i, Spot(g, f, c, u, k, i)
    PROVE  /\ u \in 1 .. Len(g) /\ k \in 1 .. Len(f) /\ k \in Nat /\ i \in Nat
           /\ i \in 1 .. Len(g[u]) /\ g[u][i] = f[k] /\ c[u - 1] + i = k
  <1>1. u \in 1 .. Len(g) /\ k \in 1 .. Len(f) /\ c[u - 1] < k /\ k <= c[u] /\ i = k - c[u - 1] /\ k \in Nat
    BY DEF Spot
  <1>2. k - c[u - 1] \in 1 .. Len(g[u]) /\ g[u][k - c[u - 1]] = f[k]
    BY <1>1, ItemCut
  <1>3. c[u - 1] \in Nat /\ Len(g[u]) \in Nat
    BY <1>1, CutGroup
  <1> DEFINE x == c[u - 1]
             l == Len(g[u])
  <1>4. i = k - x /\ x \in Nat /\ i \in 1 .. l /\ l \in Nat
    BY <1>1, <1>2, <1>3
  <1> HIDE DEF x, l
  <1>5. x + i = k /\ i \in Nat
    BY <1>1, <1>4
  <1> QED BY <1>1, <1>2, <1>5 DEF x

\* Group u differs, and what is in it now was there before, by its size
Like(h, g, u) ==
    /\ Len(h) = Len(g) /\ \A v \in 1 .. Len(g) : v # u => h[v] = g[v]
    /\ \A j \in 1 .. Len(h[u]) : \E l \in 1 .. Len(g[u]) : h[u][j].size = g[u][l].size

\* An item changed where it is, by its size
LEMMA ItemReplaced ==
    ASSUME NEW g, NEW f, NEW c, Cut(g, f, c), Sorted(f), NEW en \in [Sizes -> SUBSET Nat], Holds(f, en),
           NEW u, NEW k, NEW i, Spot(g, f, c, u, k, i),
           NEW size \in Sizes, f[k].size = size, NEW offsets \in SUBSET Nat, offsets # {}, IsFiniteSet(offsets),
           NEW h, h = Changed(g, u, Changed(g[u], i, Item(size, offsets))),
           NEW after, after = Changed(en, size, offsets)
    PROVE  Tree(h, after) /\ Len(FlattenSeq(h)) = Len(f) /\ Like(h, g, u) /\ Len(h[u]) = Len(g[u])
  <1> DEFINE item == Item(size, offsets)
             e == Changed(f, k, item)
  <1>1. f \in Seq(ItemType) /\ Len(f) \in Nat /\ DOMAIN g = 1 .. Len(g) /\ Len(g) \in Nat /\ g \in Seq(Seq(ItemType))
    BY CutTypes
  <1>2. item \in ItemType /\ item.size = size /\ item.offsets = offsets
    BY ItemIs
  <1>3. /\ u \in 1 .. Len(g) /\ k \in 1 .. Len(f) /\ k \in Nat /\ i \in Nat
        /\ i \in 1 .. Len(g[u]) /\ g[u][i] = f[k]
    BY SpotIs
  <1>4. c[u - 1] < k /\ k <= c[u] /\ i = k - c[u - 1]
    BY DEF Spot
  <1> HIDE DEF item
  <1>5. h = Changed(g, u, Changed(g[u], i, item))
    BY DEF item
  <1>6. Cut(h, e, c)
    <2>1. Cut(Changed(g, u, Changed(g[u], i, item)), Changed(f, k, item), c)
      BY <1>2, <1>3, <1>4, ItemChanged
    <2> QED BY <1>5, <2>1
  <1>7. Sorted(e) /\ Holds(e, after)
    <2>1. after = Changed(en, size, item.offsets) /\ item.offsets # {} /\ IsFiniteSet(item.offsets) /\ size = f[k].size
      BY <1>2
    <2> HIDE DEF e
    <2>3. e = Changed(f, k, item)
      BY DEF e
    <2> QED BY <1>1, <1>2, <1>3, <2>1, <2>3, FlatChanged
  <1>8. Tree(h, after) /\ FlattenSeq(h) = e
    <2> HIDE DEF e
    <2> QED BY <1>6, <1>7, TreeOf
  <1>9. Len(e) = Len(f)
    BY <1>1, <1>2, <1>3 DEF Changed
  <1>10. Like(h, g, u) /\ Len(h[u]) = Len(g[u])
    <2> DEFINE a == g[u]
               b == Changed(a, i, item)
    <2>1. a \in Seq(ItemType) /\ i \in 1 .. Len(a) /\ a[i].size = item.size
      BY <1>1, <1>2, <1>3
    <2> HIDE DEF a
    <2>2. Len(b) = Len(a) /\ \A j \in 1 .. Len(a) : b[j] = IF j = i THEN item ELSE a[j]
      BY <1>2, <2>1 DEF Changed
    <2>3. \A j \in 1 .. Len(a) : b[j].size = a[j].size
      BY <2>1, <2>2
    <2> HIDE DEF b
    <2>4. h = [g EXCEPT ![u] = b]
      BY <1>5 DEF Changed, a, b
    <2>5. Len(h) = Len(g) /\ h[u] = b /\ \A v \in 1 .. Len(g) : v # u => h[v] = g[v]
      BY <1>1, <1>3, <2>4
    <2>6. \A j \in 1 .. Len(b) : \E l \in 1 .. Len(a) : b[j].size = a[l].size
      BY <2>2, <2>3
    <2> QED BY <2>2, <2>5, <2>6 DEF a, Like
  <1> QED BY <1>8, <1>9, <1>10

-----------------------------------------------------------------------------
(* Offsets that join an item or leave it                                     *)

\* Where the item of a size is, if there is one
LEMMA ItemOf ==
    ASSUME NEW g, NEW f, NEW c, Cut(g, f, c), Sorted(f), NEW en, Holds(f, en), NEW size \in Sizes, en[size] # {},
           NEW p, NEW q, Rank(f, size, p, q)
    PROVE  /\ p < q /\ q = p + 1 /\ q \in 1 .. Len(f) /\ p \in Nat /\ q \in Nat /\ size \in Nat
           /\ f[q].size = size /\ f[q].offsets = en[size] /\ IsFiniteSet(en[size])
           /\ \A k \in 1 .. Len(f) : f[k].size = size => k = q
  <1>1. f \in Seq(ItemType)
    BY CutTypes
  <1>2. size \in Nat
    BY BlockMapAssumption
  <1>3. p < q /\ q \in 1 .. Len(f) /\ f[q].size = size /\ f[q].offsets = en[size] /\ q = p + 1
    BY <1>1, RankEntries
  <1>4. p \in Nat /\ q \in Nat
    BY RankTypes
  <1>5. IsFiniteSet(en[size])
    BY <1>3 DEF Holds
  <1>6. ASSUME NEW k \in 1 .. Len(f), f[k].size = size PROVE k = q
    <2>1. p < k /\ k <= q
      BY <1>1, <1>2, <1>6, RankItem
    <2> QED BY <1>3, <1>4, <2>1
  <1> QED BY <1>2, <1>3, <1>4, <1>5, <1>6

\* An offset more in the list of its size
LEMMA ItemListed ==
    ASSUME NEW g, NEW en \in [Sizes -> SUBSET Nat], Tree(g, en), NEW size \in Sizes, NEW offset \in Nat, en[size] # {},
           NEW u \in 1 .. Len(g), Belongs(g, size, u), NEW h, h = Changed(g, u, Listed(g[u], size, offset)),
           NEW after, after = Changed(en, size, en[size] \cup {offset})
    PROVE  Tree(h, after) /\ Like(h, g, u) /\ Len(h[u]) = Len(g[u]) /\ Len(FlattenSeq(h)) = Len(FlattenSeq(g))
  <1> DEFINE f == FlattenSeq(g)
             offsets == en[size] \cup {offset}
  <1>1. PICK c : Cut(g, f, c)
    BY DEF Tree
  <1>2. Sorted(f) /\ Holds(f, en)
    BY DEF Tree
  <1> HIDE DEF f
  <1>3. f \in Seq(ItemType) /\ Len(f) \in Nat /\ Len(g) \in Nat
    BY <1>1, CutTypes
  <1>4. size \in Nat
    BY BlockMapAssumption
  <1>5. PICK p, q : Rank(f, size, p, q)
    BY <1>2, <1>3, <1>4, RankExists
  <1>6. /\ p < q /\ q = p + 1 /\ q \in 1 .. Len(f) /\ p \in Nat /\ q \in Nat
        /\ f[q].size = size /\ f[q].offsets = en[size] /\ IsFiniteSet(en[size])
        /\ \A k \in 1 .. Len(f) : f[k].size = size => k = q
    BY <1>1, <1>2, <1>5, ItemOf
  <1>7. c[u - 1] <= p /\ q <= c[u] /\ c[u - 1] \in Nat /\ c[u] \in Nat
    <2>1. u \in Places(c, Len(g), p, q)
      BY <1>1, <1>4, <1>5, BelongsIs
    <2> QED BY <1>1, <2>1, CutNumbers DEF Places
  <1> DEFINE a == g[u]
             i == q - c[u - 1]
  <1>8. Spot(g, f, c, u, q, i)
    <2> DEFINE x == c[u - 1]
    <2>1. x <= p /\ x \in Nat
      BY <1>7
    <2> HIDE DEF x
    <2>2. x < q
      BY <1>6, <2>1
    <2> QED BY <1>6, <1>7, <2>2 DEF Spot, x
  <1> HIDE DEF i
  <1>s. i \in 1 .. Len(a) /\ a[i] = f[q] /\ i \in Nat /\ c[u - 1] + i = q
    BY <1>1, <1>8, SpotIs
  <1>9. a \in Seq(ItemType) /\ DOMAIN a = 1 .. Len(a)
    BY <1>1, CutGroup
  <1>10. \A j \in 1 .. Len(a) : a[j].size = size => j = i
    <2> SUFFICES ASSUME NEW j \in 1 .. Len(a), a[j].size = size PROVE j = i
      OBVIOUS
    <2> DEFINE x == c[u - 1]
    <2>1. x + j \in 1 .. Len(f) /\ a[j] = f[x + j]
      BY <1>1, CutItem
    <2>2. x + j = q
      BY <1>6, <2>1
    <2>3. j \in Nat /\ x \in Nat /\ x + i = q
      BY <1>7, <1>s
    <2> HIDE DEF x
    <2> QED BY <1>6, <1>s, <2>2, <2>3
  <1> HIDE DEF a
  <1> HIDE DEF offsets
  <1>11. Has(a, size) /\ At(a, size) = i
    <2>1. a[i].size = size /\ i \in DOMAIN a
      BY <1>6, <1>9, <1>s
    <2>2. \A j \in DOMAIN a : a[j].size = size => j = i
      BY <1>9, <1>10
    <2> QED BY <2>1, <2>2 DEF Has, At
  <1>12. Listed(a, size, offset) = Changed(a, i, Item(size, offsets))
    <2>1. a[i] \in ItemType /\ a[i].size = size /\ a[i].offsets = en[size]
      BY <1>6, <1>9, <1>s
    <2>2. [a[i] EXCEPT !.offsets = a[i].offsets \cup {offset}] = Item(size, offsets)
      <3> DEFINE item == a[i]
      <3>1. item \in [size : Sizes, offsets : SUBSET Nat] /\ item.size = size
        BY <2>1 DEF ItemType
      <3> HIDE DEF item
      <3>2. [item EXCEPT !.offsets = offsets] = [size |-> size, offsets |-> offsets]
        BY <3>1
      <3>3. a[i].offsets \cup {offset} = offsets
        BY <2>1 DEF offsets
      <3> QED BY <3>2, <3>3 DEF item, Item
    <2>3. Listed(a, size, offset) = [a EXCEPT ![i] = [a[i] EXCEPT !.offsets = a[i].offsets \cup {offset}]]
      <3>1. Listed(a, size, offset) = [a EXCEPT ![At(a, size)].offsets = @ \cup {offset}]
        BY <1>11 DEF Listed
      <3> QED BY <1>11, <3>1
    <2> QED BY <2>2, <2>3 DEF Changed
  <1>13. h = Changed(g, u, Changed(g[u], i, Item(size, offsets)))
    BY <1>12 DEF a
  <1>14. offsets \in SUBSET Nat /\ offsets # {} /\ IsFiniteSet(offsets) /\ after = Changed(en, size, offsets)
    BY <1>6, FS_AddElement DEF offsets
  <1>15. Tree(h, after) /\ Len(FlattenSeq(h)) = Len(f) /\ Like(h, g, u) /\ Len(h[u]) = Len(g[u])
    BY <1>1, <1>2, <1>6, <1>8, <1>13, <1>14, ItemReplaced
  <1> QED BY <1>15 DEF f

\* Every item of b has the size of an item of a
SizesOf(b, a) == \A j \in 1 .. Len(b) : \E l \in 1 .. Len(a) : b[j].size = a[l].size

\* An offset leaves its item, and the item goes with its last offset
LEMMA OffsetErased ==
    ASSUME NEW g, NEW en \in [Sizes -> SUBSET Nat], Tree(g, en), NoneEmpty(g), Len(g) > 0, NEW size \in Sizes,
           NEW offset \in en[size], NEW s, s = Probe(g, size), NEW u, u = s.last + 1,
           NEW h, h = Erased(g, u, size, offset), NEW after, after = Changed(en, size, en[size] \ {offset}),
           NEW one, one = (Cardinality(en[size]) = 1)
    PROVE  /\ s.hit /\ u \in 1 .. Len(g)
           /\ Tree(h, after) /\ Like(h, g, u)
           /\ one <=> en[size] \ {offset} = {}
           /\ one => Len(h[u]) = Len(g[u]) - 1 /\ Len(FlattenSeq(h)) = Len(FlattenSeq(g)) - 1
           /\ ~one => Len(h[u]) = Len(g[u]) /\ Len(FlattenSeq(h)) = Len(FlattenSeq(g))
           /\ \A t \in Nat, v \in 1 .. Len(g) : Belongs(g, t, v) => Belongs(h, t, v)
           /\ Belongs(g, size, u) /\ \A v \in 1 .. Len(g) : Belongs(g, size, v) => v = u
           /\ \A t : t.groups = g => (Vanishes(t, size) <=> one)
  <1> DEFINE f == FlattenSeq(g)
             rest == en[size] \ {offset}
  <1>1. PICK c : Cut(g, f, c)
    BY DEF Tree
  <1>2. Sorted(f) /\ Holds(f, en)
    BY DEF Tree
  <1>fl. \A t : t.groups = g => Items(t) = f
    BY DEF Items
  <1> HIDE DEF f
  <1>3. f \in Seq(ItemType) /\ Len(f) \in Nat /\ DOMAIN f = 1 .. Len(f) /\ Len(g) \in Nat /\ g \in Seq(Seq(ItemType))
        /\ DOMAIN g = 1 .. Len(g)
    BY <1>1, CutTypes
  <1>4. size \in Nat
    BY BlockMapAssumption
  <1>5. PICK p, q : Rank(f, size, p, q)
    BY <1>2, <1>3, <1>4, RankExists
  <1>6. /\ p < q /\ q = p + 1 /\ q \in 1 .. Len(f) /\ p \in Nat /\ q \in Nat
        /\ f[q].size = size /\ f[q].offsets = en[size] /\ IsFiniteSet(en[size])
        /\ \A k \in 1 .. Len(f) : f[k].size = size => k = q
    <2>1. en[size] # {}
      OBVIOUS
    <2> QED BY <1>1, <1>2, <1>5, <2>1, ItemOf
  <1>7. /\ u \in 1 .. Len(g) /\ c[u - 1] < c[u] /\ c[u - 1] <= p /\ p <= c[u]
        /\ s.hit => c[u - 1] < q /\ p < c[u]
        /\ ~s.hit => p = q
    BY <1>1, <1>4, <1>5, ProbeLast
  <1>8. s.hit
    BY <1>6, <1>7
  <1> DEFINE x == c[u - 1]
             y == c[u]
             a == g[u]
             i == q - x
  <1>9. x < q /\ q <= y /\ x \in Nat /\ y \in Nat /\ x < y /\ x <= p /\ p < y /\ y <= Len(f)
    <2>1. x \in Nat /\ y \in Nat /\ x < q /\ p < y /\ x < y /\ x <= p /\ y <= Len(f)
      BY <1>1, <1>7, <1>8, CutNumbers
    <2> HIDE DEF x, y
    <2> QED BY <1>6, <2>1
  <1>sp. Spot(g, f, c, u, q, i)
    BY <1>6, <1>7, <1>9 DEF Spot
  <1>10. i \in 1 .. Len(a) /\ a[i] = f[q] /\ i \in Nat
    <2> HIDE DEF i
    <2> QED BY <1>1, <1>sp, SpotIs
  <1>11. /\ a \in Seq(ItemType) /\ DOMAIN a = 1 .. Len(a) /\ Len(a) \in Nat /\ Piece(a, f, x, y)
    BY <1>1, <1>7, CutGroup
  <1> DEFINE pos == ItemPos(a, size)
  <1> HIDE DEF a, x, y
  <1>12. pos = i
    <2>1. /\ pos \in 1 .. Len(a) /\ x + pos = q
      <3>1. pos = ItemPos(a, size)
        OBVIOUS
      <3> HIDE DEF pos
      <3> QED BY <1>3, <1>4, <1>5, <1>6, <1>9, <1>11, <3>1, ItemPosHit
    <2>2. pos \in Nat
      BY <1>11, <2>1
    <2> HIDE DEF pos
    <2> QED BY <1>6, <1>9, <2>1, <2>2
  <1>13. a[i].size = size /\ a[i].offsets = en[size]
    BY <1>6, <1>10
  <1> HIDE DEF pos, i
  <1>14. h = Changed(g, u, IF one THEN RemoveAt(a, i) ELSE Changed(a, i, Item(size, rest)))
    <2>1. h = [g EXCEPT ![u] = IF Cardinality(a[pos].offsets) = 1 THEN RemoveAt(a, pos)
                               ELSE [a EXCEPT ![pos] = Item(size, a[pos].offsets \ {offset})]]
      BY DEF Erased, a, pos
    <2> QED BY <1>12, <1>13, <2>1 DEF Changed
  <1>15. one <=> rest = {}
    <2>1. ASSUME one PROVE rest = {}
      <3>1. \E o : en[size] = {o}
        BY <1>6, <2>1, FS_Singleton
      <3> QED BY <3>1
    <2>2. ASSUME rest = {} PROVE one
      <3>1. en[size] = {offset}
        BY <2>2
      <3> QED BY <3>1, FS_Singleton
    <2> QED BY <2>1, <2>2
  <1> HIDE DEF rest
  <1>16. i = q - c[u - 1] /\ c[u - 1] < q /\ q <= c[u]
    BY <1>9 DEF i, x, y
  <1>17. ASSUME one
         PROVE  /\ Tree(h, after) /\ Like(h, g, u)
                /\ Len(h[u]) = Len(g[u]) - 1 /\ Len(FlattenSeq(h)) = Len(f) - 1
    <2> DEFINE e == RemoveAt(f, q)
    <2>1. h = Changed(g, u, RemoveAt(g[u], i)) /\ after = Changed(en, size, {})
      BY <1>14, <1>15, <1>17 DEF a, rest
    <2> HIDE DEF e
    <2>e. e = RemoveAt(f, q) /\ size = f[q].size
      BY <1>6 DEF e
    <2>2. Cut(h, e, CutsWithout(c, Len(g), q)) /\ Len(h) = Len(g)
      <3> DEFINE d == CutsWithout(c, Len(g), q)
      <3>1. d = CutsWithout(c, Len(g), q) /\ q \in 1 .. Len(f) /\ u \in 1 .. Len(g)
        BY <1>6, <1>7
      <3> HIDE DEF d
      <3>2. Cut(h, e, d) /\ Len(h) = Len(g)
        BY <1>1, <1>16, <2>1, <2>e, <3>1, ItemTaken
      <3> QED BY <3>2 DEF d
    <2>3. Sorted(e) /\ Holds(e, after)
      BY <1>2, <1>3, <1>6, <2>1, <2>e, FlatRemoved
    <2>4. Tree(h, after) /\ FlattenSeq(h) = e
      BY <2>2, <2>3, TreeOf
    <2>5. Len(e) = Len(f) - 1
      BY <1>3, <1>6, <2>e, RemoveAtIs
    <2>6. h[u] = RemoveAt(a, i) /\ \A v \in 1 .. Len(g) : v # u => h[v] = g[v]
      BY <1>3, <1>7, <2>1 DEF Changed, a
    <2>7. Len(RemoveAt(a, i)) = Len(a) - 1
          /\ \A j \in 1 .. Len(a) - 1 : RemoveAt(a, i)[j] = IF j < i THEN a[j] ELSE a[j + 1]
      BY <1>10, <1>11, RemoveAtIs
    <2>8. ASSUME NEW j \in 1 .. Len(a) - 1 PROVE \E l \in 1 .. Len(a) : RemoveAt(a, i)[j].size = a[l].size
      <3>1. j \in 1 .. Len(a) /\ j + 1 \in 1 .. Len(a)
        BY <1>11
      <3> QED BY <2>7, <3>1
    <2>9. Len(h[u]) = Len(g[u]) - 1 /\ \A j \in 1 .. Len(h[u]) : \E l \in 1 .. Len(g[u]) : h[u][j].size = g[u][l].size
      <3> DEFINE b == RemoveAt(a, i)
      <3>0. h[u] = b /\ a = g[u] /\ Len(b) = Len(a) - 1
        BY <2>6, <2>7 DEF a
      <3>1. \A j \in 1 .. Len(a) - 1 : \E l \in 1 .. Len(a) : b[j].size = a[l].size
        BY <2>8
      <3> HIDE DEF b
      <3>2. SizesOf(b, a)
        BY <3>0, <3>1 DEF SizesOf
      <3>3. SizesOf(h[u], g[u]) /\ Len(h[u]) = Len(g[u]) - 1
        BY <3>0, <3>2
      <3> QED BY <3>3 DEF SizesOf
    <2>10. Like(h, g, u)
      BY <2>2, <2>6, <2>9 DEF Like
    <2> QED BY <2>4, <2>5, <2>9, <2>10
  <1>18. ASSUME ~one
         PROVE  /\ Tree(h, after) /\ Like(h, g, u)
                /\ Len(h[u]) = Len(g[u]) /\ Len(FlattenSeq(h)) = Len(f)
    <2>1. h = Changed(g, u, Changed(g[u], i, Item(size, rest))) /\ after = Changed(en, size, rest)
      BY <1>14, <1>18 DEF a, rest
    <2>2. rest \in SUBSET Nat /\ rest # {} /\ IsFiniteSet(rest)
      <3>1. IsFiniteSet(rest)
        BY <1>6, FS_RemoveElement DEF rest
      <3> QED BY <1>15, <1>18, <3>1 DEF rest
    <2>3. f[q].size = size
      BY <1>6
    <2>4. Tree(h, after) /\ Len(FlattenSeq(h)) = Len(f) /\ Like(h, g, u) /\ Len(h[u]) = Len(g[u])
      BY <1>1, <1>2, <1>sp, <2>1, <2>2, <2>3, ItemReplaced
    <2> QED BY <2>4
  <1>19. Len(h) = Len(g) /\ (\A v \in 1 .. Len(g) : v # u => h[v] = g[v])
         /\ \A j \in 1 .. Len(h[u]) : \E l \in 1 .. Len(g[u]) : h[u][j].size = g[u][l].size
    BY <1>17, <1>18 DEF Like
  <1>20. ASSUME NEW t \in Nat, NEW v \in 1 .. Len(g), Belongs(g, t, v) PROVE Belongs(h, t, v)
    <2> SUFFICES ASSUME NEW w \in 1 .. Len(h), NEW j \in 1 .. Len(h[w])
                 PROVE  (w < v => h[w][j].size < t) /\ (w > v => h[w][j].size > t)
      BY DEF Belongs
    <2>1. w \in 1 .. Len(g)
      BY <1>19
    <2>2. PICK l \in 1 .. Len(g[w]) : h[w][j].size = g[w][l].size
      <3>1. CASE w = u
        BY <1>19, <3>1
      <3>2. CASE w # u
        BY <1>19, <2>1, <3>2
      <3> QED BY <3>1, <3>2
    <2>3. (w < v => g[w][l].size < t) /\ (w > v => g[w][l].size > t)
      BY <1>20, <2>1 DEF Belongs
    <2> QED BY <2>2, <2>3
  <1>21. ASSUME NEW v \in 1 .. Len(g) PROVE Belongs(g, size, v) <=> v = u
    <2>1. Belongs(g, size, v) <=> v \in Places(c, Len(g), p, q)
      BY <1>1, <1>4, <1>5, BelongsIs
    <2>2. v \in Places(c, Len(g), p, q) <=> c[v - 1] <= p /\ q <= c[v]
      BY DEF Places
    <2>3. v \in 0 .. Len(g) /\ v - 1 \in 0 .. Len(g) /\ c[v] \in Nat /\ c[v - 1] \in Nat
      BY <1>1, CutNumbers
    <2>4. u \in 0 .. Len(g) /\ u - 1 \in 0 .. Len(g) /\ c[u] \in Nat /\ c[u - 1] \in Nat
      BY <1>1, <1>7, CutNumbers
    <2>5. c[u - 1] <= p /\ q <= c[u]
      BY <1>9 DEF x, y
    <2>6. ASSUME v < u PROVE ~(q <= c[v])
      <3>1. v <= u - 1
        BY <2>3, <2>4, <2>6
      <3>2. c[v] <= c[u - 1]
        BY <1>1, <2>3, <2>4, <3>1, CutOrder
      <3> DEFINE z == c[v]
                 b == c[u - 1]
      <3>3. z <= b /\ b <= p /\ z \in Nat /\ b \in Nat
        BY <2>3, <2>4, <2>5, <3>2
      <3> HIDE DEF z, b
      <3>4. ~(q <= z)
        BY <1>6, <3>3
      <3> QED BY <3>4 DEF z
    <2>7. ASSUME v > u PROVE ~(c[v - 1] <= p)
      <3>1. u <= v - 1
        BY <2>3, <2>4, <2>7
      <3>2. c[u] <= c[v - 1]
        BY <1>1, <2>3, <2>4, <3>1, CutOrder
      <3> DEFINE z == c[v - 1]
                 b == c[u]
      <3>3. b <= z /\ q <= b /\ z \in Nat /\ b \in Nat
        BY <2>3, <2>4, <2>5, <3>2
      <3> HIDE DEF z, b
      <3>4. ~(z <= p)
        BY <1>6, <3>3
      <3> QED BY <3>4 DEF z
    <2>8. v < u \/ v = u \/ v > u
      BY <2>3, <2>4
    <2> QED BY <2>1, <2>2, <2>5, <2>6, <2>7, <2>8
  <1>22. ASSUME NEW t, t.groups = g PROVE Vanishes(t, size) <=> one
    <2>1. Items(t) = f
      BY <1>22, <1>fl
    <2>2. Range(f) = {f[k] : k \in 1 .. Len(f)}
      BY <1>3 DEF Range
    <2>3. Vanishes(t, size) <=> \E k \in 1 .. Len(f) : f[k].size = size /\ Cardinality(f[k].offsets) = 1
      BY <2>1, <2>2 DEF Vanishes
    <2> QED BY <1>6, <2>3
  <1> QED BY <1>7, <1>8, <1>15, <1>17, <1>18, <1>20, <1>21, <1>22 DEF f, rest

-----------------------------------------------------------------------------
(* What the search of the parent group finds                                 *)

Findable(g) == (Len(g) > 0 /\ NoneEmpty(g)) \/ Emptied(g)

\* The place of a size in a tree
LEMMA TreeRank ==
    ASSUME NEW g, NEW en, Tree(g, en), NEW size \in Sizes
    PROVE  \E f, c, p, q : /\ f = FlattenSeq(g) /\ Cut(g, f, c) /\ Sorted(f) /\ Holds(f, en) /\ Rank(f, size, p, q)
                           /\ (en[size] # {} <=> p < q) /\ p \in Nat /\ q \in Nat /\ (q = p \/ q = p + 1)
  <1> DEFINE f == FlattenSeq(g)
  <1>1. PICK c : Cut(g, f, c)
    BY DEF Tree
  <1>2. Sorted(f) /\ Holds(f, en)
    BY DEF Tree
  <1>3. f = FlattenSeq(g)
    OBVIOUS
  <1> HIDE DEF f
  <1>4. f \in Seq(ItemType) /\ size \in Nat
    BY <1>1, CutTypes, BlockMapAssumption
  <1>5. PICK p, q : Rank(f, size, p, q)
    BY <1>2, <1>4, RankExists
  <1>6. (en[size] # {} <=> p < q) /\ p \in Nat /\ q \in Nat /\ (q = p \/ q = p + 1)
    BY <1>2, <1>4, <1>5, RankEntries, RankTypes
  <1> QED BY <1>1, <1>2, <1>3, <1>5, <1>6

\* The search for an insertion names just the groups the size belongs into, and there is one
LEMMA PlacesAre ==
    ASSUME NEW g, NEW en, Tree(g, en), Findable(g), NEW size \in Sizes
    PROVE  /\ InsertPos(g, size) = {u \in 1 .. Len(g) : Belongs(g, size, u)}
           /\ InsertPos(g, size) # {}
  <1>1. PICK f, c, p, q : Cut(g, f, c) /\ Rank(f, size, p, q) /\ p \in Nat /\ q \in Nat /\ (q = p \/ q = p + 1)
    BY TreeRank
  <1>2. size \in Nat
    BY BlockMapAssumption
  <1>3. InsertPos(g, size) = Places(c, Len(g), p, q)
    <2>1. CASE Len(g) > 0 /\ NoneEmpty(g)
      BY <1>1, <1>2, <2>1, InsertPosIs
    <2>2. CASE Emptied(g)
      BY <1>1, <1>2, <2>2, InsertPosEmptied
    <2> QED BY <2>1, <2>2 DEF Findable
  <1>4. \A u \in 1 .. Len(g) : Belongs(g, size, u) <=> u \in Places(c, Len(g), p, q)
    BY <1>1, <1>2, BelongsIs
  <1>5. Places(c, Len(g), p, q) \subseteq 1 .. Len(g)
    BY DEF Places
  <1>6. Places(c, Len(g), p, q) # {}
    <2>0. Len(g) \in Nat /\ Len(g) > 0
      <3>1. Len(g) > 0
        BY DEF Findable, Emptied
      <3> QED BY <1>1, <3>1, CutTypes
    <2>1. CASE p > 0
      <3>1. p \in 1 .. Len(f)
        <4>1. p <= Len(f) /\ Len(f) \in Nat
          BY <1>1, CutTypes, RankTypes
        <4> QED BY <1>1, <2>1, <4>1
      <3>2. PICK v \in 1 .. Len(g) : c[v - 1] < p /\ p <= c[v]
        BY <1>1, <3>1, CutFind
      <3>3. v \in 0 .. Len(g) /\ v - 1 \in 0 .. Len(g) /\ c[v] \in Nat /\ c[v - 1] \in Nat
        BY <1>1, CutNumbers
      <3>4. CASE q <= c[v]
        <4>1. c[v - 1] <= p
          <5> DEFINE x == c[v - 1]
          <5>1. x < p /\ x \in Nat
            BY <3>2, <3>3
          <5> HIDE DEF x
          <5>2. x <= p
            BY <1>1, <5>1
          <5> QED BY <5>2 DEF x
        <4> QED BY <3>4, <4>1 DEF Places
      <3>5. CASE ~(q <= c[v])
        <4> DEFINE x == c[v]
        <4>1. x = p /\ q = p + 1
          <5>1. p <= x /\ x \in Nat /\ ~(q <= x)
            BY <3>2, <3>3, <3>5
          <5> HIDE DEF x
          <5> QED BY <1>1, <5>1
        <4>2. q \in 1 .. Len(f)
          <5>1. q <= Len(f) /\ Len(f) \in Nat
            BY <1>1, CutTypes, RankTypes
          <5> QED BY <1>1, <4>1, <5>1
        <4>3. PICK w \in 1 .. Len(g) : c[w - 1] < q /\ q <= c[w]
          BY <1>1, <4>2, CutFind
        <4>4. c[w - 1] \in Nat
          BY <1>1, <4>3, CutNumbers
        <4>5. c[w - 1] <= p
          <5> DEFINE y == c[w - 1]
          <5>1. y < q /\ y \in Nat
            BY <4>3, <4>4
          <5> HIDE DEF x, y
          <5>2. y <= p
            BY <1>1, <4>1, <5>1
          <5> QED BY <5>2 DEF y
        <4> QED BY <4>3, <4>5 DEF Places
      <3> QED BY <3>4, <3>5
    <2>2. CASE p = 0 /\ Len(g) > 0 /\ NoneEmpty(g)
      <3>1. 1 \in 1 .. Len(g) /\ 1 - 1 = 0 /\ g[1] # <<>>
        BY <2>0, <2>2 DEF NoneEmpty
      <3>2. c[1 - 1] = 0
        BY <1>1, <3>1, CutTypes
      <3>3. c[1] \in Nat /\ c[1 - 1] < c[1]
        <4>1. /\ c[1] \in Nat /\ c[1 - 1] \in Nat /\ c[1 - 1] <= c[1]
              /\ g[1] = <<>> <=> c[1 - 1] = c[1]
          BY <1>1, <3>1, CutGroup
        <4> QED BY <3>1, <4>1
      <3>4. q <= c[1] /\ c[1 - 1] <= p
        <4> DEFINE x == c[1]
        <4>1. 0 < x /\ x \in Nat
          BY <3>2, <3>3
        <4> HIDE DEF x
        <4>2. q <= x
          BY <1>1, <2>2, <4>1
        <4> QED BY <2>2, <3>2, <4>2 DEF x
      <3> QED BY <3>1, <3>4 DEF Places
    <2>3. CASE p = 0 /\ Emptied(g)
      <3>1. Len(g) = 2 /\ g[1] = <<>>
        BY <2>3 DEF Emptied
      <3>2. 1 \in 1 .. Len(g) /\ 2 \in 1 .. Len(g) /\ 1 - 1 = 0 /\ 2 - 1 = 1
        BY <3>1
      <3>3. c[0] = 0 /\ c[2] = Len(f)
        BY <1>1, <3>1, CutTypes
      <3>4. c[1] = 0
        <4>1. g[1] = <<>> <=> c[1 - 1] = c[1]
          BY <1>1, <3>2, CutGroup
        <4> QED BY <3>1, <3>2, <3>3, <4>1
      <3>5. c[2 - 1] <= p /\ q <= c[2]
        <4>1. q <= Len(f)
          BY <1>1, RankTypes
        <4> QED BY <2>3, <3>2, <3>3, <3>4, <4>1
      <3> QED BY <3>2, <3>5 DEF Places
    <2> QED BY <1>1, <2>1, <2>2, <2>3 DEF Findable
  <1> DEFINE P == Places(c, Len(g), p, q)
  <1> HIDE DEF P
  <1>7. InsertPos(g, size) = P /\ P # {} /\ P \subseteq 1 .. Len(g) /\ \A u \in 1 .. Len(g) : Belongs(g, size, u) <=> u \in P
    BY <1>3, <1>4, <1>5, <1>6 DEF P
  <1> QED BY <1>7

\* The place for a new size is the first group the search names
LEMMA FirstPlace ==
    ASSUME NEW g, NEW en, Tree(g, en), Findable(g), NEW size \in Sizes, NEW u, u = Min(InsertPos(g, size))
    PROVE  /\ u \in 1 .. Len(g) /\ Belongs(g, size, u) /\ u \in InsertPos(g, size)
           /\ \A v \in 1 .. Len(g) : Belongs(g, size, v) => u <= v
  <1> DEFINE P == InsertPos(g, size)
  <1>1. P = {v \in 1 .. Len(g) : Belongs(g, size, v)} /\ P # {}
    BY PlacesAre
  <1> HIDE DEF P
  <1>2. P \in SUBSET Nat
    <2>1. P \subseteq 1 .. Len(g)
      BY <1>1
    <2> QED BY <2>1
  <1>3. Min(P) \in P /\ \A v \in P : Min(P) <= v
    BY <1>1, <1>2, MinIn
  <1>4. u = Min(P)
    BY DEF P
  <1>5. u \in P /\ \A v \in P : u <= v
    BY <1>3, <1>4
  <1>6. u \in InsertPos(g, size)
    BY <1>5 DEF P
  <1> QED BY <1>1, <1>5, <1>6

\* The first group that can take the size belongs to it; without one all its groups are full
LEMMA CandidateIn ==
    ASSUME NEW g, NEW en, Tree(g, en), Findable(g), NEW size \in Sizes, NEW u, u = Candidate(g, size)
    PROVE  /\ u # 0 => /\ u \in 1 .. Len(g) /\ Belongs(g, size, u) /\ (Has(g[u], size) <=> en[size] # {})
                       /\ en[size] # {} \/ Len(g[u]) < GroupSize
           /\ u = 0 => /\ en[size] = {}
                       /\ \A v \in 1 .. Len(g) : Belongs(g, size, v) => ~(Len(g[v]) < GroupSize)
  <1>1. PICK f, c, p, q : Cut(g, f, c) /\ Rank(f, size, p, q) /\ p \in Nat /\ q \in Nat /\ (q = p \/ q = p + 1)
                          /\ (en[size] # {} <=> p < q)
    BY TreeRank
  <1>2. size \in Nat
    BY BlockMapAssumption
  <1>3. \A v \in 1 .. Len(g) : Belongs(g, size, v) <=> v \in Places(c, Len(g), p, q)
    BY <1>1, <1>2, BelongsIs
  <1>4. InsertPos(g, size) = Places(c, Len(g), p, q)
    <2> DEFINE P == Places(c, Len(g), p, q)
               I == InsertPos(g, size)
    <2>1. I = {v \in 1 .. Len(g) : Belongs(g, size, v)}
      BY PlacesAre
    <2>2. P \subseteq 1 .. Len(g) /\ \A v \in 1 .. Len(g) : Belongs(g, size, v) <=> v \in P
      BY <1>3 DEF Places
    <2> HIDE DEF P, I
    <2>3. I = P
      BY <2>1, <2>2
    <2> QED BY <2>3 DEF P, I
  <1>5. \A v \in 1 .. Len(g) : Belongs(g, size, v) => (Has(g[v], size) <=> en[size] # {})
    <2> SUFFICES ASSUME NEW v \in 1 .. Len(g), Belongs(g, size, v) PROVE Has(g[v], size) <=> en[size] # {}
      OBVIOUS
    <2>1. c[v - 1] <= p /\ q <= c[v] /\ c[v - 1] \in Nat
      <3>1. v \in Places(c, Len(g), p, q)
        BY <1>3
      <3> QED BY <1>1, <3>1, CutNumbers DEF Places
    <2>2. p < q => c[v - 1] < q
      <3> DEFINE x == c[v - 1]
      <3>1. x <= p /\ x \in Nat
        BY <2>1
      <3> HIDE DEF x
      <3>2. p < q => x < q
        BY <1>1, <3>1
      <3> QED BY <3>2 DEF x
    <2>3. Has(g[v], size) <=> p < q /\ c[v - 1] < q /\ q <= c[v]
      BY <1>1, <1>2, HasIs
    <2> QED BY <1>1, <2>1, <2>2, <2>3
  <1>6. /\ u = 0 \/ u \in Places(c, Len(g), p, q)
        /\ u # 0 => u \in 1 .. Len(g) /\ (Has(g[u], size) \/ Len(g[u]) < GroupSize)
        /\ u = 0 => \A v \in Places(c, Len(g), p, q) : ~Has(g[v], size) /\ ~(Len(g[v]) < GroupSize)
    <2>1. Len(g) \in Nat
      BY <1>1, CutTypes
    <2> QED BY <1>4, <2>1, CandidateIs
  <1>7. u # 0 => /\ u \in 1 .. Len(g) /\ Belongs(g, size, u) /\ (Has(g[u], size) <=> en[size] # {})
                 /\ en[size] # {} \/ Len(g[u]) < GroupSize
    BY <1>3, <1>5, <1>6
  <1>8. ASSUME u = 0 PROVE en[size] = {} /\ \A v \in 1 .. Len(g) : Belongs(g, size, v) => ~(Len(g[v]) < GroupSize)
    <2>1. \A v \in Places(c, Len(g), p, q) : ~Has(g[v], size) /\ ~(Len(g[v]) < GroupSize)
      BY <1>6, <1>8
    <2>2. PICK v \in 1 .. Len(g) : Belongs(g, size, v)
      BY PlacesAre
    <2>3. v \in Places(c, Len(g), p, q)
      BY <1>3, <2>2
    <2> QED BY <1>3, <1>5, <2>1, <2>2, <2>3
  <1> QED BY <1>7, <1>8

-----------------------------------------------------------------------------
(* combine_child and combine_children                                        *)

Fits(g) == \A u \in 1 .. Len(g) : Len(g[u]) <= GroupSize

\* The same items cut elsewhere hold the same entries
LEMMA TreeKept ==
    ASSUME NEW g, NEW en, Tree(g, en), NEW h, NEW d, Cut(h, FlattenSeq(g), d)
    PROVE  Tree(h, en) /\ FlattenSeq(h) = FlattenSeq(g)
  <1> DEFINE f == FlattenSeq(g)
  <1>1. Cut(h, f, d) /\ Sorted(f) /\ Holds(f, en)
    BY DEF Tree
  <1> HIDE DEF f
  <1>2. Tree(h, en) /\ FlattenSeq(h) = f
    BY <1>1, TreeOf
  <1> QED BY <1>2 DEF f

\* A group is empty when it has no items
LEMMA EmptyLen ==
    ASSUME NEW g, NEW f, NEW c, Cut(g, f, c), NEW u \in 1 .. Len(g)
    PROVE  Len(g[u]) \in Nat /\ (g[u] = <<>> <=> Len(g[u]) = 0)
  <1>1. g[u] \in Seq(ItemType) /\ Len(g[u]) \in Nat
    BY CutGroup
  <1> DEFINE a == g[u]
  <1> HIDE DEF a
  <1>2. a = <<>> <=> Len(a) = 0
    BY <1>1 DEF a
  <1> QED BY <1>1, <1>2 DEF a

\* What is known of the groups of a tree
LEMMA TreeTypes ==
    ASSUME NEW g, NEW en, Tree(g, en)
    PROVE  /\ g \in Groups /\ Len(g) \in Nat /\ DOMAIN g = 1 .. Len(g)
           /\ FlattenSeq(g) \in Seq(ItemType) /\ Len(FlattenSeq(g)) \in Nat
           /\ \A u \in 1 .. Len(g) : g[u] \in Seq(ItemType) /\ Len(g[u]) \in Nat /\ (g[u] = <<>> <=> Len(g[u]) = 0)
  <1>1. PICK c : Cut(g, FlattenSeq(g), c)
    BY DEF Tree
  <1>2. g \in Groups /\ FlattenSeq(g) \in Seq(ItemType)
    BY <1>1 DEF Cut
  <1>3. Len(g) \in Nat /\ DOMAIN g = 1 .. Len(g) /\ Len(FlattenSeq(g)) \in Nat
    BY <1>1, CutTypes
  <1>4. \A u \in 1 .. Len(g) : g[u] \in Seq(ItemType)
    BY <1>1, CutGroup
  <1>5. \A u \in 1 .. Len(g) : Len(g[u]) \in Nat /\ (g[u] = <<>> <=> Len(g[u]) = 0)
    BY <1>1, EmptyLen
  <1> QED BY <1>2, <1>3, <1>4, <1>5

\* h has, in place of groups u and u + 1 of g, one with all their items
Merger(h, g, f, u, count) ==
    /\ (\E d : Cut(h, f, d)) /\ Len(h) = Len(g) - 1
    /\ \A w \in 1 .. Len(g) - 1 : Len(h[w]) = IF w < u THEN Len(g[w])
                                              ELSE IF w = u THEN count + Len(g[u]) ELSE Len(g[w + 1])

\* Group v joins the one in front of it
LEMMA MergedIs ==
    ASSUME NEW g, NEW f, NEW c, Cut(g, f, c), NEW u \in 1 .. Len(g), NEW v \in 1 .. Len(g), v = u + 1,
           NEW count, count = Len(g[v]), NEW h, h = RemoveAt(Moved(g, v, u, count), v)
    PROVE  Merger(h, g, f, u, count)
  <1> DEFINE n == Len(g)
             m == Moved(g, v, u, count)
             d == [c EXCEPT ![u] = c[u] + count]
  <1>1. n \in Nat /\ u \in 1 .. n /\ v \in 1 .. n /\ DOMAIN c = 0 .. n
    BY CutTypes
  <1>2. count \in Nat /\ count <= Len(g[v]) /\ c[v] = c[u] + count /\ c[u] \in Nat /\ c[v] \in Nat
    <2>1. c[v] = c[v - 1] + Len(g[v]) /\ Len(g[v]) \in Nat /\ c[v - 1] \in Nat /\ c[v] \in Nat
      BY CutGroup
    <2>2. v - 1 = u
      BY <1>1
    <2> QED BY <2>1, <2>2
  <1>3. Cut(m, f, d) /\ Len(m) = n
    BY <1>2, MovedBack
  <1>4. d[u] = c[v] /\ \A w \in 0 .. n : w # u => d[w] = c[w]
    BY <1>1, <1>2
  <1> HIDE DEF m, d, n
  <1>5. ASSUME NEW w \in 1 .. n PROVE /\ Len(m[w]) \in Nat /\ Len(g[w]) \in Nat
                                      /\ Len(m[w]) = IF w = u THEN count + Len(g[u]) ELSE IF w = v THEN 0 ELSE Len(g[w])
    <2>0. Cut(m, f, d) /\ w \in 1 .. Len(m)
      BY <1>3
    <2>1. d[w] = d[w - 1] + Len(m[w]) /\ Len(m[w]) \in Nat /\ d[w - 1] \in Nat /\ d[w] \in Nat
      BY <2>0, CutGroup
    <2>2. c[w] = c[w - 1] + Len(g[w]) /\ Len(g[w]) \in Nat /\ c[w - 1] \in Nat /\ c[w] \in Nat
      BY CutGroup DEF n
    <2>3. w \in 0 .. n /\ w - 1 \in 0 .. n
      BY <1>1
    <2>4. CASE w = u
      <3>1. d[w] = c[u] + count /\ d[w - 1] = c[w - 1]
        <4>1. w - 1 # u
          BY <1>1, <2>4
        <4> QED BY <1>2, <1>4, <2>3, <2>4, <4>1
      <3> DEFINE x == c[w - 1]
                 y == c[w]
                 l == Len(m[w])
                 k == Len(g[w])
                 j == Len(g[v])
      <3>2. y + j = x + l /\ y = x + k /\ x \in Nat /\ y \in Nat /\ l \in Nat /\ k \in Nat /\ j \in Nat /\ count = j
        BY <1>2, <2>1, <2>2, <2>4, <3>1
      <3> HIDE DEF x, y, l, k, j
      <3>3. l = j + k
        BY <3>2
      <3>4. Len(m[w]) = count + Len(g[u])
        BY <2>4, <3>2, <3>3 DEF l, k
      <3> QED BY <2>1, <2>2, <2>4, <3>4
    <2>5. CASE w = v
      <3>1. d[w] = c[v] /\ d[w - 1] = c[v]
        <4>1. w - 1 = u /\ w # u
          BY <1>1, <2>5
        <4> QED BY <1>4, <2>3, <2>5, <4>1
      <3>2. Len(m[w]) = 0
        <4> DEFINE x == c[v]
                   l == Len(m[w])
        <4>1. x = x + l /\ x \in Nat /\ l \in Nat
          BY <1>2, <2>1, <3>1
        <4> HIDE DEF x, l
        <4>2. l = 0
          BY <4>1
        <4> QED BY <4>2 DEF l
      <3>3. w # u
        BY <1>1, <2>5
      <3> QED BY <2>1, <2>2, <2>5, <3>2, <3>3
    <2>6. CASE w # u /\ w # v
      <3>1. d[w] = c[w] /\ d[w - 1] = c[w - 1]
        <4>1. w - 1 # u
          BY <1>1, <2>6
        <4> QED BY <1>4, <2>3, <2>6, <4>1
      <3>2. Len(m[w]) = Len(g[w])
        <4> DEFINE x == c[w - 1]
                   l == Len(m[w])
                   k == Len(g[w])
        <4>1. x + l = x + k /\ x \in Nat /\ l \in Nat /\ k \in Nat
          BY <2>1, <2>2, <3>1
        <4> HIDE DEF x, l, k
        <4>2. l = k
          BY <4>1
        <4> QED BY <4>2 DEF l, k
      <3> QED BY <2>1, <2>2, <2>6, <3>2
    <2> QED BY <2>4, <2>5, <2>6
  <1>6. m[v] = <<>>
    <2>1. Len(m[v]) = 0
      <3>1. v # u
        BY <1>1
      <3> QED BY <1>1, <1>5, <3>1
    <2> QED BY <1>1, <1>3, <2>1, EmptyLen
  <1>7. /\ Cut(h, f, Narrowed(d, Len(m), v)) /\ Len(h) = Len(m) - 1
        /\ \A j \in 1 .. Len(m) - 1 : h[j] = IF j < v THEN m[j] ELSE m[j + 1]
    <2>1. h = RemoveAt(m, v) /\ v \in 1 .. Len(m)
      BY <1>1, <1>3 DEF m
    <2> QED BY <1>3, <1>6, <2>1, GroupRemoved
  <1>8. ASSUME NEW w \in 1 .. n - 1
        PROVE  Len(h[w]) = IF w < u THEN Len(g[w]) ELSE IF w = u THEN count + Len(g[u]) ELSE Len(g[w + 1])
    <2>1. w \in 1 .. n /\ w + 1 \in 1 .. n
      BY <1>1
    <2>2. h[w] = IF w < v THEN m[w] ELSE m[w + 1]
      BY <1>3, <1>7
    <2>3. CASE w < u
      <3>1. w < v /\ w # u /\ w # v
        BY <1>1, <2>1, <2>3
      <3>2. Len(m[w]) = Len(g[w])
        BY <1>5, <2>1, <3>1
      <3> QED BY <2>2, <2>3, <3>1, <3>2
    <2>5. CASE w = u
      <3>1. w < v
        BY <1>1, <2>5
      <3>2. Len(m[w]) = count + Len(g[u])
        BY <1>5, <2>1, <2>5
      <3>4. h[w] = m[w]
        BY <2>2, <3>1
      <3>5. ~(w < u)
        BY <1>1, <2>5
      <3>3. Len(h[w]) = count + Len(g[u]) /\ ~(w < u)
        BY <3>2, <3>4, <3>5
      <3> QED BY <2>5, <3>3
    <2>4. CASE ~(w < v)
      <3> DEFINE j == w + 1
      <3>1. j \in 1 .. n /\ j # u /\ j # v
        BY <1>1, <2>1, <2>4
      <3>0. ~(w < u) /\ w # u
        BY <1>1, <2>1, <2>4
      <3> HIDE DEF j
      <3>2. Len(m[j]) = Len(g[j])
        BY <1>5, <3>1
      <3>3. h[w] = m[j]
        BY <2>2, <2>4 DEF j
      <3>4. Len(h[w]) = Len(g[w + 1])
        BY <3>2, <3>3 DEF j
      <3> QED BY <3>0, <3>4
    <2>6. w < u \/ w = u \/ ~(w < v)
      BY <1>1, <2>1
    <2> QED BY <2>3, <2>4, <2>5, <2>6
  <1>9. (\E e : Cut(h, f, e)) /\ Len(h) = n - 1
    BY <1>3, <1>7
  <1> QED BY <1>8, <1>9 DEF Merger, n

\* One group less, or nothing changes.  What is empty afterwards was empty before.
Thinner(h, g, pos) ==
    /\ Len(h) = Len(g) - 1
    /\ \A w \in 1 .. Len(h) : Len(h[w]) = 0 => (w < pos /\ Len(g[w]) = 0) \/ (w >= pos /\ Len(g[w + 1]) = 0)

\* combine_child keeps the items; it changes nothing or leaves one group less
LEMMA CombinedIs ==
    ASSUME NEW g, NEW en, Tree(g, en), Fits(g), NEW pos \in 1 .. Len(g), NEW h, h = Combined(g, pos)
    PROVE  /\ Tree(h, en) /\ FlattenSeq(h) = FlattenSeq(g) /\ Fits(h)
           /\ (h = g /\ g[pos] # <<>>) \/ Thinner(h, g, pos)
  <1> DEFINE f == FlattenSeq(g)
             n == Len(g)
             count == Len(g[pos])
  <1>1. PICK c : Cut(g, f, c)
    BY DEF Tree
  <1> HIDE DEF f
  <1>2. n \in Nat /\ DOMAIN g = 1 .. n /\ pos \in 1 .. n
    BY <1>1, CutTypes
  <1>3. \A w \in 1 .. n : Len(g[w]) \in Nat /\ (g[w] = <<>> <=> Len(g[w]) = 0) /\ Len(g[w]) <= GroupSize
    BY <1>1, EmptyLen DEF Fits
  <1>4. count \in Nat
    BY <1>3
  <1>5. CASE count = 0
    <2>1. h = RemoveAt(g, pos) /\ g[pos] = <<>>
      BY <1>3, <1>5 DEF Combined
    <2>2. /\ Cut(h, f, Narrowed(c, n, pos)) /\ Len(h) = n - 1
          /\ \A j \in 1 .. n - 1 : h[j] = IF j < pos THEN g[j] ELSE g[j + 1]
      BY <1>1, <2>1, GroupRemoved
    <2> HIDE DEF n
    <2>3. ASSUME NEW w \in 1 .. Len(h)
          PROVE  /\ Len(h[w]) <= GroupSize
                 /\ Len(h[w]) = 0 => (w < pos /\ Len(g[w]) = 0) \/ (w >= pos /\ Len(g[w + 1]) = 0)
      <3>1. w \in 1 .. n - 1 /\ w \in 1 .. n /\ w + 1 \in 1 .. n /\ (~(w < pos) => w >= pos)
        BY <1>2, <2>2
      <3>2. h[w] = IF w < pos THEN g[w] ELSE g[w + 1]
        BY <2>2, <3>1
      <3> QED BY <1>3, <3>1, <3>2
    <2>4. Fits(h) /\ Thinner(h, g, pos)
      BY <2>2, <2>3 DEF Fits, Thinner, n
    <2> QED BY <2>2, <2>4, TreeKept DEF f
  <1>6. ASSUME NEW u \in 1 .. n, NEW v \in 1 .. n, v = u + 1, pos = u \/ pos = v, count # 0,
               Len(g[v]) + Len(g[u]) <= GroupSize, h = RemoveAt(Moved(g, v, u, Len(g[v])), v)
        PROVE  Tree(h, en) /\ FlattenSeq(h) = FlattenSeq(g) /\ Fits(h) /\ Thinner(h, g, pos)
    <2> DEFINE k == Len(g[v])
               l == Len(g[u])
    <2>1. Merger(h, g, f, u, k)
      <3>0. h = RemoveAt(Moved(g, v, u, k), v) /\ k = Len(g[v])
        BY <1>6
      <3> HIDE DEF k
      <3> QED BY <1>1, <1>6, <3>0, MergedIs
    <2>2. k \in Nat /\ l \in Nat /\ k + l <= GroupSize /\ k + l # 0
      <3>1. k \in Nat /\ l \in Nat /\ k + l <= GroupSize
        BY <1>3, <1>6
      <3>2. k # 0 \/ l # 0
        BY <1>6
      <3> HIDE DEF k, l
      <3> QED BY <3>1, <3>2
    <2>5. /\ (\E d : Cut(h, f, d)) /\ Len(h) = n - 1
          /\ \A w \in 1 .. n - 1 : Len(h[w]) = IF w < u THEN Len(g[w]) ELSE IF w = u THEN k + l ELSE Len(g[w + 1])
      BY <2>1 DEF Merger
    <2> HIDE DEF k, l, n
    <2>3. ASSUME NEW w \in 1 .. Len(h)
          PROVE  /\ Len(h[w]) <= GroupSize
                 /\ Len(h[w]) = 0 => (w < pos /\ Len(g[w]) = 0) \/ (w >= pos /\ Len(g[w + 1]) = 0)
      <3>1. w \in 1 .. n - 1 /\ w \in 1 .. n /\ w + 1 \in 1 .. n
        BY <1>2, <2>5
      <3>2. Len(h[w]) = IF w < u THEN Len(g[w]) ELSE IF w = u THEN k + l ELSE Len(g[w + 1])
        BY <2>5, <3>1
      <3>3. CASE w < u
        <4>1. w < pos
          BY <1>2, <1>6, <3>1, <3>3
        <4> QED BY <1>3, <3>1, <3>2, <3>3, <4>1
      <3>4. CASE w = u
        <4>1. Len(h[w]) = k + l
          BY <1>2, <3>2, <3>4
        <4> QED BY <2>2, <4>1
      <3>5. CASE w > u
        <4>1. w >= pos /\ ~(w < u) /\ w # u
          BY <1>2, <1>6, <3>1, <3>5
        <4> QED BY <1>3, <3>1, <3>2, <4>1
      <3> QED BY <1>2, <3>1, <3>3, <3>4, <3>5
    <2>4. Fits(h) /\ Thinner(h, g, pos)
      BY <2>3, <2>5 DEF Fits, Thinner, n
    <2> QED BY <2>4, <2>5, TreeKept DEF f
  <1> DEFINE Close(u) == u \in DOMAIN g /\ count + Len(g[u]) <= GroupSize
  <1>7. CASE count # 0
    <2>1. h = IF Close(pos - 1) THEN RemoveAt(Moved(g, pos, pos - 1, count), pos)
              ELSE IF Close(pos + 1) THEN RemoveAt(Moved(g, pos + 1, pos, Len(g[pos + 1])), pos + 1)
              ELSE g
      BY <1>7 DEF Combined
    <2>2. CASE Close(pos - 1)
      <3> DEFINE u == pos - 1
      <3>1. u \in 1 .. n /\ pos = u + 1 /\ count + Len(g[u]) <= GroupSize
        BY <1>2, <2>2
      <3>2. h = RemoveAt(Moved(g, pos, u, Len(g[pos])), pos)
        BY <2>1, <2>2
      <3> HIDE DEF u
      <3> QED BY <1>2, <1>6, <1>7, <3>1, <3>2
    <2>3. CASE ~Close(pos - 1) /\ Close(pos + 1)
      <3> DEFINE v == pos + 1
      <3>1. v \in 1 .. n /\ v = pos + 1 /\ count + Len(g[v]) <= GroupSize
        BY <1>2, <2>3
      <3>2. h = RemoveAt(Moved(g, v, pos, Len(g[v])), v)
        BY <2>1, <2>3
      <3> HIDE DEF v
      <3>3. Len(g[v]) + Len(g[pos]) <= GroupSize
        <4> DEFINE k == Len(g[v])
        <4>1. k \in Nat /\ count + k <= GroupSize
          BY <1>3, <3>1
        <4> HIDE DEF k, count
        <4>2. k + count <= GroupSize
          BY <1>4, <4>1
        <4> QED BY <4>2 DEF k, count
      <3> QED BY <1>2, <1>6, <1>7, <3>1, <3>2, <3>3
    <2>4. CASE ~Close(pos - 1) /\ ~Close(pos + 1)
      <3>1. h = g
        BY <2>1, <2>4
      <3>2. g[pos] # <<>>
        BY <1>2, <1>3, <1>7
      <3> QED BY <3>1, <3>2
    <2> QED BY <2>2, <2>3, <2>4
  <1> QED BY <1>5, <1>7

CombineStates == [groups : Groups, pos : Int]

\* What combine_children keeps: the groups before pos have items
Gathered(s, en, f, n, k) ==
    /\ s \in CombineStates
    /\ Tree(s.groups, en) /\ FlattenSeq(s.groups) = f /\ Fits(s.groups)
    /\ s.pos >= 1 /\ s.pos + n = k + 1 + Len(s.groups) /\ Len(s.groups) <= n
    /\ \A v \in 1 .. Len(s.groups) : v < s.pos => s.groups[v] # <<>>

\* One round of combine_children
LEMMA CombineStepIs ==
    ASSUME NEW s, NEW en, NEW f, NEW n \in Nat, NEW k \in 0 .. n - 1, Gathered(s, en, f, n, k)
    PROVE  Gathered(CombineStep(s), en, f, n, k + 1)
  <1> DEFINE g == s.groups
             pos == s.pos
             h == Combined(g, pos)
             l == Len(g)
             t == CombineStep(s)
  <1>1. /\ Tree(g, en) /\ FlattenSeq(g) = f /\ Fits(g) /\ pos \in Int
        /\ pos >= 1 /\ pos + n = k + 1 + l /\ l <= n
        /\ \A v \in 1 .. l : v < pos => g[v] # <<>>
    BY DEF Gathered, CombineStates
  <1>2. l \in Nat /\ \A v \in 1 .. l : Len(g[v]) \in Nat /\ (g[v] = <<>> <=> Len(g[v]) = 0)
    BY <1>1, TreeTypes
  <1>3. pos \in 1 .. l
    <2> HIDE DEF pos, l
    <2> QED BY <1>1, <1>2
  <1>4. t = [groups |-> h, pos |-> IF h = g THEN pos + 1 ELSE pos]
    BY DEF CombineStep
  <1> HIDE DEF g, pos, h, t
  <1>10. pos \in Int /\ pos >= 1 /\ pos + n = k + 1 + l /\ l <= n /\ l \in Nat /\ k \in Int
    BY <1>1, <1>2
  <1>5. /\ Tree(h, en) /\ FlattenSeq(h) = FlattenSeq(g) /\ Fits(h)
        /\ (h = g /\ g[pos] # <<>>) \/ Thinner(h, g, pos)
    BY <1>1, <1>3, CombinedIs DEF h
  <1>6. h \in Groups /\ Len(h) \in Nat /\ \A v \in 1 .. Len(h) : h[v] = <<>> <=> Len(h[v]) = 0
    BY <1>5, TreeTypes
  <1>7. t \in CombineStates /\ t.groups = h
    BY <1>1, <1>4, <1>6 DEF CombineStates
  <1>8. ASSUME h = g, g[pos] # <<>> PROVE Gathered(t, en, f, n, k + 1)
    <2>1. t.pos = pos + 1
      BY <1>4, <1>8
    <2>2. \A v \in 1 .. Len(h) : v < pos + 1 => h[v] # <<>>
      <3> SUFFICES ASSUME NEW v \in 1 .. l, v < pos + 1 PROVE g[v] # <<>>
        BY <1>8
      <3>1. v < pos \/ v = pos
        BY <1>1, <1>2
      <3> QED BY <1>1, <1>8, <3>1
    <2>3. Len(h) = l
      BY <1>8
    <2>4. pos + 1 >= 1 /\ pos + 1 + n = k + 1 + 1 + Len(h) /\ Len(h) <= n
      <3> DEFINE m == Len(h)
      <3>1. m = l
        BY <2>3
      <3> HIDE DEF l, m
      <3>2. pos + 1 >= 1 /\ pos + 1 + n = k + 1 + 1 + m /\ m <= n
        BY <1>10, <3>1
      <3> QED BY <3>2 DEF m
    <2> QED BY <1>1, <1>5, <1>7, <2>1, <2>2, <2>4 DEF Gathered
  <1>9. ASSUME Thinner(h, g, pos) PROVE Gathered(t, en, f, n, k + 1)
    <2>1. /\ Len(h) = l - 1
          /\ \A w \in 1 .. Len(h) : Len(h[w]) = 0 => (w < pos /\ Len(g[w]) = 0) \/ (w >= pos /\ Len(g[w + 1]) = 0)
      BY <1>9 DEF Thinner
    <2>2. t.pos = pos
      <3>1. h # g
        BY <1>2, <2>1
      <3> QED BY <1>4, <3>1
    <2>3. \A v \in 1 .. Len(h) : v < pos => h[v] # <<>>
      <3> SUFFICES ASSUME NEW v \in 1 .. Len(h), v < pos, h[v] = <<>> PROVE FALSE
        OBVIOUS
      <3>1. Len(h[v]) = 0
        BY <1>6
      <3>2. v \in 1 .. l /\ ~(v >= pos)
        BY <1>1, <1>2, <2>1
      <3>3. Len(g[v]) = 0
        BY <2>1, <3>1, <3>2
      <3> QED BY <1>1, <1>2, <3>2, <3>3
    <2>4. pos >= 1 /\ pos + n = k + 1 + 1 + Len(h) /\ Len(h) <= n
      <3> DEFINE m == Len(h)
      <3>1. m = l - 1
        BY <2>1
      <3> HIDE DEF l, m
      <3>2. pos >= 1 /\ pos + n = k + 1 + 1 + m /\ m <= n
        BY <1>10, <3>1
      <3> QED BY <3>2 DEF m
    <2> QED BY <1>1, <1>5, <1>7, <2>2, <2>3, <2>4 DEF Gathered
  <1> QED BY <1>5, <1>8, <1>9 DEF t

CombineLoop(h, g) ==
    h = [k \in 0 .. Len(g) |-> IF k = 0 THEN [groups |-> g, pos |-> 1] ELSE CombineStep(h[k - 1])]

\* combine_children keeps the items and leaves no group empty
LEMMA AllCombinedIs ==
    ASSUME NEW g, NEW en, Tree(g, en), Fits(g), NEW h, h = AllCombined(g)
    PROVE  /\ Tree(h, en) /\ FlattenSeq(h) = FlattenSeq(g) /\ Fits(h) /\ NoneEmpty(h) /\ Len(h) <= Len(g)
  <1> DEFINE n == Len(g)
             f == FlattenSeq(g)
             s0 == [groups |-> g, pos |-> 1]
             S == CombineStates
             step == [s \in S |-> IF CombineStep(s) \in S THEN CombineStep(s) ELSE s]
  <1>1. n \in Nat /\ g \in Groups
    BY TreeTypes
  <1>2. s0 \in S /\ Gathered(s0, en, f, n, 0)
    <2>1. s0 \in S /\ s0.groups = g /\ s0.pos = 1
      BY <1>1 DEF CombineStates
    <2>2. 1 + n = 0 + 1 + Len(g) /\ Len(g) <= n /\ 1 >= 1
      BY <1>1
    <2>3. \A v \in 1 .. Len(g) : v < 1 => g[v] # <<>>
      BY <1>1
    <2> HIDE DEF s0, n
    <2> QED BY <2>1, <2>2, <2>3 DEF Gathered
  <1>3. step \in [S -> S]
    OBVIOUS
  <1> HIDE DEF n, f, s0
  <1>4. PICK r : Course(r, n, S, s0, step)
    <2> HIDE DEF S, step
    <2> QED BY <1>1, <1>2, <1>3, Rounds
  <1>5. r \in [0 .. n -> S] /\ r[0] = s0 /\ \A k \in 1 .. n : r[k] = step[r[k - 1]]
    BY <1>4 DEF Course
  <1> HIDE DEF S
  <1> DEFINE G == {k \in 0 .. n : Gathered(r[k], en, f, n, k)}
  <1>6. 0 \in G
    BY <1>1, <1>2, <1>5
  <1>7. ASSUME NEW k \in 0 .. n - 1, k \in G
        PROVE  k + 1 \in G /\ r[k + 1] = CombineStep(r[k])
    <2>1. k + 1 \in 1 .. n /\ k + 1 \in 0 .. n /\ (k + 1) - 1 = k /\ k \in 0 .. n
      BY <1>1
    <2>2. Gathered(CombineStep(r[k]), en, f, n, k + 1)
      BY <1>1, <1>7, CombineStepIs
    <2>3. CombineStep(r[k]) \in S /\ r[k] \in S
      BY <1>5, <2>1, <2>2 DEF Gathered, S
    <2>4. r[k + 1] = step[r[k]]
      BY <1>5, <2>1
    <2>5. r[k + 1] = CombineStep(r[k])
      BY <2>3, <2>4
    <2> QED BY <2>1, <2>2, <2>5
  <1>8. \A k \in 0 .. n : k \in G
    <2> HIDE DEF G
    <2> QED BY <1>1, <1>6, <1>7, Stepwise
  <1>9. CombineLoop(r, g)
    <2>1. \A k \in 0 .. n : r[k] = IF k = 0 THEN s0 ELSE CombineStep(r[k - 1])
      <3> SUFFICES ASSUME NEW k \in 0 .. n, k # 0 PROVE r[k] = CombineStep(r[k - 1])
        BY <1>5
      <3> DEFINE m == k - 1
      <3>1. m \in 0 .. n - 1 /\ m + 1 = k /\ m \in 0 .. n
        BY <1>1
      <3> HIDE DEF m
      <3>2. r[k] = CombineStep(r[m])
        BY <1>7, <1>8, <3>1
      <3> QED BY <3>2 DEF m
    <2> QED BY <1>5, <2>1 DEF CombineLoop, n, s0
  <1> DEFINE loop == CHOOSE l : CombineLoop(l, g)
  <1>10. CombineLoop(loop, g)
    BY <1>9
  <1>11. h = loop[n].groups
    BY DEF AllCombined, CombineLoop, n
  <1> HIDE DEF loop
  <1>12. loop[0] = s0 /\ \A k \in 1 .. n : loop[k] = CombineStep(loop[k - 1])
    BY <1>1, <1>10 DEF CombineLoop, n, s0
  <1> DEFINE E == {k \in 0 .. n : loop[k] = r[k]}
  <1>13. 0 \in E
    BY <1>1, <1>5, <1>12
  <1>14. ASSUME NEW k \in 0 .. n - 1, k \in E PROVE k + 1 \in E
    <2>1. k + 1 \in 1 .. n /\ (k + 1) - 1 = k /\ k + 1 \in 0 .. n /\ k \in 0 .. n
      BY <1>1
    <2>2. loop[k + 1] = CombineStep(loop[k]) /\ r[k + 1] = CombineStep(r[k])
      BY <1>7, <1>8, <1>12, <2>1
    <2> QED BY <1>14, <2>1, <2>2
  <1>15. \A k \in 0 .. n : k \in E
    <2> HIDE DEF E
    <2> QED BY <1>1, <1>13, <1>14, Stepwise
  <1>16. Gathered(loop[n], en, f, n, n)
    BY <1>1, <1>8, <1>15
  <1> DEFINE s == loop[n]
  <1>17. /\ Tree(h, en) /\ FlattenSeq(h) = f /\ Fits(h) /\ Len(h) <= n /\ s.pos + n = n + 1 + Len(h)
         /\ \A v \in 1 .. Len(h) : v < s.pos => h[v] # <<>>
    BY <1>11, <1>16 DEF Gathered
  <1>18. s.pos \in Int
    BY <1>16 DEF Gathered, CombineStates
  <1> HIDE DEF s
  <1>19. NoneEmpty(h)
    <2>1. Len(h) \in Nat
      BY <1>17, TreeTypes
    <2>2. \A v \in 1 .. Len(h) : v < s.pos
      BY <1>1, <1>17, <1>18, <2>1
    <2> QED BY <1>17, <2>2 DEF NoneEmpty
  <1> QED BY <1>17, <1>19 DEF f, n

\* Groups without items
LEMMA NoGroups ==
    ASSUME NEW g, NEW en, Tree(g, en), Len(g) = 0
    PROVE  FlattenSeq(g) = <<>>
  <1> DEFINE f == FlattenSeq(g)
  <1>1. PICK c : Cut(g, f, c)
    BY DEF Tree
  <1>2. f \in Seq(ItemType) /\ c[0] = 0 /\ c[0] = Len(f)
    BY <1>1, CutTypes
  <1> HIDE DEF f
  <1>3. f = <<>>
    BY <1>2
  <1> QED BY <1>3 DEF f

-----------------------------------------------------------------------------
(* split_child                                                               *)

\* h has, in place of group u of g, this group without its last item and a group with it
Halved(h, g, u, v) ==
    /\ Len(h) = Len(g) + 1 /\ Len(h[u]) = Len(g[u]) - 1 /\ Len(h[v]) = 1
    /\ \A w \in 1 .. Len(h) : (w < u => Len(h[w]) = Len(g[w])) /\ (w > v => Len(h[w]) = Len(g[w - 1]))

\* The cut behind it
HalvedCut(d, c, n, u, v) ==
    /\ d[u] = c[u] - 1 /\ d[v] = c[u]
    /\ \A w \in 0 .. n + 1 : (w < u => d[w] = c[w]) /\ (w > v => d[w] = c[w - 1])

\* split_child keeps the items and their order
LEMMA SplitCut ==
    ASSUME NEW g, NEW f, NEW c, Cut(g, f, c), NEW u \in 1 .. Len(g), NEW v, v = u + 1, g[u] # <<>>,
           NEW h, h = SplitAt(g, u)
    PROVE  \E d : Cut(h, f, d) /\ HalvedCut(d, c, Len(g), u, v) /\ Len(h) = Len(g) + 1
  <1> DEFINE n == Len(g)
             m == InsertAt(g, v, <<>>)
             cc == Widened(c, n, v)
             d == Changed(cc, u, cc[u] - 1)
  <1>1. n \in Nat /\ u \in 1 .. n /\ v \in 1 .. n + 1 /\ DOMAIN c = 0 .. n /\ v \in Nat
    BY CutTypes
  <1>2. /\ Cut(m, f, cc) /\ Len(m) = n + 1
        /\ \A j \in 1 .. n + 1 : m[j] = IF j < v THEN g[j] ELSE IF j = v THEN <<>> ELSE g[j - 1]
    <2>1. v \in 1 .. Len(g) + 1
      BY <1>1
    <2> QED BY <2>1, GroupInserted
  <1>3. h = Moved(m, u, v, 1)
    <2>1. h = Moved(InsertAt(g, u + 1, <<>>), u, u + 1, 1)
      BY DEF SplitAt
    <2> QED BY <2>1
  <1>4. \A w \in 0 .. n + 1 : cc[w] = IF w < v THEN c[w] ELSE c[w - 1]
    BY DEF Widened
  <1>5. DOMAIN cc = 0 .. n + 1
    BY DEF Widened
  <1> HIDE DEF m, cc
  <1>6. m[u] = g[u] /\ u \in 1 .. Len(m) /\ v \in 1 .. Len(m)
    BY <1>1, <1>2
  <1>7. 1 <= Len(m[u])
    <2>1. Len(m[u]) \in Nat /\ (m[u] = <<>> <=> Len(m[u]) = 0)
      BY <1>2, <1>6, EmptyLen
    <2> QED BY <1>6, <2>1
  <1>8. Cut(h, f, d) /\ Len(h) = n + 1
    <2>1. d = Changed(cc, u, cc[u] - 1) /\ 1 \in Nat
      OBVIOUS
    <2> HIDE DEF d
    <2>2. Cut(h, f, d) /\ Len(h) = Len(m)
      BY <1>2, <1>3, <1>6, <1>7, <2>1, MovedForth
    <2> QED BY <1>2, <2>2
  <1>9. u \in 0 .. n + 1 /\ v \in 0 .. n + 1 /\ u < v /\ u # v /\ ~(v < v) /\ v - 1 = u
    BY <1>1
  <1>10. cc[u] = c[u] /\ cc[v] = c[u]
    BY <1>4, <1>9
  <1>11. d[u] = c[u] - 1 /\ d[v] = c[u] /\ \A w \in 0 .. n + 1 : w # u => d[w] = cc[w]
    BY <1>5, <1>9, <1>10 DEF Changed
  <1> HIDE DEF d
  <1>12. ASSUME NEW w \in 0 .. n + 1
         PROVE  (w < u => d[w] = c[w]) /\ (w > v => d[w] = c[w - 1])
    <2>1. (w < u => w < v /\ w # u) /\ (w > v => ~(w < v) /\ w # u)
      BY <1>1
    <2> QED BY <1>4, <1>11, <2>1
  <1> HIDE DEF n
  <1>13. HalvedCut(d, c, n, u, v)
    BY <1>11, <1>12 DEF HalvedCut
  <1> QED BY <1>8, <1>13 DEF n

\* How many items the groups have after a split
LEMMA SplitLens ==
    ASSUME NEW g, NEW f, NEW c, Cut(g, f, c), NEW u \in 1 .. Len(g), NEW v, v = u + 1,
           NEW h, NEW d, Cut(h, f, d), HalvedCut(d, c, Len(g), u, v), Len(h) = Len(g) + 1
    PROVE  Halved(h, g, u, v)
  <1> DEFINE n == Len(g)
             l == Len(h)
  <1>1. n \in Nat /\ u \in 1 .. n /\ v \in Nat /\ l = n + 1 /\ v = u + 1
    BY CutTypes
  <1>2. /\ d[u] = c[u] - 1 /\ d[v] = c[u]
        /\ \A w \in 0 .. n + 1 : (w < u => d[w] = c[w]) /\ (w > v => d[w] = c[w - 1])
    BY DEF HalvedCut
  <1>3. \A w \in 1 .. n : c[w] = c[w - 1] + Len(g[w]) /\ Len(g[w]) \in Nat /\ c[w - 1] \in Nat /\ c[w] \in Nat
    BY CutGroup
  <1>4. \A w \in 1 .. l : d[w] = d[w - 1] + Len(h[w]) /\ Len(h[w]) \in Nat /\ d[w - 1] \in Nat /\ d[w] \in Nat
    BY CutGroup
  <1> HIDE DEF n, l
  <1>5. Len(h[u]) = Len(g[u]) - 1
    <2> DEFINE x == c[u - 1]
               y == c[u]
               j == Len(h[u])
               k == Len(g[u])
    <2>1. u - 1 \in 0 .. n + 1 /\ u - 1 < u /\ u \in 1 .. l
      BY <1>1
    <2>2. d[u - 1] = x
      BY <1>2, <2>1
    <2>3. y - 1 = x + j /\ y = x + k /\ x \in Nat /\ y \in Nat /\ j \in Nat /\ k \in Nat
      BY <1>1, <1>2, <1>3, <1>4, <2>1, <2>2
    <2> HIDE DEF x, y, j, k
    <2>4. j = k - 1
      BY <2>3
    <2> QED BY <2>4 DEF j, k
  <1>6. Len(h[v]) = 1
    <2> DEFINE y == c[u]
               j == Len(h[v])
    <2>1. v - 1 = u /\ v \in 1 .. l
      BY <1>1
    <2>2. y = (y - 1) + j /\ y \in Nat /\ j \in Nat
      BY <1>1, <1>2, <1>3, <1>4, <2>1
    <2> HIDE DEF y, j
    <2>3. j = 1
      BY <2>2
    <2> QED BY <2>3 DEF j
  <1>7. ASSUME NEW w \in 1 .. l
        PROVE  (w < u => Len(h[w]) = Len(g[w])) /\ (w > v => Len(h[w]) = Len(g[w - 1]))
    <2>1. CASE w < u
      <3> DEFINE x == c[w - 1]
                 y == c[w]
                 j == Len(h[w])
                 k == Len(g[w])
      <3>1. w - 1 \in 0 .. n + 1 /\ w - 1 < u /\ w \in 0 .. n + 1 /\ w \in 1 .. n /\ ~(w > v)
        BY <1>1, <2>1
      <3>2. d[w - 1] = x /\ d[w] = y
        BY <1>2, <2>1, <3>1
      <3>3. y = x + j /\ y = x + k /\ x \in Nat /\ y \in Nat /\ j \in Nat /\ k \in Nat
        BY <1>3, <1>4, <3>1, <3>2
      <3> HIDE DEF x, y, j, k
      <3>4. j = k
        BY <3>3
      <3> QED BY <3>1, <3>4 DEF j, k
    <2>2. CASE w > v
      <3> DEFINE z == w - 1
                 x == c[z - 1]
                 y == c[z]
                 j == Len(h[w])
                 k == Len(g[z])
      <3>1. z \in 1 .. n /\ z \in 0 .. n + 1 /\ w \in 0 .. n + 1 /\ (z > v \/ z = v) /\ w - 1 = z /\ ~(w < u)
        BY <1>1, <2>2
      <3>2. d[w] = y
        BY <1>2, <2>2, <3>1
      <3>3. d[z] = x
        <4>1. CASE z > v
          BY <1>2, <3>1, <4>1
        <4>2. CASE z = v
          <5>1. z - 1 = u
            BY <1>1, <4>2
          <5> QED BY <1>2, <4>2, <5>1
        <4> QED BY <3>1, <4>1, <4>2
      <3>4. y = x + j /\ y = x + k /\ x \in Nat /\ y \in Nat /\ j \in Nat /\ k \in Nat
        BY <1>3, <1>4, <3>1, <3>2, <3>3
      <3> HIDE DEF x, y, j, k
      <3>5. j = k
        BY <3>4
      <3> QED BY <3>1, <3>5 DEF j, k
    <2> QED BY <2>1, <2>2
  <1> QED BY <1>1, <1>5, <1>6, <1>7 DEF Halved, l, n

\* A size that belongs into the group belongs into one of the two afterwards
LEMMA SplitAtIs ==
    ASSUME NEW g, NEW en, Tree(g, en), NEW size \in Sizes, NEW u \in 1 .. Len(g), NEW v, v = u + 1, g[u] # <<>>,
           Belongs(g, size, u), NEW h, h = SplitAt(g, u)
    PROVE  /\ Tree(h, en) /\ FlattenSeq(h) = FlattenSeq(g)
           /\ Halved(h, g, u, v)
           /\ Belongs(h, size, u) \/ Belongs(h, size, v)
  <1>1. PICK f, c, p, q : /\ f = FlattenSeq(g) /\ Cut(g, f, c) /\ Rank(f, size, p, q)
                          /\ p \in Nat /\ q \in Nat /\ (q = p \/ q = p + 1)
    BY TreeRank
  <1>2. PICK d : Cut(h, f, d) /\ HalvedCut(d, c, Len(g), u, v) /\ Len(h) = Len(g) + 1
    BY <1>1, SplitCut
  <1>3. Halved(h, g, u, v)
    BY <1>1, <1>2, SplitLens
  <1>4. Tree(h, en) /\ FlattenSeq(h) = FlattenSeq(g)
    BY <1>1, <1>2, TreeKept
  <1>5. size \in Nat
    BY BlockMapAssumption
  <1> DEFINE n == Len(g)
  <1>6. n \in Nat /\ u \in 1 .. n
    BY <1>1, CutTypes
  <1>7. c[u - 1] <= p /\ q <= c[u]
    <2>1. u \in Places(c, n, p, q)
      BY <1>1, <1>5, BelongsIs
    <2> QED BY <2>1 DEF Places
  <1>8. c[u - 1] \in Nat /\ c[u] \in Nat
    BY <1>1, CutGroup
  <1>9. d[u] = c[u] - 1 /\ d[v] = c[u] /\ \A w \in 0 .. n + 1 : w < u => d[w] = c[w]
    BY <1>2 DEF HalvedCut
  <1>10. u \in 1 .. Len(h) /\ v \in 1 .. Len(h)
    <2>1. Len(h) = n + 1
      BY <1>2
    <2> HIDE DEF n
    <2> QED BY <1>6, <2>1
  <1> HIDE DEF n
  <1>11. u - 1 \in 0 .. n + 1 /\ u - 1 < u /\ v - 1 = u
    BY <1>6
  <1>12. d[u - 1] = c[u - 1]
    BY <1>9, <1>11
  <1>13. CASE q <= c[u] - 1
    <2>1. u \in Places(d, Len(h), p, q)
      BY <1>7, <1>9, <1>10, <1>12, <1>13 DEF Places
    <2> QED BY <1>1, <1>2, <1>3, <1>4, <1>5, <1>10, <2>1, BelongsIs
  <1>14. CASE ~(q <= c[u] - 1)
    <2> DEFINE y == c[u]
    <2>1. y - 1 <= p /\ q <= y
      <3>1. y \in Nat /\ q <= y /\ ~(q <= y - 1)
        BY <1>7, <1>8, <1>14
      <3> HIDE DEF y
      <3> QED BY <1>1, <3>1
    <2>2. d[v - 1] <= p /\ q <= d[v]
      BY <1>9, <1>11, <2>1
    <2>3. v \in Places(d, Len(h), p, q)
      BY <1>10, <2>2 DEF Places
    <2> QED BY <1>1, <1>2, <1>3, <1>4, <1>5, <1>10, <2>3, BelongsIs
  <1> QED BY <1>13, <1>14

-----------------------------------------------------------------------------
(* get_nearest_space and shift_children                                      *)

\* The nearest space is one of the groups with space
LEMMA NearestIs ==
    ASSUME NEW g, NEW n \in Nat, DOMAIN g = 1 .. n, NEW pos \in 1 .. n, WithSpace(g, pos) # {},
           NEW u, u = NearestSpace(g, pos)
    PROVE  u \in WithSpace(g, pos)
  <1> DEFINE near == WithSpace(g, pos)
             dist(v) == IF v < pos THEN pos - v ELSE v - pos
             key(v) == IF v < pos THEN 2 * (pos - v) ELSE 2 * (v - pos) + 1
             keys == {key(v) : v \in near}
             Nearer(v, w) == dist(v) < dist(w) \/ (dist(v) = dist(w) /\ v <= w)
  <1>1. near \subseteq 1 .. n /\ near # {}
    BY DEF WithSpace
  <1>2. u = CHOOSE v \in near : \A w \in near : Nearer(v, w)
    BY DEF NearestSpace
  <1> HIDE DEF near
  <1>3. keys \in SUBSET Nat /\ keys # {}
    <2>1. \A v \in near : key(v) \in Nat
      BY <1>1
    <2> QED BY <1>1, <2>1
  <1>4. PICK k \in keys : \A j \in keys : k <= j
    <2> HIDE DEF keys
    <2> QED BY <1>3, Least
  <1>5. PICK v \in near : key(v) = k
    BY <1>4
  <1>6. ASSUME NEW w \in near PROVE Nearer(v, w)
    <2>1. v \in 1 .. n /\ w \in 1 .. n
      BY <1>1
    <2>2. key(v) <= key(w)
      BY <1>4, <1>5
    <2>3. CASE v < pos /\ w < pos
      BY <2>1, <2>2, <2>3
    <2>4. CASE v < pos /\ ~(w < pos)
      BY <2>1, <2>2, <2>4
    <2>5. CASE ~(v < pos) /\ w < pos
      BY <2>1, <2>2, <2>5
    <2>6. CASE ~(v < pos) /\ ~(w < pos)
      BY <2>1, <2>2, <2>6
    <2> QED BY <2>3, <2>4, <2>5, <2>6
  <1> HIDE DEF Nearer
  <1> QED BY <1>2, <1>6 DEF near

\* How many items a group has gained when the places of its ends have moved
LEMMA LenMoved ==
    ASSUME NEW g, NEW f, NEW c, Cut(g, f, c), NEW h, NEW d, Cut(h, f, d), Len(h) = Len(g), NEW w \in 1 .. Len(g),
           NEW a \in Int, NEW b \in Int, d[w - 1] = c[w - 1] + a, d[w] = c[w] + b, NEW e, e = b - a
    PROVE  Len(h[w]) = Len(g[w]) + e
  <1> DEFINE x == c[w - 1]
             y == c[w]
             j == Len(h[w])
             k == Len(g[w])
  <1>1. y = x + k /\ x \in Nat /\ y \in Nat /\ k \in Nat
    BY CutGroup
  <1>2. d[w] = d[w - 1] + j /\ j \in Nat
    <2>1. w \in 1 .. Len(h)
      OBVIOUS
    <2> QED BY <2>1, CutGroup
  <1>3. y + b = (x + a) + j
    BY <1>2
  <1> HIDE DEF x, y, j, k
  <1>4. j = k + e
    BY <1>1, <1>2, <1>3
  <1> QED BY <1>4 DEF j, k

\* An item of group v has gone, group u has one more
Handed(h, g, u, v) ==
    /\ Len(h) = Len(g) /\ Len(h[u]) = Len(g[u]) + 1 /\ Len(h[v]) = Len(g[v]) - 1
    /\ \A w \in 1 .. Len(g) : w # u /\ w # v => Len(h[w]) = Len(g[w])

\* move_space towards the end: one place for another
LEMMA HandedForth ==
    ASSUME NEW g, NEW f, NEW c, Cut(g, f, c), NoneEmpty(g), NEW u \in 1 .. Len(g), NEW v \in 1 .. Len(g), u < v,
           NEW h, h = SpaceMoved(g, u, v)
    PROVE  \E d : Cut(h, f, d) /\ Handed(h, g, u, v) /\ d[v] = c[v] /\ d[v - 1] = c[v - 1] + 1
  <1> DEFINE n == Len(g)
             d == [w \in 0 .. Len(g) |-> IF u <= w /\ w < v THEN c[w] + 1 ELSE c[w]]
  <1>1. Cut(h, f, d) /\ Len(h) = n
    BY SpaceMovedForth
  <1>2. n \in Nat /\ u \in 1 .. n /\ v \in 1 .. n
    BY CutTypes
  <1>3. \A w \in 0 .. n : d[w] = IF u <= w /\ w < v THEN c[w] + 1 ELSE c[w]
    OBVIOUS
  <1>4. \A w \in 0 .. n : c[w] \in Nat
    BY CutTypes
  <1> HIDE DEF d
  <1>5. ASSUME NEW w \in 1 .. n
        PROVE  /\ w = u => Len(h[w]) = Len(g[w]) + 1
               /\ w = v => Len(h[w]) = Len(g[w]) + (-1)
               /\ w # u /\ w # v => Len(h[w]) = Len(g[w]) + 0
    <2> HIDE DEF n
    <2> DEFINE z == w - 1
    <2>1. w \in 0 .. n /\ z \in 0 .. n
      BY <1>2
    <2>2. c[w] \in Nat /\ c[z] \in Nat
      BY <1>4, <2>1
    <2>3. CASE w = u
      <3>1. u <= w /\ w < v /\ ~(u <= z)
        BY <1>2, <2>3
      <3>2. d[w] = c[w] + 1 /\ d[z] = c[z] + 0
        BY <1>3, <2>1, <2>2, <3>1
      <3>3. Len(h[w]) = Len(g[w]) + 1
        BY <1>1, <3>2, LenMoved DEF n
      <3> QED BY <1>2, <2>3, <3>1, <3>3
    <2>4. CASE w = v
      <3>1. ~(w < v) /\ u <= z /\ z < v
        BY <1>2, <2>4
      <3>2. d[w] = c[w] + 0 /\ d[z] = c[z] + 1
        BY <1>3, <2>1, <2>2, <3>1
      <3>3. Len(h[w]) = Len(g[w]) + (-1)
        BY <1>1, <3>2, LenMoved DEF n
      <3> QED BY <1>2, <2>4, <3>1, <3>3
    <2>5. CASE u < w /\ w < v
      <3>1. u <= w /\ u <= z /\ z < v /\ w # u
        BY <1>2, <2>5
      <3>2. d[w] = c[w] + 1 /\ d[z] = c[z] + 1
        BY <1>3, <2>1, <2>2, <2>5, <3>1
      <3>3. Len(h[w]) = Len(g[w]) + 0
        BY <1>1, <3>2, LenMoved DEF n
      <3> QED BY <1>2, <2>5, <3>1, <3>3
    <2>6. CASE w < u \/ w > v
      <3>1. ~(u <= w /\ w < v) /\ ~(u <= z /\ z < v) /\ w # u /\ w # v
        BY <1>2, <2>6
      <3>2. d[w] = c[w] + 0 /\ d[z] = c[z] + 0
        BY <1>3, <2>1, <2>2, <3>1
      <3>3. Len(h[w]) = Len(g[w]) + 0
        BY <1>1, <3>2, LenMoved DEF n
      <3> QED BY <3>1, <3>3
    <2> QED BY <1>2, <2>3, <2>4, <2>5, <2>6
  <1>6. \A w \in 1 .. n : Len(g[w]) \in Nat
    BY CutGroup
  <1>7. Handed(h, g, u, v)
    BY <1>1, <1>2, <1>5, <1>6 DEF Handed
  <1>8. d[v] = c[v] /\ d[v - 1] = c[v - 1] + 1
    <2> HIDE DEF n
    <2> DEFINE z == v - 1
    <2>1. v \in 0 .. n /\ z \in 0 .. n /\ ~(v < v) /\ u <= z /\ z < v
      BY <1>2
    <2>2. d[v] = c[v] /\ d[z] = c[z] + 1
      BY <1>3, <2>1
    <2> QED BY <2>2
  <1> QED BY <1>1, <1>7, <1>8

\* move_space towards the front: one place for another
LEMMA HandedBack ==
    ASSUME NEW g, NEW f, NEW c, Cut(g, f, c), NoneEmpty(g), NEW u \in 1 .. Len(g), NEW v \in 1 .. Len(g), v < u,
           NEW h, h = SpaceMoved(g, u, v)
    PROVE  \E d : Cut(h, f, d) /\ Handed(h, g, u, v) /\ d[v] = c[v] - 1 /\ d[v - 1] = c[v - 1]
  <1> DEFINE n == Len(g)
             d == [w \in 0 .. Len(g) |-> IF v <= w /\ w < u THEN c[w] - 1 ELSE c[w]]
  <1>1. Cut(h, f, d) /\ Len(h) = n
    BY SpaceMovedBack
  <1>2. n \in Nat /\ u \in 1 .. n /\ v \in 1 .. n
    BY CutTypes
  <1>3. \A w \in 0 .. n : d[w] = IF v <= w /\ w < u THEN c[w] - 1 ELSE c[w]
    OBVIOUS
  <1>4. \A w \in 0 .. n : c[w] \in Nat
    BY CutTypes
  <1> HIDE DEF d
  <1>5. ASSUME NEW w \in 1 .. n
        PROVE  /\ w = u => Len(h[w]) = Len(g[w]) + 1
               /\ w = v => Len(h[w]) = Len(g[w]) + (-1)
               /\ w # u /\ w # v => Len(h[w]) = Len(g[w]) + 0
    <2> HIDE DEF n
    <2> DEFINE z == w - 1
    <2>1. w \in 0 .. n /\ z \in 0 .. n
      BY <1>2
    <2>2. c[w] \in Nat /\ c[z] \in Nat
      BY <1>4, <2>1
    <2>3. CASE w = u
      <3>1. ~(w < u) /\ v <= z /\ z < u /\ w # v
        BY <1>2, <2>3
      <3>2. d[w] = c[w] + 0 /\ d[z] = c[z] + (-1)
        BY <1>3, <2>1, <2>2, <3>1
      <3>3. Len(h[w]) = Len(g[w]) + 1
        BY <1>1, <3>2, LenMoved DEF n
      <3> QED BY <2>3, <3>1, <3>3
    <2>4. CASE w = v
      <3>1. v <= w /\ w < u /\ ~(v <= z) /\ w # u
        BY <1>2, <2>4
      <3>2. d[w] = c[w] + (-1) /\ d[z] = c[z] + 0
        BY <1>3, <2>1, <2>2, <3>1
      <3>3. Len(h[w]) = Len(g[w]) + (-1)
        BY <1>1, <3>2, LenMoved DEF n
      <3> QED BY <2>4, <3>1, <3>3
    <2>5. CASE v < w /\ w < u
      <3>1. v <= w /\ v <= z /\ z < u /\ w # u /\ w # v
        BY <1>2, <2>5
      <3>2. d[w] = c[w] + (-1) /\ d[z] = c[z] + (-1)
        BY <1>3, <2>1, <2>2, <2>5, <3>1
      <3>3. Len(h[w]) = Len(g[w]) + 0
        BY <1>1, <3>2, LenMoved DEF n
      <3> QED BY <3>1, <3>3
    <2>6. CASE w < v \/ w > u
      <3>1. ~(v <= w /\ w < u) /\ ~(v <= z /\ z < u) /\ w # u /\ w # v
        BY <1>2, <2>6
      <3>2. d[w] = c[w] + 0 /\ d[z] = c[z] + 0
        BY <1>3, <2>1, <2>2, <3>1
      <3>3. Len(h[w]) = Len(g[w]) + 0
        BY <1>1, <3>2, LenMoved DEF n
      <3> QED BY <3>1, <3>3
    <2> QED BY <1>2, <2>3, <2>4, <2>5, <2>6
  <1>6. \A w \in 1 .. n : Len(g[w]) \in Nat
    BY CutGroup
  <1>7. Handed(h, g, u, v)
    BY <1>1, <1>2, <1>5, <1>6 DEF Handed
  <1>8. d[v] = c[v] - 1 /\ d[v - 1] = c[v - 1]
    <2> HIDE DEF n
    <2> DEFINE z == v - 1
    <2>1. v \in 0 .. n /\ z \in 0 .. n /\ v < u /\ v <= v /\ ~(v <= z)
      BY <1>2
    <2>2. d[v] = c[v] - 1 /\ d[z] = c[z]
      BY <1>3, <2>1
    <2> QED BY <2>2
  <1> QED BY <1>1, <1>7, <1>8

\* Room made in the group a size belongs into
LEMMA RoomMade ==
    ASSUME NEW g, NEW en, Tree(g, en), NoneEmpty(g), Fits(g), NEW size \in Sizes, NEW h, NEW d, Cut(h, FlattenSeq(g), d),
           NEW u \in 1 .. Len(g), NEW v \in 1 .. Len(g), u # v, Handed(h, g, u, v),
           Len(g[u]) < GroupSize, Len(g[v]) = GroupSize, Belongs(h, size, v)
    PROVE  /\ Tree(h, en) /\ FlattenSeq(h) = FlattenSeq(g) /\ Len(h) = Len(g) /\ Fits(h) /\ NoneEmpty(h)
           /\ Candidate(h, size) # 0
  <1> DEFINE n == Len(g)
  <1>1. Tree(h, en) /\ FlattenSeq(h) = FlattenSeq(g)
    BY TreeKept
  <1>2. /\ Len(h) = n /\ Len(h[u]) = Len(g[u]) + 1 /\ Len(h[v]) = Len(g[v]) - 1
        /\ \A w \in 1 .. n : w # u /\ w # v => Len(h[w]) = Len(g[w])
    BY DEF Handed
  <1>3. n \in Nat /\ \A w \in 1 .. n : Len(g[w]) \in Nat /\ (g[w] = <<>> <=> Len(g[w]) = 0)
    BY TreeTypes
  <1>4. \A w \in 1 .. n : Len(h[w]) \in Nat /\ (h[w] = <<>> <=> Len(h[w]) = 0)
    BY <1>1, <1>2, TreeTypes
  <1>5. GroupSize \in Nat /\ GroupSize >= 3
    BY BlockMapAssumption
  <1> HIDE DEF n
  <1>6. ASSUME NEW w \in 1 .. n PROVE Len(h[w]) <= GroupSize /\ Len(h[w]) # 0
    <2>1. Len(g[w]) <= GroupSize /\ Len(g[w]) # 0 /\ Len(g[w]) \in Nat
      BY <1>3 DEF Fits, NoneEmpty, n
    <2>2. CASE w = u
      <3> DEFINE k == Len(g[u])
      <3>1. k \in Nat /\ k < GroupSize /\ Len(h[w]) = k + 1
        BY <1>2, <2>1, <2>2
      <3> HIDE DEF k
      <3>2. k + 1 <= GroupSize /\ k + 1 # 0
        BY <1>5, <3>1
      <3> QED BY <3>1, <3>2
    <2>3. CASE w = v
      <3>1. Len(h[w]) = GroupSize - 1
        BY <1>2, <2>3
      <3>2. GroupSize - 1 <= GroupSize /\ GroupSize - 1 # 0
        BY <1>5
      <3> QED BY <3>1, <3>2
    <2>4. CASE w # u /\ w # v
      BY <1>2, <2>1, <2>4
    <2> QED BY <2>2, <2>3, <2>4
  <1>7. Fits(h) /\ NoneEmpty(h)
    BY <1>2, <1>4, <1>6 DEF Fits, NoneEmpty
  <1>8. Findable(h)
    <2>1. n > 0
      BY <1>3 DEF n
    <2> QED BY <1>2, <1>7, <2>1 DEF Findable
  <1>9. Candidate(h, size) # 0
    <2>1. Len(h[v]) < GroupSize /\ v \in 1 .. Len(h)
      <3>1. Len(h[v]) = GroupSize - 1 /\ GroupSize - 1 < GroupSize
        BY <1>2, <1>5
      <3> QED BY <1>2, <3>1 DEF n
    <2> SUFFICES ASSUME Candidate(h, size) = 0 PROVE FALSE
      OBVIOUS
    <2>2. \A w \in 1 .. Len(h) : Belongs(h, size, w) => ~(Len(h[w]) < GroupSize)
      BY <1>1, <1>8, CandidateIn
    <2> QED BY <2>1, <2>2
  <1> QED BY <1>1, <1>2, <1>7, <1>9 DEF n

\* Two groups or one
LEMMA AnotherPlace ==
    ASSUME NEW n \in Nat, NEW at \in SUBSET (1 .. n), NEW u \in at
    PROVE  Cardinality(at) > 1 <=> \E v \in at : v # u
  <1>1. IsFiniteSet(at) /\ Cardinality(at) \in Nat
    <2>1. IsFiniteSet(1 .. n)
      BY FS_Interval
    <2>2. IsFiniteSet(at)
      BY <2>1, FS_Subset
    <2> QED BY <2>2, FS_CardinalityType
  <1>2. ASSUME NEW v \in at, v # u PROVE Cardinality(at) > 1
    <2>1. IsFiniteSet({u}) /\ Cardinality({u}) = 1
      BY FS_Singleton
    <2>2. {u} \subseteq at /\ {u} # at
      BY <1>2
    <2>3. Cardinality({u}) <= Cardinality(at) /\ (Cardinality({u}) = Cardinality(at) => {u} = at)
      <3> DEFINE one == {u}
      <3> HIDE DEF one
      <3>1. one \subseteq at
        BY <2>2 DEF one
      <3>2. Cardinality(one) <= Cardinality(at) /\ (Cardinality(one) = Cardinality(at) => one = at)
        BY <1>1, <3>1, FS_Subset
      <3> QED BY <3>2 DEF one
    <2> QED BY <1>1, <2>1, <2>2, <2>3
  <1>3. ASSUME \A v \in at : v = u PROVE ~(Cardinality(at) > 1)
    <2>1. at = {u}
      BY <1>3
    <2>2. Cardinality(at) = 1
      BY <2>1, FS_Singleton
    <2> QED BY <2>2
  <1> QED BY <1>2, <1>3

\* What shift_children makes of the groups
Shift(h, g, en, size) ==
    /\ Tree(h, en) /\ FlattenSeq(h) = FlattenSeq(g) /\ Len(h) = Len(g) /\ Fits(h) /\ NoneEmpty(h)
    /\ Candidate(h, size) # 0 \/ (h = g /\ \A u \in 1 .. Len(g) : Len(g[u]) = GroupSize)

\* shift_children makes room for the size, unless all groups are full
LEMMA ShiftedIs ==
    ASSUME NEW g, NEW en, Tree(g, en), Len(g) > 0, NoneEmpty(g), Fits(g), NEW size \in Sizes, Candidate(g, size) = 0,
           NEW h, h = Shifted(g, size)
    PROVE  Shift(h, g, en, size)
  <1> DEFINE n == Len(g)
             at == InsertPos(g, size)
             pos == Min(at)
             near == WithSpace(g, pos)
             space == NearestSpace(g, pos)
             to == IF Cardinality(at) > 1 /\ space > pos THEN pos + 1 ELSE pos
  <1>1. Findable(g)
    BY DEF Findable
  <1>2. n \in Nat /\ DOMAIN g = 1 .. n /\ \A u \in 1 .. n : Len(g[u]) \in Nat
    BY TreeTypes
  <1>3. at = {u \in 1 .. n : Belongs(g, size, u)}
    BY <1>1, PlacesAre
  <1>4. pos \in 1 .. n /\ pos \in at /\ \A v \in 1 .. n : Belongs(g, size, v) => pos <= v
    BY <1>1, FirstPlace
  <1>5. en[size] = {} /\ \A v \in 1 .. n : Belongs(g, size, v) => ~(Len(g[v]) < GroupSize)
    BY <1>1, CandidateIn
  <1>6. GroupSize \in Nat /\ GroupSize >= 3 /\ size \in Nat
    BY BlockMapAssumption
  <1>7. \A v \in 1 .. n : Belongs(g, size, v) => Len(g[v]) = GroupSize
    BY <1>2, <1>5, <1>6 DEF Fits
  <1>8. h = IF near = {} THEN g ELSE SpaceMoved(g, space, to)
    BY DEF Shifted
  <1>9. near = {u \in (1 .. n) \ {pos} : Len(g[u]) < GroupSize}
    BY <1>2 DEF WithSpace
  <1> HIDE DEF n, at, pos
  <1>10. Belongs(g, size, pos) /\ Len(g[pos]) = GroupSize
    BY <1>3, <1>4, <1>7
  <1>11. CASE near = {}
    <2>1. \A u \in 1 .. n : ~(Len(g[u]) < GroupSize)
      BY <1>6, <1>9, <1>10, <1>11
    <2>2. \A u \in 1 .. n : Len(g[u]) = GroupSize
      BY <1>2, <1>6, <2>1 DEF Fits, n
    <2>3. h = g
      BY <1>8, <1>11
    <2> QED BY <2>2, <2>3 DEF Shift, n
  <1>12. CASE near # {}
    <2>1. space \in near
      BY <1>2, <1>4, <1>12, NearestIs
    <2>2. space \in 1 .. n /\ space # pos /\ Len(g[space]) < GroupSize
      BY <1>9, <2>1
    <2>3. h = SpaceMoved(g, space, to)
      BY <1>8, <1>12
    <2> HIDE DEF near, space
    <2>4. PICK f, c, p, q : /\ f = FlattenSeq(g) /\ Cut(g, f, c) /\ Rank(f, size, p, q)
                            /\ (en[size] # {} <=> p < q) /\ p \in Nat /\ q \in Nat /\ (q = p \/ q = p + 1)
      BY TreeRank
    <2>5. q = p
      BY <1>5, <2>4
    <2>6. \A u \in 1 .. n : Belongs(g, size, u) <=> (c[u - 1] <= p /\ p <= c[u])
      <3>1. \A u \in 1 .. n : Belongs(g, size, u) <=> u \in Places(c, n, p, q)
        BY <1>6, <2>4, BelongsIs DEF n
      <3> QED BY <2>5, <3>1 DEF Places
    <2>7. \A u \in 0 .. n : c[u] \in Nat
      BY <2>4, CutTypes DEF n
    <2>8. \A u \in 1 .. n : c[u - 1] < c[u] /\ c[u - 1] \in Nat /\ c[u] \in Nat
      <3> SUFFICES ASSUME NEW u \in 1 .. n PROVE c[u - 1] < c[u] /\ c[u - 1] \in Nat /\ c[u] \in Nat
        OBVIOUS
      <3>1. /\ c[u] \in Nat /\ c[u - 1] \in Nat /\ c[u - 1] <= c[u] /\ (g[u] = <<>> <=> c[u - 1] = c[u])
        BY <2>4, CutGroup DEF n
      <3>2. g[u] # <<>>
        BY DEF NoneEmpty, n
      <3> QED BY <3>1, <3>2
    <2>9. ASSUME NEW d, NEW v \in 1 .. n, v # space, Cut(h, f, d), Handed(h, g, space, v), Belongs(g, size, v),
                 d[v - 1] <= p, p <= d[v]
          PROVE  Shift(h, g, en, size)
      <3>1. Len(h) = n /\ v \in 1 .. Len(h)
        BY <2>9 DEF Handed, n
      <3>2. Belongs(h, size, v)
        <4>1. v \in Places(d, Len(h), p, q)
          BY <2>5, <2>9, <3>1 DEF Places
        <4> QED BY <1>6, <2>4, <2>9, <3>1, <4>1, BelongsIs
      <3>3. Len(g[v]) = GroupSize
        BY <1>7, <2>9
      <3>4. /\ Tree(h, en) /\ FlattenSeq(h) = FlattenSeq(g) /\ Len(h) = Len(g) /\ Fits(h) /\ NoneEmpty(h)
            /\ Candidate(h, size) # 0
        BY <2>2, <2>4, <2>9, <3>2, <3>3, RoomMade DEF n
      <3> QED BY <3>4 DEF Shift
    <2>10. c[pos - 1] <= p /\ p <= c[pos] /\ c[pos] \in Nat /\ c[pos - 1] \in Nat
      BY <1>4, <1>10, <2>6, <2>8
    <2>11. CASE space < pos
      <3>1. to = pos
        BY <1>2, <1>4, <2>2, <2>11
      <3>2. PICK d : Cut(h, f, d) /\ Handed(h, g, space, pos) /\ d[pos] = c[pos] /\ d[pos - 1] = c[pos - 1] + 1
        BY <1>4, <2>2, <2>3, <2>4, <2>11, <3>1, HandedForth DEF n
      <3>3. c[pos - 1] # p
        <4> SUFFICES ASSUME c[pos - 1] = p PROVE FALSE
          OBVIOUS
        <4> DEFINE u == pos - 1
        <4>1. u \in 1 .. n /\ ~(pos <= u)
          BY <1>2, <1>4, <2>2, <2>11
        <4>2. c[u - 1] <= p /\ p <= c[u]
          <5>1. c[u] = p /\ c[u - 1] < c[u] /\ c[u - 1] \in Nat
            BY <2>8, <4>1
          <5> HIDE DEF u
          <5> QED BY <2>4, <5>1
        <4> QED BY <1>4, <2>6, <4>1, <4>2
      <3>4. d[pos - 1] <= p /\ p <= d[pos]
        <4> DEFINE x == c[pos - 1]
        <4>1. x \in Nat /\ x <= p /\ x # p
          BY <2>10, <3>3
        <4> HIDE DEF x
        <4>2. x + 1 <= p
          BY <2>4, <4>1
        <4> QED BY <2>10, <3>2, <4>2 DEF x
      <3> QED BY <1>4, <1>10, <2>2, <2>9, <3>2, <3>4
    <2>12. CASE space > pos /\ Cardinality(at) > 1
      <3> DEFINE next == pos + 1
      <3>1. to = next
        BY <2>12
      <3>2. PICK v \in at : v # pos
        <4>1. at \in SUBSET (1 .. n)
          BY <1>3
        <4> QED BY <1>2, <1>4, <2>12, <4>1, AnotherPlace
      <3>3. v \in 1 .. n /\ pos < v /\ c[v - 1] <= p
        <4>1. v \in 1 .. n /\ Belongs(g, size, v)
          BY <1>3
        <4>2. pos <= v
          BY <1>4, <4>1
        <4>3. pos < v
          BY <1>2, <1>4, <3>2, <4>1, <4>2
        <4> QED BY <2>6, <4>1, <4>3
      <3>4. next \in 1 .. n /\ next <= v
        BY <1>2, <1>4, <3>3
      <3>5. next = v
        <4> SUFFICES ASSUME next < v PROVE FALSE
          BY <1>2, <3>3, <3>4
        <4> DEFINE z == v - 1
        <4>1. z \in 1 .. n /\ pos \in 0 .. n /\ pos < z /\ z \in 0 .. n
          BY <1>2, <1>4, <3>3
        <4>2. c[pos] < c[z]
          <5>1. g[z] # <<>>
            BY <4>1 DEF NoneEmpty, n
          <5> HIDE DEF z
          <5> QED BY <2>4, <4>1, <5>1, CutStrict DEF n
        <4>3. c[z] <= p /\ c[z] \in Nat
          BY <2>7, <3>3, <4>1
        <4> HIDE DEF z
        <4> QED BY <2>4, <2>10, <4>2, <4>3
      <3>6. c[pos] = p
        <4>1. v - 1 = pos
          BY <1>4, <3>5
        <4>2. c[pos] <= p
          BY <3>3, <4>1
        <4> QED BY <2>4, <2>10, <4>2
      <3>7. Belongs(g, size, next) /\ next # space
        <4>1. Belongs(g, size, next)
          BY <1>3, <3>5
        <4>2. Len(g[next]) = GroupSize
          BY <1>7, <3>4, <4>1
        <4> QED BY <1>6, <2>2, <4>1, <4>2
      <3>8. next < space
        BY <1>2, <1>4, <2>2, <2>12, <3>7
      <3>9. next - 1 = pos
        BY <1>4
      <3> HIDE DEF next, to
      <3>10. PICK d : Cut(h, f, d) /\ Handed(h, g, space, next) /\ d[next] = c[next] - 1 /\ d[next - 1] = c[next - 1]
        BY <2>2, <2>3, <2>4, <3>1, <3>4, <3>8, HandedBack DEF n
      <3>11. d[next - 1] <= p /\ p <= d[next]
        <4> DEFINE y == c[next]
        <4>1. y \in Nat /\ p < y
          BY <2>8, <3>4, <3>6, <3>9
        <4>2. d[next] = y - 1 /\ d[next - 1] = p
          BY <3>6, <3>9, <3>10
        <4> HIDE DEF y
        <4> QED BY <2>4, <4>1, <4>2
      <3> QED BY <2>9, <3>4, <3>7, <3>10, <3>11
    <2>13. CASE space > pos /\ ~(Cardinality(at) > 1)
      <3>1. to = pos
        BY <2>13
      <3> HIDE DEF to
      <3>2. PICK d : Cut(h, f, d) /\ Handed(h, g, space, pos) /\ d[pos] = c[pos] - 1 /\ d[pos - 1] = c[pos - 1]
        <4>1. pos < space
          BY <1>4, <2>2, <2>13
        <4> QED BY <1>4, <2>2, <2>3, <2>4, <3>1, <4>1, HandedBack DEF n
      <3>3. c[pos] # p
        <4> SUFFICES ASSUME c[pos] = p PROVE FALSE
          OBVIOUS
        <4> DEFINE u == pos + 1
        <4>1. u \in 1 .. n /\ u # pos /\ u - 1 = pos
          BY <1>2, <1>4, <2>2, <2>13
        <4>2. c[u - 1] <= p /\ p <= c[u]
          <5>1. c[u - 1] = p /\ c[u - 1] < c[u] /\ c[u] \in Nat
            BY <2>8, <4>1
          <5> HIDE DEF u
          <5> QED BY <2>4, <5>1
        <4>3. u \in at
          BY <1>3, <2>6, <4>1, <4>2
        <4>4. at \in SUBSET (1 .. n)
          BY <1>3
        <4> QED BY <1>2, <1>4, <2>13, <4>1, <4>3, <4>4, AnotherPlace
      <3>4. d[pos - 1] <= p /\ p <= d[pos]
        <4> DEFINE y == c[pos]
        <4>1. y \in Nat /\ p <= y /\ y # p
          BY <2>10, <3>3
        <4> HIDE DEF y
        <4>2. p <= y - 1
          BY <2>4, <4>1
        <4> QED BY <2>10, <3>2, <4>2 DEF y
      <3> QED BY <1>4, <1>10, <2>2, <2>9, <3>2, <3>4
    <2> QED BY <1>4, <2>2, <2>11, <2>12, <2>13
  <1> QED BY <1>11, <1>12

-----------------------------------------------------------------------------
(* The whole tree                                                            *)

MapType == [root : {"none", "items", "parent"}, groups : Groups, item_count : Nat, dirty : BOOLEAN]

\* What a tree is at each moment, also inside an insertion
Good(t, en) ==
    /\ t \in MapType
    /\ Tree(t.groups, en) /\ Fits(t.groups) /\ Len(t.groups) <= GroupSize
    /\ t.root = "none" => t = EmptyMap
    /\ t.root = "items" => Len(t.groups) = 1 /\ t.item_count = 0 /\ ~t.dirty
    /\ t.root = "parent" => /\ Items(t) # <<>> /\ t.item_count >= Len(Items(t))
                            /\ ~t.dirty => NoneEmpty(t.groups)

\* What it is between two calls
Calm(t) == NoneEmpty(t.groups) /\ ~t.dirty /\ (t.root = "parent" => Len(t.groups) > 1)

\* How many items there are at least
LEMMA FlatLen ==
    ASSUME NEW g, NEW en, Tree(g, en)
    PROVE  /\ FlattenSeq(g) = <<>> <=> Len(FlattenSeq(g)) = 0
           /\ Len(g) = 1 => Len(FlattenSeq(g)) = Len(g[1])
           /\ NoneEmpty(g) /\ Len(g) > 0 => Len(FlattenSeq(g)) > 0
           /\ NoneEmpty(g) /\ Len(g) > 1 => Len(FlattenSeq(g)) > 1
  <1> DEFINE f == FlattenSeq(g)
             n == Len(g)
  <1>1. PICK c : Cut(g, f, c)
    BY DEF Tree
  <1>2. f \in Seq(ItemType) /\ n \in Nat /\ c[0] = 0 /\ c[n] = Len(f) /\ Len(f) \in Nat
    BY <1>1, CutTypes
  <1>3. f = <<>> <=> Len(f) = 0
    <2> HIDE DEF f
    <2> QED BY <1>2
  <1>4. n = 1 => Len(f) = Len(g[1])
    <2> SUFFICES ASSUME n = 1 PROVE Len(f) = Len(g[1])
      OBVIOUS
    <2> DEFINE i == 1
               z == i - 1
    <2>1. z = 0 /\ i = n /\ i \in 1 .. n
      OBVIOUS
    <2> HIDE DEF i
    <2>2. c[i] = c[i - 1] + Len(g[i]) /\ Len(g[i]) \in Nat
      BY <1>1, <2>1, CutGroup
    <2>3. c[i] = 0 + Len(g[i])
      BY <1>2, <2>1, <2>2
    <2> HIDE DEF f, n
    <2> QED BY <1>2, <2>1, <2>2, <2>3
  <1>5. NoneEmpty(g) /\ n > 0 => Len(f) > 0
    <2> SUFFICES ASSUME NoneEmpty(g), n > 0 PROVE Len(f) > 0
      OBVIOUS
    <2>1. g[n] # <<>> /\ 0 \in 0 .. n /\ n \in 1 .. n /\ 0 < n
      BY <1>2 DEF NoneEmpty
    <2>2. c[0] < c[n]
      BY <1>1, <2>1, CutStrict
    <2> QED BY <1>2, <2>2
  <1>6. NoneEmpty(g) /\ n > 1 => Len(f) > 1
    <2> SUFFICES ASSUME NoneEmpty(g), n > 1 PROVE Len(f) > 1
      OBVIOUS
    <2>1. g[n] # <<>> /\ g[1] # <<>> /\ 1 \in 0 .. n /\ n \in 1 .. n /\ 1 \in 1 .. n /\ 0 \in 0 .. n
      BY <1>2 DEF NoneEmpty
    <2>2. c[0] < c[1] /\ c[1] < c[n]
      BY <1>1, <2>1, CutStrict
    <2>3. c[1] \in Nat
      BY <1>1, <2>1, CutTypes
    <2> QED BY <1>2, <2>2, <2>3
  <1> QED BY <1>3, <1>4, <1>5, <1>6

\* Without items there is nothing it holds
LEMMA EmptyTree ==
    ASSUME NEW g, NEW en, Tree(g, en), FlattenSeq(g) = <<>>
    PROVE  Tree(<<>>, en) /\ FlattenSeq(<<>>) = <<>> /\ \A s \in Sizes : en[s] = {}
  <1> DEFINE d == [w \in 0 .. 0 |-> 0]
             e == <<>>
  <1>1. Sorted(e) /\ Holds(e, en)
    BY DEF Tree
  <1>2. Cut(e, e, d)
    <2>1. e \in Groups /\ e \in Seq(ItemType) /\ Len(e) = 0
      BY DEF Groups
    <2>2. d \in [0 .. 0 -> Nat] /\ d[0] = 0
      OBVIOUS
    <2> HIDE DEF e, d
    <2>3. \A u \in 1 .. Len(e) : Piece(e[u], e, d[u - 1], d[u])
      BY <2>1
    <2> QED BY <2>1, <2>2, <2>3 DEF Cut
  <1>3. \A s \in Sizes : en[s] = {}
    BY <1>1 DEF Holds
  <1> HIDE DEF e, d
  <1>4. Tree(e, en) /\ FlattenSeq(e) = e
    BY <1>1, <1>2, TreeOf
  <1> QED BY <1>3, <1>4 DEF e

\* The map that is empty
LEMMA EmptyMapIs ==
    ASSUME NEW en, Tree(<<>>, en)
    PROVE  Good(EmptyMap, en) /\ Calm(EmptyMap)
  <1>1. EmptyMap \in MapType /\ EmptyMap.groups = <<>> /\ EmptyMap.root = "none" /\ EmptyMap.dirty = FALSE
    BY DEF EmptyMap, MapType, Groups
  <1>2. Len(<<>>) = 0 /\ 0 <= GroupSize
    BY BlockMapAssumption
  <1>3. Fits(<<>>) /\ NoneEmpty(<<>>)
    BY <1>2 DEF Fits, NoneEmpty
  <1> QED BY <1>1, <1>2, <1>3 DEF Good, Calm

\* update_root
LEMMA RootUpdatedIs ==
    ASSUME NEW t, NEW en, Good(t, en), t.root # "none", ~t.dirty, NEW r, r = RootUpdated(t)
    PROVE  Good(r, en) /\ Calm(r)
  <1> DEFINE g == t.groups
             f == FlattenSeq(g)
  <1>1. /\ t \in MapType /\ Tree(g, en) /\ Fits(g) /\ Len(g) <= GroupSize
        /\ t.root = "items" => Len(g) = 1 /\ t.item_count = 0
        /\ t.root = "parent" => f # <<>> /\ t.item_count >= Len(f) /\ NoneEmpty(g)
    BY DEF Good, Items
  <1>2. t.root = "items" \/ t.root = "parent"
    BY <1>1 DEF MapType
  <1>3. Len(g) \in Nat /\ g \in Groups /\ \A u \in 1 .. Len(g) : g[u] = <<>> <=> Len(g[u]) = 0
    BY <1>1, TreeTypes
  <1>4. CASE t.root = "items" /\ f = <<>>
    <2>1. r = EmptyMap
      BY <1>4 DEF RootUpdated, IsParent, Items
    <2> QED BY <1>1, <1>4, <2>1, EmptyTree, EmptyMapIs
  <1>5. CASE t.root = "items" /\ f # <<>>
    <2>1. r = t
      BY <1>5 DEF RootUpdated, IsParent, Items
    <2>2. Len(g[1]) # 0
      BY <1>1, <1>5, FlatLen
    <2>3. NoneEmpty(g)
      <3>1. Len(g) = 1
        BY <1>1, <1>5
      <3> HIDE DEF g
      <3> QED BY <1>3, <2>2, <3>1 DEF NoneEmpty
    <2> QED BY <1>5, <2>1, <2>3 DEF Calm
  <1>6. CASE t.root = "parent" /\ Len(g) <= 1
    <2> DEFINE i == [EmptyMap EXCEPT !.root = "items", !.groups = g]
    <2>1. r = i
      BY <1>6 DEF RootUpdated, IsParent, Items
    <2>2. EmptyMap \in MapType /\ EmptyMap.item_count = 0 /\ EmptyMap.dirty = FALSE
      BY DEF EmptyMap, MapType, Groups
    <2>6. i = [EmptyMap EXCEPT !.root = "items", !.groups = g]
      OBVIOUS
    <2> HIDE DEF i, g
    <2>3. i \in MapType /\ i.root = "items" /\ i.groups = g /\ i.item_count = 0 /\ i.dirty = FALSE
      BY <1>3, <2>2, <2>6 DEF MapType
    <2>4. Len(g) = 1
      <3>1. Len(g) # 0
        BY <1>1, <1>6, NoGroups
      <3> DEFINE n == Len(g)
      <3>2. n \in Nat /\ n # 0 /\ n <= 1
        BY <1>3, <1>6, <3>1
      <3> HIDE DEF n
      <3>3. n = 1
        BY <3>2
      <3> QED BY <3>3 DEF n
    <2>5. Good(i, en) /\ Calm(i)
      BY <1>1, <1>6, <2>3, <2>4 DEF Good, Calm
    <2> QED BY <2>1, <2>5
  <1>7. CASE t.root = "parent" /\ ~(Len(g) <= 1)
    <2>1. r = t
      BY <1>7 DEF RootUpdated, IsParent, Items
    <2>2. Len(g) > 1
      <3> HIDE DEF g
      <3> QED BY <1>3, <1>7
    <2> QED BY <1>1, <1>7, <2>1, <2>2 DEF Calm
  <1> QED BY <1>2, <1>4, <1>5, <1>6, <1>7

\* The end of an insertion
LEMMA ClosedIs ==
    ASSUME NEW t, NEW en, Good(t, en), t.root # "none", NEW r, r = Closed(t)
    PROVE  Good(r, en) /\ Calm(r)
  <1> DEFINE g == t.groups
  <1>1. /\ t \in MapType /\ Tree(g, en) /\ Fits(g) /\ Len(g) <= GroupSize
        /\ t.root = "items" => ~t.dirty
        /\ t.root = "parent" => FlattenSeq(g) # <<>> /\ t.item_count >= Len(FlattenSeq(g))
    BY DEF Good, Items
  <1>2. CASE ~t.dirty
    <2>1. r = RootUpdated(t)
      BY <1>2 DEF Closed
    <2> QED BY <1>2, <2>1, RootUpdatedIs
  <1>3. CASE t.dirty
    <2> DEFINE h == AllCombined(g)
               s == [t EXCEPT !.groups = h, !.dirty = FALSE]
    <2>1. r = RootUpdated(s)
      BY <1>3 DEF Closed
    <2>2. t.root = "parent"
      BY <1>1, <1>3 DEF MapType
    <2>0. h = AllCombined(g) /\ s = [t EXCEPT !.groups = h, !.dirty = FALSE]
      OBVIOUS
    <2> HIDE DEF h, g, s
    <2>3. Tree(h, en) /\ FlattenSeq(h) = FlattenSeq(g) /\ Fits(h) /\ NoneEmpty(h) /\ Len(h) <= Len(g)
      BY <1>1, <2>0, AllCombinedIs
    <2>4. h \in Groups /\ Len(h) \in Nat /\ Len(g) \in Nat
      BY <1>1, <2>3, TreeTypes
    <2>5. s \in MapType /\ s.root = "parent" /\ s.groups = h /\ s.dirty = FALSE /\ s.item_count = t.item_count
      BY <1>1, <2>0, <2>2, <2>4 DEF MapType
    <2>6. Len(h) <= GroupSize
      BY <1>1, <2>3, <2>4, BlockMapAssumption
    <2>7. Good(s, en)
      BY <1>1, <2>2, <2>3, <2>5, <2>6 DEF Good, Items
    <2> QED BY <2>1, <2>5, <2>7, RootUpdatedIs
  <1> QED BY <1>2, <1>3 DEF MapType

-----------------------------------------------------------------------------
(* mem_block_map_remove_offset                                               *)

\* What a removal leaves of the groups
Kept(h, g, size, after) ==
    /\ Len(h) = Len(g)
    /\ \A x \in Nat, v \in 1 .. Len(g) : Belongs(g, x, v) => Belongs(h, x, v)
    /\ \A v \in 1 .. Len(g) : Len(h[v]) = Len(g[v]) \/ Len(h[v]) = Len(g[v]) - 1
    /\ after[size] = {} => \A v \in 1 .. Len(g) : Belongs(g, size, v) => Len(h[v]) = Len(g[v]) - 1

\* Group u of g, in h, without an offset or the whole item
Fewer(h, g, en, after, u, one) ==
    /\ Tree(h, after) /\ Fits(h) /\ Len(h) = Len(g) /\ u \in 1 .. Len(g)
    /\ \A v \in 1 .. Len(g) : v # u => h[v] = g[v]
    /\ one => Len(FlattenSeq(h)) = Len(FlattenSeq(g)) - 1
    /\ ~one => /\ Len(FlattenSeq(h)) = Len(FlattenSeq(g)) /\ (NoneEmpty(g) => NoneEmpty(h))
               /\ \A v \in 1 .. Len(g) : Len(h[v]) = Len(g[v])

\* item_group_remove_offset in the group the search hits: the entry loses the offset, and only it
LEMMA ErasedIs ==
    ASSUME NEW g, NEW en \in [Sizes -> SUBSET Nat], Tree(g, en), Fits(g), NoneEmpty(g), Len(g) > 0, NEW size \in Sizes,
           NEW offset \in en[size], NEW s, s = Probe(g, size), NEW u, u = s.last + 1,
           NEW h, h = Erased(g, u, size, offset), NEW after, after = Changed(en, size, en[size] \ {offset}),
           NEW one, one = (Cardinality(en[size]) = 1)
    PROVE  /\ s.hit /\ Fewer(h, g, en, after, u, one) /\ Kept(h, g, size, after)
           /\ \A t : t.groups = g => (Vanishes(t, size) <=> one)
  <1>1. /\ s.hit /\ u \in 1 .. Len(g)
        /\ Tree(h, after) /\ Like(h, g, u)
        /\ one <=> en[size] \ {offset} = {}
        /\ one => Len(h[u]) = Len(g[u]) - 1 /\ Len(FlattenSeq(h)) = Len(FlattenSeq(g)) - 1
        /\ ~one => Len(h[u]) = Len(g[u]) /\ Len(FlattenSeq(h)) = Len(FlattenSeq(g))
        /\ \A t \in Nat, v \in 1 .. Len(g) : Belongs(g, t, v) => Belongs(h, t, v)
        /\ Belongs(g, size, u) /\ \A v \in 1 .. Len(g) : Belongs(g, size, v) => v = u
        /\ \A t : t.groups = g => (Vanishes(t, size) <=> one)
    BY OffsetErased
  <1>2. Len(h) = Len(g) /\ \A v \in 1 .. Len(g) : v # u => h[v] = g[v]
    BY <1>1 DEF Like
  <1>3. \A v \in 1 .. Len(g) : Len(g[v]) \in Nat /\ (g[v] = <<>> <=> Len(g[v]) = 0)
    BY TreeTypes
  <1>4. \A v \in 1 .. Len(g) : Len(h[v]) \in Nat /\ (h[v] = <<>> <=> Len(h[v]) = 0)
    BY <1>1, <1>2, TreeTypes
  <1>5. after[size] = en[size] \ {offset}
    BY DEF Changed
  <1>6. one \in BOOLEAN
    OBVIOUS
  <1>7. \A v \in 1 .. Len(g) : Len(h[v]) = Len(g[v]) \/ Len(h[v]) = Len(g[v]) - 1
    BY <1>1, <1>2, <1>6
  <1>8. Kept(h, g, size, after)
    BY <1>1, <1>2, <1>5, <1>7 DEF Kept
  <1>9. Fits(h)
    <2> SUFFICES ASSUME NEW v \in 1 .. Len(g) PROVE Len(h[v]) <= GroupSize
      BY <1>2 DEF Fits
    <2> DEFINE k == Len(g[v])
               l == Len(h[v])
    <2>1. k \in Nat /\ k <= GroupSize /\ (l = k \/ l = k - 1) /\ GroupSize \in Nat
      BY <1>3, <1>7, BlockMapAssumption DEF Fits
    <2> HIDE DEF k, l
    <2>2. l <= GroupSize
      BY <2>1
    <2> QED BY <2>2 DEF l
  <1>10. ~one /\ NoneEmpty(g) => NoneEmpty(h)
    <2> SUFFICES ASSUME ~one, NEW v \in 1 .. Len(g) PROVE h[v] # <<>>
      BY <1>2 DEF NoneEmpty
    <2>1. Len(h[v]) = Len(g[v])
      BY <1>1, <1>2
    <2> QED BY <1>3, <1>4, <2>1 DEF NoneEmpty
  <1>12. ~one => \A v \in 1 .. Len(g) : Len(h[v]) = Len(g[v])
    BY <1>1, <1>2
  <1>11. Fewer(h, g, en, after, u, one)
    BY <1>1, <1>2, <1>9, <1>10, <1>12 DEF Fewer
  <1> QED BY <1>1, <1>8, <1>11

\* A map with an offset has groups
LEMMA HasGroups ==
    ASSUME NEW t, NEW en, Good(t, en), NEW size \in Sizes, NEW offset \in en[size]
    PROVE  t.root # "none" /\ Len(t.groups) > 0
  <1> DEFINE g == t.groups
  <1>1. Tree(g, en) /\ (t.root = "none" => t = EmptyMap)
    BY DEF Good
  <1> HIDE DEF g
  <1>2. Len(g) # 0
    <2> SUFFICES ASSUME Len(g) = 0 PROVE FALSE
      OBVIOUS
    <2>1. FlattenSeq(g) = <<>>
      BY <1>1, NoGroups
    <2>2. \A s \in Sizes : en[s] = {}
      BY <1>1, <2>1, EmptyTree
    <2> QED BY <2>2
  <1>3. Len(g) \in Nat
    BY <1>1, TreeTypes
  <1>4. t.root # "none"
    <2> SUFFICES ASSUME t.root = "none" PROVE FALSE
      OBVIOUS
    <2>1. t = EmptyMap
      BY <1>1
    <2>2. t.groups = <<>>
      BY <2>1 DEF EmptyMap
    <2> QED BY <1>2, <2>2 DEF g
  <1>5. Len(g) > 0
    BY <1>2, <1>3
  <1> QED BY <1>4, <1>5 DEF g

\* The three ways out of parent_group_remove_offset and item_group_remove_offset
Branches(t, size, offset, left, u, one) ==
    /\ t.root # "parent" \/ ~one => \A b : Removed(t, size, offset, b) = [t EXCEPT !.groups = left]
    /\ t.root = "parent" /\ one =>
          /\ Removed(t, size, offset, TRUE) = [t EXCEPT !.groups = left, !.item_count = @ - 1, !.dirty = TRUE]
          /\ Removed(t, size, offset, FALSE) = [t EXCEPT !.groups = Combined(left, u), !.item_count = @ - 1]

\* The cases of parent_group_remove_offset
LEMMA RemovedUnfolds ==
    ASSUME NEW t, NEW g, g = t.groups, NEW size, NEW offset, NEW s, s = Probe(g, size), NEW u, u = s.last + 1, s.hit,
           NEW left, left = Erased(g, u, size, offset), NEW one \in BOOLEAN, Vanishes(t, size) <=> one
    PROVE  Branches(t, size, offset, left, u, one)
  <1>1. CASE t.root # "parent" \/ ~one
    BY <1>1 DEF Branches, Removed, IsParent
  <1>2. CASE t.root = "parent" /\ one
    BY <1>2 DEF Branches, Removed, IsParent
  <1> QED BY <1>1, <1>2

\* What a removal inside an insertion does
Lessened(r, after, t, size) ==
    /\ Good(r, after) /\ r.root = t.root /\ Kept(r.groups, t.groups, size, after)
    /\ t.root = "parent" /\ ~r.dirty => \A v \in 1 .. Len(t.groups) : Len(r.groups[v]) = Len(t.groups[v])

\* ... when an insertion is under way
LEMMA RemovedLocked ==
    ASSUME NEW t, NEW en \in [Sizes -> SUBSET Nat], Good(t, en), NoneEmpty(t.groups), NEW size \in Sizes,
           NEW offset \in en[size], t.root = "parent" => Len(Items(t)) > 1,
           NEW r, r = Removed(t, size, offset, TRUE), NEW after, after = Changed(en, size, en[size] \ {offset})
    PROVE  Lessened(r, after, t, size)
  <1> DEFINE g == t.groups
             s == Probe(g, size)
             u == s.last + 1
             left == Erased(g, u, size, offset)
             one == Cardinality(en[size]) = 1
             f == FlattenSeq(g)
             e == FlattenSeq(left)
  <1>1. /\ t \in MapType /\ Tree(g, en) /\ Fits(g) /\ Len(g) <= GroupSize /\ NoneEmpty(g)
        /\ t.root = "items" => Len(g) = 1 /\ t.item_count = 0 /\ ~t.dirty
        /\ t.root = "parent" => f # <<>> /\ t.item_count >= Len(f) /\ Len(f) > 1
    BY DEF Good, Items
  <1>2. t.root # "none" /\ Len(g) > 0
    BY HasGroups
  <1>3. t.root = "items" \/ t.root = "parent"
    BY <1>1, <1>2 DEF MapType
  <1> HIDE DEF g, f
  <1>4. /\ s.hit /\ Fewer(left, g, en, after, u, one) /\ Kept(left, g, size, after)
        /\ \A m : m.groups = g => (Vanishes(m, size) <=> one)
    <2> HIDE DEF one, left, u, s
    <2>1. s = Probe(g, size) /\ u = s.last + 1 /\ left = Erased(g, u, size, offset) /\ one = (Cardinality(en[size]) = 1)
      BY DEF one, left, u, s
    <2> QED BY <1>1, <1>2, <2>1, ErasedIs
  <1>5. Vanishes(t, size) <=> one
    BY <1>4 DEF g
  <1>6. /\ t.root # "parent" \/ ~one => r = [t EXCEPT !.groups = left]
        /\ t.root = "parent" /\ one => r = [t EXCEPT !.groups = left, !.item_count = @ - 1, !.dirty = TRUE]
    <2> HIDE DEF one, left, u, s
    <2>1. s = Probe(g, size) /\ u = s.last + 1 /\ left = Erased(g, u, size, offset) /\ one \in BOOLEAN /\ g = t.groups
      BY DEF one, left, u, s, g
    <2>2. Branches(t, size, offset, left, u, one)
      BY <1>4, <1>5, <2>1, RemovedUnfolds
    <2> QED BY <2>2 DEF Branches
  <1> HIDE DEF left, one, u, s
  <1>7. /\ Tree(left, after) /\ Fits(left) /\ Len(left) = Len(g)
        /\ one => Len(e) = Len(f) - 1
        /\ ~one => Len(e) = Len(f) /\ NoneEmpty(left) /\ \A v \in 1 .. Len(g) : Len(left[v]) = Len(g[v])
    BY <1>1, <1>4 DEF Fewer, f
  <1>8. left \in Groups /\ Len(e) \in Nat /\ Len(f) \in Nat
    BY <1>1, <1>7, TreeTypes DEF f
  <1>9. e = <<>> <=> Len(e) = 0
    BY <1>7, FlatLen
  <1> HIDE DEF e
  <1>10. CASE t.root # "parent" \/ ~one
    <2>1. r \in MapType /\ r.root = t.root /\ r.groups = left /\ r.item_count = t.item_count /\ r.dirty = t.dirty
      BY <1>1, <1>6, <1>8, <1>10 DEF MapType
    <2>2. Len(r.groups) <= GroupSize /\ (t.root = "items" => Len(r.groups) = 1)
      BY <1>1, <1>7, <2>1
    <2>3. t.root = "parent" => /\ Items(r) # <<>> /\ r.item_count >= Len(Items(r)) /\ NoneEmpty(r.groups)
      <3> SUFFICES ASSUME t.root = "parent"
                   PROVE  Items(r) # <<>> /\ r.item_count >= Len(Items(r)) /\ NoneEmpty(r.groups)
        OBVIOUS
      <3>1. Items(r) = e
        BY <2>1 DEF Items, e
      <3>2. Len(e) = Len(f) /\ NoneEmpty(left) /\ Len(e) # 0
        BY <1>1, <1>7, <1>8, <1>10
      <3> QED BY <1>1, <1>9, <2>1, <3>1, <3>2
    <2>4. Good(r, after)
      BY <1>1, <1>2, <1>7, <2>1, <2>2, <2>3 DEF Good
    <2>5. t.root = "parent" => \A v \in 1 .. Len(g) : Len(r.groups[v]) = Len(g[v])
      BY <1>7, <1>10, <2>1
    <2> QED BY <1>4, <2>1, <2>4, <2>5 DEF g, Lessened
  <1>11. CASE t.root = "parent" /\ one
    <2>1. t.item_count \in Nat /\ t.item_count - 1 \in Nat /\ Len(e) # 0 /\ t.item_count - 1 >= Len(e)
      <3> DEFINE i == t.item_count
                 k == Len(e)
                 l == Len(f)
      <3>1. i \in Nat /\ k \in Nat /\ l \in Nat /\ k = l - 1 /\ l > 1 /\ i >= l
        BY <1>1, <1>7, <1>8, <1>11 DEF MapType
      <3> HIDE DEF i, k, l
      <3>2. i - 1 \in Nat /\ k # 0 /\ i - 1 >= k
        BY <3>1
      <3> QED BY <3>1, <3>2 DEF i, k
    <2>2. r = [t EXCEPT !.groups = left, !.item_count = @ - 1, !.dirty = TRUE]
      BY <1>6, <1>11
    <2>3. r \in MapType /\ r.root = t.root /\ r.groups = left /\ r.item_count = t.item_count - 1 /\ r.dirty = TRUE
      BY <1>1, <1>8, <2>1, <2>2 DEF MapType
    <2>4. Items(r) = e
      BY <2>3 DEF Items, e
    <2>5. Len(r.groups) <= GroupSize
      BY <1>1, <1>7, <2>3
    <2>6. Items(r) # <<>> /\ r.item_count >= Len(Items(r))
      BY <1>9, <2>1, <2>3, <2>4
    <2>7. Good(r, after)
      BY <1>7, <1>11, <2>3, <2>5, <2>6 DEF Good
    <2> QED BY <1>4, <2>3, <2>7 DEF g, Lessened
  <1> QED BY <1>10, <1>11

\* ... when none is: groups are merged at once
LEMMA RemovedUnlocked ==
    ASSUME NEW t, NEW en \in [Sizes -> SUBSET Nat], Good(t, en), Calm(t), NEW size \in Sizes,
           NEW offset \in en[size],
           NEW r, r = RootUpdated(Removed(t, size, offset, FALSE)),
           NEW after, after = Changed(en, size, en[size] \ {offset})
    PROVE  Good(r, after) /\ Calm(r)
  <1> DEFINE g == t.groups
             s == Probe(g, size)
             u == s.last + 1
             left == Erased(g, u, size, offset)
             one == Cardinality(en[size]) = 1
             f == FlattenSeq(g)
             e == FlattenSeq(left)
             w == Removed(t, size, offset, FALSE)
  <1>1. /\ t \in MapType /\ Tree(g, en) /\ Fits(g) /\ Len(g) <= GroupSize /\ NoneEmpty(g) /\ t.dirty = FALSE
        /\ t.root = "items" => Len(g) = 1 /\ t.item_count = 0
        /\ t.root = "parent" => t.item_count >= Len(f) /\ Len(g) > 1
    BY DEF Good, Items, Calm, MapType
  <1>2. t.root # "none" /\ Len(g) > 0
    BY HasGroups
  <1>3. t.root = "items" \/ t.root = "parent"
    BY <1>1, <1>2 DEF MapType
  <1> HIDE DEF g, f
  <1>4. /\ s.hit /\ Fewer(left, g, en, after, u, one)
        /\ \A m : m.groups = g => (Vanishes(m, size) <=> one)
    <2> HIDE DEF one, left, u, s
    <2>1. s = Probe(g, size) /\ u = s.last + 1 /\ left = Erased(g, u, size, offset) /\ one = (Cardinality(en[size]) = 1)
      BY DEF one, left, u, s
    <2> QED BY <1>1, <1>2, <2>1, ErasedIs
  <1>5. Vanishes(t, size) <=> one
    BY <1>4 DEF g
  <1>6. /\ t.root # "parent" \/ ~one => w = [t EXCEPT !.groups = left]
        /\ t.root = "parent" /\ one => w = [t EXCEPT !.groups = Combined(left, u), !.item_count = @ - 1]
    <2> HIDE DEF one, left, u, s
    <2>1. s = Probe(g, size) /\ u = s.last + 1 /\ left = Erased(g, u, size, offset) /\ one \in BOOLEAN /\ g = t.groups
      BY DEF one, left, u, s, g
    <2>2. Branches(t, size, offset, left, u, one)
      BY <1>4, <1>5, <2>1, RemovedUnfolds
    <2> QED BY <2>2 DEF Branches, w
  <1> HIDE DEF left, one, u, s, w
  <1>7. /\ Tree(left, after) /\ Fits(left) /\ Len(left) = Len(g) /\ u \in 1 .. Len(left)
        /\ \A v \in 1 .. Len(g) : v # u => left[v] = g[v]
        /\ one => Len(e) = Len(f) - 1
        /\ ~one => Len(e) = Len(f) /\ NoneEmpty(left)
    BY <1>1, <1>4 DEF Fewer, f
  <1>8. left \in Groups /\ Len(e) \in Nat /\ Len(f) \in Nat /\ Len(g) \in Nat
    BY <1>1, <1>7, TreeTypes DEF f
  <1>9. /\ NoneEmpty(g) /\ Len(g) > 1 => Len(f) > 1
        /\ e = <<>> <=> Len(e) = 0
    BY <1>1, <1>7, FlatLen DEF f
  <1> HIDE DEF e
  <1>10. CASE t.root # "parent" \/ ~one
    <2>1. w \in MapType /\ w.root = t.root /\ w.groups = left /\ w.item_count = t.item_count /\ w.dirty = FALSE
      BY <1>1, <1>6, <1>8, <1>10 DEF MapType
    <2>2. Len(w.groups) <= GroupSize /\ (t.root = "items" => Len(w.groups) = 1)
      BY <1>1, <1>7, <2>1
    <2>3. t.root = "parent" => /\ Items(w) # <<>> /\ w.item_count >= Len(Items(w)) /\ NoneEmpty(w.groups)
      <3> SUFFICES ASSUME t.root = "parent"
                   PROVE  Items(w) # <<>> /\ w.item_count >= Len(Items(w)) /\ NoneEmpty(w.groups)
        OBVIOUS
      <3>1. Items(w) = e
        BY <2>1 DEF Items, e
      <3>2. Len(e) = Len(f) /\ NoneEmpty(left) /\ Len(e) # 0
        BY <1>1, <1>7, <1>8, <1>9, <1>10
      <3> QED BY <1>1, <1>9, <2>1, <3>1, <3>2
    <2>4. Good(w, after)
      BY <1>1, <1>2, <1>7, <2>1, <2>2, <2>3 DEF Good
    <2> QED BY <1>2, <2>1, <2>4, RootUpdatedIs DEF w
  <1>11. CASE t.root = "parent" /\ one
    <2> DEFINE h == Combined(left, u)
    <2>1. /\ Tree(h, after) /\ FlattenSeq(h) = FlattenSeq(left) /\ Fits(h)
          /\ (h = left /\ left[u] # <<>>) \/ Thinner(h, left, u)
      <3>1. h = Combined(left, u)
        OBVIOUS
      <3> HIDE DEF h
      <3> QED BY <1>7, <3>1, CombinedIs
    <2>2. w = [t EXCEPT !.groups = h, !.item_count = @ - 1]
      BY <1>6, <1>11
    <2> HIDE DEF h
    <2>3. h \in Groups /\ Len(h) \in Nat /\ \A v \in 1 .. Len(h) : h[v] = <<>> <=> Len(h[v]) = 0
      BY <2>1, TreeTypes
    <2>4. \A v \in 1 .. Len(left) : v # u => Len(left[v]) # 0
      <3>1. \A v \in 1 .. Len(left) : left[v] = <<>> <=> Len(left[v]) = 0
        BY <1>7, TreeTypes
      <3>2. \A v \in 1 .. Len(left) : v # u => left[v] # <<>>
        BY <1>1, <1>7 DEF NoneEmpty
      <3> QED BY <3>1, <3>2
    <2>5. NoneEmpty(h) /\ Len(h) > 0 /\ Len(h) <= GroupSize
      <3>1. CASE h = left /\ left[u] # <<>>
        <4>1. NoneEmpty(h)
          BY <1>1, <1>7, <3>1 DEF NoneEmpty
        <4>2. Len(h) = Len(g)
          BY <1>7, <3>1
        <4> QED BY <1>1, <1>2, <4>1, <4>2
      <3>2. CASE Thinner(h, left, u)
        <4> DEFINE n == Len(h)
        <4>1. /\ n = Len(left) - 1
              /\ \A v \in 1 .. n : Len(h[v]) = 0 => (v < u /\ Len(left[v]) = 0) \/ (v >= u /\ Len(left[v + 1]) = 0)
          BY <3>2 DEF Thinner
        <4>2. n \in Nat /\ n > 0 /\ n <= GroupSize
          <5> DEFINE k == Len(g)
          <5>1. n = k - 1 /\ k \in Nat /\ k > 1 /\ k <= GroupSize /\ GroupSize \in Nat
            BY <1>1, <1>7, <1>8, <1>11, <4>1, BlockMapAssumption
          <5> HIDE DEF k, n
          <5> QED BY <5>1
        <4>3. ASSUME NEW v \in 1 .. n PROVE Len(h[v]) # 0
          <5> DEFINE z == v + 1
          <5>1. v \in 1 .. Len(left) /\ z \in 1 .. Len(left) /\ (v < u => v # u) /\ (v >= u => z # u)
            <6> DEFINE k == Len(left)
            <6>1. n = k - 1 /\ n \in Nat /\ k \in Nat /\ u \in 1 .. k
              BY <1>7, <1>8, <4>1, <4>2
            <6> HIDE DEF k, n
            <6>2. v \in 1 .. k /\ z \in 1 .. k /\ (v < u => v # u) /\ (v >= u => z # u)
              BY <6>1
            <6> QED BY <6>2 DEF k
          <5>2. Len(h[v]) = 0 => (v < u /\ Len(left[v]) = 0) \/ (v >= u /\ Len(left[z]) = 0)
            BY <4>1
          <5> HIDE DEF z, n
          <5> QED BY <2>4, <5>1, <5>2
        <4>4. NoneEmpty(h)
          BY <2>3, <4>3 DEF NoneEmpty
        <4> QED BY <4>2, <4>4
      <3> QED BY <2>1, <3>1, <3>2
    <2>6. t.item_count \in Nat /\ t.item_count - 1 \in Nat /\ Len(e) # 0 /\ t.item_count - 1 >= Len(e)
      <3> DEFINE i == t.item_count
                 k == Len(e)
                 l == Len(f)
      <3>1. i \in Nat /\ k \in Nat /\ l \in Nat /\ k = l - 1 /\ l > 1 /\ i >= l
        BY <1>1, <1>7, <1>8, <1>9, <1>11 DEF MapType
      <3> HIDE DEF i, k, l
      <3>2. i - 1 \in Nat /\ k # 0 /\ i - 1 >= k
        BY <3>1
      <3> QED BY <3>1, <3>2 DEF i, k
    <2>7. w \in MapType /\ w.root = t.root /\ w.groups = h /\ w.item_count = t.item_count - 1 /\ w.dirty = FALSE
      BY <1>1, <2>2, <2>3, <2>6 DEF MapType
    <2>8. Items(w) = e
      BY <2>1, <2>7 DEF Items, e
    <2>9. Items(w) # <<>> /\ w.item_count >= Len(Items(w))
      BY <1>9, <2>6, <2>7, <2>8
    <2>10. Good(w, after)
      BY <1>11, <2>1, <2>5, <2>7, <2>9 DEF Good
    <2> QED BY <1>11, <2>7, <2>10, RootUpdatedIs DEF w
  <1> QED BY <1>10, <1>11

-----------------------------------------------------------------------------
(* What an insertion adds                                                    *)

\* Group u of g, in h, with what was added
Grown(h, g, u) ==
    /\ Len(h) = Len(g) /\ u \in 1 .. Len(g)
    /\ \A v \in 1 .. Len(g) : v # u => h[v] = g[v]
    /\ Len(h[u]) = Len(g[u]) \/ Len(h[u]) = Len(g[u]) + 1
    /\ Len(h[u]) <= GroupSize
    /\ Len(FlattenSeq(h)) = Len(FlattenSeq(g)) \/ Len(FlattenSeq(h)) = Len(FlattenSeq(g)) + 1

Sound(t, en) == Good(t, en) /\ t.root # "none"

\* A tree with one group grown, and counted
LEMMA GrownIs ==
    ASSUME NEW t, NEW en, Good(t, en), NEW g, g = t.groups, NEW u, NEW h, Grown(h, g, u), NEW after, Tree(h, after),
           FlattenSeq(h) # <<>>, NEW r, r = Counted([t EXCEPT !.groups = h])
    PROVE  Sound(r, after)
  <1> DEFINE f == FlattenSeq(g)
             e == FlattenSeq(h)
             w == [t EXCEPT !.groups = h]
  <1>1. /\ t \in MapType /\ Tree(g, en) /\ Fits(g) /\ Len(g) <= GroupSize
        /\ t.root = "none" => t = EmptyMap
        /\ t.root = "items" => Len(g) = 1 /\ t.item_count = 0 /\ ~t.dirty
        /\ t.root = "parent" => t.item_count >= Len(f) /\ (~t.dirty => NoneEmpty(g))
    BY DEF Good, Items
  <1>2. /\ Len(h) = Len(g) /\ u \in 1 .. Len(g)
        /\ \A v \in 1 .. Len(g) : v # u => h[v] = g[v]
        /\ Len(h[u]) = Len(g[u]) \/ Len(h[u]) = Len(g[u]) + 1
        /\ Len(h[u]) <= GroupSize
        /\ Len(e) = Len(f) \/ Len(e) = Len(f) + 1
    BY DEF Grown
  <1>3. /\ Len(g) \in Nat /\ Len(f) \in Nat
        /\ \A v \in 1 .. Len(g) : Len(g[v]) \in Nat /\ (g[v] = <<>> <=> Len(g[v]) = 0)
    BY <1>1, TreeTypes
  <1>4. h \in Groups /\ \A v \in 1 .. Len(h) : h[v] = <<>> <=> Len(h[v]) = 0
    BY TreeTypes
  <1>5. Fits(h)
    BY <1>1, <1>2 DEF Fits
  <1>6. NoneEmpty(g) => NoneEmpty(h)
    <2> SUFFICES ASSUME NoneEmpty(g), NEW v \in 1 .. Len(g) PROVE h[v] # <<>>
      BY <1>2 DEF NoneEmpty
    <2>1. g[v] # <<>> /\ Len(g[v]) # 0
      BY <1>3 DEF NoneEmpty
    <2>2. CASE v = u
      <3> DEFINE k == Len(g[v])
      <3>1. k \in Nat /\ k # 0 /\ (Len(h[v]) = k \/ Len(h[v]) = k + 1)
        BY <1>2, <1>3, <2>1, <2>2
      <3> HIDE DEF k
      <3>2. Len(h[v]) # 0
        BY <3>1
      <3> QED BY <1>2, <1>4, <3>2
    <2>3. CASE v # u
      BY <1>2, <2>1, <2>3
    <2> QED BY <2>2, <2>3
  <1>7. t.root # "none"
    <2> SUFFICES ASSUME t.root = "none" PROVE FALSE
      OBVIOUS
    <2>1. t.groups = <<>>
      BY <1>1 DEF EmptyMap
    <2>2. Len(g) = 0
      BY <2>1
    <2> HIDE DEF w, f, e
    <2> QED BY <1>2, <2>2
  <1>8. w \in MapType /\ w.root = t.root /\ w.groups = h /\ w.item_count = t.item_count /\ w.dirty = t.dirty
    BY <1>1, <1>4 DEF MapType
  <1> HIDE DEF w, f, e
  <1>9. CASE t.root # "parent"
    <2>1. r = w
      BY <1>8, <1>9 DEF Counted, IsParent, w
    <2>2. t.root = "items"
      BY <1>1, <1>7, <1>9 DEF MapType
    <2>3. Good(w, after)
      BY <1>1, <1>2, <1>5, <1>8, <2>2 DEF Good
    <2> QED BY <1>7, <1>8, <2>1, <2>3 DEF Sound
  <1>10. CASE t.root = "parent"
    <2>1. r = [w EXCEPT !.item_count = @ + 1]
      BY <1>8, <1>10 DEF Counted, IsParent, w
    <2>2. r \in MapType /\ r.root = "parent" /\ r.groups = h /\ r.item_count = t.item_count + 1 /\ r.dirty = t.dirty
      BY <1>8, <1>10, <2>1 DEF MapType
    <2>3. r.item_count >= Len(e)
      <3> DEFINE i == t.item_count
                 k == Len(f)
                 l == Len(e)
      <3>1. i \in Nat /\ k \in Nat /\ i >= k /\ (l = k \/ l = k + 1)
        BY <1>1, <1>2, <1>3, <1>10 DEF MapType
      <3> HIDE DEF i, k, l
      <3>2. i + 1 >= l
        BY <3>1
      <3> QED BY <2>2, <3>2 DEF i, l
    <2>4. Items(r) = e
      BY <2>2 DEF Items, e
    <2>5. Len(r.groups) <= GroupSize /\ (~r.dirty => NoneEmpty(r.groups))
      BY <1>1, <1>2, <1>6, <1>10, <2>2
    <2>6. Items(r) # <<>>
      BY <2>4 DEF e
    <2>7. Good(r, after)
      BY <1>5, <2>2, <2>3, <2>4, <2>5, <2>6 DEF Good
    <2> QED BY <2>2, <2>7 DEF Sound
  <1> QED BY <1>9, <1>10 DEF Sound

\* A tree that holds an offset has an item
LEMMA HasItems ==
    ASSUME NEW h, NEW after, Tree(h, after), NEW size \in Sizes, after[size] # {}
    PROVE  FlattenSeq(h) # <<>>
  BY EmptyTree

\* A new item, where there is room
LEMMA PutGrown ==
    ASSUME NEW g, NEW en \in [Sizes -> SUBSET Nat], Tree(g, en), NEW size \in Sizes,
           NEW offset \in Nat, en[size] = {}, NEW u \in 1 .. Len(g), Belongs(g, size, u), Len(g[u]) < GroupSize,
           NEW h, h = Changed(g, u, WithItem(g[u], Item(size, {offset}))),
           NEW after, after = Changed(en, size, en[size] \cup {offset})
    PROVE  Grown(h, g, u) /\ Tree(h, after) /\ FlattenSeq(h) # <<>>
  <1>2. /\ Tree(h, after) /\ Len(h) = Len(g) /\ Len(h[u]) = Len(g[u]) + 1
        /\ \A v \in 1 .. Len(g) : v # u => h[v] = g[v]
        /\ Len(FlattenSeq(h)) = Len(FlattenSeq(g)) + 1
    <2>1. Put(h, g, u, after)
      BY ItemPut
    <2> QED BY <2>1 DEF Put
  <1>3. Len(h[u]) <= GroupSize
    <2> DEFINE k == Len(g[u])
    <2>1. k \in Nat /\ k < GroupSize /\ GroupSize \in Nat /\ Len(h[u]) = k + 1
      BY <1>2, TreeTypes, BlockMapAssumption
    <2> HIDE DEF k
    <2> QED BY <2>1
  <1>4. Grown(h, g, u)
    BY <1>2, <1>3 DEF Grown
  <1>5. after[size] # {}
    BY DEF Changed
  <1>6. FlattenSeq(h) # <<>>
    BY <1>2, <1>5, HasItems
  <1> QED BY <1>2, <1>4, <1>6

\* A new item in the whole tree, and counted
LEMMA PutIs ==
    ASSUME NEW t, NEW en \in [Sizes -> SUBSET Nat], Good(t, en), NEW g, g = t.groups, NEW size \in Sizes,
           NEW offset \in Nat, en[size] = {}, NEW u \in 1 .. Len(g), Belongs(g, size, u), Len(g[u]) < GroupSize,
           NEW h, h = Changed(g, u, WithItem(g[u], Item(size, {offset}))),
           NEW r, r = Counted([t EXCEPT !.groups = h]), NEW after, after = Changed(en, size, en[size] \cup {offset})
    PROVE  Sound(r, after)
  <1>1. Tree(g, en)
    BY DEF Good
  <1>2. Grown(h, g, u) /\ Tree(h, after) /\ FlattenSeq(h) # <<>>
    BY <1>1, PutGrown
  <1> QED BY <1>2, GrownIs

\* No group has a size without entry
LEMMA NotHas ==
    ASSUME NEW g, NEW en, Tree(g, en), NEW size \in Sizes, en[size] = {}, NEW u \in 1 .. Len(g)
    PROVE  ~Has(g[u], size)
  <1>1. PICK f, c, p, q : /\ f = FlattenSeq(g) /\ Cut(g, f, c) /\ Rank(f, size, p, q)
                          /\ (en[size] # {} <=> p < q)
    BY TreeRank
  <1>2. size \in Nat
    BY BlockMapAssumption
  <1> QED BY <1>1, <1>2, HasIs

\* The end of item_group_add_offset
LEMMA ListedIs ==
    ASSUME NEW t, NEW en \in [Sizes -> SUBSET Nat], Good(t, en), NEW g, g = t.groups, NEW size \in Sizes,
           NEW offset \in Nat, NEW u \in 1 .. Len(g), Belongs(g, size, u), en[size] # {} \/ Len(g[u]) < GroupSize,
           NEW h, h = Changed(g, u, Listed(g[u], size, offset)),
           NEW r, r = Counted([t EXCEPT !.groups = h]), NEW after, after = Changed(en, size, en[size] \cup {offset})
    PROVE  Sound(r, after)
  <1>1. Tree(g, en) /\ Fits(g)
    BY DEF Good
  <1>2. CASE en[size] = {}
    <2>1. Listed(g[u], size, offset) = WithItem(g[u], Item(size, {offset}))
      BY <1>1, <1>2, NotHas DEF Listed
    <2>2. h = Changed(g, u, WithItem(g[u], Item(size, {offset}))) /\ Len(g[u]) < GroupSize
      BY <1>2, <2>1
    <2> QED BY <1>2, <2>2, PutIs
  <1>3. CASE en[size] # {}
    <2>1. Tree(h, after) /\ Like(h, g, u) /\ Len(h[u]) = Len(g[u]) /\ Len(FlattenSeq(h)) = Len(FlattenSeq(g))
      BY <1>1, <1>3, ItemListed
    <2>2. Grown(h, g, u)
      BY <1>1, <2>1 DEF Grown, Like, Fits
    <2>3. after[size] # {}
      BY DEF Changed
    <2>4. FlattenSeq(h) # <<>>
      BY <2>1, <2>3, HasItems
    <2> QED BY <2>1, <2>2, <2>4, GrownIs
  <1> QED BY <1>2, <1>3

-----------------------------------------------------------------------------
(* The inductive invariant                                                   *)

JobType == [size : Nat, offset : Nat, at : Nat, allocs : Int, again : BOOLEAN]

EntriesType(en) == en \in [Sizes -> SUBSET Nat] /\ \A s \in Sizes : en[s] \subseteq Offsets[s]

Full(g) == \A u \in 1 .. Len(g) : Len(g[u]) = GroupSize

\* Inside an insertion
Pending(t, j) ==
    t.root # "none" /\ j.size \in Sizes /\ j.offset \in Offsets[j.size] /\ j.at \in 1 .. Len(t.groups)

AtList(t, en, j) ==
    /\ Belongs(t.groups, j.size, j.at)
    /\ en[j.size] # {} \/ Len(t.groups[j.at]) < GroupSize
    /\ t.root = "parent" => Len(t.groups) > 1

AtRoot(t, en, j) ==
    t.root = "items" /\ Len(t.groups[1]) = GroupSize /\ j.at = 1 /\ en[j.size] = {}

\* A new root has one group, which an allocation may have taken an item from
AtSplit(t, en, j) ==
    /\ t.root = "parent" /\ en[j.size] = {} /\ Belongs(t.groups, j.size, j.at)
    /\ j.again => Len(t.groups) = 1 /\ Len(t.groups[1]) \in {GroupSize, GroupSize - 1}
    /\ ~j.again => ~t.dirty /\ Full(t.groups) /\ Len(t.groups) > 1 /\ Len(t.groups) < GroupSize

AtLevel(t) == t.root = "parent" /\ ~t.dirty /\ Full(t.groups) /\ Len(t.groups) > 1

Whole(p, t, en, j) ==
    /\ p \in {"idle", "list", "root", "split", "level"} /\ j \in JobType
    /\ EntriesType(en) /\ Good(t, en)
    /\ p = "idle" => j = NoJob /\ Calm(t)
    /\ p # "idle" => Pending(t, j)
    /\ p = "list" => AtList(t, en, j)
    /\ p = "root" => AtRoot(t, en, j)
    /\ p = "split" => AtSplit(t, en, j)
    /\ p = "level" => AtLevel(t)

IInv == Whole(pc, map, entries, job)

\* A call that is over
LEMMA OverIs ==
    ASSUME NEW t, NEW en, EntriesType(en), Good(t, en), Calm(t)
    PROVE  Whole("idle", t, en, NoJob)
  <1>1. NoJob \in JobType
    BY DEF NoJob, JobType
  <1> QED BY <1>1 DEF Whole

\* An insertion that is over
LEMMA FinishIs ==
    ASSUME NEW t, NEW en, EntriesType(en), Good(t, en), t.root # "none", NEW r, r = Closed(t)
    PROVE  Whole("idle", r, en, NoJob)
  BY ClosedIs, OverIs

\* Sizes and offsets are numbers
LEMMA OffsetIs ==
    ASSUME NEW size \in Sizes, NEW offset \in Offsets[size]
    PROVE  size \in Nat /\ size > 0 /\ offset \in Nat
  <1>1. Offsets[size] \subseteq Nat /\ Sizes \subseteq Nat \ {0}
    BY BlockMapAssumption
  <1> QED BY <1>1

\* Give and Taken
LEMMA GivenIs ==
    ASSUME NEW en, EntriesType(en), NEW size \in Sizes, NEW offset \in Offsets[size],
           NEW after, after = Changed(en, size, en[size] \cup {offset})
    PROVE  EntriesType(after)
  <1>1. offset \in Nat /\ en \in [Sizes -> SUBSET Nat] /\ \A s \in Sizes : en[s] \subseteq Offsets[s]
    BY OffsetIs DEF EntriesType
  <1> DEFINE a == en[size] \cup {offset}
  <1>2. a \in SUBSET Nat /\ a \subseteq Offsets[size]
    BY <1>1
  <1> HIDE DEF a
  <1>3. /\ after \in [Sizes -> SUBSET Nat] /\ after[size] = a
        /\ \A s \in Sizes : s # size => after[s] = en[s]
    <2>1. after = Changed(en, size, a)
      BY DEF a
    <2> QED BY <1>1, <1>2, <2>1 DEF Changed
  <1> QED BY <1>1, <1>2, <1>3 DEF EntriesType

Lost(after, en, size) == EntriesType(after) /\ \A s \in Sizes : s # size => after[s] = en[s]

\* An offset less in the entries
LEMMA LostIs ==
    ASSUME NEW en, EntriesType(en), NEW size \in Sizes, NEW offset,
           NEW after, after = Changed(en, size, en[size] \ {offset})
    PROVE  Lost(after, en, size)
  <1>1. en \in [Sizes -> SUBSET Nat] /\ \A s \in Sizes : en[s] \subseteq Offsets[s]
    BY DEF EntriesType
  <1> DEFINE a == en[size] \ {offset}
  <1>2. a \in SUBSET Nat /\ a \subseteq Offsets[size]
    BY <1>1
  <1> HIDE DEF a
  <1>3. /\ after \in [Sizes -> SUBSET Nat] /\ after[size] = a
        /\ \A s \in Sizes : s # size => after[s] = en[s]
    <2>1. after = Changed(en, size, a)
      BY DEF a
    <2> QED BY <1>1, <1>2, <2>1 DEF Changed
  <1> QED BY <1>1, <1>2, <1>3 DEF Lost, EntriesType

\* What an allocation may do to the tree it is made for
Allocated(t, en, t0, en0) ==
    /\ EntriesType(en) /\ Good(t, en) /\ t.root = t0.root
    /\ Len(t.groups) = Len(t0.groups)
    /\ \A x \in Nat, v \in 1 .. Len(t0.groups) : Belongs(t0.groups, x, v) => Belongs(t.groups, x, v)
    /\ \A v \in 1 .. Len(t0.groups) :
          Len(t.groups[v]) = Len(t0.groups[v]) \/ Len(t.groups[v]) = Len(t0.groups[v]) - 1
    /\ \A x \in Sizes, v \in 1 .. Len(t0.groups) :
          en[x] = {} /\ en0[x] # {} /\ Belongs(t0.groups, x, v) => Len(t.groups[v]) = Len(t0.groups[v]) - 1
    /\ \A x \in Sizes : en0[x] = {} => en[x] = {}
    /\ t0.root = "parent" /\ ~t.dirty => \A v \in 1 .. Len(t0.groups) : Len(t.groups[v]) = Len(t0.groups[v])

\* A group that is not taken from the map
LEMMA SameAllocated ==
    ASSUME NEW t, NEW en, EntriesType(en), Good(t, en)
    PROVE  Allocated(t, en, t, en)
  BY DEF Allocated

\* A group that is taken from the map
LEMMA LessAllocated ==
    ASSUME NEW t, NEW en, EntriesType(en), Good(t, en), NoneEmpty(t.groups), NEW size \in Sizes,
           NEW offset \in en[size], t.root = "parent" => Len(Items(t)) > 1,
           NEW r, r = Removed(t, size, offset, TRUE), NEW after, after = Changed(en, size, en[size] \ {offset})
    PROVE  Allocated(r, after, t, en)
  <1>1. en \in [Sizes -> SUBSET Nat]
    BY DEF EntriesType
  <1>2. Lessened(r, after, t, size)
    BY <1>1, RemovedLocked
  <1>7. /\ Good(r, after) /\ r.root = t.root /\ Kept(r.groups, t.groups, size, after)
        /\ t.root = "parent" /\ ~r.dirty => \A v \in 1 .. Len(t.groups) : Len(r.groups[v]) = Len(t.groups[v])
    BY <1>2 DEF Lessened
  <1>8. Lost(after, en, size)
    BY LostIs
  <1>3. EntriesType(after) /\ \A s \in Sizes : s # size => after[s] = en[s]
    BY <1>8 DEF Lost
  <1>4. en[size] # {}
    OBVIOUS
  <1>5. \A x \in Sizes : en[x] = {} => after[x] = {}
    BY <1>3, <1>4
  <1>6. ASSUME NEW x \in Sizes, NEW v \in 1 .. Len(t.groups), after[x] = {}, en[x] # {}, Belongs(t.groups, x, v)
        PROVE  Len(r.groups[v]) = Len(t.groups[v]) - 1
    <2>1. x = size
      BY <1>3, <1>6
    <2> QED BY <1>6, <1>7, <2>1 DEF Kept
  <1> QED BY <1>3, <1>5, <1>6, <1>7 DEF Allocated, Kept

\* The first of some offsets is one of them
LEMMA FirstIs ==
    ASSUME NEW offsets \in SUBSET Nat, offsets # {}
    PROVE  First(offsets) \in offsets
  <1>1. \E o \in offsets : \A p \in offsets : o <= p
    BY Least
  <1> QED BY <1>1 DEF First

\* The map holds the entries
LEMMA GoodHolds ==
    ASSUME NEW t, NEW en, EntriesType(en), Good(t, en)
    PROVE  /\ Contents(t) = en
           /\ \A item \in Range(Items(t)) : item.size \in Sizes /\ en[item.size] # {} /\ item.size # 0
  <1> DEFINE f == FlattenSeq(t.groups)
  <1>1. Tree(t.groups, en) /\ en \in [Sizes -> SUBSET Nat]
    BY DEF Good, EntriesType
  <1>2. f \in Seq(ItemType) /\ Sorted(f) /\ Holds(f, en) /\ Items(t) = f
    BY <1>1, TreeTypes DEF Tree, Items
  <1> HIDE DEF f
  <1>3. Contents(t) = en
    BY <1>1, <1>2, ContentsAre
  <1>4. ASSUME NEW item \in Range(f) PROVE item.size \in Sizes /\ en[item.size] # {} /\ item.size # 0
    <2>1. PICK k \in 1 .. Len(f) : item = f[k]
      BY <1>2 DEF Range
    <2>2. f[k].size \in Sizes /\ en[f[k].size] = f[k].offsets /\ en[f[k].size] # {}
      BY <1>2, EntryItem
    <2>3. f[k].size # 0
      BY <2>2, BlockMapAssumption
    <2> QED BY <2>1, <2>2, <2>3
  <1> QED BY <1>2, <1>3, <1>4

\* multi_heap_malloc_internal, called for a group
LEMMA SourceIs ==
    ASSUME EntriesType(entries), Good(map, entries), map.root = "parent" /\ NoneEmpty(map.groups) => Len(Items(map)) > 1,
           NEW s \in Sources, NEW t, t = Without(s), NEW en, en = Taken(s)
    PROVE  Allocated(t, en, map, entries)
  <1>1. CASE s = 0
    <2>1. t = map /\ en = entries
      BY <1>1 DEF Without, Taken
    <2> QED BY <2>1, SameAllocated
  <1>2. CASE s # 0
    <2>1. (\E item \in Range(Items(map)) : s = item.size) /\ \A u \in DOMAIN map.groups : map.groups[u] # <<>>
      BY <1>2 DEF Sources
    <2>2. s \in Sizes /\ entries[s] # {} /\ Contents(map) = entries
      BY <2>1, GoodHolds
    <2>3. NoneEmpty(map.groups)
      <3>1. DOMAIN map.groups = 1 .. Len(map.groups)
        BY TreeTypes DEF Good
      <3> QED BY <2>1, <3>1 DEF NoneEmpty
    <2> DEFINE o == First(entries[s])
    <2>4. o \in entries[s]
      <3>1. entries[s] \in SUBSET Nat
        BY <2>2 DEF EntriesType
      <3> QED BY <2>2, <3>1, FirstIs
    <2>5. t = Removed(map, s, o, TRUE)
      BY <1>2, <2>2 DEF Without
    <2>6. en = Changed(entries, s, entries[s] \ {o})
      BY <1>2, <2>2 DEF Taken, Changed
    <2> HIDE DEF o
    <2> QED BY <2>2, <2>3, <2>4, <2>5, <2>6, LessAllocated
  <1> QED BY <1>1, <1>2

-----------------------------------------------------------------------------
(* mem_block_map_add_offset up to its first allocation                       *)

\* The groups a new size is put into, after room was made if need be
Room(h, g, en, size) ==
    /\ Tree(h, en) /\ FlattenSeq(h) = FlattenSeq(g) /\ Len(h) = Len(g) /\ Fits(h) /\ NoneEmpty(h)
    /\ Candidate(h, size) = 0 => h = g /\ Full(g) /\ en[size] = {}

\* The groups after shift_children, if it was called
LEMMA RoomyIs ==
    ASSUME NEW g, NEW en, Tree(g, en), Len(g) > 0, NoneEmpty(g), Fits(g), NEW size \in Sizes, NEW h, h = Roomy(g, size)
    PROVE  Room(h, g, en, size)
  <1>1. CASE Candidate(g, size) # 0
    <2>1. h = g
      BY <1>1 DEF Roomy
    <2> QED BY <1>1, <2>1 DEF Room
  <1>2. CASE Candidate(g, size) = 0
    <2>1. h = Shifted(g, size)
      BY <1>2 DEF Roomy
    <2>2. Shift(h, g, en, size)
      BY <1>2, <2>1, ShiftedIs
    <2>3. en[size] = {}
      BY <1>2, CandidateIn DEF Findable
    <2> QED BY <2>2, <2>3 DEF Shift, Room, Full
  <1> QED BY <1>1, <1>2

\* The tree with other groups that hold the same
LEMMA Regrouped ==
    ASSUME NEW t, NEW en, Good(t, en), NEW h, Tree(h, en), FlattenSeq(h) = FlattenSeq(t.groups), Fits(h), NoneEmpty(h),
           Len(h) <= GroupSize, t.root = "items" => Len(h) = 1, t.root # "none", NEW r, r = [t EXCEPT !.groups = h]
    PROVE  Good(r, en)
  <1>1. t \in MapType /\ h \in Groups
    BY TreeTypes DEF Good
  <1>2. r \in MapType /\ r.root = t.root /\ r.groups = h /\ r.item_count = t.item_count /\ r.dirty = t.dirty
    BY <1>1 DEF MapType
  <1>3. Items(r) = Items(t)
    BY <1>2 DEF Items
  <1> QED BY <1>2, <1>3 DEF Good

\* What is known between two calls
LEMMA IdleIs ==
    ASSUME IInv, pc = "idle"
    PROVE  /\ EntriesType(entries) /\ entries \in [Sizes -> SUBSET Nat] /\ Good(map, entries) /\ Calm(map)
           /\ Tree(map.groups, entries) /\ Fits(map.groups) /\ NoneEmpty(map.groups) /\ Len(map.groups) <= GroupSize
           /\ map.root # "none" => Len(map.groups) > 0
           /\ map.root = "items" => Len(map.groups) = 1
           /\ map.root = "parent" => Len(map.groups) > 1
           /\ map \in MapType /\ job = NoJob /\ Len(map.groups) \in Nat
  <1>1. EntriesType(entries) /\ Good(map, entries) /\ Calm(map) /\ job = NoJob
    BY DEF IInv, Whole
  <1>2. map \in MapType /\ Tree(map.groups, entries)
    BY <1>1 DEF Good
  <1>3. Len(map.groups) \in Nat
    BY <1>2, TreeTypes
  <1>4. map.root \in {"none", "items", "parent"}
    BY <1>2 DEF MapType
  <1>5. map.root = "items" => Len(map.groups) = 1
    BY <1>1 DEF Good
  <1>6. map.root = "parent" => Len(map.groups) > 1
    BY <1>1 DEF Calm
  <1>7. map.root # "none" => Len(map.groups) > 0
    <2> DEFINE n == Len(map.groups)
    <2>1. n \in Nat /\ (map.root # "none" => n = 1 \/ n > 1)
      BY <1>3, <1>4, <1>5, <1>6
    <2> HIDE DEF n
    <2>2. map.root # "none" => n > 0
      BY <2>1
    <2> QED BY <2>2 DEF n
  <1> QED BY <1>1, <1>2, <1>3, <1>5, <1>6, <1>7 DEF Good, EntriesType, Calm

\* The first group of an empty map
LEMMA FirstGroup ==
    ASSUME NEW en \in [Sizes -> SUBSET Nat], \A s \in Sizes : en[s] = {}, NEW size \in Sizes, NEW offset \in Nat,
           NEW g, g = <<(<<Item(size, {offset})>>)>>,
           NEW after, after = Changed(en, size, en[size] \cup {offset})
    PROVE  Tree(g, after) /\ Len(g) = 1 /\ Len(g[1]) = 1 /\ g[1] # <<>>
  <1> DEFINE item == Item(size, {offset})
             f == <<item>>
             d == [w \in 0 .. 1 |-> w]
             x == 0
  <1>1. item \in ItemType /\ item.size = size /\ item.offsets = {offset}
    <2>1. {offset} \in SUBSET Nat
      OBVIOUS
    <2> QED BY <2>1, ItemIs
  <1> HIDE DEF item
  <1>2. f \in Seq(ItemType) /\ Len(f) = 1 /\ f[1] = item /\ x \in Nat /\ x + 1 = 1
    BY <1>1
  <1>3. g = <<f>> /\ Len(g) = 1 /\ g[1] = f
    BY DEF item
  <1>4. g \in Groups
    BY <1>2, <1>3 DEF Groups
  <1>5. Piece(f, f, 0, 1)
    BY <1>2 DEF Piece
  <1> HIDE DEF f
  <1>6. d \in [0 .. 1 -> Nat] /\ d[0] = 0 /\ d[1] = 1
    OBVIOUS
  <1> HIDE DEF d
  <1>7. Cut(g, f, d)
    <2>1. \A u \in 1 .. Len(g) : Piece(g[u], f, d[u - 1], d[u])
      <3> SUFFICES ASSUME NEW u \in 1 .. 1 PROVE Piece(g[u], f, d[u - 1], d[u])
        BY <1>3
      <3>1. u = 1 /\ u - 1 = 0
        OBVIOUS
      <3> QED BY <1>3, <1>5, <1>6, <3>1
    <2> QED BY <1>2, <1>3, <1>4, <1>6, <2>1 DEF Cut
  <1>8. Sorted(f)
    BY <1>2 DEF Sorted
  <1>9. Holds(f, after)
    <2>1. after[size] = {offset} /\ \A s \in Sizes : s # size => after[s] = {}
      BY DEF Changed
    <2>2. IsFiniteSet({offset})
      BY FS_Singleton
    <2>3. \A k \in 1 .. Len(f) : k = 1
      BY <1>2
    <2>4. /\ f[1].offsets = after[f[1].size] /\ f[1].offsets # {} /\ IsFiniteSet(f[1].offsets) /\ f[1].size = size
      BY <1>1, <1>2, <2>1, <2>2
    <2>5. 1 \in 1 .. Len(f)
      BY <1>2
    <2> QED BY <2>1, <2>3, <2>4, <2>5 DEF Holds
  <1>10. Tree(g, after)
    BY <1>7, <1>8, <1>9, TreeOf
  <1>11. f # <<>>
    BY <1>2
  <1> QED BY <1>2, <1>3, <1>10, <1>11

\* The first offset of an empty map keeps the invariant
LEMMA AddFirstKeeps ==
    ASSUME IInv, pc = "idle", NEW size \in Sizes, NEW offset \in Offsets[size], AddFirst(size, offset)
    PROVE  IInv'
  <1> DEFINE g == <<(<<Item(size, {offset})>>)>>
             r == [EmptyMap EXCEPT !.root = "items", !.groups = g]
             after == Changed(entries, size, entries[size] \cup {offset})
  <1>1. map.root = "none" /\ map' = r /\ entries' = after /\ pc' = pc /\ job' = job
    BY DEF AddFirst, Give, Changed
  <1>2. EntriesType(entries) /\ entries \in [Sizes -> SUBSET Nat] /\ Good(map, entries) /\ job = NoJob
    BY IdleIs
  <1>3. \A s \in Sizes : entries[s] = {}
    <2>1. map = EmptyMap /\ Tree(map.groups, entries)
      BY <1>1, <1>2 DEF Good
    <2>2. map.groups = <<>> /\ Len(map.groups) = 0
      BY <2>1 DEF EmptyMap
    <2>3. FlattenSeq(map.groups) = <<>>
      BY <2>1, <2>2, NoGroups
    <2> QED BY <2>1, <2>3, EmptyTree
  <1>4. offset \in Nat
    BY OffsetIs
  <1>5. EntriesType(after)
    BY <1>2, GivenIs
  <1>6. Tree(g, after) /\ Len(g) = 1 /\ Len(g[1]) = 1 /\ g[1] # <<>>
    BY <1>2, <1>3, <1>4, FirstGroup
  <1>7. g \in Groups
    BY <1>6, TreeTypes
  <1>8. EmptyMap \in MapType /\ EmptyMap.item_count = 0 /\ EmptyMap.dirty = FALSE
    BY DEF EmptyMap, MapType, Groups
  <1> HIDE DEF g, after
  <1>9. r \in MapType /\ r.root = "items" /\ r.groups = g /\ r.item_count = 0 /\ r.dirty = FALSE
    BY <1>7, <1>8 DEF MapType
  <1>10. NoneEmpty(g) /\ Fits(g) /\ Len(g) <= GroupSize
    <2>1. \A v \in 1 .. Len(g) : v = 1
      BY <1>6
    <2>2. GroupSize \in Nat /\ 1 <= GroupSize
      BY BlockMapAssumption
    <2>3. NoneEmpty(g)
      BY <1>6, <2>1 DEF NoneEmpty
    <2>4. Fits(g)
      BY <1>6, <2>1, <2>2 DEF Fits
    <2> QED BY <1>6, <2>2, <2>3, <2>4
  <1> HIDE DEF r
  <1>11. Good(r, after) /\ Calm(r)
    BY <1>6, <1>9, <1>10 DEF Good, Calm
  <1>12. Whole("idle", r, after, NoJob)
    BY <1>5, <1>11, OverIs
  <1> QED BY <1>1, <1>2, <1>12 DEF IInv

\* ... a new size where there is room
LEMMA AddItemKeeps ==
    ASSUME IInv, pc = "idle", NEW size \in Sizes, NEW offset \in Offsets[size], AddItem(size, offset)
    PROVE  IInv'
  <1> DEFINE g == map.groups
             h == Roomy(g, size)
             u == Candidate(h, size)
             t == [map EXCEPT !.groups = h]
             k == Changed(h, u, WithItem(h[u], Item(size, {offset})))
             r == Counted([t EXCEPT !.groups = k])
             after == Changed(entries, size, entries[size] \cup {offset})
  <1>1. /\ map.root # "none" /\ u # 0 /\ ~Has(h[u], size)
        /\ map' = Closed(Counted([map EXCEPT !.groups = k])) /\ pc' = "idle" /\ job' = NoJob
        /\ entries' = after
    BY DEF AddItem, Finish, Give, Changed
  <1>2. /\ EntriesType(entries) /\ entries \in [Sizes -> SUBSET Nat] /\ Good(map, entries)
        /\ Tree(g, entries) /\ Fits(g) /\ NoneEmpty(g) /\ Len(g) <= GroupSize /\ Len(g) > 0
        /\ map.root = "items" => Len(g) = 1
        /\ map \in MapType
    BY <1>1, IdleIs
  <1>3. offset \in Nat
    BY OffsetIs
  <1>4. EntriesType(after)
    BY <1>2, GivenIs
  <1> HIDE DEF g
  <1>5. Room(h, g, entries, size)
    BY <1>2, RoomyIs
  <1> HIDE DEF h
  <1>6. /\ Tree(h, entries) /\ FlattenSeq(h) = FlattenSeq(g) /\ Len(h) = Len(g) /\ Fits(h) /\ NoneEmpty(h)
    BY <1>5 DEF Room
  <1>7. u \in 1 .. Len(h) /\ Belongs(h, size, u) /\ entries[size] = {} /\ Len(h[u]) < GroupSize
    <2>1. Findable(h)
      BY <1>2, <1>6 DEF Findable
    <2> HIDE DEF u
    <2>2. u = Candidate(h, size)
      BY DEF u
    <2>3. /\ u \in 1 .. Len(h) /\ Belongs(h, size, u) /\ (Has(h[u], size) <=> entries[size] # {})
          /\ entries[size] # {} \/ Len(h[u]) < GroupSize
      BY <1>1, <1>6, <2>1, <2>2, CandidateIn
    <2> QED BY <1>1, <2>3
  <1>8. Good(t, entries) /\ t.groups = h /\ t.root = map.root
    <2> HIDE DEF t
    <2>1. t = [map EXCEPT !.groups = h]
      BY DEF t
    <2>2. Len(h) <= GroupSize /\ (map.root = "items" => Len(h) = 1)
      BY <1>2, <1>6
    <2>3. FlattenSeq(h) = FlattenSeq(map.groups)
      BY <1>6 DEF g
    <2>4. Good(t, entries)
      BY <1>1, <1>2, <1>6, <2>1, <2>2, <2>3, Regrouped
    <2>5. h \in Groups
      BY <1>6, TreeTypes
    <2> QED BY <1>2, <2>1, <2>4, <2>5 DEF MapType
  <1>9. [map EXCEPT !.groups = k] = [t EXCEPT !.groups = k]
    <2> HIDE DEF k
    <2> QED BY <1>2 DEF MapType
  <1>10. Sound(r, after)
    <2> HIDE DEF t, k, r, u, after
    <2>1. /\ k = Changed(h, u, WithItem(h[u], Item(size, {offset}))) /\ r = Counted([t EXCEPT !.groups = k])
          /\ after = Changed(entries, size, entries[size] \cup {offset}) /\ h = t.groups
      BY <1>8 DEF k, r, after
    <2> QED BY <1>2, <1>3, <1>7, <1>8, <2>1, PutIs
  <1>11. map' = Closed(r)
    BY <1>1, <1>9
  <1> HIDE DEF r, after
  <1>12. Whole("idle", map', after, NoJob)
    BY <1>4, <1>10, <1>11, FinishIs DEF Sound
  <1> QED BY <1>1, <1>12 DEF IInv

\* ... a size that is there, whose list is going to grow
LEMMA AddToListKeeps ==
    ASSUME IInv, pc = "idle", NEW size \in Sizes, NEW offset \in Offsets[size], AddToList(size, offset)
    PROVE  IInv'
  <1> DEFINE g == map.groups
             u == Candidate(g, size)
  <1>1. PICK n \in ListAllocs(Cardinality(Contents(map)[size])) :
            /\ map.root # "none" /\ u # 0 /\ Has(g[u], size)
            /\ map' = map /\ pc' = "list" /\ job' = [NewJob(size, offset, u) EXCEPT !.allocs = n] /\ entries' = entries
    BY DEF AddToList, WaitFor
  <1>2. /\ EntriesType(entries) /\ entries \in [Sizes -> SUBSET Nat] /\ Good(map, entries)
        /\ Tree(g, entries) /\ NoneEmpty(g) /\ Len(g) > 0 /\ Len(g) \in Nat
        /\ map.root = "parent" => Len(g) > 1
    BY <1>1, IdleIs
  <1>3. offset \in Nat /\ size \in Nat
    BY OffsetIs
  <1>4. u \in 1 .. Len(g) /\ Belongs(g, size, u) /\ entries[size] # {}
    <2> HIDE DEF u, g
    <2>1. u = Candidate(g, size) /\ Findable(g)
      BY <1>2 DEF u, Findable
    <2>2. u \in 1 .. Len(g) /\ Belongs(g, size, u) /\ (Has(g[u], size) <=> entries[size] # {})
      BY <1>1, <1>2, <2>1, CandidateIn
    <2> QED BY <1>1, <2>2
  <1>5. n \in Int
    <2>1. ListAllocs(Cardinality(Contents(map)[size])) \subseteq Int
      BY DEF ListAllocs
    <2> QED BY <2>1
  <1> HIDE DEF u
  <1>6. u \in Nat
    BY <1>2, <1>4
  <1>7. /\ job' \in JobType /\ job'.size = size /\ job'.offset = offset /\ job'.at = u
    BY <1>1, <1>3, <1>5, <1>6 DEF NewJob, NoJob, JobType
  <1>8. Pending(map', job') /\ AtList(map', entries', job')
    BY <1>1, <1>2, <1>4, <1>7 DEF Pending, AtList
  <1>9. Whole("list", map', entries', job')
    BY <1>1, <1>2, <1>7, <1>8 DEF Whole
  <1> QED BY <1>1, <1>9 DEF IInv

\* ... a new size without room, which waits for a group
LEMMA AddDeeperKeeps ==
    ASSUME IInv, pc = "idle", NEW size \in Sizes, NEW offset \in Offsets[size], AddDeeper(size, offset)
    PROVE  IInv'
  <1> DEFINE g == map.groups
             h == Roomy(g, size)
             u == Min(InsertPos(h, size))
             p == IF ~IsParent(map) THEN "root" ELSE IF Len(h) < GroupSize THEN "split" ELSE "level"
  <1>1. /\ map.root # "none" /\ Candidate(h, size) = 0
        /\ map' = [map EXCEPT !.groups = h] /\ pc' = p /\ job' = NewJob(size, offset, u) /\ entries' = entries
    BY DEF AddDeeper, WaitFor
  <1>2. /\ EntriesType(entries) /\ entries \in [Sizes -> SUBSET Nat] /\ Good(map, entries)
        /\ Tree(g, entries) /\ Fits(g) /\ NoneEmpty(g) /\ Len(g) <= GroupSize /\ Len(g) > 0 /\ Len(g) \in Nat
        /\ map.root = "items" => Len(g) = 1
        /\ map.root = "parent" => Len(g) > 1
        /\ map \in MapType /\ Calm(map)
    BY <1>1, IdleIs
  <1>3. h = g /\ Full(g) /\ entries[size] = {}
    <2>1. Room(h, g, entries, size)
      <3> HIDE DEF g
      <3> QED BY <1>2, RoomyIs
    <2> HIDE DEF h, g
    <2> QED BY <1>1, <2>1 DEF Room
  <1>4. map' = map
    <2>1. map' = [map EXCEPT !.groups = map.groups]
      BY <1>1, <1>3
    <2> QED BY <1>2, <2>1 DEF MapType
  <1>5. u \in 1 .. Len(g) /\ Belongs(g, size, u)
    <2> HIDE DEF u, g, h
    <2>1. u = Min(InsertPos(g, size)) /\ Findable(g)
      BY <1>2, <1>3 DEF u, Findable
    <2> QED BY <1>2, <2>1, FirstPlace
  <1>6. offset \in Nat /\ size \in Nat /\ u \in Nat
    BY <1>2, <1>5, OffsetIs
  <1> HIDE DEF u, h
  <1>7. /\ job' \in JobType /\ job'.size = size /\ job'.offset = offset /\ job'.at = u /\ job'.again = FALSE
    <2>1. NoJob \in JobType /\ NoJob.again = FALSE
      BY DEF NoJob, JobType
    <2>2. job' = [NoJob EXCEPT !.size = size, !.offset = offset, !.at = u]
      BY <1>1 DEF NewJob
    <2> QED BY <1>6, <2>1, <2>2 DEF JobType
  <1>8. Pending(map', job')
    BY <1>1, <1>4, <1>5, <1>7 DEF Pending
  <1>9. /\ p \in {"root", "split", "level"}
        /\ p = "root" => map.root = "items"
        /\ p # "root" => map.root = "parent"
        /\ p = "split" => Len(g) < GroupSize
    BY <1>1, <1>2, <1>3 DEF IsParent, MapType
  <1> HIDE DEF p
  <1>10. p = "root" => AtRoot(map', entries', job')
    <2> SUFFICES ASSUME p = "root" PROVE AtRoot(map', entries', job')
      OBVIOUS
    <2>1. Len(g) = 1 /\ map.root = "items"
      BY <1>2, <1>9
    <2>2. u = 1 /\ Len(g[1]) = GroupSize
      <3> HIDE DEF g
      <3> QED BY <1>3, <1>5, <2>1 DEF Full
    <2> QED BY <1>1, <1>3, <1>4, <1>7, <2>1, <2>2 DEF AtRoot
  <1>11. p = "split" => AtSplit(map', entries', job')
    BY <1>1, <1>2, <1>3, <1>4, <1>5, <1>7, <1>9 DEF AtSplit, Calm
  <1>12. p = "level" => AtLevel(map')
    BY <1>2, <1>3, <1>4, <1>9 DEF AtLevel, Calm
  <1>13. Whole(p, map', entries', job')
    BY <1>1, <1>2, <1>4, <1>7, <1>8, <1>9, <1>10, <1>11, <1>12 DEF Whole
  <1> QED BY <1>1, <1>13 DEF IInv

-----------------------------------------------------------------------------
(* ... and from there on                                                     *)

\* What is known inside an insertion
LEMMA PendingIs ==
    ASSUME IInv, pc # "idle"
    PROVE  /\ EntriesType(entries) /\ entries \in [Sizes -> SUBSET Nat] /\ Good(map, entries)
           /\ Tree(map.groups, entries) /\ Fits(map.groups) /\ Len(map.groups) <= GroupSize /\ Len(map.groups) \in Nat
           /\ map \in MapType /\ job \in JobType /\ map.root # "none"
           /\ job.size \in Sizes /\ job.size \in Nat /\ job.offset \in Offsets[job.size] /\ job.offset \in Nat
           /\ job.at \in 1 .. Len(map.groups)
           /\ pc = "list" => AtList(map, entries, job)
           /\ pc = "root" => AtRoot(map, entries, job)
           /\ pc = "split" => AtSplit(map, entries, job)
           /\ pc = "level" => AtLevel(map)
  <1>1. /\ EntriesType(entries) /\ Good(map, entries) /\ Pending(map, job) /\ job \in JobType
        /\ pc = "list" => AtList(map, entries, job)
        /\ pc = "root" => AtRoot(map, entries, job)
        /\ pc = "split" => AtSplit(map, entries, job)
        /\ pc = "level" => AtLevel(map)
    BY DEF IInv, Whole
  <1>2. /\ map.root # "none" /\ job.size \in Sizes /\ job.offset \in Offsets[job.size] /\ job.at \in 1 .. Len(map.groups)
    BY <1>1 DEF Pending
  <1>3. job.size \in Nat /\ job.offset \in Nat
    BY <1>2, OffsetIs
  <1>4. Tree(map.groups, entries) /\ Fits(map.groups) /\ Len(map.groups) <= GroupSize /\ map \in MapType
    BY <1>1 DEF Good
  <1>5. Len(map.groups) \in Nat
    BY <1>4, TreeTypes
  <1>6. entries \in [Sizes -> SUBSET Nat]
    BY <1>1 DEF EntriesType
  <1> QED BY <1>1, <1>2, <1>3, <1>4, <1>5, <1>6

\* ... an insertion that is given up
LEMMA FinishKeeps ==
    ASSUME IInv, pc # "idle", Finish(map), UNCHANGED entries
    PROVE  IInv'
  <1>1. EntriesType(entries) /\ Good(map, entries) /\ map.root # "none"
    BY PendingIs
  <1>2. map' = Closed(map) /\ pc' = "idle" /\ job' = NoJob /\ entries' = entries
    BY DEF Finish
  <1>3. Whole("idle", map', entries, NoJob)
    BY <1>1, <1>2, FinishIs
  <1> QED BY <1>2, <1>3 DEF IInv

\* ... a group for the list, from wherever it is taken
LEMMA GrowListKeeps ==
    ASSUME IInv, GrowList
    PROVE  IInv'
  <1>1. PICK s \in Sources : /\ map' = Without(s) /\ entries' = Taken(s) /\ job' = [job EXCEPT !.allocs = @ - 1]
                             /\ pc = "list" /\ pc' = "list"
    BY DEF GrowList
  <1> DEFINE g == map.groups
             h == map'.groups
             x == job.size
             at == job.at
  <1>2. /\ EntriesType(entries) /\ Good(map, entries) /\ Tree(g, entries) /\ Fits(g) /\ Len(g) \in Nat
        /\ job \in JobType /\ x \in Sizes /\ x \in Nat /\ job.offset \in Offsets[x] /\ at \in 1 .. Len(g)
        /\ AtList(map, entries, job) /\ map.root # "none"
    BY <1>1, PendingIs
  <1>3. /\ Belongs(g, x, at)
        /\ entries[x] # {} \/ Len(g[at]) < GroupSize
        /\ map.root = "parent" => Len(g) > 1
    BY <1>2 DEF AtList
  <1>4. map.root = "parent" /\ NoneEmpty(map.groups) => Len(Items(map)) > 1
    BY <1>2, <1>3, FlatLen DEF Items
  <1>5. Allocated(map', entries', map, entries)
    BY <1>1, <1>2, <1>4, SourceIs
  <1>6. /\ EntriesType(entries') /\ Good(map', entries') /\ map'.root = map.root /\ Len(h) = Len(g)
        /\ Belongs(h, x, at)
        /\ Len(h[at]) = Len(g[at]) \/ Len(h[at]) = Len(g[at]) - 1
        /\ entries'[x] = {} /\ entries[x] # {} => Len(h[at]) = Len(g[at]) - 1
    <2> HIDE DEF x, at
    <2> QED BY <1>2, <1>3, <1>5 DEF Allocated
  <1>7. job' \in JobType /\ job'.size = x /\ job'.offset = job.offset /\ job'.at = at
    BY <1>1, <1>2 DEF JobType
  <1>8. Len(g[at]) \in Nat /\ Len(g[at]) <= GroupSize /\ GroupSize \in Nat
    BY <1>2, TreeTypes, BlockMapAssumption DEF Fits
  <1> HIDE DEF g, h, x, at
  <1>9. entries'[x] # {} \/ Len(h[at]) < GroupSize
    <2> DEFINE k == Len(g[at])
               l == Len(h[at])
    <2>1. /\ k \in Nat /\ k <= GroupSize /\ GroupSize \in Nat /\ (l = k \/ l = k - 1)
          /\ entries[x] # {} \/ k < GroupSize
          /\ entries'[x] = {} /\ entries[x] # {} => l = k - 1
      BY <1>3, <1>6, <1>8
    <2> HIDE DEF k, l
    <2>2. entries'[x] # {} \/ l < GroupSize
      BY <2>1
    <2> QED BY <2>2 DEF l
  <1>10. AtList(map', entries', job') /\ Pending(map', job')
    BY <1>2, <1>3, <1>6, <1>7, <1>9 DEF AtList, Pending, g, h
  <1>11. Whole("list", map', entries', job')
    BY <1>6, <1>7, <1>10 DEF Whole
  <1> QED BY <1>1, <1>11 DEF IInv

\* ... the list that has its groups
LEMMA ListGrownKeeps ==
    ASSUME IInv, ListGrown
    PROVE  IInv'
  <1> DEFINE g == map.groups
             at == job.at
             x == job.size
             o == job.offset
             h == Changed(g, at, Listed(g[at], x, o))
             r == Counted([map EXCEPT !.groups = h])
             after == Changed(entries, x, entries[x] \cup {o})
  <1>1. /\ pc = "list" /\ map' = Closed(r) /\ pc' = "idle" /\ job' = NoJob /\ entries' = after
    BY DEF ListGrown, Finish, Give, Changed
  <1>2. /\ EntriesType(entries) /\ entries \in [Sizes -> SUBSET Nat] /\ Good(map, entries)
        /\ x \in Sizes /\ o \in Offsets[x] /\ o \in Nat /\ at \in 1 .. Len(g)
        /\ AtList(map, entries, job)
    BY <1>1, PendingIs
  <1>3. Belongs(g, x, at) /\ (entries[x] # {} \/ Len(g[at]) < GroupSize)
    BY <1>2 DEF AtList
  <1>4. EntriesType(after)
    BY <1>2, GivenIs
  <1>5. Sound(r, after)
    <2> HIDE DEF r, h, after, x, o, at, g
    <2>1. /\ h = Changed(g, at, Listed(g[at], x, o)) /\ r = Counted([map EXCEPT !.groups = h])
          /\ after = Changed(entries, x, entries[x] \cup {o}) /\ g = map.groups
      BY DEF r, h, after, g
    <2> QED BY <1>2, <1>3, <2>1, ListedIs
  <1> HIDE DEF r, after
  <1>6. Whole("idle", map', after, NoJob)
    BY <1>1, <1>4, <1>5, FinishIs DEF Sound
  <1> QED BY <1>1, <1>6 DEF IInv

\* The parent group a full map gets
LEMMA ParentIs ==
    ASSUME NEW t, NEW en, Good(t, en), t.root = "items", Len(t.groups[1]) \in {GroupSize, GroupSize - 1},
           NEW r, r = [t EXCEPT !.root = "parent", !.item_count = Len(Items(t))]
    PROVE  Good(r, en) /\ r.root = "parent" /\ r.groups = t.groups
  <1> DEFINE g == t.groups
             f == FlattenSeq(g)
  <1>1. t \in MapType /\ Tree(g, en) /\ Fits(g) /\ Len(g) <= GroupSize /\ Len(g) = 1 /\ t.dirty = FALSE
    BY DEF Good, MapType
  <1>2. Len(f) = Len(g[1]) /\ (f = <<>> <=> Len(f) = 0) /\ Len(f) \in Nat
    BY <1>1, FlatLen, TreeTypes
  <1>3. Len(g[1]) # 0
    <2> DEFINE k == Len(g[1])
    <2>1. GroupSize \in Nat /\ GroupSize >= 3 /\ k \in {GroupSize, GroupSize - 1}
      BY BlockMapAssumption
    <2> HIDE DEF k
    <2>2. k # 0
      BY <2>1
    <2> QED BY <2>2 DEF k
  <1>4. NoneEmpty(g)
    <2>1. \A v \in 1 .. Len(g) : v = 1
      BY <1>1
    <2> QED BY <1>3, <2>1 DEF NoneEmpty
  <1>5. r \in MapType /\ r.root = "parent" /\ r.groups = g /\ r.item_count = Len(f) /\ r.dirty = FALSE
    <2>1. r = [t EXCEPT !.root = "parent", !.item_count = Len(f)]
      BY DEF Items
    <2> HIDE DEF f, g
    <2>2. g = t.groups
      BY DEF g
    <2> QED BY <1>1, <1>2, <2>1, <2>2 DEF MapType
  <1> HIDE DEF f
  <1>6. Items(r) = f
    BY <1>5 DEF Items, f
  <1>7. f # <<>> /\ r.item_count >= Len(f)
    <2>1. Len(f) >= Len(f)
      BY <1>2
    <2> QED BY <1>2, <1>3, <1>5, <2>1
  <1>8. Good(r, en)
    BY <1>1, <1>4, <1>5, <1>6, <1>7 DEF Good
  <1> QED BY <1>5, <1>8

\* ... the parent group of a full map
LEMMA NewRootKeeps ==
    ASSUME IInv, NewRoot
    PROVE  IInv'
  <1>1. PICK s \in Sources :
            /\ map' = [Without(s) EXCEPT !.root = "parent", !.item_count = Len(Items(Without(s)))]
            /\ entries' = Taken(s) /\ pc = "root" /\ pc' = "split" /\ job' = [job EXCEPT !.again = TRUE]
    BY DEF NewRoot
  <1> DEFINE t == Without(s)
             en == Taken(s)
             x == job.size
             g == map.groups
             h == t.groups
  <1>2. /\ EntriesType(entries) /\ Good(map, entries) /\ Tree(g, entries)
        /\ job \in JobType /\ x \in Sizes /\ job.offset \in Offsets[x]
        /\ AtRoot(map, entries, job)
    BY <1>1, PendingIs
  <1>3. map.root = "items" /\ Len(g[1]) = GroupSize /\ job.at = 1 /\ entries[x] = {}
    BY <1>2 DEF AtRoot
  <1>4. Len(g) = 1
    BY <1>2, <1>3 DEF Good
  <1>5. map.root = "parent" /\ NoneEmpty(map.groups) => Len(Items(map)) > 1
    BY <1>3
  <1>6. Allocated(t, en, map, entries)
    <2> HIDE DEF t, en
    <2>1. t = Without(s) /\ en = Taken(s)
      BY DEF t, en
    <2> QED BY <1>2, <1>5, <2>1, SourceIs
  <1> HIDE DEF t, en
  <1>7. /\ EntriesType(en) /\ Good(t, en) /\ t.root = "items" /\ Len(h) = 1 /\ en[x] = {}
        /\ Len(h[1]) \in {GroupSize, GroupSize - 1}
    <2> HIDE DEF g, h, x
    <2>1. /\ Len(h) = Len(g) /\ 1 \in 1 .. Len(g)
          /\ \A v \in 1 .. Len(g) : Len(h[v]) = Len(g[v]) \/ Len(h[v]) = Len(g[v]) - 1
      BY <1>4, <1>6 DEF Allocated, g, h
    <2> QED BY <1>2, <1>3, <1>4, <1>6, <2>1 DEF Allocated
  <1>8. map' = [t EXCEPT !.root = "parent", !.item_count = Len(Items(t))]
    BY <1>1 DEF t
  <1>9. Good(map', en) /\ map'.root = "parent" /\ map'.groups = h
    BY <1>7, <1>8, ParentIs
  <1>10. job' \in JobType /\ job'.size = x /\ job'.offset = job.offset /\ job'.at = 1 /\ job'.again = TRUE
    BY <1>1, <1>2, <1>3 DEF JobType
  <1> HIDE DEF h, x
  <1>11. Belongs(h, x, 1)
    <2>1. \A v \in 1 .. Len(h) : ~(v < 1) /\ ~(v > 1)
      BY <1>7
    <2> QED BY <2>1 DEF Belongs
  <1>12. entries' = en
    BY <1>1 DEF en
  <1>13. AtSplit(map', en, job')
    BY <1>7, <1>9, <1>10, <1>11 DEF AtSplit
  <1>14. Pending(map', job')
    <2>1. map'.root # "none" /\ 1 \in 1 .. Len(map'.groups)
      BY <1>7, <1>9
    <2>2. job'.size \in Sizes /\ job'.offset \in Offsets[job'.size] /\ job'.at = 1
      BY <1>2, <1>10
    <2> QED BY <2>1, <2>2 DEF Pending
  <1>15. Whole("split", map', en, job')
    BY <1>7, <1>9, <1>10, <1>13, <1>14 DEF Whole
  <1> QED BY <1>1, <1>12, <1>15 DEF IInv

\* ... a split that gets no group
LEMMA SplitFailsKeeps ==
    ASSUME IInv, SplitFails
    PROVE  IInv'
  <1>1. pc = "split" /\ NotAdded(map) /\ entries' = entries
    BY DEF SplitFails
  <1>2. CASE job.again
    <2>1. Finish(map)
      BY <1>1, <1>2 DEF NotAdded
    <2> QED BY <1>1, <2>1, FinishKeeps
  <1>3. CASE ~job.again
    <2>1. map' = Closed(map) /\ pc' = "level" /\ job' = job
      BY <1>1, <1>3 DEF NotAdded
    <2>2. /\ EntriesType(entries) /\ Good(map, entries) /\ job \in JobType /\ AtSplit(map, entries, job)
          /\ Len(map.groups) \in Nat
      BY <1>1, PendingIs
    <2>3. map.root = "parent" /\ ~map.dirty /\ Full(map.groups) /\ Len(map.groups) > 1
      BY <1>3, <2>2 DEF AtSplit
    <2>4. ~(Len(map.groups) <= 1)
      <3> DEFINE n == Len(map.groups)
      <3>1. n \in Nat /\ n > 1
        BY <2>2, <2>3
      <3> HIDE DEF n
      <3>2. ~(n <= 1)
        BY <3>1
      <3> QED BY <3>2 DEF n
    <2>5. map' = map
      BY <2>1, <2>3, <2>4 DEF Closed, RootUpdated, IsParent
    <2>6. Pending(map, job)
      BY <1>1 DEF IInv, Whole
    <2>7. AtLevel(map)
      BY <2>3 DEF AtLevel
    <2>8. Whole("level", map, entries, job)
      BY <2>2, <2>6, <2>7 DEF Whole
    <2> QED BY <1>1, <2>1, <2>5, <2>8 DEF IInv
  <1>4. job.again \in BOOLEAN
    BY <1>1, PendingIs DEF JobType
  <1> QED BY <1>2, <1>3, <1>4

\* ... an offset that is removed
LEMMA RemoveOffsetKeeps ==
    ASSUME IInv, RemoveOffset
    PROVE  IInv'
  <1>0. PICK size \in Sizes : \E offset \in entries[size] :
            /\ map' = RootUpdated(Removed(map, size, offset, FALSE))
            /\ entries' = [entries EXCEPT ![size] = @ \ {offset}]
            /\ pc = "idle" /\ pc' = pc /\ job' = job
    BY DEF RemoveOffset
  <1>1. PICK offset \in entries[size] :
            /\ map' = RootUpdated(Removed(map, size, offset, FALSE))
            /\ entries' = [entries EXCEPT ![size] = @ \ {offset}]
            /\ pc = "idle" /\ pc' = pc /\ job' = job
    BY <1>0
  <1> DEFINE after == Changed(entries, size, entries[size] \ {offset})
  <1>2. /\ EntriesType(entries) /\ entries \in [Sizes -> SUBSET Nat] /\ Good(map, entries) /\ Calm(map) /\ job = NoJob
    BY <1>1, IdleIs
  <1>3. entries' = after
    BY <1>1 DEF Changed
  <1>4. EntriesType(after)
    <2>1. Lost(after, entries, size)
      BY <1>2, LostIs
    <2> QED BY <2>1 DEF Lost
  <1>5. Good(map', after) /\ Calm(map')
    BY <1>1, <1>2, RemovedUnlocked
  <1> HIDE DEF after
  <1>6. Whole("idle", map', after, NoJob)
    BY <1>4, <1>5, OverIs
  <1> QED BY <1>1, <1>2, <1>3, <1>6 DEF IInv

-----------------------------------------------------------------------------
(* parent_group_add_offset_internal from split_child on                      *)

\* What an allocation leaves of the tree that is going to be split
Parted(t, en, j) ==
    /\ EntriesType(en) /\ Good(t, en) /\ t.root = "parent"
    /\ Tree(t.groups, en) /\ Fits(t.groups) /\ Len(t.groups) \in Nat
    /\ j.size \in Sizes /\ j.offset \in Offsets[j.size] /\ j.at \in 1 .. Len(t.groups)
    /\ en[j.size] = {} /\ Belongs(t.groups, j.size, j.at)
    /\ Len(t.groups) < GroupSize
    /\ \A v \in 1 .. Len(t.groups) : Len(t.groups[v]) > 0
    /\ Len(t.groups) = 1 \/ \A v \in 1 .. Len(t.groups) : Len(t.groups[v]) > 1
    /\ ~t.dirty => \A v \in 1 .. Len(t.groups) : Len(t.groups[v]) > 1

\* That is what it leaves
LEMMA PartedIs ==
    ASSUME IInv, pc = "split", NEW s \in Sources, NEW t, t = Without(s), NEW en, en = Taken(s)
    PROVE  Parted(t, en, job)
  <1> DEFINE g == map.groups
             h == t.groups
             x == job.size
             at == job.at
  <1>1. /\ EntriesType(entries) /\ Good(map, entries) /\ Tree(g, entries) /\ Fits(g) /\ Len(g) \in Nat
        /\ job \in JobType /\ x \in Sizes /\ x \in Nat /\ job.offset \in Offsets[x] /\ at \in 1 .. Len(g)
        /\ AtSplit(map, entries, job)
    BY PendingIs
  <1>2. /\ map.root = "parent" /\ entries[x] = {} /\ Belongs(g, x, at)
        /\ job.again => Len(g) = 1 /\ Len(g[1]) \in {GroupSize, GroupSize - 1}
        /\ ~job.again => Full(g) /\ Len(g) > 1 /\ Len(g) < GroupSize
    BY <1>1 DEF AtSplit
  <1>3. GroupSize \in Nat /\ GroupSize >= 3 /\ job.again \in BOOLEAN
    BY <1>1, BlockMapAssumption DEF JobType
  <1>4. NoneEmpty(g) => Len(FlattenSeq(g)) > 1
    <2> SUFFICES ASSUME NoneEmpty(g) PROVE Len(FlattenSeq(g)) > 1
      OBVIOUS
    <2>1. CASE job.again
      <3>1. Len(FlattenSeq(g)) = Len(g[1])
        BY <1>1, <1>2, <2>1, FlatLen
      <3> DEFINE k == Len(g[1])
      <3>2. k \in {GroupSize, GroupSize - 1}
        BY <1>2, <2>1
      <3> HIDE DEF k
      <3>3. k > 1
        BY <1>3, <3>2
      <3> QED BY <3>1, <3>3 DEF k
    <2>2. CASE ~job.again
      BY <1>1, <1>2, <2>2, FlatLen
    <2> QED BY <1>3, <2>1, <2>2
  <1>5. Allocated(t, en, map, entries)
    <2>1. map.root = "parent" /\ NoneEmpty(map.groups) => Len(Items(map)) > 1
      BY <1>4 DEF Items
    <2> QED BY <1>1, <2>1, SourceIs
  <1>6. /\ EntriesType(en) /\ Good(t, en) /\ t.root = "parent" /\ Len(h) = Len(g) /\ Belongs(h, x, at) /\ en[x] = {}
        /\ \A v \in 1 .. Len(g) : Len(h[v]) = Len(g[v]) \/ Len(h[v]) = Len(g[v]) - 1
        /\ ~t.dirty => \A v \in 1 .. Len(g) : Len(h[v]) = Len(g[v])
    <2> HIDE DEF x, at
    <2> QED BY <1>1, <1>2, <1>5 DEF Allocated
  <1>7. Tree(h, en) /\ Fits(h)
    BY <1>6 DEF Good
  <1> HIDE DEF g, h
  <1>8. CASE job.again
    <2>1. Len(h) = 1 /\ Len(h) < GroupSize
      BY <1>2, <1>3, <1>6, <1>8
    <2>2. ASSUME NEW v \in 1 .. Len(h) PROVE Len(h[v]) > 0 /\ (~t.dirty => Len(h[v]) > 1)
      <3>1. v = 1 /\ v \in 1 .. Len(g)
        BY <1>6, <2>1
      <3> DEFINE k == Len(g[1])
                 l == Len(h[1])
      <3>2. k \in {GroupSize, GroupSize - 1} /\ (l = k \/ l = k - 1) /\ (~t.dirty => l = k)
        BY <1>2, <1>6, <1>8, <3>1
      <3> HIDE DEF k, l
      <3>3. l > 0 /\ (~t.dirty => l > 1)
        BY <1>3, <3>2
      <3> QED BY <3>1, <3>3 DEF l
    <2> QED BY <1>1, <1>6, <1>7, <2>1, <2>2 DEF Parted, h
  <1>9. CASE ~job.again
    <2>1. Len(h) < GroupSize
      BY <1>2, <1>6, <1>9
    <2>2. ASSUME NEW v \in 1 .. Len(h) PROVE Len(h[v]) > 1 /\ Len(h[v]) > 0
      <3> DEFINE k == Len(g[v])
                 l == Len(h[v])
      <3>1. k = GroupSize /\ (l = k \/ l = k - 1)
        BY <1>2, <1>6, <1>9 DEF Full
      <3> HIDE DEF k, l
      <3>2. l > 1 /\ l > 0
        BY <1>3, <3>1
      <3> QED BY <3>2 DEF l
    <2> QED BY <1>1, <1>6, <1>7, <2>1, <2>2 DEF Parted, h
  <1> QED BY <1>3, <1>8, <1>9

\* The tree with one more group, and room next to the place of the size
LEMMA SplitFits ==
    ASSUME NEW t, NEW en, NEW j, Parted(t, en, j), NEW g, g = t.groups, NEW at, at = j.at, NEW v, v = at + 1,
           NEW h, Tree(h, en), Halved(h, g, at, v)
    PROVE  /\ Fits(h) /\ Findable(h) /\ Len(h) <= GroupSize /\ (~t.dirty => NoneEmpty(h))
           /\ at \in 1 .. Len(h) /\ v \in 1 .. Len(h) /\ Len(h[at]) < GroupSize /\ Len(h[v]) < GroupSize
  <1> DEFINE n == Len(g)
  <1>1. /\ Tree(g, en) /\ Fits(g) /\ n \in Nat /\ at \in 1 .. n /\ n < GroupSize
        /\ \A w \in 1 .. n : Len(g[w]) > 0
        /\ n = 1 \/ \A w \in 1 .. n : Len(g[w]) > 1
        /\ ~t.dirty => \A w \in 1 .. n : Len(g[w]) > 1
    BY DEF Parted
  <1>2. \A w \in 1 .. n : Len(g[w]) \in Nat /\ Len(g[w]) <= GroupSize
    BY <1>1, TreeTypes DEF Fits
  <1>3. /\ Len(h) = n + 1 /\ Len(h[at]) = Len(g[at]) - 1 /\ Len(h[v]) = 1
        /\ \A w \in 1 .. Len(h) : (w < at => Len(h[w]) = Len(g[w])) /\ (w > v => Len(h[w]) = Len(g[w - 1]))
    BY DEF Halved
  <1>4. \A w \in 1 .. Len(h) : h[w] = <<>> <=> Len(h[w]) = 0
    BY TreeTypes
  <1>5. GroupSize \in Nat /\ GroupSize >= 3
    BY BlockMapAssumption
  <1> HIDE DEF n
  <1>6. at \in 1 .. Len(h) /\ v \in 1 .. Len(h) /\ Len(h) <= GroupSize /\ Len(h) > 0
    BY <1>1, <1>3, <1>5
  <1>7. Len(h[at]) < GroupSize /\ Len(h[v]) < GroupSize
    <2> DEFINE k == Len(g[at])
    <2>1. k \in Nat /\ k <= GroupSize
      BY <1>1, <1>2
    <2> HIDE DEF k
    <2>2. k - 1 < GroupSize /\ 1 < GroupSize
      BY <1>5, <2>1
    <2> QED BY <1>3, <2>2 DEF k
  <1>8. ASSUME NEW w \in 1 .. Len(h)
        PROVE  /\ Len(h[w]) <= GroupSize
               /\ w # at => Len(h[w]) # 0
               /\ Len(g[at]) > 1 => Len(h[w]) # 0
    <2>1. CASE w = at
      <3> DEFINE k == Len(g[at])
      <3>1. k \in Nat /\ k <= GroupSize /\ Len(h[w]) = k - 1
        BY <1>1, <1>2, <1>3, <2>1
      <3> HIDE DEF k
      <3>2. k - 1 <= GroupSize /\ (k > 1 => k - 1 # 0)
        BY <1>5, <3>1
      <3> QED BY <2>1, <3>1, <3>2 DEF k
    <2>2. CASE w = v
      <3>1. 1 <= GroupSize /\ 1 # 0
        BY <1>5
      <3>2. Len(h[w]) = 1
        BY <1>3, <2>2
      <3> QED BY <3>1, <3>2
    <2>3. CASE w # at /\ w # v
      <3>1. PICK y \in 1 .. n : Len(h[w]) = Len(g[y])
        <4>1. w < at \/ w > v
          BY <1>1, <2>3
        <4>2. w < at => w \in 1 .. n
          BY <1>1
        <4>3. w > v => w - 1 \in 1 .. n
          BY <1>1, <1>3
        <4> QED BY <1>3, <4>1, <4>2, <4>3
      <3> DEFINE k == Len(g[y])
      <3>2. k \in Nat /\ k <= GroupSize /\ k > 0 /\ Len(h[w]) = k
        BY <1>1, <1>2, <3>1
      <3> HIDE DEF k
      <3>3. k # 0
        BY <3>2
      <3> QED BY <3>2, <3>3
    <2> QED BY <2>1, <2>2, <2>3
  <1>9. Fits(h)
    BY <1>8 DEF Fits
  <1>10. Len(g[at]) > 1 => NoneEmpty(h)
    BY <1>4, <1>8 DEF NoneEmpty
  <1>11. Findable(h)
    <2>1. CASE Len(g[at]) > 1
      BY <1>6, <1>10, <2>1 DEF Findable
    <2>2. CASE ~(Len(g[at]) > 1)
      <3>1. n = 1 /\ at = 1 /\ v = 2 /\ Len(h) = 2
        BY <1>1, <1>3, <2>2
      <3>2. Len(h[1]) = 0 /\ Len(h[2]) # 0
        <4> DEFINE k == Len(g[at])
        <4>1. k \in Nat /\ k > 0 /\ ~(k > 1)
          BY <1>1, <1>2, <2>2
        <4> HIDE DEF k
        <4>2. k = 1 /\ k - 1 = 0
          BY <4>1
        <4>3. Len(h[1]) = 0
          BY <1>3, <3>1, <4>2 DEF k
        <4> QED BY <1>3, <3>1, <4>3
      <3>3. 1 \in 1 .. Len(h) /\ 2 \in 1 .. Len(h)
        BY <3>1
      <3> QED BY <1>4, <3>1, <3>2, <3>3 DEF Findable, Emptied
    <2> QED BY <2>1, <2>2
  <1>12. ~t.dirty => NoneEmpty(h)
    BY <1>1, <1>10
  <1> QED BY <1>6, <1>7, <1>9, <1>11, <1>12

\* One of the groups of the split tree takes the pending size
LEMMA SplitPlace ==
    ASSUME NEW t, NEW en, NEW j, Parted(t, en, j), NEW h, h = SplitAt(t.groups, j.at), NEW r, r = [t EXCEPT !.groups = h],
           NEW u, u = Candidate(h, j.size)
    PROVE  /\ Good(r, en) /\ r.groups = h
           /\ u # 0 /\ u \in 1 .. Len(h) /\ Belongs(h, j.size, u) /\ Len(h[u]) < GroupSize
  <1> DEFINE g == t.groups
             x == j.size
             at == j.at
             v == at + 1
  <1>1. /\ Good(t, en) /\ t.root = "parent" /\ Tree(g, en) /\ x \in Sizes /\ at \in 1 .. Len(g) /\ Belongs(g, x, at)
        /\ en[x] = {} /\ \A w \in 1 .. Len(g) : Len(g[w]) > 0
    BY DEF Parted
  <1>2. g[at] # <<>>
    <2>1. Len(g[at]) > 0 /\ (g[at] = <<>> <=> Len(g[at]) = 0)
      BY <1>1, TreeTypes
    <2> HIDE DEF g, at
    <2> QED BY <2>1
  <1>0. g = t.groups /\ at = j.at /\ v = at + 1 /\ h = SplitAt(g, at) /\ u = Candidate(h, x)
    OBVIOUS
  <1>00. x = j.size
    OBVIOUS
  <1> HIDE DEF g, x, at, v
  <1>3. /\ Tree(h, en) /\ FlattenSeq(h) = FlattenSeq(g)
        /\ Halved(h, g, at, v)
        /\ Belongs(h, x, at) \/ Belongs(h, x, v)
    BY <1>0, <1>1, <1>2, SplitAtIs
  <1>4. /\ Fits(h) /\ Findable(h) /\ Len(h) <= GroupSize /\ (~t.dirty => NoneEmpty(h))
        /\ at \in 1 .. Len(h) /\ v \in 1 .. Len(h) /\ Len(h[at]) < GroupSize /\ Len(h[v]) < GroupSize
    BY <1>0, <1>3, SplitFits
  <1>5. u # 0
    <2> SUFFICES ASSUME u = 0 PROVE FALSE
      OBVIOUS
    <2>1. \A w \in 1 .. Len(h) : Belongs(h, x, w) => ~(Len(h[w]) < GroupSize)
      BY <1>0, <1>1, <1>3, <1>4, CandidateIn
    <2> QED BY <1>3, <1>4, <2>1
  <1>6. u \in 1 .. Len(h) /\ Belongs(h, x, u) /\ Len(h[u]) < GroupSize
    <2>1. u \in 1 .. Len(h) /\ Belongs(h, x, u) /\ (en[x] # {} \/ Len(h[u]) < GroupSize)
      BY <1>0, <1>1, <1>3, <1>4, <1>5, CandidateIn
    <2> QED BY <1>1, <2>1
  <1>7. t \in MapType /\ h \in Groups
    BY <1>1, <1>3, TreeTypes DEF Good
  <1>8. r \in MapType /\ r.root = "parent" /\ r.groups = h /\ r.item_count = t.item_count /\ r.dirty = t.dirty
    BY <1>1, <1>7 DEF MapType
  <1>9. Items(r) = Items(t)
    BY <1>0, <1>3, <1>8 DEF Items
  <1>10. Good(r, en)
    BY <1>1, <1>3, <1>4, <1>8, <1>9 DEF Good
  <1> QED BY <1>00, <1>5, <1>6, <1>8, <1>10

\* The split keeps the invariant, whatever was taken for its group
LEMMA SplitKeeps ==
    ASSUME IInv, Split
    PROVE  IInv'
  <1>1. pc = "split"
    BY DEF Split
  <1>2. PICK s \in Sources :
        LET t      == Without(s)
            groups == SplitAt(t.groups, job.at)
            u      == Candidate(groups, job.size)
            item   == Item(job.size, {job.offset})
        IN  IF u = 0
            THEN NotAdded([t EXCEPT !.groups = groups]) /\ entries' = Taken(s)
            ELSE /\ Finish(Counted([t EXCEPT !.groups = [groups EXCEPT ![u] = WithItem(@, item)]]))
                 /\ entries' = [Taken(s) EXCEPT ![job.size] = @ \cup {job.offset}]
    BY DEF Split
  <1> DEFINE t == Without(s)
             en == Taken(s)
             x == job.size
             o == job.offset
             h == SplitAt(t.groups, job.at)
             u == Candidate(h, x)
             r == [t EXCEPT !.groups = h]
             k == Changed(h, u, WithItem(h[u], Item(x, {o})))
             w == Counted([r EXCEPT !.groups = k])
             after == Changed(en, x, en[x] \cup {o})
  <1>3. Parted(t, en, job)
    <2> HIDE DEF t, en
    <2>1. t = Without(s) /\ en = Taken(s)
      BY DEF t, en
    <2> QED BY <1>1, <2>1, PartedIs
  <1>4. u # 0 => Finish(Counted([t EXCEPT !.groups = k])) /\ entries' = after
    BY <1>2 DEF Changed
  <1> HIDE DEF t, en
  <1>5. /\ EntriesType(en) /\ Good(t, en) /\ x \in Sizes /\ o \in Offsets[x] /\ en[x] = {}
    BY <1>3 DEF Parted
  <1>6. o \in Nat /\ en \in [Sizes -> SUBSET Nat]
    BY <1>5, OffsetIs DEF EntriesType
  <1>7. /\ Good(r, en) /\ r.groups = h
        /\ u # 0 /\ u \in 1 .. Len(h) /\ Belongs(h, x, u) /\ Len(h[u]) < GroupSize
    <2> HIDE DEF h, u, r
    <2>1. h = SplitAt(t.groups, job.at) /\ r = [t EXCEPT !.groups = h] /\ u = Candidate(h, job.size)
      BY DEF h, u, r
    <2> QED BY <1>3, <2>1, SplitPlace
  <1>8. EntriesType(after)
    <2> HIDE DEF x, o, after
    <2>1. after = Changed(en, x, en[x] \cup {o})
      BY DEF after
    <2> QED BY <1>5, <2>1, GivenIs
  <1>9. [t EXCEPT !.groups = k] = [r EXCEPT !.groups = k]
    <2>1. t \in MapType
      BY <1>5 DEF Good
    <2> HIDE DEF k, h
    <2> QED BY <2>1 DEF MapType
  <1>10. Sound(w, after)
    <2> HIDE DEF h, u, r, k, w, after, x, o
    <2>1. /\ k = Changed(h, u, WithItem(h[u], Item(x, {o}))) /\ w = Counted([r EXCEPT !.groups = k])
          /\ after = Changed(en, x, en[x] \cup {o})
      BY DEF k, w, after
    <2> QED BY <1>5, <1>6, <1>7, <2>1, PutIs
  <1>11. map' = Closed(w) /\ pc' = "idle" /\ job' = NoJob /\ entries' = after
    BY <1>4, <1>7, <1>9 DEF Finish
  <1> HIDE DEF w, after
  <1>12. Whole("idle", map', after, NoJob)
    BY <1>8, <1>10, <1>11, FinishIs DEF Sound
  <1> QED BY <1>11, <1>12 DEF IInv

-----------------------------------------------------------------------------
(* The invariant                                                             *)

\* The empty map is as the invariant says
LEMMA InitKeeps == Init => IInv
  <1> SUFFICES ASSUME Init PROVE IInv
    OBVIOUS
  <1> DEFINE en == [s \in Sizes |-> {}]
             e == <<>>
             d == [w \in 0 .. 0 |-> 0]
  <1>1. map = EmptyMap /\ entries = en /\ pc = "idle" /\ job = NoJob
    BY DEF Init
  <1>2. \A s \in Sizes : en[s] = {}
    OBVIOUS
  <1>3. EntriesType(en)
    <2>1. en \in [Sizes -> SUBSET Nat]
      OBVIOUS
    <2> QED BY <1>2, <2>1 DEF EntriesType
  <1> HIDE DEF en
  <1>4. Cut(e, e, d)
    <2>1. e \in Groups /\ e \in Seq(ItemType) /\ Len(e) = 0
      BY DEF Groups
    <2>2. d \in [0 .. 0 -> Nat] /\ d[0] = 0
      OBVIOUS
    <2> HIDE DEF e, d
    <2>3. \A u \in 1 .. Len(e) : Piece(e[u], e, d[u - 1], d[u])
      BY <2>1
    <2> QED BY <2>1, <2>2, <2>3 DEF Cut
  <1>5. Sorted(e) /\ Holds(e, en)
    BY <1>2 DEF Sorted, Holds
  <1> HIDE DEF e, d
  <1>6. Tree(e, en)
    BY <1>4, <1>5, TreeOf
  <1>7. Good(EmptyMap, en) /\ Calm(EmptyMap)
    BY <1>6, EmptyMapIs DEF e
  <1>8. Whole("idle", EmptyMap, en, NoJob)
    BY <1>3, <1>7, OverIs
  <1> QED BY <1>1, <1>8 DEF IInv

\* mem_block_map_add_offset up to its first allocation keeps it
LEMMA AddKeeps ==
    ASSUME IInv, Add
    PROVE  IInv'
  <1>1. pc = "idle"
    BY DEF Add
  <1>2. PICK size \in Sizes : \E offset \in Offsets[size] \ entries[size] :
            AddFirst(size, offset) \/ AddItem(size, offset) \/ AddToList(size, offset) \/ AddDeeper(size, offset)
    BY DEF Add
  <1>3. PICK offset \in Offsets[size] \ entries[size] :
            AddFirst(size, offset) \/ AddItem(size, offset) \/ AddToList(size, offset) \/ AddDeeper(size, offset)
    BY <1>2
  <1>4. offset \in Offsets[size]
    OBVIOUS
  <1>5. CASE AddFirst(size, offset)
    BY <1>1, <1>4, <1>5, AddFirstKeeps
  <1>6. CASE AddItem(size, offset)
    BY <1>1, <1>4, <1>6, AddItemKeeps
  <1>7. CASE AddToList(size, offset)
    BY <1>1, <1>4, <1>7, AddToListKeeps
  <1>8. CASE AddDeeper(size, offset)
    BY <1>1, <1>4, <1>8, AddDeeperKeeps
  <1> QED BY <1>3, <1>5, <1>6, <1>7, <1>8

\* Every step keeps it
LEMMA NextKeeps == IInv /\ [Next]_vars => IInv'
  <1> SUFFICES ASSUME IInv, [Next]_vars PROVE IInv'
    OBVIOUS
  <1>1. CASE Add
    BY <1>1, AddKeeps
  <1>2. CASE RemoveOffset
    BY <1>2, RemoveOffsetKeeps
  <1>3. CASE GrowList
    BY <1>3, GrowListKeeps
  <1>4. CASE ListFails
    <2>1. pc # "idle" /\ Finish(map) /\ UNCHANGED entries
      BY <1>4 DEF ListFails
    <2> QED BY <2>1, FinishKeeps
  <1>5. CASE ListGrown
    BY <1>5, ListGrownKeeps
  <1>6. CASE NewRoot
    BY <1>6, NewRootKeeps
  <1>7. CASE Split
    BY <1>7, SplitKeeps
  <1>8. CASE SplitFails
    BY <1>8, SplitFailsKeeps
  <1>9. CASE NoLevel
    <2>1. pc # "idle" /\ Finish(map) /\ UNCHANGED entries
      BY <1>9 DEF NoLevel
    <2> QED BY <2>1, FinishKeeps
  <1>10. CASE UNCHANGED vars
    <2>1. map' = map /\ entries' = entries /\ pc' = pc /\ job' = job
      BY <1>10 DEF vars
    <2> QED BY <2>1 DEF IInv
  <1> QED BY <1>1, <1>2, <1>3, <1>4, <1>5, <1>6, <1>7, <1>8, <1>9, <1>10 DEF Next

(* IInv is an invariant of the map: at each allocation of an insertion the     *)
(* tree is sorted and holds the entries, and the call's locals still fit it.  *)
THEOREM MapInvariant == Spec => []IInv
  <1> QED BY InitKeeps, NextKeeps, PTL DEF Spec

-----------------------------------------------------------------------------
(* What follows from it                                                      *)

\* The invariant gives the types
LEMMA TypesFollow ==
    ASSUME IInv
    PROVE  TypeOK
  <1>1. /\ EntriesType(entries) /\ Good(map, entries) /\ job \in JobType
        /\ pc \in {"idle", "list", "root", "split", "level"}
        /\ pc = "idle" => job = NoJob
        /\ pc # "idle" => Pending(map, job)
    BY DEF IInv, Whole
  <1>2. map \in MapType /\ (map.root = "items" => Len(map.groups) = 1) /\ Tree(map.groups, entries)
    BY <1>1 DEF Good
  <1>3. Len(map.groups) \in Nat
    BY <1>2, TreeTypes
  <1>4. job.at \in 0 .. Len(map.groups)
    <2> DEFINE n == Len(map.groups)
    <2>1. pc = "idle" => job.at = 0
      BY <1>1 DEF NoJob
    <2>2. pc # "idle" => job.at \in 1 .. n
      BY <1>1 DEF Pending
    <2>3. n \in Nat
      BY <1>3
    <2> HIDE DEF n
    <2>4. job.at \in 0 .. n
      BY <2>1, <2>2, <2>3
    <2> QED BY <2>4 DEF n
  <1>5. \A s \in Sizes : entries[s] \subseteq Offsets[s]
    BY <1>1 DEF EntriesType
  <1> QED BY <1>1, <1>2, <1>4, <1>5 DEF TypeOK, MapType

\* ... the order over all groups
LEMMA OrderFollows ==
    ASSUME IInv
    PROVE  Ordered
  <1> DEFINE f == Items(map)
  <1>1. Tree(map.groups, entries) /\ Fits(map.groups) /\ Len(map.groups) <= GroupSize
    BY DEF IInv, Whole, Good
  <1>2. Sorted(f) /\ f \in Seq(ItemType)
    BY <1>1, TreeTypes DEF Tree, Items
  <1> HIDE DEF f
  <1>3. \A i \in 2 .. Len(f) : f[i - 1].size < f[i].size
    <2> SUFFICES ASSUME NEW i \in 2 .. Len(f) PROVE f[i - 1].size < f[i].size
      OBVIOUS
    <2> DEFINE j == i - 1
               n == Len(f)
    <2>1. n \in Nat
      BY <1>2
    <2>2. j \in 1 .. n /\ i \in 1 .. n /\ j < i
      <3> HIDE DEF n
      <3> QED BY <2>1 DEF n
    <2> HIDE DEF j, n
    <2>3. f[j].size < f[i].size
      BY <1>2, <2>2 DEF Sorted, n
    <2> QED BY <2>3 DEF j
  <1>4. DOMAIN map.groups = 1 .. Len(map.groups)
    BY <1>1, TreeTypes
  <1>5. \A u \in DOMAIN map.groups : Len(map.groups[u]) <= GroupSize
    BY <1>1, <1>4 DEF Fits
  <1> QED BY <1>1, <1>3, <1>5 DEF Ordered, f

\* ... that the map holds the entries
LEMMA EntriesFollow ==
    ASSUME IInv
    PROVE  HoldsEntries
  <1>1. EntriesType(entries) /\ Good(map, entries)
    BY DEF IInv, Whole
  <1> QED BY <1>1, GoodHolds DEF HoldsEntries

\* ... that nothing empty is left between two calls
LEMMA TidinessFollows ==
    ASSUME IInv
    PROVE  Tidy
  <1> SUFFICES ASSUME pc = "idle"
               PROVE  /\ \A u \in DOMAIN map.groups : map.groups[u] # <<>>
                      /\ ~map.dirty
                      /\ IsParent(map) => Len(map.groups) > 1
    BY DEF Tidy
  <1>1. Calm(map) /\ NoneEmpty(map.groups) /\ Tree(map.groups, entries)
    BY IdleIs
  <1>2. DOMAIN map.groups = 1 .. Len(map.groups)
    BY <1>1, TreeTypes
  <1> QED BY <1>1, <1>2 DEF Calm, NoneEmpty, IsParent

\* A tree without items
LEMMA NoneIs ==
    ASSUME NEW t, NEW en, Good(t, en), t.root = "none"
    PROVE  \A s \in Sizes : en[s] = {}
  <1>1. t = EmptyMap /\ Tree(t.groups, en)
    BY DEF Good
  <1>2. t.groups = <<>> /\ Len(t.groups) = 0
    BY <1>1 DEF EmptyMap
  <1>3. FlattenSeq(t.groups) = <<>>
    BY <1>1, <1>2, NoGroups
  <1> QED BY <1>1, <1>3, EmptyTree

\* ... that the search finds the best fit
LEMMA FitFollows ==
    ASSUME IInv
    PROVE  FitIsBest
  <1> SUFFICES ASSUME pc = "idle", NEW size \in Sizes, NEW enough, enough = {s \in Sizes : s >= size /\ entries[s] # {}}
               PROVE  FitFound(map, size) = IF enough = {} THEN 0 ELSE Min(enough)
    BY DEF FitIsBest
  <1>1. /\ Good(map, entries) /\ Tree(map.groups, entries) /\ NoneEmpty(map.groups)
        /\ map.root # "none" => Len(map.groups) > 0
    BY IdleIs
  <1>2. CASE map.root = "none"
    <2>1. enough = {}
      BY <1>1, <1>2, NoneIs
    <2>2. FitFound(map, size) = 0
      BY <1>2 DEF FitFound
    <2> QED BY <2>1, <2>2
  <1>3. CASE map.root # "none"
    <2>1. PICK f, c, p, q : Cut(map.groups, f, c) /\ Sorted(f) /\ Holds(f, entries) /\ Rank(f, size, p, q)
      BY <1>1, TreeRank
    <2>2. size \in Nat /\ f \in Seq(ItemType)
      BY <2>1, CutTypes, BlockMapAssumption
    <2>3. FitFound(map, size) = IF p < Len(f) THEN f[p + 1].size ELSE 0
      BY <1>1, <1>3, <2>1, <2>2, FitFoundIs
    <2>4. /\ p < Len(f) => enough # {} /\ Min(enough) = f[p + 1].size
          /\ ~(p < Len(f)) => enough = {}
      <3>1. Enough(enough, size, entries)
        BY DEF Enough
      <3>2. Best(enough, f, p)
        BY <2>1, <2>2, <3>1, BestIs
      <3> QED BY <3>2 DEF Best
    <2> QED BY <2>3, <2>4
  <1> QED BY <1>2, <1>3

\* ... that the item counted last is the last
LEMMA ReportFollows ==
    ASSUME IInv
    PROVE  ReportedIsLast
  <1> SUFFICES ASSUME pc = "idle", map.root # "none" PROVE LastReported(map) \in {0, Largest(map)}
    BY DEF ReportedIsLast
  <1> DEFINE f == Items(map)
             n == Len(f)
             k == IF IsParent(map) THEN map.item_count ELSE n
  <1>1. /\ map \in MapType /\ Tree(map.groups, entries)
        /\ map.root = "parent" => map.item_count >= n
    BY DEF IInv, Whole, Good
  <1>2. f \in Seq(ItemType) /\ n \in Nat /\ DOMAIN f = 1 .. n
    <2>1. f \in Seq(ItemType)
      BY <1>1, TreeTypes DEF Items
    <2> HIDE DEF f
    <2> QED BY <2>1
  <1>3. LastReported(map) = IF k \in DOMAIN f THEN f[k].size ELSE 0
    BY DEF LastReported
  <1>4. k >= n /\ k \in Nat
    <2> HIDE DEF n
    <2>1. map.item_count \in Nat /\ (IsParent(map) => map.item_count >= n)
      BY <1>1 DEF MapType, IsParent, n
    <2>2. n >= n
      BY <1>2
    <2> QED BY <1>2, <2>1, <2>2
  <1>5. Largest(map) = f[n].size
    BY DEF Largest, Last
  <1> HIDE DEF f, n, k
  <1>6. k \in DOMAIN f => k = n
    BY <1>2, <1>4
  <1> QED BY <1>3, <1>5, <1>6

\* ... that all groups are full when a level is asked for
LEMMA DepthFollows ==
    ASSUME IInv
    PROVE  DeeperOnlyWhenFull
  <1> SUFFICES ASSUME pc = "level" PROVE \A u \in DOMAIN map.groups : Len(map.groups[u]) = GroupSize
    BY DEF DeeperOnlyWhenFull
  <1>1. AtLevel(map) /\ Tree(map.groups, entries)
    BY DEF IInv, Whole, Good
  <1>2. DOMAIN map.groups = 1 .. Len(map.groups)
    BY <1>1, TreeTypes
  <1> QED BY <1>1, <1>2 DEF AtLevel, Full

(* The types of the map, with a count of the parent that never falls below 0. *)
THEOREM MapTypes == Spec => []TypeOK
  <1> QED BY MapInvariant, TypesFollow, PTL

(* Every search relies on it: the sizes ascend over all groups at each moment, *)
(* also while an insertion waits for a group, and no group is overfull.        *)
THEOREM MapOrdered == Spec => []Ordered
  <1> QED BY MapInvariant, OrderFollows, PTL

(* The map holds what was added and not removed or taken since, also when the  *)
(* allocation of a group took a block out of the very tree it is made for.     *)
THEOREM MapHoldsEntries == Spec => []HoldsEntries
  <1> QED BY MapInvariant, EntriesFollow, PTL

(* Whatever was taken while the insertion held the lock, it leaves no empty    *)
(* group and no superfluous root behind.                                       *)
THEOREM MapTidy == Spec => []Tidy
  <1> QED BY MapInvariant, TidinessFollows, PTL

(* mem_block_map_it_find and one step of the iterator find the smallest block  *)
(* that is big enough, in every tree the map can have between two calls.       *)
THEOREM MapFitIsBest == Spec => []FitIsBest
  <1> QED BY MapInvariant, FitFollows, PTL

(* The item that get_info takes for the largest is the largest, or none.       *)
THEOREM MapReportedIsLast == Spec => []ReportedIsLast
  <1> QED BY MapInvariant, ReportFollows, PTL

(* A further level is asked for only when no group has a place left.           *)
THEOREM MapDeeperOnlyWhenFull == Spec => []DeeperOnlyWhenFull
  <1> QED BY MapInvariant, DepthFollows, PTL

\* After the split of a group there is a place for the pending size
SplitHasRoom ==
    pc = "split" => \A s \in Sources : Candidate(SplitAt(Without(s).groups, job.at), job.size) # 0

(* An insertion that is granted the group it waits for goes through: whatever  *)
(* block was taken for the group, one half of the split one has a place for    *)
(* the size, and the retry of parent_group_add_offset_internal finds it.       *)
THEOREM MapSplitHasRoom == Spec => []SplitHasRoom
  <1>1. IInv => SplitHasRoom
    <2> SUFFICES ASSUME IInv, pc = "split", NEW s \in Sources
                 PROVE  Candidate(SplitAt(Without(s).groups, job.at), job.size) # 0
      BY DEF SplitHasRoom
    <2> DEFINE t == Without(s)
               en == Taken(s)
               h == SplitAt(t.groups, job.at)
               r == [t EXCEPT !.groups = h]
               u == Candidate(h, job.size)
    <2>1. t = Without(s) /\ en = Taken(s) /\ h = SplitAt(t.groups, job.at) /\ r = [t EXCEPT !.groups = h]
          /\ u = Candidate(h, job.size)
      OBVIOUS
    <2> HIDE DEF t, en, h, r, u
    <2>2. Parted(t, en, job)
      BY <2>1, PartedIs
    <2>3. u # 0
      BY <2>1, <2>2, SplitPlace
    <2> QED BY <2>3 DEF t, h, u
  <1> QED BY MapInvariant, <1>1, PTL

=============================================================================
