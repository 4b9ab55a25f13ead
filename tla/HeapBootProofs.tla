--------------------------- MODULE HeapBootProofs ---------------------------
(***************************************************************************)
(* What heap_caps_init and the regions added later leave behind, for every *)
(* layout of the memory and every width of size_t: a heap lies in its      *)
(* region, since the sums of multi_heap_register do not wrap for a region  *)
(* with an aligned start and room for a header.  With such regions only,   *)
(* all memory is in heaps, each locked by its own entry, and blocks lie in *)
(* their heap and overlap no other.                                        *)
(***************************************************************************)
EXTENDS HeapBoot, TLAPS

-----------------------------------------------------------------------------
(* The arithmetic. *)

LEMMA LayoutsAssumed ==
    /\ Merged \notin Types /\ StartupStack \subseteq Types /\ Entry \in Nat /\ Entry > 0 /\ Entry <= SizeMax
    /\ \A l \in Layouts :
         /\ l \in Seq(Region)
         /\ \A k \in DOMAIN l : l[k].start + l[k].size < Width
         /\ \A k \in 2 .. Len(l) : l[k - 1].start + l[k - 1].size <= l[k].start
         /\ Entry * Len(l) <= SizeMax
  BY BootAssumption, Zenon

LEMMA Numbers ==
    /\ Width \in Nat /\ Header \in Nat /\ Tags \in Nat /\ Reserve \in Nat /\ SizeMax \in Nat
    /\ Header % 8 = 0 /\ Tags > 0 /\ SizeMax + Tags + Reserve + 4 < Width
  BY BootAssumption

\* The end of a heap is rounded, but not to before its first byte: the sizes of an
\* aligned header and region differ by eight at least
LEMMA Rounded ==
    ASSUME NEW x \in Nat, NEW y \in Nat, x % 8 = 0, y >= x + 8
    PROVE  AlignDown(y, 16) \in Int /\ x <= AlignDown(y, 16) /\ AlignDown(y, 16) <= y
  BY DEF AlignDown

\* multi_heap_register stays in a region that fits
LEMMA HeapFits ==
    ASSUME NEW head \in Nat, NEW size \in Nat, head + size < Width,
           head % 8 = 0, size >= Header + 8
    PROVE  LET h == Heap(head, size)
           IN h.at = head /\ h.total \in Nat /\ head + Header + h.total <= head + size
  <1> USE Numbers
  <1>1. AlignUp(head, 8) = head
    BY DEF AlignUp
  <1>2. Wrap(head + Header) = head + Header /\ Wrap(head + size) = head + size
    BY DEF Wrap
  <1>3. (head + Header) % 8 = 0
    OBVIOUS
  <1>4. /\ AlignDown(head + size, 16) \in Int
        /\ head + Header <= AlignDown(head + size, 16)
        /\ AlignDown(head + size, 16) <= head + size
    BY <1>3, Rounded
  <1>5. Wrap(AlignDown(head + size, 16) - (head + Header)) = AlignDown(head + size, 16) - (head + Header)
    BY <1>4 DEF Wrap
  <1> DEFINE total == AlignDown(head + size, 16) - (head + Header)
  <1>6. Heap(head, size) = [at |-> head, total |-> total]
    BY <1>1, <1>2, <1>5 DEF Heap
  <1>7. total \in Nat /\ head + Header + total <= head + size
    BY <1>4
  <1> HIDE DEF total
  <1> QED BY <1>6, <1>7

\* mem_block_calc_size does not wrap for a size that heap_caps_malloc lets through:
\* the block has room for its tags and for the bytes asked for, whatever the width
THEOREM BlockSizeHolds ==
    ASSUME NEW size \in Nat, size <= SizeMax
    PROVE  size + Tags <= BlockSize(size) /\ BlockSize(size) <= size + Tags + 3
  <1> USE Numbers
  <1>1. AlignUp(size, 4) \in Nat /\ size <= AlignUp(size, 4) /\ AlignUp(size, 4) <= size + 3
    BY DEF AlignUp, Wrap
  <1> QED BY <1>1 DEF BlockSize, Wrap

-----------------------------------------------------------------------------
(* The invariant: what is known of a region, and that the heap of an entry *)
(* is the one multi_heap_register made of the entry's region.              *)

Place == 1 .. Width - 1

Part == {r \in [start : Place, size : Place, type : Types \cup {Merged}] :
            r.start + r.size < Width}

EntryType == [start : Place, end : Place, type : Types, heap : [at : Int, total : Int]]

Good(e) ==
    /\ e \in EntryType
    /\ e.start < e.end
    /\ e.heap = NoHeap \/ e.heap = Heap(e.start, e.end - e.start)

GoodEntries == {e \in EntryType : Good(e)}

BootInv ==
    /\ i \in Nat \ {0}
    /\ pc = "coalesce" => i >= 2
    /\ regions \in Seq(Part)
    /\ temp_heaps \in Seq(GoodEntries)
    /\ entries \in [DOMAIN entries -> GoodEntries]

LEMMA HeapType ==
    ASSUME NEW head \in Nat, NEW size \in Nat
    PROVE  Heap(head, size) \in [at : Int, total : Int]
  <1>1. AlignUp(head, 8) \in Int
    BY Numbers DEF AlignUp, Wrap
  <1>2. \A n \in Int : Wrap(n) \in Int /\ AlignDown(n, 16) \in Int
    BY Numbers DEF Wrap, AlignDown
  <1> QED BY <1>1, <1>2, Numbers DEF Heap

\* An entry that is written for a region, and one whose heap is registered
LEMMA UnregisteredGood ==
    ASSUME NEW s \in Place, NEW e \in Place, s < e, NEW t \in Types
    PROVE  Unregistered(s, e, t) \in GoodEntries
  BY DEF Unregistered, NoHeap, GoodEntries, Good, EntryType

LEMMA WithHeapGood ==
    ASSUME NEW e \in GoodEntries
    PROVE  WithHeap(e) \in GoodEntries
  <1>1. /\ e \in EntryType /\ e.start < e.end
        /\ e.start \in Nat /\ e.end - e.start \in Nat
    BY Numbers DEF GoodEntries, Good, EntryType, Place
  <1>2. Heap(e.start, e.end - e.start) \in [at : Int, total : Int]
    BY <1>1, HeapType
  <1>3. /\ WithHeap(e) \in EntryType
        /\ WithHeap(e).start = e.start /\ WithHeap(e).end = e.end
        /\ WithHeap(e).heap = Heap(e.start, e.end - e.start)
    BY <1>1, <1>2 DEF WithHeap, EntryType
  <1> QED BY <1>1, <1>3 DEF GoodEntries, Good

\* Two regions that meet make one that lies where they lay
LEMMA JoinedParts ==
    ASSUME NEW a \in Part, NEW b \in Part
    PROVE  Joined(a, b)[1] \in Part /\ Joined(a, b)[2] \in Part
  <1> USE Numbers DEF Part, Place
  <1>1. CASE b.start = a.start + a.size /\ b.type = a.type
    <2>1. [a EXCEPT !.type = Merged] \in Part
      OBVIOUS
    <2> DEFINE both == [start |-> a.start, size |-> a.size + b.size, type |-> b.type]
    <2>2. both \in Part
      <3>1. both.start + both.size = b.start + b.size /\ a.size + b.size \in Place
        BY <1>1
      <3> QED BY <3>1
    <2> QED BY <1>1, <2>1, <2>2 DEF Joined
  <1>2. CASE ~(b.start = a.start + a.size /\ b.type = a.type)
    BY <1>2 DEF Joined
  <1> QED BY <1>1, <1>2

-----------------------------------------------------------------------------
LEMMA InitBoot == Init => BootInv
  <1> SUFFICES ASSUME Init
               PROVE  BootInv
    OBVIOUS
  <1>1. /\ i = 2 /\ pc = "coalesce" /\ temp_heaps = <<>>
        /\ DOMAIN entries = {} /\ entries \in [DOMAIN entries -> GoodEntries]
    BY DEF Init
  <1>2. regions \in Seq(Part)
    <2>1. /\ regions \in Layouts /\ regions \in Seq(Region)
          /\ \A k \in DOMAIN regions : regions[k].start + regions[k].size < Width
      BY LayoutsAssumed DEF Init
    <2>2. \A k \in 1 .. Len(regions) : regions[k] \in Part
      <3> TAKE k \in 1 .. Len(regions)
      <3>1. regions[k] \in Region /\ regions[k].start + regions[k].size < Width
        BY <2>1
      <3> QED BY <3>1, Numbers DEF Region, Part, Place
    <2> QED BY <2>1, <2>2
  <1> QED BY <1>1, <1>2 DEF BootInv

LEMMA CoalesceKeeps == BootInv /\ Coalesce => BootInv'
  <1> SUFFICES ASSUME BootInv, Coalesce
               PROVE  BootInv'
    OBVIOUS
  <1>1. /\ i \in 2 .. Len(regions) /\ i' = i + 1 /\ pc' = pc
        /\ temp_heaps' = temp_heaps /\ entries' = entries
    BY DEF Coalesce, BootInv, registered
  <1>2. regions[i - 1] \in Part /\ regions[i] \in Part
    BY <1>1 DEF BootInv
  <1> DEFINE both == Joined(regions[i - 1], regions[i])
  <1>3. both[1] \in Part /\ both[2] \in Part
    BY <1>2, JoinedParts
  <1>4. regions' = [regions EXCEPT ![i - 1] = both[1], ![i] = both[2]]
    BY DEF Coalesce
  <1> HIDE DEF both
  <1>5. regions' \in Seq(Part)
    BY <1>1, <1>3, <1>4 DEF BootInv
  <1> QED BY <1>1, <1>5 DEF BootInv

LEMMA RegisterKeeps == BootInv /\ RegisterRegion => BootInv'
  <1> SUFFICES ASSUME BootInv, RegisterRegion
               PROVE  BootInv'
    OBVIOUS
  <1>1. /\ i \in Nat \ {0} /\ i' = i + 1 /\ pc' = pc /\ pc = "register" /\ i <= Len(regions)
        /\ regions' = regions /\ entries' = entries
    BY DEF RegisterRegion, BootInv
  <1>2. temp_heaps' \in Seq(GoodEntries)
    <2> DEFINE r == regions[i]
               e == Unregistered(r.start, r.start + r.size, r.type)
    <2>1. CASE temp_heaps' = temp_heaps
      BY <2>1 DEF BootInv
    <2>2. CASE r.type \in Types /\ (temp_heaps' = Append(temp_heaps, e) \/ temp_heaps' = Append(temp_heaps, WithHeap(e)))
      <3>1. r \in Part
        BY <1>1 DEF BootInv
      <3>2. r.start \in Place /\ r.start + r.size \in Place /\ r.start < r.start + r.size
        BY <3>1, Numbers DEF Part, Place
      <3> HIDE DEF r
      <3>3. e \in GoodEntries
        BY <2>2, <3>2, UnregisteredGood
      <3>4. WithHeap(e) \in GoodEntries
        BY <3>3, WithHeapGood
      <3> HIDE DEF e
      <3>5. temp_heaps \in Seq(GoodEntries)
        BY DEF BootInv
      <3>6. Append(temp_heaps, e) \in Seq(GoodEntries) /\ Append(temp_heaps, WithHeap(e)) \in Seq(GoodEntries)
        BY <3>3, <3>4, <3>5
      <3> QED BY <2>2, <3>5, <3>6
    <2>3. r.type \in StartupStack => r.type \in Types
      BY BootAssumption
    <2> QED BY <2>1, <2>2, <2>3 DEF RegisterRegion
  <1> QED BY <1>1, <1>2 DEF BootInv

LEMMA GotoKeeps ==
    ASSUME BootInv, NEW from, NEW to, NEW len, Goto(from, to, len), to # "coalesce"
    PROVE  BootInv'
  BY DEF Goto, BootInv, registered

\* The entries of the array are those of the stack
LEMMA ArrayKeeps == BootInv /\ AllocateArray => BootInv'
  <1> SUFFICES ASSUME BootInv, AllocateArray
               PROVE  BootInv'
    OBVIOUS
  <1>1. /\ pc' = "publish" /\ i' = 1 /\ regions' = regions /\ temp_heaps' = temp_heaps
    BY DEF AllocateArray
  <1>2. PICK array : entries' = [a \in {array + Entry * (n - 1) : n \in DOMAIN temp_heaps} |->
                               temp_heaps[CHOOSE n \in DOMAIN temp_heaps : a = array + Entry * (n - 1)]]
    BY DEF AllocateArray
  <1> DEFINE A == {array + Entry * (n - 1) : n \in DOMAIN temp_heaps}
             pos(a) == CHOOSE n \in DOMAIN temp_heaps : a = array + Entry * (n - 1)
  <1>3. DOMAIN entries' = A /\ \A a \in A : entries'[a] = temp_heaps[pos(a)]
    BY <1>2
  <1>4. \A a \in A : pos(a) \in DOMAIN temp_heaps
    OBVIOUS
  <1>5. entries' = [a \in A |-> temp_heaps[pos(a)]]
    BY <1>2
  <1> HIDE DEF A, pos
  <1>6. \A a \in A : temp_heaps[pos(a)] \in GoodEntries
    BY <1>4 DEF BootInv
  <1>7. entries' \in [DOMAIN entries' -> GoodEntries]
    BY <1>3, <1>5, <1>6
  <1> QED BY <1>1, <1>7 DEF BootInv

LEMMA PublishKeeps == BootInv /\ Publish => BootInv'
  BY DEF BootInv, Publish

LEMMA EnableKeeps ==
    ASSUME BootInv, NEW a \in DOMAIN entries, EnableStackHeap(a)
    PROVE  BootInv'
  <1>1. entries[a] \in GoodEntries
    BY DEF BootInv
  <1>2. WithHeap(entries[a]) \in GoodEntries
    BY <1>1, WithHeapGood
  <1>3. entries' = [entries EXCEPT ![a] = WithHeap(entries[a])]
    BY DEF EnableStackHeap
  <1>4. /\ i' = i /\ pc' = pc /\ regions' = regions /\ temp_heaps' = temp_heaps
    BY DEF EnableStackHeap, boot
  <1> QED BY <1>2, <1>3, <1>4 DEF BootInv

LEMMA AddKeeps ==
    ASSUME BootInv, NEW type \in Types, NEW r \in Additions, AddRegionWithCaps(type, r[1], r[2])
    PROVE  BootInv'
  <1> DEFINE new == WithHeap(Unregistered(r[1], r[2], type))
  <1>1. r[1] \in Place /\ r[2] \in Place /\ r[1] < r[2]
    BY BootAssumption DEF AddRegionWithCaps, Place
  <1>2. new \in GoodEntries
    BY <1>1, UnregisteredGood, WithHeapGood
  <1>3. /\ i' = i /\ pc' = pc /\ regions' = regions /\ temp_heaps' = temp_heaps
    BY DEF AddRegionWithCaps, boot
  <1>4. PICK p : entries' = Put(entries, p, new)
    BY DEF AddRegionWithCaps
  <1> HIDE DEF new
  <1>5. entries' \in [DOMAIN entries' -> GoodEntries]
    BY <1>2, <1>4 DEF BootInv, Put
  <1> QED BY <1>3, <1>5 DEF BootInv

LEMMA NextBoot == BootInv /\ [Next]_vars => BootInv'
  <1> SUFFICES ASSUME BootInv, [Next]_vars
               PROVE  BootInv'
    OBVIOUS
  <1>1. CASE Boot
    <2>1. \/ Coalesce \/ RegisterRegion \/ AllocateArray \/ Publish
          \/ \E from, to, len : Goto(from, to, len) /\ to # "coalesce"
      BY <1>1 DEF Boot
    <2> QED BY <2>1, CoalesceKeeps, RegisterKeeps, ArrayKeeps, PublishKeeps, GotoKeeps
  <1>2. CASE \E a \in DOMAIN entries : EnableStackHeap(a)
    BY <1>2, EnableKeeps
  <1>3. CASE \E size \in Sizes : Malloc(size)
    BY <1>3 DEF Malloc, BootInv, boot, registered
  <1>4. CASE \E r \in Additions : \E type \in Types : AddRegionWithCaps(type, r[1], r[2])
    BY <1>4, AddKeeps
  <1>5. CASE \E r \in Additions : AddRegion(r[1], r[2])
    <2>1. PICK r \in Additions, m \in Memory : AddRegionWithCaps(m.type, r[1], r[2])
      BY <1>5 DEF AddRegion
    <2>2. m.type \in Types
      BY BootAssumption DEF Region
    <2> QED BY <2>1, <2>2, AddKeeps
  <1>6. CASE UNCHANGED vars
    BY <1>6 DEF vars, boot, registered, BootInv
  <1> QED BY <1>1, <1>2, <1>3, <1>4, <1>5, <1>6 DEF Next

\* The invariant of the start-up and of the regions added later
THEOREM BootInvariant == Spec => []BootInv
  BY InitBoot, NextBoot, PTL DEF Spec

\* Every heap lies in its region, header and end, for every layout, header and width:
\* heap_caps_init, the stack heaps and heap_caps_add_region_with_caps register nothing
\* that reaches beyond it
THEOREM InsideRegion == Spec => []HeapsInside
  <1>1. BootInv => HeapsInside
    <2> SUFFICES ASSUME BootInv, NEW e \in Known, e.heap # NoHeap, Fits(e)
                 PROVE  Within(e)
      BY DEF HeapsInside
    <2>1. e \in GoodEntries
      BY DEF Known, BootInv
    <2>2. /\ e.start \in Nat /\ e.end - e.start \in Nat /\ e.end \in Nat
          /\ e.start + (e.end - e.start) < Width /\ e.start + (e.end - e.start) = e.end
          /\ e.heap = Heap(e.start, e.end - e.start)
      BY <2>1, Numbers DEF GoodEntries, Good, EntryType, Place
    <2>3. /\ e.heap.at = e.start /\ e.heap.total \in Nat
          /\ e.start + Header + e.heap.total <= e.end
      BY <2>2, HeapFits DEF Fits
    <2> QED BY <2>2, <2>3 DEF Within
  <1> QED BY <1>1, BootInvariant, PTL

-----------------------------------------------------------------------------
(* The invariant for regions that are aligned and have room for a header. *)

\* What the check of a region leaves out: multi_heap_register aligns the start
\* but keeps the size, and takes a region that has no room for a header
Regular ==
    /\ \A l \in Layouts : \A k \in DOMAIN l : l[k].start % 8 = 0 /\ l[k].size >= Header + 8
    /\ \A a \in Additions : a[1] < a[2] => a[1] % 8 = 0 /\ a[2] - a[1] >= Header + 8

\* The bytes of type t in the first n regions of r, and in the heaps h
InRegions(r, n, t, x) == \E k \in 1 .. n : r[k].type = t /\ x \in Span(r[k])

InHeaps(h, t, x) == \E k \in DOMAIN h : h[k].type = t /\ h[k].start <= x /\ x < h[k].end

HasNext(k) == k + 1 \in DOMAIN layout

\* Whether the loop is done with region k and the next one
Settled(k) == pc = "coalesce" => k + 1 < i

\* A region while regions are joined, and after: it ends where it ended, and a
\* merged one begins where the next one begins now
RegionOk(k) ==
    /\ regions[k].type \in {layout[k].type, Merged}
    /\ regions[k].start + regions[k].size = layout[k].start + layout[k].size
    /\ regions[k].start % 8 = 0 /\ regions[k].size >= Header + 8
    /\ regions[k].type = Merged =>
         /\ HasNext(k) /\ Settled(k)
         /\ layout[k].type = layout[k + 1].type /\ regions[k].start = regions[k + 1].start
    /\ regions[k].type # Merged /\ HasNext(k) => regions[k + 1].start = layout[k + 1].start
    /\ regions[k].type # Merged /\ HasNext(k) /\ Settled(k) =>
         ~(layout[k].start + layout[k].size = layout[k + 1].start /\ layout[k].type = layout[k + 1].type)
    /\ pc = "coalesce" /\ k >= i => regions[k] = layout[k]

SameBytes ==
    \A t \in Types : \A x \in Place :
        InRegions(layout, Len(layout), t, x) <=> InRegions(regions, Len(layout), t, x)

RegionInv ==
    /\ layout \in Layouts
    /\ DOMAIN regions = DOMAIN layout
    /\ \A k \in DOMAIN layout : RegionOk(k)
    /\ SameBytes

\* The heaps made of them are in the order of the memory, and joined
Arranged(h) ==
    /\ \A k \in DOMAIN h : Fits(h[k])
    /\ \A k, m \in DOMAIN h : k < m => h[k].end <= h[m].start
    /\ \A k \in 2 .. Len(h) : h[k - 1].end = h[k].start => h[k - 1].type # h[k].type

Covers(h, r, n) == \A t \in Types : \A x \in Place : InHeaps(h, t, x) <=> InRegions(r, n, t, x)

\* A heap at the start s of a region of type t can follow
Precedes(h, s, t) ==
    h # <<>> => h[Len(h)].end <= s /\ (h[Len(h)].end = s => h[Len(h)].type # t)

TempInv ==
    /\ pc = "coalesce" => temp_heaps = <<>>
    /\ Len(temp_heaps) <= Len(layout)
    /\ Arranged(temp_heaps)
    /\ pc = "register" =>
         /\ Len(temp_heaps) < i
         /\ i <= Len(layout) + 1
         /\ Covers(temp_heaps, regions, i - 1)
         /\ i \in DOMAIN layout => Precedes(temp_heaps, regions[i].start, layout[i].type)
    /\ pc \notin {"coalesce", "register"} => Covers(temp_heaps, layout, Len(layout))

\* No heap has a block yet
EmptyInv ==
    /\ blocks = {} /\ DOMAIN entries = {} /\ list = <<>>
    /\ \A k \in DOMAIN temp_heaps :
         temp_heaps[k].heap # NoHeap =>
             temp_heaps[k].heap.at \in DOMAIN used /\ used[temp_heaps[k].heap.at] = 0

\* In what follows en, us, bl are entries, used and blocks
HeapOk(e, us) ==
    /\ Fits(e)
    /\ e.heap # NoHeap => e.heap.at \in DOMAIN us /\ us[e.heap.at] \in 0 .. e.heap.total

BlockOk(b, en, us) ==
    /\ b \in [at : Nat, size : Nat, heap : Nat, asked : Nat]
    /\ b.asked + Tags <= b.size
    /\ b.heap + Header <= b.at /\ b.at + b.size <= b.heap + Header + us[b.heap]
    /\ \E a \in DOMAIN en : en[a].heap # NoHeap /\ en[a].heap.at = b.heap

Disjoint(b, c) == b.at + b.size <= c.at \/ c.at + c.size <= b.at

Apart(e, f) == e.end <= f.start \/ f.end <= e.start

\* The region of f lies in a block of e's heap, one that was handed to a caller
Hosts(e, f, en, bl) ==
    /\ e.heap # NoHeap
    /\ \E b \in bl : /\ b.heap = e.heap.at /\ Pointer(b) \notin DOMAIN en
                     /\ Pointer(b) <= f.start /\ f.end <= Pointer(b) + b.asked

\* Regions are apart, or one lies in a block of the other
Nested(en, bl) ==
    \A a, c \in DOMAIN en :
        a # c => Apart(en[a], en[c]) \/ Hosts(en[a], en[c], en, bl) \/ Hosts(en[c], en[a], en, bl)

\* An entry lies in a block that begins with an entry
Placed(en, bl) ==
    \A a \in DOMAIN en : \E b \in bl : Pointer(b) \in DOMAIN en /\ b.at <= a /\ a < b.at + b.size

Sound(en, us, bl) ==
    /\ en \in [DOMAIN en -> GoodEntries] /\ DOMAIN en \subseteq Nat
    /\ \A a \in DOMAIN en : HeapOk(en[a], us)
    /\ \A b \in bl : BlockOk(b, en, us)
    /\ \A b, c \in bl : b # c /\ b.heap = c.heap => Disjoint(b, c)
    /\ Nested(en, bl)
    /\ Placed(en, bl)

SameRegion(e, f) == e.start = f.start /\ e.end = f.end /\ e.type = f.type

\* The address of the n-th entry of the array
Slot(base, n) == base + Entry * (n - 1)

ArrayAt(base, en, h) ==
    \A n \in DOMAIN h : Slot(base, n) \in DOMAIN en /\ SameRegion(en[Slot(base, n)], h[n])

\* The list is the part of the array that was published
PublishInv(base) ==
    /\ DOMAIN entries = {Slot(base, n) : n \in DOMAIN temp_heaps}
    /\ i <= Len(temp_heaps) + 1 /\ Len(list) = i - 1
    /\ \A n \in 1 .. i - 1 : list[n] = Slot(base, n)

\* The list is the array, behind what was added later
RunList(base) ==
    /\ Len(list) >= Len(temp_heaps)
    /\ \A n \in DOMAIN temp_heaps : list[Len(list) - Len(temp_heaps) + n] = Slot(base, n)
    /\ Listed = DOMAIN entries

Locked(en, l, lk) == \A a \in l : en[a].heap # NoHeap => lk[en[a].heap.at] = a

ListInv ==
    /\ list \in Seq(DOMAIN entries)
    /\ \E base \in Nat : /\ ArrayAt(base, entries, temp_heaps)
                         /\ pc = "publish" => PublishInv(base)
                         /\ pc = "run" => RunList(base)
    /\ Locked(entries, Listed, lock)

StartInv ==
    /\ BootInv /\ RegionInv /\ TempInv
    /\ DOMAIN lock = DOMAIN used
    /\ IF pc \in {"publish", "run"} THEN Sound(entries, used, blocks) /\ ListInv
                                    ELSE EmptyInv

-----------------------------------------------------------------------------
(* Joining the regions *)

LEMMA LayoutFacts ==
    ASSUME Regular, NEW l \in Layouts
    PROVE  /\ Len(l) \in Nat /\ DOMAIN l = 1 .. Len(l)
           /\ \A k \in 1 .. Len(l) : /\ l[k].start \in Nat /\ l[k].size \in Nat /\ l[k].start > 0
                                     /\ l[k].size >= Header + 8 /\ l[k].start % 8 = 0
                                     /\ l[k].start + l[k].size < Width
                                     /\ l[k].type \in Types /\ l[k].type # Merged
           /\ \A k \in 2 .. Len(l) : l[k - 1].start + l[k - 1].size <= l[k].start
  <1>1. l \in Seq(Region)
    BY LayoutsAssumed
  <1>2. Len(l) \in Nat /\ DOMAIN l = 1 .. Len(l) /\ \A k \in 1 .. Len(l) : l[k] \in Region
    BY <1>1
  <1>3. ASSUME NEW k \in 1 .. Len(l)
        PROVE  /\ l[k].start \in Nat /\ l[k].size \in Nat /\ l[k].start > 0
               /\ l[k].type \in Types /\ l[k].type # Merged
               /\ l[k].size >= Header + 8 /\ l[k].start % 8 = 0
               /\ l[k].start + l[k].size < Width
    <2>1. l[k].start \in Nat /\ l[k].size \in Nat /\ l[k].start > 0 /\ l[k].type \in Types
      BY <1>2, Numbers DEF Region
    <2>2. l[k].type # Merged
      BY <2>1, LayoutsAssumed
    <2>3. k \in DOMAIN l
      BY <1>2
    <2>4. l[k].size >= Header + 8 /\ l[k].start % 8 = 0
      BY <2>3 DEF Regular
    <2>5. l[k].start + l[k].size < Width
      BY <2>3, LayoutsAssumed
    <2> QED BY <2>1, <2>2, <2>4, <2>5
  <1>4. \A k \in 2 .. Len(l) : l[k - 1].start + l[k - 1].size <= l[k].start
    BY LayoutsAssumed
  <1> QED BY <1>2, <1>3, <1>4

LEMMA InSpan ==
    ASSUME NEW r, r.start \in Nat, r.size \in Nat, NEW x \in Nat
    PROVE  x \in Span(r) <=> r.start <= x /\ x < r.start + r.size
  BY DEF Span

LEMMA InitRegions ==
    ASSUME Regular, Init
    PROVE  RegionInv
  <1>1. layout \in Layouts /\ regions = layout /\ i = 2 /\ pc = "coalesce"
    BY DEF Init
  <1>2. ASSUME NEW k \in DOMAIN layout
        PROVE  RegionOk(k)
    <2>1. /\ k \in Nat /\ k >= 1 /\ layout[k].type # Merged
          /\ layout[k].start % 8 = 0 /\ layout[k].size >= Header + 8
      BY <1>1, LayoutFacts
    <2> QED BY <1>1, <2>1 DEF RegionOk, HasNext, Settled
  <1>3. SameBytes
    <2>1. DOMAIN layout = 1 .. Len(layout)
      BY <1>1, LayoutFacts
    <2> QED BY <1>1, <2>1 DEF SameBytes, InRegions
  <1> QED BY <1>1, <1>2, <1>3 DEF RegionInv

\* What the loop finds in front of it
LEMMA CoalesceFinds ==
    ASSUME Regular, BootInv, RegionInv, Coalesce
    PROVE  /\ i \in 2 .. Len(layout) /\ i - 1 \in DOMAIN layout /\ i \in DOMAIN layout
           /\ DOMAIN layout = 1 .. Len(layout) /\ Len(layout) \in Nat
           /\ regions[i] = layout[i]
           /\ regions[i - 1].type = layout[i - 1].type
           /\ regions[i - 1].type \in Types
           /\ \A k \in DOMAIN layout : regions[k] \in Part
  <1>1. /\ i \in Nat /\ i >= 2 /\ i <= Len(regions) /\ pc = "coalesce"
        /\ regions \in Seq(Part) /\ DOMAIN regions = DOMAIN layout
    BY DEF Coalesce, BootInv, RegionInv
  <1>2. Len(layout) \in Nat /\ DOMAIN layout = 1 .. Len(layout)
    BY LayoutFacts DEF RegionInv
  <1>3. Len(regions) = Len(layout)
    BY <1>1, <1>2
  <1>4. i - 1 \in DOMAIN layout /\ i \in DOMAIN layout
    BY <1>1, <1>2, <1>3
  <1>5. regions[i] = layout[i]
    BY <1>1, <1>4 DEF RegionInv, RegionOk
  <1>6. regions[i - 1].type = layout[i - 1].type
    BY <1>1, <1>4 DEF RegionInv, RegionOk, Settled
  <1>7. layout[i - 1].type \in Types
    BY <1>2, <1>4, LayoutFacts DEF RegionInv
  <1> QED BY <1>1, <1>2, <1>3, <1>4, <1>5, <1>6, <1>7

\* Two regions, and what is left of them
JoinedBoth(a, b, c, d) ==
    /\ b.start = a.start + a.size /\ b.type = a.type
    /\ c.start = a.start /\ c.size = a.size /\ c.type = Merged
    /\ d.start = a.start /\ d.size = a.size + b.size /\ d.type = b.type

LEMMA JoinedCases ==
    ASSUME NEW a \in Part, NEW b \in Part
    PROVE  \/ JoinedBoth(a, b, Joined(a, b)[1], Joined(a, b)[2])
           \/ /\ ~(b.start = a.start + a.size /\ b.type = a.type)
              /\ Joined(a, b) = <<a, b>>
  <1>1. CASE b.start = a.start + a.size /\ b.type = a.type
    <2> DEFINE c == [a EXCEPT !.type = Merged]
               d == [start |-> a.start, size |-> a.size + b.size, type |-> b.type]
    <2>1. Joined(a, b) = <<c, d>>
      BY <1>1 DEF Joined
    <2>2. c.start = a.start /\ c.size = a.size /\ c.type = Merged
      BY DEF Part
    <2>3. d.start = a.start /\ d.size = a.size + b.size /\ d.type = b.type
      OBVIOUS
    <2> HIDE DEF c, d
    <2>4. JoinedBoth(a, b, c, d)
      BY <1>1, <2>2, <2>3 DEF JoinedBoth
    <2>5. Joined(a, b)[1] = c /\ Joined(a, b)[2] = d
      BY <2>1
    <2> QED BY <2>4, <2>5
  <1>2. CASE ~(b.start = a.start + a.size /\ b.type = a.type)
    BY <1>2 DEF Joined
  <1> QED BY <1>1, <1>2

\* The loop's step, in either case
Merging == JoinedBoth(regions[i - 1], regions[i], regions'[i - 1], regions'[i])
Passing ==
    /\ ~(regions[i].start = regions[i - 1].start + regions[i - 1].size /\ regions[i].type = regions[i - 1].type)
    /\ regions' = regions

LEMMA CoalesceCases ==
    ASSUME Regular, BootInv, RegionInv, Coalesce
    PROVE  /\ pc = "coalesce" /\ pc' = pc /\ i' = i + 1 /\ layout' = layout
           /\ DOMAIN regions' = DOMAIN layout
           /\ \A k \in DOMAIN layout : k # i - 1 /\ k # i => regions'[k] = regions[k]
           /\ Merging \/ Passing
  <1> DEFINE both == Joined(regions[i - 1], regions[i])
  <1>1. /\ i \in Nat /\ i - 1 \in DOMAIN regions /\ i \in DOMAIN regions /\ DOMAIN regions = DOMAIN layout
        /\ regions[i - 1] \in Part /\ regions[i] \in Part
    BY CoalesceFinds DEF RegionInv
  <1>2. regions' = [regions EXCEPT ![i - 1] = both[1], ![i] = both[2]]
    BY DEF Coalesce
  <1>3. /\ JoinedBoth(regions[i - 1], regions[i], both[1], both[2])
        \/ /\ ~(regions[i].start = regions[i - 1].start + regions[i - 1].size
                /\ regions[i].type = regions[i - 1].type)
           /\ both = <<regions[i - 1], regions[i]>>
    BY <1>1, JoinedCases
  <1> HIDE DEF both
  <1>4. /\ regions'[i - 1] = both[1] /\ regions'[i] = both[2] /\ DOMAIN regions' = DOMAIN regions
        /\ \A k \in DOMAIN regions : k # i - 1 /\ k # i => regions'[k] = regions[k]
    BY <1>1, <1>2
  <1>5. JoinedBoth(regions[i - 1], regions[i], both[1], both[2]) => Merging
    BY <1>4 DEF Merging
  <1>6. both = <<regions[i - 1], regions[i]>> => regions' = regions
    <2> SUFFICES ASSUME both = <<regions[i - 1], regions[i]>>
                 PROVE  regions' = regions
      OBVIOUS
    <2>1. both[1] = regions[i - 1] /\ both[2] = regions[i]
      OBVIOUS
    <2>2. regions \in [DOMAIN regions -> Part]
      BY DEF BootInv
    <2> QED BY <1>2, <2>1, <2>2
  <1>7. pc = "coalesce" /\ pc' = pc /\ i' = i + 1 /\ layout' = layout
    BY DEF Coalesce
  <1> QED BY <1>1, <1>3, <1>4, <1>5, <1>6, <1>7 DEF Passing

\* The region that is processed and those before it
LEMMA CoalesceOk ==
    ASSUME Regular, BootInv, RegionInv, Coalesce, NEW k \in DOMAIN layout
    PROVE  RegionOk(k)'
  <1> DEFINE n == Len(layout)
  <1>1. /\ i \in 2 .. n /\ n \in Nat /\ DOMAIN layout = 1 .. n
        /\ regions[i] = layout[i] /\ regions[i - 1].type = layout[i - 1].type
        /\ regions[i - 1].type \in Types
    BY CoalesceFinds
  <1>2. /\ pc = "coalesce" /\ pc' = pc /\ i' = i + 1 /\ layout' = layout
        /\ \A m \in DOMAIN layout : m # i - 1 /\ m # i => regions'[m] = regions[m]
        /\ Merging \/ Passing
    BY CoalesceCases
  <1>3. \A m \in 1 .. n : /\ regions[m].start \in Nat /\ regions[m].size \in Nat
                          /\ layout[m].start \in Nat /\ layout[m].size \in Nat
                          /\ layout[m].size >= Header + 8 /\ layout[m].start % 8 = 0
                          /\ layout[m].type \in Types
    <2>1. \A m \in 1 .. n : regions[m].start \in Nat /\ regions[m].size \in Nat
      BY <1>1, CoalesceFinds DEF Part, Place
    <2> QED BY <2>1, LayoutFacts DEF RegionInv
  <1>4. \A m \in 1 .. n : RegionOk(m)
    BY <1>1 DEF RegionInv
  <1>5. Merged \notin Types /\ Header \in Nat
    BY LayoutsAssumed, Numbers
  <1> HIDE DEF n
  <1>6. i - 1 \in 1 .. n /\ i \in 1 .. n /\ k \in 1 .. n
    BY <1>1
  <1>7. CASE Passing
    <2>1. regions' = regions
      BY <1>7 DEF Passing
    <2>2. k + 1 < i + 1 /\ HasNext(k) => k + 1 < i \/ k = i - 1
      BY <1>1, <1>6
    <2>3. k = i - 1 => ~(layout[k].start + layout[k].size = layout[k + 1].start /\ layout[k].type = layout[k + 1].type)
      BY <1>1, <1>4, <1>6, <1>7 DEF Passing, RegionOk
    <2> QED BY <1>1, <1>2, <1>4, <1>6, <2>1, <2>2, <2>3 DEF RegionOk, HasNext, Settled
  <1>8. CASE Merging
    <2>1. /\ regions[i].start = regions[i - 1].start + regions[i - 1].size
          /\ regions[i].type = regions[i - 1].type
          /\ regions'[i - 1].start = regions[i - 1].start /\ regions'[i - 1].size = regions[i - 1].size
          /\ regions'[i - 1].type = Merged
          /\ regions'[i].start = regions[i - 1].start
          /\ regions'[i].size = regions[i - 1].size + regions[i].size
          /\ regions'[i].type = regions[i].type
      BY <1>8 DEF Merging, JoinedBoth
    <2>2. RegionOk(i - 1) /\ RegionOk(i) /\ RegionOk(k)
      BY <1>4, <1>6
    <2>3. CASE k = i
      <3>1. regions[i - 1].start % 8 = 0 /\ regions[i - 1].size >= Header + 8
        BY <2>2 DEF RegionOk
      <3>2. /\ regions'[i].type \in {layout[i].type, Merged} /\ regions'[i].type # Merged
            /\ regions'[i].start + regions'[i].size = layout[i].start + layout[i].size
            /\ regions'[i].start % 8 = 0 /\ regions'[i].size >= Header + 8
        <4>1. /\ regions[i - 1].start \in Nat /\ regions[i - 1].size \in Nat /\ layout[i].size \in Nat
              /\ layout[i].start \in Nat /\ layout[i].type \in Types /\ layout[i].size >= Header + 8
          BY <1>3, <1>6
        <4>2. /\ regions'[i].type = layout[i].type /\ regions'[i].start = regions[i - 1].start
              /\ regions'[i].size = regions[i - 1].size + layout[i].size
              /\ layout[i].start = regions[i - 1].start + regions[i - 1].size
          BY <1>1, <2>1
        <4>3. regions'[i].start + regions'[i].size = layout[i].start + layout[i].size
          BY <4>1, <4>2
        <4>4. regions'[i].size >= Header + 8
          BY <1>5, <4>1, <4>2
        <4> QED BY <1>5, <3>1, <4>1, <4>2, <4>3, <4>4
      <3>3. HasNext(i) => regions'[i + 1] = layout[i + 1]
        <4>1. HasNext(i) => RegionOk(i + 1) /\ i + 1 # i - 1 /\ i + 1 # i
          BY <1>1, <1>4 DEF HasNext
        <4> QED BY <1>1, <1>2, <4>1 DEF RegionOk, HasNext
      <3> QED BY <1>1, <1>2, <2>3, <3>2, <3>3 DEF RegionOk, HasNext, Settled
    <2>4. CASE k = i - 1
      <3>1. HasNext(k) /\ Settled(k)' /\ k + 1 = i
        BY <1>1, <1>2, <1>6, <2>4 DEF HasNext, Settled
      <3> QED BY <1>1, <1>2, <1>3, <1>6, <2>1, <2>2, <2>4, <3>1 DEF RegionOk, HasNext, Settled
    <2>5. CASE k # i /\ k # i - 1
      <3>1. regions'[k] = regions[k]
        BY <1>2, <2>5
      <3>2. k + 1 # i - 1 /\ k + 1 # i /\ HasNext(k) => regions'[k + 1] = regions[k + 1]
        BY <1>2 DEF HasNext
      <3>3. k + 1 = i - 1 => regions'[k + 1].start = regions[k + 1].start
        BY <2>1
      <3>4. k + 1 # i
        BY <1>1, <1>6, <2>5
      <3>5. HasNext(k) => regions'[k + 1].start = regions[k + 1].start
        BY <3>2, <3>3, <3>4
      <3>6. HasNext(k)' <=> HasNext(k)
        BY <1>2 DEF HasNext
      <3>7. Settled(k) <=> Settled(k)'
        BY <1>1, <1>2, <1>6, <2>5 DEF Settled
      <3>8. pc' = "coalesce" /\ k >= i' => pc = "coalesce" /\ k >= i
        BY <1>1, <1>2, <1>6
      <3> QED BY <1>2, <2>2, <3>1, <3>5, <3>6, <3>7, <3>8 DEF RegionOk, HasNext
    <2> QED BY <2>3, <2>4, <2>5
  <1> QED BY <1>2, <1>7, <1>8

\* No byte changes its type
LEMMA CoalesceBytes ==
    ASSUME Regular, BootInv, RegionInv, Coalesce
    PROVE  SameBytes'
  <1> DEFINE n == Len(layout)
  <1>1. /\ i \in 2 .. n /\ n \in Nat /\ DOMAIN layout = 1 .. n
        /\ regions[i - 1].type \in Types
        /\ \A m \in 1 .. n : regions[m].start \in Nat /\ regions[m].size \in Nat
    <2>1. \A m \in DOMAIN layout : regions[m] \in Part
      BY CoalesceFinds
    <2>2. \A p \in Part : p.start \in Nat /\ p.size \in Nat
      BY Numbers DEF Part, Place
    <2> QED BY <2>1, <2>2, CoalesceFinds
  <1>2. /\ layout' = layout
        /\ \A m \in DOMAIN layout : m # i - 1 /\ m # i => regions'[m] = regions[m]
        /\ Merging \/ Passing
    BY CoalesceCases
  <1> HIDE DEF n
  <1>3. i - 1 \in 1 .. n /\ i \in 1 .. n
    BY <1>1
  <1>4. SUFFICES ASSUME NEW t \in Types, NEW x \in Place
                 PROVE  (\E k \in 1 .. n : regions[k].type = t /\ x \in Span(regions[k]))
                        <=> (\E k \in 1 .. n : regions'[k].type = t /\ x \in Span(regions'[k]))
    BY <1>2 DEF SameBytes, RegionInv, InRegions, n
  <1>5. CASE Passing
    BY <1>5 DEF Passing
  <1>6. CASE Merging
    <2>1. x \in Nat /\ Merged # t
      BY LayoutsAssumed DEF Place
    <2>2. /\ regions[i].start = regions[i - 1].start + regions[i - 1].size
          /\ regions[i].type = regions[i - 1].type
          /\ regions'[i - 1].type = Merged
          /\ regions'[i].start = regions[i - 1].start
          /\ regions'[i].size = regions[i - 1].size + regions[i].size
          /\ regions'[i].type = regions[i].type
      BY <1>6 DEF Merging, JoinedBoth
    <2>3. x \in Span(regions'[i]) <=> x \in Span(regions[i - 1]) \/ x \in Span(regions[i])
      <3>1. /\ regions[i].start \in Nat /\ regions[i].size \in Nat
            /\ regions[i - 1].start \in Nat /\ regions[i - 1].size \in Nat
            /\ regions'[i].start \in Nat /\ regions'[i].size \in Nat
        BY <1>1, <1>3, <2>2
      <3> QED BY <2>1, <2>2, <3>1, InSpan
    <2>4. \A k \in 1 .. n : k # i - 1 /\ k # i => regions'[k] = regions[k]
      BY <1>1, <1>2
    <2> QED BY <1>3, <2>1, <2>2, <2>3, <2>4
  <1> QED BY <1>2, <1>5, <1>6

LEMMA CoalesceRegions ==
    ASSUME Regular, BootInv, RegionInv, Coalesce
    PROVE  RegionInv'
  <1>1. layout' = layout /\ DOMAIN regions' = DOMAIN layout
    BY CoalesceCases
  <1>2. \A k \in DOMAIN layout : RegionOk(k)'
    BY CoalesceOk
  <1> QED BY <1>1, <1>2, CoalesceBytes DEF RegionInv

\* When the loop has ended, and after
LEMMA RegionsStay ==
    ASSUME RegionInv, UNCHANGED <<layout, regions>>, pc' # "coalesce",
           pc = "coalesce" => \A k \in DOMAIN layout : k < i
    PROVE  RegionInv'
  <1>1. ASSUME NEW k \in DOMAIN layout
        PROVE  RegionOk(k)'
    <2>1. RegionOk(k) /\ Settled(k)' /\ HasNext(k)' = HasNext(k)
      BY DEF RegionInv, Settled, HasNext
    <2>2. HasNext(k) => Settled(k)
      BY DEF HasNext, Settled
    <2> QED BY <2>1, <2>2 DEF RegionOk, HasNext
  <1> QED BY <1>1 DEF RegionInv, SameBytes

-----------------------------------------------------------------------------
(* The regions become heaps *)

\* What RegisterRegion appends for a region that was not merged
EntryOf(r) == Unregistered(r.start, r.start + r.size, r.type)

LEMMA RegisterCases ==
    ASSUME Regular, BootInv, RegionInv, RegisterRegion
    PROVE  /\ pc = "register" /\ pc' = pc /\ i' = i + 1 /\ i \in 1 .. Len(layout)
           /\ UNCHANGED <<layout, regions, entries, list, blocks>>
           /\ DOMAIN layout = 1 .. Len(layout) /\ Len(layout) \in Nat
           /\ regions[i] \in Part
           /\ \/ regions[i].type = Merged /\ UNCHANGED <<temp_heaps, used>>
              \/ /\ regions[i].type \in Types
                 /\ \E e \in {EntryOf(regions[i]), WithHeap(EntryOf(regions[i]))} :
                       /\ temp_heaps' = Append(temp_heaps, e)
                       /\ IF e.heap = NoHeap THEN used' = used ELSE used' = Put(used, e.heap.at, 0)
  <1>1. /\ pc = "register" /\ pc' = pc /\ i' = i + 1 /\ i \in Nat \ {0} /\ i <= Len(regions)
        /\ UNCHANGED <<layout, regions, entries, list, blocks>>
    BY DEF RegisterRegion, BootInv
  <1>2. /\ DOMAIN layout = 1 .. Len(layout) /\ Len(layout) \in Nat
        /\ regions \in Seq(Part) /\ DOMAIN regions = DOMAIN layout
    BY LayoutFacts DEF RegionInv, BootInv
  <1>3. Len(regions) = Len(layout) /\ i \in 1 .. Len(layout) /\ regions[i] \in Part
    BY <1>1, <1>2
  <1> DEFINE r == regions[i]
             e == EntryOf(r)
  <1>4. CASE r.type = Merged /\ UNCHANGED <<temp_heaps, used, lock>>
    BY <1>1, <1>2, <1>3, <1>4
  <1>5. CASE r.type \in StartupStack /\ temp_heaps' = Append(temp_heaps, e) /\ UNCHANGED <<used, lock>>
    <2>1. e.heap = NoHeap
      BY DEF EntryOf, Unregistered
    <2>2. r.type \in Types
      BY <1>5, LayoutsAssumed
    <2> HIDE DEF r, e
    <2>3. /\ r.type \in Types /\ temp_heaps' = Append(temp_heaps, e)
          /\ IF e.heap = NoHeap THEN used' = used ELSE used' = Put(used, e.heap.at, 0)
      BY <1>5, <2>1, <2>2
    <2> QED BY <1>1, <1>2, <1>3, <2>3 DEF r, e
  <1>6. CASE /\ r.type \in Types \ StartupStack /\ temp_heaps' = Append(temp_heaps, WithHeap(e))
             /\ Fresh(WithHeap(e).heap)
    <2>1. WithHeap(e).heap # NoHeap
      <3>1. /\ r.start \in Nat /\ r.start > 0 /\ r.size \in Nat /\ r.start + r.size < Width
            /\ r.start % 8 = 0 /\ r.size >= Header + 8
        BY <1>3, Numbers DEF Part, Place, RegionInv, RegionOk
      <3>2. WithHeap(e).heap = Heap(r.start, r.size)
        <4>1. e.start = r.start /\ e.end - e.start = r.size
          BY <3>1 DEF EntryOf, Unregistered
        <4>2. WithHeap(e).heap = Heap(e.start, e.end - e.start)
          BY DEF WithHeap, EntryOf, Unregistered
        <4> QED BY <4>1, <4>2
      <3>3. Heap(r.start, r.size).at = r.start
        BY <3>1, HeapFits
      <3> QED BY <3>1, <3>2, <3>3 DEF NoHeap
    <2> HIDE DEF r, e
    <2>2. /\ r.type \in Types /\ temp_heaps' = Append(temp_heaps, WithHeap(e))
          /\ used' = Put(used, WithHeap(e).heap.at, 0)
      BY <1>6 DEF Fresh
    <2> QED BY <1>1, <1>2, <1>3, <2>1, <2>2 DEF r, e
  <1> QED BY <1>4, <1>5, <1>6 DEF RegisterRegion, EntryOf

\* The entry lies where the region lies
LEMMA EntryOfRegion ==
    ASSUME Regular, RegionInv, NEW k \in DOMAIN layout, regions[k] \in Part, regions[k].type \in Types,
           NEW e \in {EntryOf(regions[k]), WithHeap(EntryOf(regions[k]))}
    PROVE  /\ e.start = regions[k].start /\ e.end = regions[k].start + regions[k].size
           /\ e.type = layout[k].type /\ e.type = regions[k].type
           /\ e.start \in Nat /\ e.end \in Nat /\ e.start < e.end
           /\ Fits(e)
  <1>1. /\ regions[k].type = layout[k].type
        /\ regions[k].start % 8 = 0 /\ regions[k].size >= Header + 8
        /\ regions[k].start \in Nat /\ regions[k].size \in Nat /\ regions[k].size > 0
    BY LayoutsAssumed, Numbers DEF RegionInv, RegionOk, Part, Place
  <1>2. /\ e.start = regions[k].start /\ e.end = regions[k].start + regions[k].size
        /\ e.type = regions[k].type
    BY DEF EntryOf, Unregistered, WithHeap
  <1>3. e.end - e.start = regions[k].size
    BY <1>1, <1>2
  <1> QED BY <1>1, <1>2, <1>3 DEF Fits

\* The heaps before the region i do not change when it was merged with the next
LEMMA MergedCovered ==
    ASSUME NEW h, NEW r, NEW n \in Nat, n > 0, r[n].type \notin Types, Covers(h, r, n - 1)
    PROVE  Covers(h, r, n)
  <1>1. \A k : k \in 1 .. n <=> k \in 1 .. n - 1 \/ k = n
    OBVIOUS
  <1> QED BY <1>1 DEF Covers, InRegions

\* A heap for the next region
LEMMA AppendCovers ==
    ASSUME NEW h \in Seq(GoodEntries), NEW r, NEW n \in Nat, n > 0, Covers(h, r, n - 1), NEW e,
           e.start = r[n].start, e.end = r[n].start + r[n].size, e.type = r[n].type,
           e.start \in Nat, r[n].size \in Nat
    PROVE  Covers(Append(h, e), r, n)
  <1> DEFINE g == Append(h, e)
  <1>1. \A k : k \in 1 .. n <=> k \in 1 .. n - 1 \/ k = n
    OBVIOUS
  <1>2. \A k : k \in DOMAIN g <=> k \in DOMAIN h \/ k = Len(h) + 1
    OBVIOUS
  <1>3. g[Len(h) + 1] = e /\ \A k \in DOMAIN h : g[k] = h[k]
    OBVIOUS
  <1>4. \A x \in Place : x \in Span(r[n]) <=> e.start <= x /\ x < e.end
    BY InSpan DEF Place
  <1> HIDE DEF g
  <1> SUFFICES ASSUME NEW t \in Types, NEW x \in Place
               PROVE  InHeaps(g, t, x) <=> InRegions(r, n, t, x)
    BY DEF Covers, g
  <1>5. InHeaps(g, t, x) <=> InHeaps(h, t, x) \/ (e.type = t /\ e.start <= x /\ x < e.end)
    BY <1>2, <1>3 DEF InHeaps
  <1>6. InRegions(r, n, t, x) <=> InRegions(r, n - 1, t, x) \/ (r[n].type = t /\ x \in Span(r[n]))
    BY <1>1 DEF InRegions
  <1> QED BY <1>4, <1>5, <1>6 DEF Covers

LEMMA AppendArranged ==
    ASSUME NEW h \in Seq(GoodEntries), Arranged(h), NEW e \in GoodEntries, Fits(e),
           Precedes(h, e.start, e.type)
    PROVE  Arranged(Append(h, e))
  <1> DEFINE g == Append(h, e)
             l == Len(h)
  <1>1. /\ l \in Nat /\ DOMAIN h = 1 .. l /\ Len(g) = l + 1 /\ DOMAIN g = 1 .. (l + 1)
        /\ g[l + 1] = e /\ \A k \in 1 .. l : g[k] = h[k]
        /\ h # <<>> <=> l > 0
    OBVIOUS
  <1>2. \A f \in GoodEntries : f.start \in Nat /\ f.end \in Nat /\ f.start < f.end
    BY Numbers DEF GoodEntries, Good, EntryType, Place
  <1>3. e.start \in Nat /\ \A k \in 1 .. l : h[k].start \in Nat /\ h[k].end \in Nat /\ h[k].start < h[k].end
    BY <1>1, <1>2
  <1>4. \A k, m \in 1 .. l : k < m => h[k].end <= h[m].start
    BY <1>1 DEF Arranged
  <1>5. l > 0 => h[l].end <= e.start /\ (h[l].end = e.start => h[l].type # e.type)
    BY <1>1 DEF Precedes
  <1> HIDE DEF g, l
  <1>6. \A k \in 1 .. l : h[k].end <= e.start
    <2> TAKE k \in 1 .. l
    <2>1. l \in 1 .. l /\ l > 0
      BY <1>1
    <2>2. k = l \/ h[k].end <= h[l].start
      BY <1>1, <1>4, <2>1
    <2>3. h[l].start \in Nat /\ h[l].end \in Nat /\ h[l].start < h[l].end /\ h[k].end \in Nat
      BY <1>3, <2>1
    <2> QED BY <1>3, <1>5, <2>1, <2>2, <2>3
  <1>7. \A k \in DOMAIN g : Fits(g[k])
    BY <1>1 DEF Arranged
  <1>8. \A k, m \in DOMAIN g : k < m => g[k].end <= g[m].start
    <2> TAKE k, m \in DOMAIN g
    <2>1. CASE m \in 1 .. l
      BY <1>1, <1>4, <2>1
    <2>2. CASE m = l + 1
      <3>1. k < m => k \in 1 .. l
        BY <1>1, <2>2
      <3> QED BY <1>1, <1>6, <2>2, <3>1
    <2> QED BY <1>1, <2>1, <2>2
  <1>9. \A k \in 2 .. Len(g) : g[k - 1].end = g[k].start => g[k - 1].type # g[k].type
    <2> TAKE k \in 2 .. Len(g)
    <2>1. CASE k \in 2 .. l
      <3>1. k - 1 \in 1 .. l /\ k \in 1 .. l /\ g[k - 1] = h[k - 1] /\ g[k] = h[k]
        BY <1>1, <2>1
      <3> QED BY <2>1, <3>1 DEF Arranged, l
    <2>2. CASE k = l + 1
      <3>1. k - 1 = l /\ l > 0 /\ l \in 1 .. l /\ g[l] = h[l] /\ g[k] = e
        BY <1>1, <2>2
      <3> QED BY <1>5, <3>1
    <2> QED BY <1>1, <2>1, <2>2
  <1> QED BY <1>7, <1>8, <1>9 DEF Arranged, g

\* Where the next region begins
LEMMA NextBegins ==
    ASSUME Regular, RegionInv, pc # "coalesce", NEW k \in DOMAIN layout, k + 1 \in DOMAIN layout
    PROVE  IF regions[k].type = Merged
             THEN regions[k].start = regions[k + 1].start /\ layout[k].type = layout[k + 1].type
             ELSE /\ regions[k].start + regions[k].size <= regions[k + 1].start
                  /\ regions[k].start + regions[k].size = regions[k + 1].start =>
                       layout[k].type # layout[k + 1].type
  <1>1. RegionOk(k) /\ HasNext(k) /\ Settled(k)
    BY DEF RegionInv, HasNext, Settled
  <1>2. layout[k].start + layout[k].size <= layout[k + 1].start
    <2>1. DOMAIN layout = 1 .. Len(layout) /\ Len(layout) \in Nat
      BY LayoutFacts DEF RegionInv
    <2>2. k + 1 \in 2 .. Len(layout) /\ (k + 1) - 1 = k
      BY <2>1
    <2>3. \A m \in 2 .. Len(layout) : layout[m - 1].start + layout[m - 1].size <= layout[m].start
      BY LayoutFacts DEF RegionInv
    <2> QED BY <2>2, <2>3
  <1> QED BY <1>1, <1>2 DEF RegionOk

LEMMA RegisterTemp ==
    ASSUME Regular, BootInv, RegionInv, TempInv, RegisterRegion
    PROVE  TempInv'
  <1>1. /\ pc = "register" /\ pc' = pc /\ i' = i + 1 /\ i \in 1 .. Len(layout) /\ Len(layout) \in Nat
        /\ DOMAIN layout = 1 .. Len(layout) /\ layout' = layout /\ regions' = regions
        /\ regions[i] \in Part
    BY RegisterCases
  <1>2. temp_heaps \in Seq(GoodEntries) /\ Len(temp_heaps) \in Nat
    BY DEF BootInv
  <1>3. /\ Len(temp_heaps) < i /\ Arranged(temp_heaps) /\ Covers(temp_heaps, regions, i - 1)
        /\ Precedes(temp_heaps, regions[i].start, layout[i].type)
    BY <1>1 DEF TempInv
  <1>4. temp_heaps' \in Seq(GoodEntries)
    BY RegisterKeeps DEF BootInv
  <1>5. i \in Nat /\ i > 0 /\ i' - 1 = i
    BY <1>1
  <1>6. SUFFICES /\ Len(temp_heaps') < i + 1 /\ Arranged(temp_heaps') /\ Covers(temp_heaps', regions, i)
                 /\ i + 1 \in DOMAIN layout => Precedes(temp_heaps', regions[i + 1].start, layout[i + 1].type)
    <2>1. Len(temp_heaps') \in Nat
      BY <1>4
    <2>2. Len(temp_heaps') < i + 1 => Len(temp_heaps') <= Len(layout)
      BY <1>1, <2>1
    <2>3. Covers(temp_heaps', regions, i) => Covers(temp_heaps', regions', i' - 1)
      BY <1>1, <1>5
    <2>4. i + 1 <= Len(layout) + 1
      BY <1>1
    <2> QED BY <1>1, <2>2, <2>3, <2>4 DEF TempInv
  <1>7. CASE regions[i].type = Merged /\ temp_heaps' = temp_heaps
    <2>1. Covers(temp_heaps, regions, i)
      BY <1>3, <1>5, <1>7, MergedCovered, LayoutsAssumed
    <2>2. i + 1 \in DOMAIN layout => Precedes(temp_heaps, regions[i + 1].start, layout[i + 1].type)
      BY <1>1, <1>3, <1>7, NextBegins
    <2>3. Len(temp_heaps) < i + 1
      BY <1>2, <1>3, <1>5
    <2> QED BY <1>3, <1>7, <2>1, <2>2, <2>3
  <1>8. ASSUME regions[i].type \in Types,
               NEW e \in {EntryOf(regions[i]), WithHeap(EntryOf(regions[i]))},
               temp_heaps' = Append(temp_heaps, e)
        PROVE  /\ Len(temp_heaps') < i + 1 /\ Arranged(temp_heaps') /\ Covers(temp_heaps', regions, i)
               /\ i + 1 \in DOMAIN layout => Precedes(temp_heaps', regions[i + 1].start, layout[i + 1].type)
    <2>1. /\ e.start = regions[i].start /\ e.end = regions[i].start + regions[i].size
          /\ e.type = layout[i].type /\ e.type = regions[i].type
          /\ e.start \in Nat /\ e.end \in Nat /\ e.start < e.end /\ Fits(e)
      BY <1>1, <1>8, EntryOfRegion
    <2>2. regions[i].size \in Nat
      BY <1>1, Numbers DEF Part, Place
    <2>3. e \in GoodEntries /\ Len(temp_heaps') = Len(temp_heaps) + 1 /\ temp_heaps' # <<>>
          /\ temp_heaps'[Len(temp_heaps')] = e
      <3>1. /\ Len(temp_heaps') = Len(temp_heaps) + 1 /\ temp_heaps'[Len(temp_heaps) + 1] = e
            /\ Len(temp_heaps') \in 1 .. Len(temp_heaps')
        BY <1>2, <1>8
      <3>2. temp_heaps'[Len(temp_heaps')] \in GoodEntries
        BY <1>4, <3>1
      <3> QED BY <3>1, <3>2
    <2>4. Arranged(temp_heaps')
      BY <1>2, <1>3, <1>8, <2>1, <2>3, AppendArranged
    <2>5. Covers(temp_heaps', regions, i)
      BY <1>2, <1>3, <1>5, <1>8, <2>1, <2>2, AppendCovers
    <2>6. i + 1 \in DOMAIN layout => Precedes(temp_heaps', regions[i + 1].start, layout[i + 1].type)
      <3>1. regions[i].type # Merged
        BY <1>8, LayoutsAssumed
      <3>2. i + 1 \in DOMAIN layout =>
              /\ regions[i].start + regions[i].size <= regions[i + 1].start
              /\ regions[i].start + regions[i].size = regions[i + 1].start => layout[i].type # layout[i + 1].type
        BY <1>1, <3>1, NextBegins
      <3> QED BY <2>1, <2>3, <3>2 DEF Precedes
    <2>7. Len(temp_heaps') < i + 1
      BY <1>2, <1>3, <1>5, <2>3
    <2> QED BY <2>4, <2>5, <2>6, <2>7
  <1> QED BY <1>7, <1>8, RegisterCases

-----------------------------------------------------------------------------
(* Blocks and entries of the running system *)

LEMMA EntryPlaces ==
    ASSUME NEW e \in GoodEntries
    PROVE  e.start \in Nat /\ e.end \in Nat /\ 0 < e.start /\ e.start < e.end /\ e.end < Width
  BY Numbers DEF GoodEntries, Good, EntryType, Place

LEMMA HeapOfEntry ==
    ASSUME NEW e \in GoodEntries, Fits(e)
    PROVE  LET w == Heap(e.start, e.end - e.start)
           IN /\ w.at = e.start /\ w.total \in Nat /\ e.start + Header + w.total <= e.end
              /\ w # NoHeap
              /\ e.heap # NoHeap => e.heap = w
  <1>1. /\ e.start \in Nat /\ e.end \in Nat /\ 0 < e.start /\ e.start < e.end /\ e.end < Width
        /\ e.heap # NoHeap => e.heap = Heap(e.start, e.end - e.start)
    BY EntryPlaces DEF GoodEntries, Good
  <1>2. /\ e.end - e.start \in Nat /\ e.start + (e.end - e.start) = e.end
        /\ e.end - e.start >= Header + 8 /\ e.start % 8 = 0
    BY <1>1 DEF Fits
  <1> DEFINE w == Heap(e.start, e.end - e.start)
  <1>3. w.at = e.start /\ w.total \in Nat /\ e.start + Header + w.total <= e.start + (e.end - e.start)
    BY <1>1, <1>2, HeapFits
  <1>4. NoHeap.at = 0
    BY DEF NoHeap
  <1> QED BY <1>1, <1>2, <1>3, <1>4

\* What is known of a heap in use
LEMMA HeapFacts ==
    ASSUME NEW en, NEW us, NEW bl, Sound(en, us, bl), NEW a \in DOMAIN en
    PROVE  /\ en[a] \in GoodEntries /\ Fits(en[a])
           /\ en[a].start \in Nat /\ en[a].end \in Nat /\ 0 < en[a].start /\ en[a].start < en[a].end
           /\ en[a].heap # NoHeap =>
                /\ en[a].heap.at = en[a].start /\ en[a].heap.total \in Nat
                /\ en[a].start + Header + en[a].heap.total <= en[a].end
                /\ en[a].start \in DOMAIN us /\ us[en[a].start] \in 0 .. en[a].heap.total
  <1>1. en[a] \in GoodEntries /\ HeapOk(en[a], us)
    BY DEF Sound
  <1> QED BY <1>1, EntryPlaces, HeapOfEntry DEF HeapOk

\* What is known of a block
LEMMA BlockFacts ==
    ASSUME NEW en, NEW us, NEW bl, Sound(en, us, bl), NEW b \in bl
    PROVE  /\ b.at \in Nat /\ b.size \in Nat /\ b.heap \in Nat /\ b.asked \in Nat
           /\ b.asked + Tags <= b.size
           /\ Pointer(b) \in Nat /\ b.at < Pointer(b) /\ Pointer(b) + b.asked < b.at + b.size
           /\ \E a \in DOMAIN en :
                /\ en[a].heap # NoHeap /\ en[a].start = b.heap
                /\ b.heap + Header <= b.at /\ b.at + b.size <= b.heap + Header + us[b.heap]
                /\ b.at + b.size <= en[a].end
  <1>1. BlockOk(b, en, us)
    BY DEF Sound
  <1>2. b.at \in Nat /\ b.size \in Nat /\ b.heap \in Nat /\ b.asked \in Nat /\ b.asked + Tags <= b.size
    BY <1>1 DEF BlockOk
  <1>3. Tags \in Nat /\ Tags % 2 = 0 /\ Tags > 0 /\ Header \in Nat
    BY BootAssumption
  <1>4. Pointer(b) \in Nat /\ b.at < Pointer(b) /\ Pointer(b) + b.asked < b.at + b.size
    BY <1>2, <1>3 DEF Pointer
  <1>5. PICK a \in DOMAIN en : en[a].heap # NoHeap /\ en[a].heap.at = b.heap
    BY <1>1 DEF BlockOk
  <1>6. /\ en[a].heap.at = en[a].start /\ en[a].heap.total \in Nat /\ en[a].end \in Nat
        /\ en[a].start + Header + en[a].heap.total <= en[a].end
        /\ us[en[a].start] \in 0 .. en[a].heap.total
    BY <1>5, HeapFacts
  <1>7. b.heap + Header <= b.at /\ b.at + b.size <= b.heap + Header + us[b.heap]
    BY <1>1 DEF BlockOk
  <1>8. b.at + b.size <= en[a].end
    BY <1>2, <1>3, <1>5, <1>6, <1>7
  <1> QED BY <1>2, <1>4, <1>5, <1>6, <1>7, <1>8

\* A region in a block of a heap begins behind the region of the heap
LEMMA HostedWithin ==
    ASSUME NEW en, NEW us, NEW bl, Sound(en, us, bl), NEW a \in DOMAIN en, NEW f,
           f.start \in Nat, f.end \in Nat, f.start < f.end, Hosts(en[a], f, en, bl)
    PROVE  en[a].start < f.start /\ f.end <= en[a].end
  <1>1. PICK b \in bl : b.heap = en[a].heap.at /\ Pointer(b) <= f.start /\ f.end <= Pointer(b) + b.asked
    BY DEF Hosts
  <1>2. en[a].heap # NoHeap
    BY DEF Hosts
  <1>3. /\ en[a].heap.at = en[a].start /\ en[a].heap.total \in Nat /\ en[a].end \in Nat /\ en[a].start \in Nat
        /\ en[a].start + Header + en[a].heap.total <= en[a].end
        /\ us[en[a].start] \in 0 .. en[a].heap.total
    BY <1>2, HeapFacts
  <1>4. /\ b.at \in Nat /\ b.size \in Nat /\ b.asked \in Nat /\ Pointer(b) \in Nat
        /\ b.at < Pointer(b) /\ Pointer(b) + b.asked < b.at + b.size
        /\ b.heap + Header <= b.at /\ b.at + b.size <= b.heap + Header + us[b.heap]
    BY BlockFacts
  <1>5. Header \in Nat
    BY Numbers
  <1> QED BY <1>1, <1>3, <1>4, <1>5

\* No two entries are for regions that begin at one address
LEMMA StartsDiffer ==
    ASSUME NEW en, NEW us, NEW bl, Sound(en, us, bl), NEW a \in DOMAIN en, NEW c \in DOMAIN en, a # c
    PROVE  en[a].start # en[c].start
  <1>1. /\ en[a].start \in Nat /\ en[a].end \in Nat /\ en[a].start < en[a].end
        /\ en[c].start \in Nat /\ en[c].end \in Nat /\ en[c].start < en[c].end
    BY HeapFacts
  <1>2. Apart(en[a], en[c]) \/ Hosts(en[a], en[c], en, bl) \/ Hosts(en[c], en[a], en, bl)
    BY DEF Sound, Nested
  <1>3. Hosts(en[a], en[c], en, bl) => en[a].start < en[c].start
    BY <1>1, HostedWithin
  <1>4. Hosts(en[c], en[a], en, bl) => en[c].start < en[a].start
    BY <1>1, HostedWithin
  <1> QED BY <1>1, <1>2, <1>3, <1>4 DEF Apart

\* A block at the end of what the heap of a uses meets no other block, and no entry
\* lies in it: at most it lies itself, with its heap, in a block of another heap
LEMMA NewBlockApart ==
    ASSUME NEW en, NEW us, NEW bl, Sound(en, us, bl), NEW a \in DOMAIN en, en[a].heap # NoHeap,
           NEW b, b.at = en[a].start + Header + us[en[a].start], b.size \in Nat, b.size > 0,
           b.at + b.size <= en[a].start + Header + en[a].heap.total,
           NEW c \in bl
    PROVE  /\ c.heap = en[a].start => c.at + c.size <= b.at
           /\ Disjoint(b, c) \/ (Pointer(c) \notin DOMAIN en /\ Pointer(c) <= en[a].start)
  <1>1. /\ en[a].start \in Nat /\ en[a].end \in Nat /\ en[a].start < en[a].end
        /\ en[a].heap.at = en[a].start /\ en[a].heap.total \in Nat
        /\ en[a].start + Header + en[a].heap.total <= en[a].end
        /\ us[en[a].start] \in 0 .. en[a].heap.total /\ Header \in Nat
    BY HeapFacts, Numbers
  <1>2. /\ c.at \in Nat /\ c.size \in Nat /\ c.asked \in Nat /\ c.heap \in Nat /\ Pointer(c) \in Nat
        /\ c.at < Pointer(c) /\ Pointer(c) + c.asked < c.at + c.size
        /\ c.heap + Header <= c.at /\ c.at + c.size <= c.heap + Header + us[c.heap]
    BY BlockFacts
  <1>3. b.at \in Nat /\ en[a].start < b.at + 1 /\ b.at + b.size <= en[a].end /\ en[a].start <= b.at
    BY <1>1
  <1>4. c.heap = en[a].start => c.at + c.size <= b.at
    BY <1>1, <1>2
  <1>5. PICK d \in DOMAIN en : en[d].heap # NoHeap /\ en[d].start = c.heap /\ c.at + c.size <= en[d].end
    BY BlockFacts
  <1>6. CASE d = a
    BY <1>4, <1>5, <1>6 DEF Disjoint
  <1>7. CASE d # a
    <2>1. en[d].start \in Nat /\ en[d].end \in Nat /\ en[d].heap.at = en[d].start
      BY <1>5, HeapFacts
    <2>2. CASE Apart(en[a], en[d])
      BY <1>1, <1>2, <1>3, <1>5, <2>1, <2>2 DEF Apart, Disjoint
    <2>3. CASE Hosts(en[a], en[d], en, bl)
      <3>1. PICK h \in bl : h.heap = en[a].heap.at /\ Pointer(h) <= en[d].start /\ en[d].end <= Pointer(h) + h.asked
        BY <2>3 DEF Hosts
      <3>2. /\ h.at \in Nat /\ h.size \in Nat /\ h.asked \in Nat /\ Pointer(h) \in Nat
            /\ Pointer(h) + h.asked < h.at + h.size
            /\ h.at + h.size <= h.heap + Header + us[h.heap]
        BY BlockFacts
      <3> QED BY <1>1, <1>2, <1>3, <1>5, <2>1, <3>1, <3>2 DEF Disjoint
    <2>4. CASE Hosts(en[d], en[a], en, bl)
      <3>1. PICK h \in bl : /\ h.heap = en[d].heap.at /\ Pointer(h) \notin DOMAIN en
                            /\ Pointer(h) <= en[a].start /\ en[a].end <= Pointer(h) + h.asked
        BY <2>4 DEF Hosts
      <3>2. /\ h.at \in Nat /\ h.size \in Nat /\ h.asked \in Nat /\ Pointer(h) \in Nat
            /\ h.at < Pointer(h) /\ Pointer(h) + h.asked < h.at + h.size
        BY BlockFacts
      <3>3. CASE h = c
        BY <1>4, <1>5, <1>7, <3>1, <3>3, StartsDiffer
      <3>4. CASE h # c
        <4>1. Disjoint(h, c)
          BY <1>5, <2>1, <3>1, <3>4 DEF Sound
        <4> QED BY <1>1, <1>2, <1>3, <1>4, <1>5, <1>7, <3>1, <3>2, <4>1, StartsDiffer DEF Disjoint
      <3> QED BY <3>3, <3>4
    <2>5. Apart(en[a], en[d]) \/ Hosts(en[a], en[d], en, bl) \/ Hosts(en[d], en[a], en, bl)
      BY <1>7 DEF Sound, Nested
    <2> QED BY <2>2, <2>3, <2>4, <2>5
  <1> QED BY <1>6, <1>7

\* So no block begins where it begins, and its pointer is no entry's
LEMMA NewPointer ==
    ASSUME NEW en, NEW us, NEW bl, Sound(en, us, bl), NEW a \in DOMAIN en, en[a].heap # NoHeap,
           NEW b, b.at = en[a].start + Header + us[en[a].start], b.size \in Nat, b.size > Tags,
           b.at + b.size <= en[a].start + Header + en[a].heap.total
    PROVE  /\ Pointer(b) \in Nat /\ b.at < Pointer(b) /\ Pointer(b) < b.at + b.size
           /\ Pointer(b) \notin DOMAIN en
           /\ \A c \in bl : Pointer(c) # Pointer(b)
  <1>1. /\ en[a].start \in Nat /\ us[en[a].start] \in Nat /\ Header \in Nat
        /\ Tags \in Nat /\ Tags % 2 = 0 /\ Tags > 0
    <2>1. en[a].start \in Nat /\ us[en[a].start] \in 0 .. en[a].heap.total /\ en[a].heap.total \in Nat
      BY HeapFacts
    <2> QED BY <2>1, BootAssumption
  <1>2. b.at \in Nat /\ Pointer(b) \in Nat /\ b.at < Pointer(b) /\ Pointer(b) < b.at + b.size
        /\ en[a].start <= b.at /\ b.size > 0
    BY <1>1 DEF Pointer
  <1>3. \A c \in bl : Disjoint(b, c) \/ (Pointer(c) \notin DOMAIN en /\ Pointer(c) <= en[a].start)
    BY <1>2, NewBlockApart
  <1>4. Pointer(b) \notin DOMAIN en
    <2> SUFFICES ASSUME Pointer(b) \in DOMAIN en
                 PROVE  FALSE
      OBVIOUS
    <2>1. PICK c \in bl : Pointer(c) \in DOMAIN en /\ c.at <= Pointer(b) /\ Pointer(b) < c.at + c.size
      BY DEF Sound, Placed
    <2>2. Disjoint(b, c) /\ c.at \in Nat /\ c.size \in Nat
      BY <1>3, <2>1, BlockFacts
    <2> QED BY <1>2, <2>1, <2>2 DEF Disjoint
  <1>5. ASSUME NEW c \in bl
        PROVE  Pointer(c) # Pointer(b)
    <2>1. /\ c.at \in Nat /\ c.size \in Nat /\ Pointer(c) \in Nat /\ c.asked \in Nat
          /\ c.at < Pointer(c) /\ Pointer(c) + c.asked < c.at + c.size
      BY BlockFacts
    <2> QED BY <1>1, <1>2, <1>3, <2>1 DEF Disjoint
  <1> QED BY <1>2, <1>4, <1>5

-----------------------------------------------------------------------------
(* The steps of the running system *)

\* The block that a heap hands out at its end
Grown(us, at, n) == [us EXCEPT ![at] = @ + n]

IsNew(b, e, us, size) ==
    /\ b = [at |-> e.start + Header + us[e.start], size |-> BlockSize(size), heap |-> e.start, asked |-> size]
    /\ BlockSize(size) \in Nat /\ size \in Nat /\ size + Tags <= BlockSize(size)
    /\ us[e.start] + BlockSize(size) <= e.heap.total

LEMMA NewFacts ==
    ASSUME NEW en, NEW us, NEW bl, Sound(en, us, bl), NEW a \in DOMAIN en, en[a].heap # NoHeap,
           NEW size, NEW b, IsNew(b, en[a], us, size)
    PROVE  /\ b.at = en[a].start + Header + us[en[a].start] /\ b.size = BlockSize(size)
           /\ b.heap = en[a].start /\ b.asked = size
           /\ b.size \in Nat /\ b.size > 0 /\ b.size >= b.asked + Tags /\ b.asked \in Nat /\ b.at \in Nat
           /\ b.at + b.size <= en[a].start + Header + en[a].heap.total
           /\ us[en[a].start] + b.size \in 0 .. en[a].heap.total
           /\ b \in [at : Nat, size : Nat, heap : Nat, asked : Nat]
  <1>1. /\ en[a].start \in Nat /\ us[en[a].start] \in 0 .. en[a].heap.total /\ en[a].heap.total \in Nat
        /\ Header \in Nat /\ Tags \in Nat /\ Tags > 0
    BY HeapFacts, Numbers
  <1>2. /\ b.at = en[a].start + Header + us[en[a].start] /\ b.size = BlockSize(size)
        /\ b.heap = en[a].start /\ b.asked = size
    BY DEF IsNew
  <1>3. BlockSize(size) \in Nat /\ size \in Nat /\ size + Tags <= BlockSize(size)
        /\ us[en[a].start] + BlockSize(size) <= en[a].heap.total
    BY DEF IsNew
  <1>4. b.at \in Nat
    BY <1>1, <1>2
  <1>5. b \in [at : Nat, size : Nat, heap : Nat, asked : Nat]
    BY <1>1, <1>3, <1>4 DEF IsNew
  <1> QED BY <1>1, <1>2, <1>3, <1>4, <1>5

\* Another block, and nothing else changes
LEMMA GrowSound ==
    ASSUME NEW en, NEW us, NEW bl, Sound(en, us, bl), NEW a \in DOMAIN en, en[a].heap # NoHeap,
           NEW size, NEW b, IsNew(b, en[a], us, size)
    PROVE  Sound(en, Grown(us, en[a].start, b.size), bl \cup {b})
  <1> DEFINE at == en[a].start
             vs == Grown(us, at, b.size)
             bm == bl \cup {b}
  <1>1. /\ b.at = at + Header + us[at] /\ b.heap = at /\ b.size \in Nat /\ b.size > 0 /\ b.at \in Nat
        /\ b.asked + Tags <= b.size
        /\ b.at + b.size <= at + Header + en[a].heap.total /\ us[at] + b.size \in 0 .. en[a].heap.total
        /\ b \in [at : Nat, size : Nat, heap : Nat, asked : Nat]
    BY NewFacts
  <1>2. at \in DOMAIN us /\ at \in Nat /\ us[at] \in 0 .. en[a].heap.total /\ en[a].heap.total \in Nat
        /\ en[a].heap.at = at /\ Header \in Nat
    BY HeapFacts, Numbers
  <1>3. DOMAIN vs = DOMAIN us /\ vs[at] = us[at] + b.size /\ \A x \in DOMAIN us : x # at => vs[x] = us[x]
    BY <1>2 DEF Grown
  <1>4. /\ en \in [DOMAIN en -> GoodEntries] /\ DOMAIN en \subseteq Nat
        /\ \A c \in DOMAIN en : HeapOk(en[c], us)
        /\ \A c \in bl : BlockOk(c, en, us)
        /\ \A c, d \in bl : c # d /\ c.heap = d.heap => Disjoint(c, d)
        /\ Nested(en, bl) /\ Placed(en, bl)
    BY DEF Sound
  <1> HIDE DEF vs, bm
  <1>5. ASSUME NEW c \in DOMAIN en
        PROVE  HeapOk(en[c], vs)
    <2>1. c # a => en[c].start # at
      BY StartsDiffer DEF at
    <2>2. HeapOk(en[c], us) /\ (en[c].heap # NoHeap => en[c].heap.at = en[c].start)
      BY <1>4, HeapFacts
    <2> QED BY <1>1, <1>2, <1>3, <2>1, <2>2 DEF HeapOk, at
  <1>6. ASSUME NEW c \in bm
        PROVE  BlockOk(c, en, vs)
    <2>1. CASE c = b
      BY <1>1, <1>2, <1>3, <2>1 DEF BlockOk
    <2>2. CASE c \in bl
      <3>1. BlockOk(c, en, us)
        BY <1>4, <2>2
      <3>2. c.heap \in DOMAIN us /\ us[c.heap] \in Nat
        <4>1. PICK d \in DOMAIN en : en[d].heap # NoHeap /\ en[d].start = c.heap
          BY <2>2, BlockFacts
        <4>2. en[d].start \in DOMAIN us /\ us[en[d].start] \in 0 .. en[d].heap.total
          BY <4>1, HeapFacts
        <4> QED BY <4>1, <4>2
      <3>3. vs[c.heap] \in Nat /\ us[c.heap] <= vs[c.heap]
        BY <1>1, <1>2, <1>3, <3>2
      <3> QED BY <1>2, <3>1, <3>2, <3>3 DEF BlockOk
    <2> QED BY <2>1, <2>2 DEF bm
  <1>7. \A c, d \in bm : c # d /\ c.heap = d.heap => Disjoint(c, d)
    <2>1. \A c \in bl : c.heap = at => c.at + c.size <= b.at
      BY <1>1, NewBlockApart
    <2> QED BY <1>1, <1>4, <2>1 DEF bm, Disjoint
  <1>8. Nested(en, bm)
    <2>1. \A c, d \in DOMAIN en : Hosts(en[c], en[d], en, bl) => Hosts(en[c], en[d], en, bm)
      BY DEF Hosts, bm
    <2> QED BY <1>4, <2>1 DEF Nested
  <1>9. Placed(en, bm)
    BY <1>4 DEF Placed, bm
  <1>10. Sound(en, vs, bm)
    BY <1>4, <1>5, <1>6, <1>7, <1>8, <1>9 DEF Sound
  <1> QED BY <1>10 DEF vs, bm, at

\* A heap of an entry that had none
LEMMA EnableSound ==
    ASSUME NEW en, NEW us, NEW bl, Sound(en, us, bl), NEW a \in DOMAIN en, en[a].heap = NoHeap,
           NEW w \in GoodEntries, w.start = en[a].start, w.end = en[a].end, w.heap # NoHeap
    PROVE  Sound([en EXCEPT ![a] = w], Put(us, w.start, 0), bl)
  <1> DEFINE em == [en EXCEPT ![a] = w]
             vs == Put(us, w.start, 0)
  <1>1. /\ en \in [DOMAIN en -> GoodEntries] /\ DOMAIN en \subseteq Nat
        /\ \A c \in DOMAIN en : HeapOk(en[c], us)
        /\ \A c \in bl : BlockOk(c, en, us)
        /\ \A c, d \in bl : c # d /\ c.heap = d.heap => Disjoint(c, d)
        /\ Nested(en, bl) /\ Placed(en, bl)
    BY DEF Sound
  <1>2. DOMAIN em = DOMAIN en /\ em[a] = w /\ \A c \in DOMAIN en : c # a => em[c] = en[c]
    BY <1>1
  <1>3. DOMAIN vs = DOMAIN us \cup {w.start} /\ vs[w.start] = 0 /\ \A y \in DOMAIN us : y # w.start => vs[y] = us[y]
    BY DEF Put
  <1>4. em \in [DOMAIN em -> GoodEntries]
    BY <1>1
  <1> HIDE DEF em, vs
  <1>5. Fits(w)
    <2>1. Fits(en[a])
      BY HeapFacts
    <2> QED BY <2>1 DEF Fits
  <1>6. w.heap.at = w.start /\ w.heap.total \in Nat
    BY <1>5, HeapOfEntry
  <1>7. \A c \in DOMAIN en : c # a => en[c].start # w.start
    BY StartsDiffer
  <1>8. ASSUME NEW c \in DOMAIN em
        PROVE  HeapOk(em[c], vs)
    <2>1. CASE c = a
      BY <1>2, <1>3, <1>5, <1>6, <2>1 DEF HeapOk
    <2>2. CASE c # a
      <3>1. em[c] = en[c] /\ HeapOk(en[c], us) /\ (en[c].heap # NoHeap => en[c].heap.at = en[c].start)
            /\ en[c].start # w.start
        BY <1>1, <1>2, <1>7, <2>2, HeapFacts
      <3> QED BY <1>3, <3>1 DEF HeapOk
    <2> QED BY <2>1, <2>2
  <1>9. ASSUME NEW c \in bl
        PROVE  BlockOk(c, em, vs)
    <2>1. PICK d \in DOMAIN en : en[d].heap # NoHeap /\ en[d].start = c.heap
      BY BlockFacts
    <2>2. d # a /\ em[d] = en[d] /\ en[d].heap.at = c.heap /\ c.heap \in DOMAIN us /\ c.heap # w.start
      BY <1>2, <1>7, <2>1, HeapFacts
    <2>3. vs[c.heap] = us[c.heap]
      BY <1>3, <2>2
    <2>4. BlockOk(c, en, us)
      BY <1>1
    <2> QED BY <1>2, <2>1, <2>2, <2>3, <2>4 DEF BlockOk
  <1>10. Nested(em, bl)
    <2> SUFFICES ASSUME NEW c \in DOMAIN en, NEW d \in DOMAIN en, c # d
                 PROVE  Apart(em[c], em[d]) \/ Hosts(em[c], em[d], em, bl) \/ Hosts(em[d], em[c], em, bl)
      BY <1>2 DEF Nested
    <2>1. Apart(en[c], en[d]) \/ Hosts(en[c], en[d], en, bl) \/ Hosts(en[d], en[c], en, bl)
      BY <1>1 DEF Nested
    <2>2. \A x \in DOMAIN en : /\ em[x].start = en[x].start /\ em[x].end = en[x].end
                               /\ en[x].heap # NoHeap => em[x] = en[x]
      BY <1>2
    <2>3. Apart(en[c], en[d]) => Apart(em[c], em[d])
      BY <2>2 DEF Apart
    <2>4. \A x, y \in DOMAIN en : Hosts(en[x], en[y], en, bl) => Hosts(em[x], em[y], em, bl)
      <3> SUFFICES ASSUME NEW x \in DOMAIN en, NEW y \in DOMAIN en, Hosts(en[x], en[y], en, bl)
                   PROVE  Hosts(em[x], em[y], em, bl)
        OBVIOUS
      <3>1. em[x] = en[x] /\ en[x].heap # NoHeap
        BY <2>2 DEF Hosts
      <3> QED BY <1>2, <2>2, <3>1 DEF Hosts
    <2> QED BY <2>1, <2>3, <2>4
  <1>11. Placed(em, bl)
    BY <1>1, <1>2 DEF Placed
  <1>12. Sound(em, vs, bl)
    BY <1>1, <1>2, <1>4, <1>8, <1>9, <1>10, <1>11 DEF Sound
  <1> QED BY <1>12 DEF em, vs

\* A new entry, written into a new block, for a region that is in no other's way
LEMMA AddSound ==
    ASSUME NEW en, NEW us, NEW bl, Sound(en, us, bl), NEW a \in DOMAIN en, en[a].heap # NoHeap,
           NEW size, NEW b, IsNew(b, en[a], us, size), size > 0,
           NEW w \in GoodEntries, Fits(w), w.heap # NoHeap,
           \A c \in DOMAIN en : Apart(en[c], w) \/ Hosts(en[c], w, en, bl)
    PROVE  Sound(Put(en, Pointer(b), w), Put(Grown(us, en[a].start, b.size), w.start, 0), bl \cup {b})
  <1> DEFINE p == Pointer(b)
             em == Put(en, p, w)
             ug == Grown(us, en[a].start, b.size)
             vs == Put(ug, w.start, 0)
             bm == bl \cup {b}
  <1>1. /\ b.at = en[a].start + Header + us[en[a].start] /\ b.size \in Nat
        /\ b.at \in Nat /\ b.at + b.size <= en[a].start + Header + en[a].heap.total
    BY NewFacts
  <1>2. b.size > Tags
    <2>1. b.size >= b.asked + Tags /\ b.asked \in Nat /\ b.asked = size
      BY NewFacts
    <2> QED BY <1>1, <2>1, Numbers
  <1>3. /\ p \in Nat /\ b.at < p /\ p < b.at + b.size /\ p \notin DOMAIN en
        /\ \A c \in bl : Pointer(c) # p
    BY <1>1, <1>2, NewPointer
  <1>4. Sound(en, ug, bm)
    BY GrowSound
  <1>5. /\ en \in [DOMAIN en -> GoodEntries] /\ DOMAIN en \subseteq Nat
        /\ \A c \in DOMAIN en : HeapOk(en[c], ug)
        /\ \A c \in bm : BlockOk(c, en, ug)
        /\ \A c, d \in bm : c # d /\ c.heap = d.heap => Disjoint(c, d)
    BY <1>4 DEF Sound
  <1>6. Nested(en, bl) /\ Placed(en, bl)
    BY DEF Sound
  <1>7. DOMAIN em = DOMAIN en \cup {p} /\ em[p] = w /\ \A c \in DOMAIN en : em[c] = en[c]
    BY <1>3 DEF Put
  <1>8. em \in [DOMAIN em -> GoodEntries]
    BY <1>5, <1>7 DEF Put
  <1>9. DOMAIN vs = DOMAIN ug \cup {w.start} /\ vs[w.start] = 0 /\ \A y \in DOMAIN ug : y # w.start => vs[y] = ug[y]
    BY DEF Put
  <1>10. w.heap.at = w.start /\ w.heap.total \in Nat /\ w.start \in Nat /\ w.end \in Nat /\ w.start < w.end
    BY HeapOfEntry, EntryPlaces
  <1>11. \A c \in DOMAIN en : en[c].start # w.start
    <2> TAKE c \in DOMAIN en
    <2>1. en[c].start \in Nat /\ en[c].end \in Nat /\ en[c].start < en[c].end
      BY HeapFacts
    <2>2. Hosts(en[c], w, en, bl) => en[c].start < w.start
      BY <1>10, HostedWithin
    <2> QED BY <1>10, <2>1, <2>2 DEF Apart
  <1> HIDE DEF em, ug, vs, p, bm
  <1>12. ASSUME NEW c \in DOMAIN em
         PROVE  HeapOk(em[c], vs)
    <2>1. CASE c = p
      BY <1>7, <1>9, <1>10, <2>1 DEF HeapOk
    <2>2. CASE c \in DOMAIN en
      <3>1. em[c] = en[c] /\ HeapOk(en[c], ug) /\ (en[c].heap # NoHeap => en[c].heap.at = en[c].start)
            /\ en[c].start # w.start
        BY <1>5, <1>7, <1>11, <2>2, HeapFacts
      <3> QED BY <1>9, <3>1 DEF HeapOk
    <2> QED BY <1>7, <2>1, <2>2
  <1>13. ASSUME NEW c \in bm
         PROVE  BlockOk(c, em, vs)
    <2>1. PICK d \in DOMAIN en : en[d].heap # NoHeap /\ en[d].start = c.heap
      BY <1>4, BlockFacts
    <2>2. d \in DOMAIN em /\ em[d] = en[d] /\ en[d].heap.at = c.heap /\ c.heap \in DOMAIN ug /\ c.heap # w.start
      BY <1>4, <1>7, <1>11, <2>1, HeapFacts
    <2>3. vs[c.heap] = ug[c.heap]
      BY <1>9, <2>2
    <2>4. BlockOk(c, en, ug)
      BY <1>5
    <2> QED BY <2>1, <2>2, <2>3, <2>4 DEF BlockOk
  <1>14. \A x \in DOMAIN en : \A f : Hosts(en[x], f, en, bl) => Hosts(em[x], f, em, bm)
    <2> SUFFICES ASSUME NEW x \in DOMAIN en, NEW f, Hosts(en[x], f, en, bl)
                 PROVE  Hosts(em[x], f, em, bm)
      OBVIOUS
    <2>1. PICK c \in bl : /\ c.heap = en[x].heap.at /\ Pointer(c) \notin DOMAIN en
                          /\ Pointer(c) <= f.start /\ f.end <= Pointer(c) + c.asked
      BY DEF Hosts
    <2>2. c \in bm /\ Pointer(c) \notin DOMAIN em
      BY <1>3, <1>7, <2>1 DEF bm
    <2>3. em[x] = en[x] /\ en[x].heap # NoHeap
      BY <1>7 DEF Hosts
    <2> QED BY <2>1, <2>2, <2>3 DEF Hosts
  <1>15. Nested(em, bm)
    <2> SUFFICES ASSUME NEW c \in DOMAIN em, NEW d \in DOMAIN em, c # d
                 PROVE  Apart(em[c], em[d]) \/ Hosts(em[c], em[d], em, bm) \/ Hosts(em[d], em[c], em, bm)
      BY DEF Nested
    <2>1. CASE c \in DOMAIN en /\ d \in DOMAIN en
      <3>1. Apart(en[c], en[d]) \/ Hosts(en[c], en[d], en, bl) \/ Hosts(en[d], en[c], en, bl)
        BY <1>6, <2>1 DEF Nested
      <3>2. em[c] = en[c] /\ em[d] = en[d]
        BY <1>7, <2>1
      <3> QED BY <1>14, <2>1, <3>1, <3>2
    <2>2. CASE c \in DOMAIN en /\ d = p
      BY <1>7, <1>14, <2>2
    <2>3. CASE c = p /\ d \in DOMAIN en
      <3>1. Apart(em[d], em[c]) \/ Hosts(em[d], em[c], em, bm)
        BY <1>7, <1>14, <2>3
      <3> QED BY <3>1 DEF Apart
    <2> QED BY <1>7, <2>1, <2>2, <2>3
  <1>16. Placed(em, bm)
    <2>1. p \in DOMAIN em /\ b \in bm /\ b.at <= p /\ p < b.at + b.size
      BY <1>1, <1>3, <1>7 DEF bm
    <2>2. \A c \in DOMAIN en : \E d \in bm : Pointer(d) \in DOMAIN em /\ d.at <= c /\ c < d.at + d.size
      BY <1>6, <1>7 DEF Placed, bm
    <2> QED BY <1>7, <2>1, <2>2 DEF Placed, p
  <1>17. DOMAIN em \subseteq Nat
    BY <1>3, <1>5, <1>7
  <1>18. Sound(em, vs, bm)
    BY <1>5, <1>8, <1>12, <1>13, <1>15, <1>16, <1>17 DEF Sound
  <1> QED BY <1>18 DEF em, ug, vs, p, bm

-----------------------------------------------------------------------------
(* The start-up, step by step *)

LEMMA InitStart == Regular /\ Init => StartInv
  <1> SUFFICES ASSUME Regular, Init
               PROVE  StartInv
    OBVIOUS
  <1>1. BootInv /\ RegionInv
    BY InitBoot, InitRegions
  <1>2. /\ layout \in Layouts /\ pc = "coalesce" /\ temp_heaps = <<>> /\ list = <<>>
        /\ DOMAIN entries = {} /\ DOMAIN used = {} /\ DOMAIN lock = {} /\ blocks = {}
    BY DEF Init
  <1>3. TempInv
    <2>1. Len(temp_heaps) = 0 /\ DOMAIN temp_heaps = {}
      BY <1>2
    <2>2. Len(layout) \in Nat
      BY <1>2, LayoutFacts
    <2> QED BY <1>2, <2>1, <2>2 DEF TempInv, Arranged
  <1>4. EmptyInv
    BY <1>2 DEF EmptyInv
  <1> QED BY <1>1, <1>2, <1>3, <1>4 DEF StartInv

LEMMA CoalesceStart == Regular /\ StartInv /\ Coalesce => StartInv'
  <1> SUFFICES ASSUME Regular, StartInv, Coalesce
               PROVE  StartInv'
    OBVIOUS
  <1>1. BootInv /\ RegionInv /\ TempInv
    BY DEF StartInv
  <1>2. BootInv' /\ RegionInv'
    BY <1>1, CoalesceKeeps, CoalesceRegions
  <1>3. /\ pc = "coalesce" /\ pc' = pc /\ layout' = layout
        /\ temp_heaps' = temp_heaps /\ entries' = entries /\ list' = list
        /\ used' = used /\ lock' = lock /\ blocks' = blocks
    BY DEF Coalesce, registered, memory
  <1>4. TempInv'
    BY <1>1, <1>3 DEF TempInv
  <1>5. EmptyInv /\ DOMAIN lock = DOMAIN used
    BY <1>3 DEF StartInv
  <1>6. EmptyInv'
    BY <1>3, <1>5 DEF EmptyInv
  <1> QED BY <1>2, <1>3, <1>4, <1>5, <1>6 DEF StartInv

\* The loop over all regions has ended
LEMMA CoalescedStart == Regular /\ StartInv /\ Goto("coalesce", "register", Len(regions)) => StartInv'
  <1> SUFFICES ASSUME Regular, StartInv, Goto("coalesce", "register", Len(regions))
               PROVE  StartInv'
    OBVIOUS
  <1>1. BootInv /\ RegionInv /\ TempInv
    BY DEF StartInv
  <1>2. BootInv'
    BY <1>1, GotoKeeps
  <1>3. /\ pc = "coalesce" /\ pc' = "register" /\ i > Len(regions) /\ i' = 1
        /\ layout' = layout /\ regions' = regions
        /\ temp_heaps' = temp_heaps /\ entries' = entries /\ list' = list
        /\ used' = used /\ lock' = lock /\ blocks' = blocks
    BY DEF Goto, registered, memory
  <1>4. /\ Len(layout) \in Nat /\ DOMAIN layout = 1 .. Len(layout) /\ Len(regions) \in Nat
        /\ DOMAIN regions = 1 .. Len(regions) /\ i \in Nat
    BY <1>1, LayoutFacts DEF RegionInv, BootInv
  <1>5. RegionInv'
    <2>1. Len(regions) = Len(layout)
      BY <1>1, <1>4 DEF RegionInv
    <2>2. \A k \in DOMAIN layout : k < i
      BY <1>3, <1>4, <2>1
    <2> QED BY <1>1, <1>3, <2>2, RegionsStay
  <1>6. TempInv'
    <2>1. temp_heaps = <<>>
      BY <1>1, <1>3 DEF TempInv
    <2>2. Len(temp_heaps) = 0 /\ DOMAIN temp_heaps = {}
      BY <2>1
    <2>3. Arranged(temp_heaps)
      BY <2>2 DEF Arranged
    <2>4. Covers(temp_heaps, regions, 0)
      BY <2>2 DEF Covers, InHeaps, InRegions
    <2>5. Precedes(temp_heaps, regions[1].start, layout[1].type)
      BY <2>1 DEF Precedes
    <2>6. i' - 1 = 0
      BY <1>3
    <2> QED BY <1>3, <1>4, <2>2, <2>3, <2>4, <2>5, <2>6 DEF TempInv
  <1>7. EmptyInv /\ DOMAIN lock = DOMAIN used
    BY <1>3 DEF StartInv
  <1>8. EmptyInv'
    BY <1>3, <1>7 DEF EmptyInv
  <1> QED BY <1>2, <1>3, <1>5, <1>6, <1>7, <1>8 DEF StartInv

LEMMA RegisterStart == Regular /\ StartInv /\ RegisterRegion => StartInv'
  <1> SUFFICES ASSUME Regular, StartInv, RegisterRegion
               PROVE  StartInv'
    OBVIOUS
  <1>1. BootInv /\ RegionInv /\ TempInv
    BY DEF StartInv
  <1>2. BootInv' /\ TempInv'
    BY <1>1, RegisterKeeps, RegisterTemp
  <1>3. /\ pc = "register" /\ pc' = pc /\ UNCHANGED <<layout, regions, entries, list, blocks>>
        /\ \/ temp_heaps' = temp_heaps /\ used' = used
           \/ \E e : /\ temp_heaps' = Append(temp_heaps, e)
                     /\ IF e.heap = NoHeap THEN used' = used ELSE used' = Put(used, e.heap.at, 0)
    BY <1>1, RegisterCases
  <1>4. RegionInv'
    BY <1>1, <1>3, RegionsStay
  <1>5. EmptyInv /\ DOMAIN lock = DOMAIN used
    BY <1>3 DEF StartInv
  <1>6. DOMAIN lock' = DOMAIN used'
    BY <1>5 DEF RegisterRegion, Fresh, Put
  <1>7. EmptyInv'
    <2>1. CASE temp_heaps' = temp_heaps /\ used' = used
      BY <1>3, <1>5, <2>1 DEF EmptyInv
    <2>2. ASSUME NEW e, temp_heaps' = Append(temp_heaps, e),
                 IF e.heap = NoHeap THEN used' = used ELSE used' = Put(used, e.heap.at, 0)
          PROVE  EmptyInv'
      <3>1. temp_heaps \in Seq(GoodEntries)
        BY <1>1 DEF BootInv
      <3>2. \A k \in DOMAIN temp_heaps' : (k \in DOMAIN temp_heaps /\ temp_heaps'[k] = temp_heaps[k]) \/ temp_heaps'[k] = e
        BY <2>2, <3>1
      <3>3. \A x \in DOMAIN used : used[x] = 0 => x \in DOMAIN used' /\ used'[x] = 0
        BY <2>2 DEF Put
      <3>4. e.heap # NoHeap => e.heap.at \in DOMAIN used' /\ used'[e.heap.at] = 0
        BY <2>2 DEF Put
      <3>5. \A k \in DOMAIN temp_heaps' :
               temp_heaps'[k].heap # NoHeap =>
                   temp_heaps'[k].heap.at \in DOMAIN used' /\ used'[temp_heaps'[k].heap.at] = 0
        BY <1>5, <3>2, <3>3, <3>4 DEF EmptyInv
      <3> QED BY <1>3, <1>5, <3>5 DEF EmptyInv
    <2> QED BY <1>3, <2>1, <2>2
  <1> QED BY <1>2, <1>3, <1>4, <1>6, <1>7 DEF StartInv

LEMMA RegisteredStart == Regular /\ StartInv /\ Goto("register", "array", Len(regions)) => StartInv'
  <1> SUFFICES ASSUME Regular, StartInv, Goto("register", "array", Len(regions))
               PROVE  StartInv'
    OBVIOUS
  <1>1. BootInv /\ RegionInv /\ TempInv
    BY DEF StartInv
  <1>2. BootInv'
    BY <1>1, GotoKeeps
  <1>3. /\ pc = "register" /\ pc' = "array" /\ i > Len(regions)
        /\ layout' = layout /\ regions' = regions
        /\ temp_heaps' = temp_heaps /\ entries' = entries /\ list' = list
        /\ used' = used /\ lock' = lock /\ blocks' = blocks
    BY DEF Goto, registered, memory
  <1>4. /\ Len(layout) \in Nat /\ DOMAIN layout = 1 .. Len(layout) /\ Len(regions) \in Nat
        /\ DOMAIN regions = 1 .. Len(regions) /\ i \in Nat
    BY <1>1, LayoutFacts DEF RegionInv, BootInv
  <1>5. RegionInv'
    BY <1>1, <1>3, RegionsStay
  <1>6. TempInv'
    <2>1. /\ Len(temp_heaps) <= Len(layout) /\ Arranged(temp_heaps) /\ i <= Len(layout) + 1
          /\ Covers(temp_heaps, regions, i - 1)
      BY <1>1, <1>3 DEF TempInv
    <2>2. Len(regions) = Len(layout)
      BY <1>1, <1>4 DEF RegionInv
    <2>3. i - 1 = Len(layout)
      BY <1>3, <1>4, <2>1, <2>2
    <2>4. Covers(temp_heaps, layout, Len(layout))
      BY <1>1, <2>1, <2>3 DEF Covers, RegionInv, SameBytes
    <2> QED BY <1>3, <2>1, <2>4 DEF TempInv
  <1>7. EmptyInv /\ DOMAIN lock = DOMAIN used
    BY <1>3 DEF StartInv
  <1>8. EmptyInv'
    BY <1>3, <1>7 DEF EmptyInv
  <1> QED BY <1>2, <1>3, <1>5, <1>6, <1>7, <1>8 DEF StartInv

\* After the regions were registered the heaps on the stack stay as they are
LEMMA TempStays ==
    ASSUME TempInv, RegionInv, UNCHANGED <<layout, regions, temp_heaps>>,
           pc \notin {"coalesce", "register"}, pc' \notin {"coalesce", "register"}
    PROVE  TempInv' /\ RegionInv'
  BY RegionsStay DEF TempInv

-----------------------------------------------------------------------------
(* The array of entries *)

LEMMA BlockSizes ==
    ASSUME NEW size \in Nat, size <= SizeMax
    PROVE  BlockSize(size) \in Nat /\ size + Tags <= BlockSize(size)
  <1> USE Numbers
  <1>1. AlignUp(size, 4) \in Nat /\ size <= AlignUp(size, 4) /\ AlignUp(size, 4) <= size + 3
    BY DEF AlignUp, Wrap
  <1> QED BY <1>1 DEF BlockSize, Wrap

\* A block that a heap with room hands out
LEMMA HandOutNew ==
    ASSUME NEW e \in GoodEntries, Fits(e), e.heap # NoHeap, used[e.heap.at] \in 0 .. e.heap.total,
           NEW size \in Nat, size <= SizeMax, HasRoom(e.heap, size)
    PROVE  /\ IsNew(Block(e.heap, size), e, used, size) /\ size > 0
           /\ Block(e.heap, size).size = BlockSize(size) /\ e.heap.at = e.start
  <1>1. e.heap.at = e.start /\ e.heap.total \in Nat
    BY HeapOfEntry
  <1>2. BlockSize(size) \in Nat /\ size + Tags <= BlockSize(size)
    BY BlockSizes
  <1>3. size # 0 /\ e.heap.total - used[e.heap.at] >= BlockSize(size)
    BY DEF HasRoom
  <1>4. used[e.start] + BlockSize(size) <= e.heap.total
    BY <1>1, <1>2, <1>3
  <1>5. Block(e.heap, size) =
            [at |-> e.start + Header + used[e.start], size |-> BlockSize(size), heap |-> e.start, asked |-> size]
    BY <1>1 DEF Block, First
  <1> QED BY <1>1, <1>2, <1>3, <1>4, <1>5 DEF IsNew

LEMMA Slots ==
    ASSUME NEW base \in Nat, NEW n \in Nat \ {0}, NEW m \in Nat \ {0}
    PROVE  /\ Slot(base, n) \in Nat /\ base <= Slot(base, n)
           /\ n < m => Slot(base, n) + Entry <= Slot(base, m)
           /\ Slot(base, n) + Entry <= base + Entry * n
  <1>1. Entry \in Nat
    BY LayoutsAssumed
  <1>2. \A c \in Nat : \A x, y \in Nat : x <= y => c * x <= c * y /\ c * x \in Nat
    OBVIOUS
  <1>3. Entry * (n - 1) + Entry = Entry * n
    BY <1>1
  <1>4. Entry * (n - 1) \in Nat /\ Entry * n \in Nat /\ Entry * (m - 1) \in Nat
    BY <1>1, <1>2
  <1>5. n < m => Entry * n <= Entry * (m - 1)
    <2>1. n < m => n <= m - 1 /\ m - 1 \in Nat
      OBVIOUS
    <2> QED BY <1>1, <1>2, <2>1
  <1> QED BY <1>1, <1>3, <1>4, <1>5 DEF Slot

LEMMA SlotsDiffer ==
    ASSUME NEW base \in Nat, NEW n \in Nat \ {0}, NEW m \in Nat \ {0}, Slot(base, n) = Slot(base, m)
    PROVE  n = m
  <1>1. Entry \in Nat /\ Entry > 0
    BY LayoutsAssumed
  <1>2. n < m => Slot(base, n) + Entry <= Slot(base, m)
    BY Slots
  <1>3. m < n => Slot(base, m) + Entry <= Slot(base, n)
    BY Slots
  <1>4. Slot(base, n) \in Nat /\ Slot(base, m) \in Nat
    BY Slots
  <1> QED BY <1>1, <1>2, <1>3, <1>4

\* The entries on the stack were copied, each to its slot
Copied(base) ==
    /\ DOMAIN entries' = {Slot(base, n) : n \in DOMAIN temp_heaps}
    /\ \A n \in DOMAIN temp_heaps : entries'[Slot(base, n)] = temp_heaps[n]

LEMMA ArrayCopied ==
    ASSUME BootInv, NEW base \in Nat,
           entries' = [a \in {base + Entry * (n - 1) : n \in DOMAIN temp_heaps} |->
                          temp_heaps[CHOOSE n \in DOMAIN temp_heaps : a = base + Entry * (n - 1)]]
    PROVE  Copied(base)
  <1> DEFINE A == {base + Entry * (n - 1) : n \in DOMAIN temp_heaps}
             pos(a) == CHOOSE n \in DOMAIN temp_heaps : a = base + Entry * (n - 1)
  <1>1. DOMAIN entries' = A /\ \A a \in A : entries'[a] = temp_heaps[pos(a)]
    OBVIOUS
  <1>2. A = {Slot(base, n) : n \in DOMAIN temp_heaps}
    BY DEF Slot
  <1>3. ASSUME NEW n \in DOMAIN temp_heaps
        PROVE  pos(Slot(base, n)) = n
    <2>1. pos(Slot(base, n)) \in DOMAIN temp_heaps /\ Slot(base, n) = Slot(base, pos(Slot(base, n)))
      BY DEF Slot
    <2>2. \A m \in DOMAIN temp_heaps : m \in Nat \ {0}
      BY DEF BootInv
    <2> HIDE DEF pos
    <2> QED BY <2>1, <2>2, SlotsDiffer
  <1>4. ASSUME NEW n \in DOMAIN temp_heaps
        PROVE  entries'[Slot(base, n)] = temp_heaps[n]
    <2>1. Slot(base, n) \in A
      BY <1>2
    <2>2. entries'[Slot(base, n)] = temp_heaps[pos(Slot(base, n))]
      BY <1>1, <2>1
    <2> QED BY <1>3, <2>2
  <1>5. DOMAIN entries' = {Slot(base, n) : n \in DOMAIN temp_heaps}
    BY <1>1, <1>2
  <1> HIDE DEF A, pos
  <1> QED BY <1>4, <1>5 DEF Copied

\* What AllocateArray does: the block comes from an empty heap, and the array is in it
LEMMA ArrayFacts ==
    ASSUME Regular, BootInv, RegionInv, TempInv, EmptyInv, AllocateArray
    PROVE  \E k \in DOMAIN temp_heaps : \E b :
              /\ temp_heaps[k].heap # NoHeap /\ IsNew(b, temp_heaps[k], used, ArraySize)
              /\ used' = Grown(used, temp_heaps[k].start, b.size) /\ blocks' = {b}
              /\ Copied(Pointer(b))
              /\ Pointer(b) \in Nat /\ b.at < Pointer(b) /\ Pointer(b) + ArraySize < b.at + b.size
  <1>1. PICK k \in Candidates :
            /\ HandOut(temp_heaps[k].heap, ArraySize)
            /\ LET array == Pointer(Block(temp_heaps[k].heap, ArraySize))
               IN entries' = [a \in {array + Entry * (n - 1) : n \in DOMAIN temp_heaps} |->
                                 temp_heaps[CHOOSE n \in DOMAIN temp_heaps : a = array + Entry * (n - 1)]]
    BY DEF AllocateArray
  <1> DEFINE e == temp_heaps[k]
             b == Block(e.heap, ArraySize)
  <1>2. k \in DOMAIN temp_heaps /\ e.heap # NoHeap /\ HasRoom(e.heap, ArraySize)
    BY DEF Candidates, IsInternal
  <1>3. e \in GoodEntries /\ Fits(e)
    BY <1>2 DEF BootInv, TempInv, Arranged
  <1>4. ArraySize \in Nat /\ ArraySize <= SizeMax
    <2>1. /\ Entry \in Nat /\ Entry * Len(layout) <= SizeMax /\ Len(layout) \in Nat
          /\ Len(temp_heaps) \in Nat /\ Len(temp_heaps) <= Len(layout) /\ SizeMax \in Nat
      BY LayoutsAssumed, LayoutFacts, Numbers DEF RegionInv, BootInv, TempInv
    <2>2. \A c \in Nat : \A x, y \in Nat : x <= y => c * x <= c * y /\ c * x \in Nat
      OBVIOUS
    <2>3. Entry * Len(temp_heaps) \in Nat /\ Entry * Len(temp_heaps) <= Entry * Len(layout)
          /\ Entry * Len(layout) \in Nat
      BY <2>1, <2>2
    <2> QED BY <2>1, <2>3 DEF ArraySize
  <1>5. used[e.heap.at] \in 0 .. e.heap.total /\ e.heap.total \in Nat
    <2>1. used[e.heap.at] = 0
      BY <1>2 DEF EmptyInv
    <2>2. e.heap.total \in Nat
      BY <1>2, <1>3, HeapOfEntry
    <2> QED BY <2>1, <2>2
  <1>6. IsNew(b, e, used, ArraySize) /\ b.size = BlockSize(ArraySize) /\ e.heap.at = e.start
    BY <1>2, <1>3, <1>4, <1>5, HandOutNew
  <1>7. used' = Grown(used, e.start, b.size) /\ blocks' = {b}
    BY <1>1, <1>6 DEF HandOut, Grown, EmptyInv
  <1>8. /\ b.at = e.start + Header + used[e.start] /\ BlockSize(ArraySize) \in Nat
        /\ ArraySize + Tags <= BlockSize(ArraySize)
    BY <1>6 DEF IsNew
  <1>9. b.at \in Nat
    <2>1. e.start \in Nat /\ used[e.start] \in Nat /\ Header \in Nat
      BY <1>3, <1>5, <1>6, EntryPlaces, Numbers
    <2> QED BY <1>8, <2>1
  <1>10. Pointer(b) \in Nat /\ b.at < Pointer(b) /\ Pointer(b) + ArraySize < b.at + b.size
    <2>1. Tags \in Nat /\ Tags % 2 = 0 /\ Tags > 0
      BY BootAssumption
    <2> HIDE DEF b, e
    <2> QED BY <1>4, <1>6, <1>8, <1>9, <2>1 DEF Pointer
  <1>11. Copied(Pointer(b))
    BY <1>1, <1>10, ArrayCopied
  <1> HIDE DEF b, e
  <1> QED BY <1>2, <1>6, <1>7, <1>10, <1>11 DEF e

LEMMA ArrayStart == Regular /\ StartInv /\ AllocateArray => StartInv'
  <1> SUFFICES ASSUME Regular, StartInv, AllocateArray
               PROVE  StartInv'
    OBVIOUS
  <1>1. BootInv /\ RegionInv /\ TempInv
    BY DEF StartInv
  <1>2. /\ pc = "array" /\ pc' = "publish" /\ i' = 1
        /\ UNCHANGED <<layout, regions, temp_heaps, list, lock>>
    BY DEF AllocateArray
  <1>3. BootInv' /\ RegionInv' /\ TempInv'
    BY <1>1, <1>2, ArrayKeeps, TempStays
  <1>4. EmptyInv /\ DOMAIN lock = DOMAIN used
    BY <1>2 DEF StartInv
  <1>0. PICK k \in DOMAIN temp_heaps : \E b :
              /\ temp_heaps[k].heap # NoHeap /\ IsNew(b, temp_heaps[k], used, ArraySize)
              /\ used' = Grown(used, temp_heaps[k].start, b.size) /\ blocks' = {b}
              /\ Copied(Pointer(b))
              /\ Pointer(b) \in Nat /\ b.at < Pointer(b) /\ Pointer(b) + ArraySize < b.at + b.size
    BY <1>1, <1>4, ArrayFacts
  <1>5. PICK b :
              /\ temp_heaps[k].heap # NoHeap /\ IsNew(b, temp_heaps[k], used, ArraySize)
              /\ used' = Grown(used, temp_heaps[k].start, b.size) /\ blocks' = {b}
              /\ Copied(Pointer(b))
              /\ Pointer(b) \in Nat /\ b.at < Pointer(b) /\ Pointer(b) + ArraySize < b.at + b.size
    BY <1>0
  <1> DEFINE base == Pointer(b)
             h == temp_heaps
             l == Len(temp_heaps)
  <1>6. /\ l \in Nat /\ DOMAIN h = 1 .. l /\ k \in 1 .. l
        /\ \A n \in 1 .. l : h[n] \in GoodEntries /\ Fits(h[n])
    <2>1. h \in Seq(GoodEntries)
      BY <1>1 DEF BootInv
    <2>2. \A n \in DOMAIN h : Fits(h[n])
      BY <1>1 DEF TempInv, Arranged
    <2> QED BY <2>1, <2>2
  <1>7. \A n \in 1 .. l : /\ h[n].start \in Nat /\ h[n].end \in Nat /\ h[n].start < h[n].end
                          /\ h[n].heap # NoHeap =>
                               /\ h[n].heap.at = h[n].start /\ h[n].heap.total \in Nat
                               /\ h[n].start \in DOMAIN used /\ used[h[n].start] = 0
    <2> TAKE n \in 1 .. l
    <2>1. h[n].heap # NoHeap => h[n].heap.at = h[n].start /\ h[n].heap.total \in Nat
      BY <1>6, HeapOfEntry
    <2>2. h[n].heap # NoHeap => h[n].heap.at \in DOMAIN used /\ used[h[n].heap.at] = 0
      BY <1>4, <1>6 DEF EmptyInv
    <2>3. h[n].start \in Nat /\ h[n].end \in Nat /\ h[n].start < h[n].end
      BY <1>6, EntryPlaces
    <2> QED BY <2>1, <2>2, <2>3
  <1>8. \A n, m \in 1 .. l : n < m => h[n].end <= h[m].start
    BY <1>1, <1>6 DEF TempInv, Arranged
  <1>9. /\ DOMAIN entries' = {Slot(base, n) : n \in 1 .. l}
        /\ \A n \in 1 .. l : entries'[Slot(base, n)] = h[n]
    BY <1>5, <1>6 DEF Copied
  <1>10. \A n \in 1 .. l : /\ Slot(base, n) \in Nat /\ base <= Slot(base, n)
                           /\ Slot(base, n) + Entry <= base + ArraySize
    <2> TAKE n \in 1 .. l
    <2>1. n \in Nat \ {0} /\ base \in Nat /\ Entry \in Nat
      BY <1>5, <1>6, LayoutsAssumed
    <2>2. Slot(base, n) \in Nat /\ base <= Slot(base, n) /\ Slot(base, n) + Entry <= base + Entry * n
      BY <2>1, Slots
    <2>3. \A c \in Nat : \A x, y \in Nat : x <= y => c * x <= c * y /\ c * x \in Nat
      OBVIOUS
    <2>4. Entry * n <= Entry * l /\ Entry * n \in Nat /\ Entry * l \in Nat
      BY <1>6, <2>1, <2>3
    <2> QED BY <2>1, <2>2, <2>4 DEF ArraySize
  <1>11. /\ b.at = h[k].start + Header + used[h[k].start] /\ b.size \in Nat /\ b.asked + Tags <= b.size
         /\ b.heap = h[k].start /\ b \in [at : Nat, size : Nat, heap : Nat, asked : Nat]
         /\ b.size <= h[k].heap.total /\ used[h[k].start] = 0 /\ b.at = h[k].start + Header
    <2>1. /\ h[k].start \in Nat /\ used[h[k].start] = 0 /\ Header \in Nat /\ h[k].heap.total \in Nat
      BY <1>5, <1>6, <1>7, Numbers
    <2>2. /\ b = [at |-> h[k].start + Header + used[h[k].start], size |-> BlockSize(ArraySize),
                  heap |-> h[k].start, asked |-> ArraySize]
          /\ BlockSize(ArraySize) \in Nat /\ ArraySize \in Nat /\ ArraySize + Tags <= BlockSize(ArraySize)
          /\ used[h[k].start] + BlockSize(ArraySize) <= h[k].heap.total
      BY <1>5 DEF IsNew
    <2> HIDE DEF h
    <2> QED BY <2>1, <2>2
  <1> HIDE DEF h, l, base
  <1>12. /\ used'[h[k].start] = b.size /\ DOMAIN used' = DOMAIN used
         /\ \A x \in DOMAIN used : x # h[k].start => used'[x] = used[x]
         /\ h[k].start \in DOMAIN used /\ blocks' = {b} /\ h[k].heap # NoHeap
    <2>1. used' = Grown(used, h[k].start, b.size) /\ blocks' = {b} /\ h[k].heap # NoHeap
      BY <1>5 DEF h
    <2>2. h[k].start \in DOMAIN used
      BY <1>6, <1>7, <2>1
    <2> QED BY <1>11, <2>1, <2>2 DEF Grown
  <1>13. \A n \in 1 .. l : n # k => h[n].start # h[k].start
    BY <1>6, <1>7, <1>8
  <1>14. Sound(entries', used', blocks')
    <2>1. entries' \in [DOMAIN entries' -> GoodEntries] /\ DOMAIN entries' \subseteq Nat
      BY <1>3, <1>9, <1>10 DEF BootInv
    <2>2. ASSUME NEW a \in DOMAIN entries'
          PROVE  HeapOk(entries'[a], used')
      <3>1. PICK n \in 1 .. l : a = Slot(base, n) /\ entries'[a] = h[n]
        BY <1>9
      <3>2. Fits(h[n])
        BY <1>6
      <3>3. h[n].heap # NoHeap => h[n].heap.at \in DOMAIN used' /\ used'[h[n].heap.at] \in 0 .. h[n].heap.total
        <4>1. h[n].heap # NoHeap =>
                /\ h[n].heap.at = h[n].start /\ h[n].heap.total \in Nat
                /\ h[n].start \in DOMAIN used /\ used[h[n].start] = 0
          BY <1>7
        <4>2. n = k => used'[h[n].start] \in 0 .. h[n].heap.total
          BY <1>6, <1>7, <1>11, <1>12
        <4>3. n # k /\ h[n].heap # NoHeap => used'[h[n].start] = 0
          BY <1>12, <1>13, <4>1
        <4> QED BY <1>12, <4>1, <4>2, <4>3
      <3> QED BY <3>1, <3>2, <3>3 DEF HeapOk
    <2>3. BlockOk(b, entries', used')
      <3>1. /\ Slot(base, k) \in DOMAIN entries' /\ entries'[Slot(base, k)].heap # NoHeap
            /\ entries'[Slot(base, k)].heap.at = b.heap
        <4>1. Slot(base, k) \in DOMAIN entries' /\ entries'[Slot(base, k)] = h[k]
          BY <1>6, <1>9
        <4>2. h[k].heap.at = h[k].start
          BY <1>6, <1>7, <1>12
        <4> QED BY <1>11, <1>12, <4>1, <4>2
      <3>2. b.heap + Header <= b.at /\ b.at + b.size <= b.heap + Header + used'[b.heap]
        BY <1>6, <1>7, <1>11, <1>12, Numbers
      <3> QED BY <1>11, <3>1, <3>2 DEF BlockOk
    <2>4. Nested(entries', blocks')
      <3> SUFFICES ASSUME NEW a \in DOMAIN entries', NEW c \in DOMAIN entries', a # c
                   PROVE  Apart(entries'[a], entries'[c])
        BY DEF Nested
      <3>1. PICK n \in 1 .. l : a = Slot(base, n) /\ entries'[a] = h[n]
        BY <1>9
      <3>2. PICK m \in 1 .. l : c = Slot(base, m) /\ entries'[c] = h[m]
        BY <1>9
      <3>3. n < m \/ m < n
        BY <1>6, <3>1, <3>2
      <3> QED BY <1>8, <3>1, <3>2, <3>3 DEF Apart
    <2>5. Placed(entries', blocks')
      <3>1. base \in DOMAIN entries'
        <4>1. 1 \in 1 .. l
          BY <1>6
        <4>2. Slot(base, 1) = base
          <5>1. base \in Nat /\ Entry \in Nat
            BY <1>5, LayoutsAssumed DEF base
          <5> QED BY <5>1 DEF Slot
        <4> QED BY <1>9, <4>1, <4>2
      <3>2. ASSUME NEW a \in DOMAIN entries'
            PROVE  b.at <= a /\ a < b.at + b.size
        <4>1. PICK n \in 1 .. l : a = Slot(base, n)
          BY <1>9
        <4>2. /\ a \in Nat /\ base <= a /\ a + Entry <= base + ArraySize /\ base \in Nat /\ Entry \in Nat
              /\ b.at < base /\ base + ArraySize < b.at + b.size /\ b.at \in Nat /\ b.size \in Nat
          BY <1>5, <1>10, <1>11, <4>1, LayoutsAssumed DEF base
        <4>3. ArraySize \in Nat
          BY <1>6, LayoutsAssumed DEF ArraySize, l
        <4> QED BY <4>2, <4>3
      <3> QED BY <1>12, <3>1, <3>2 DEF Placed, base
    <2> QED BY <1>12, <2>1, <2>2, <2>3, <2>4, <2>5 DEF Sound
  <1>15. ListInv'
    <2>1. list' = <<>> /\ Listed' = {}
      BY <1>2, <1>4 DEF EmptyInv, Listed
    <2>2. ArrayAt(base, entries', temp_heaps')
      BY <1>2, <1>6, <1>9 DEF ArrayAt, SameRegion, h
    <2>3. PublishInv(base)'
      <3>1. temp_heaps' = h /\ DOMAIN entries' = {Slot(base, n) : n \in DOMAIN h} /\ Len(temp_heaps') = l
        BY <1>2, <1>6, <1>9 DEF h, l
      <3>2. i' = 1 /\ i' <= l + 1 /\ Len(list') = i' - 1 /\ 1 .. i' - 1 = {}
        BY <1>2, <1>6, <2>1
      <3> QED BY <3>1, <3>2 DEF PublishInv
    <2>4. Locked(entries', Listed', lock')
      BY <2>1 DEF Locked
    <2>5. list' \in Seq(DOMAIN entries')
      BY <2>1
    <2>6. base \in Nat
      BY <1>5 DEF base
    <2> QED BY <1>2, <2>2, <2>3, <2>4, <2>5, <2>6 DEF ListInv
  <1> QED BY <1>2, <1>3, <1>4, <1>12, <1>14, <1>15 DEF StartInv

-----------------------------------------------------------------------------
(* The list *)

\* What the steps have in common that come after the array was allocated
LEMMA StartedFacts ==
    ASSUME StartInv, pc \in {"publish", "run"}
    PROVE  /\ BootInv /\ RegionInv /\ TempInv /\ DOMAIN lock = DOMAIN used
           /\ Sound(entries, used, blocks) /\ ListInv
           /\ temp_heaps \in Seq(GoodEntries) /\ Len(temp_heaps) \in Nat
           /\ DOMAIN temp_heaps = 1 .. Len(temp_heaps)
           /\ list \in Seq(DOMAIN entries) /\ Len(list) \in Nat /\ DOMAIN list = 1 .. Len(list)
           /\ Listed \subseteq DOMAIN entries /\ i \in Nat /\ i > 0
  <1>1. /\ BootInv /\ RegionInv /\ TempInv /\ DOMAIN lock = DOMAIN used
        /\ Sound(entries, used, blocks) /\ ListInv
    BY DEF StartInv
  <1>2. temp_heaps \in Seq(GoodEntries) /\ list \in Seq(DOMAIN entries) /\ i \in Nat /\ i > 0
    BY <1>1 DEF BootInv, ListInv
  <1>3. Listed \subseteq DOMAIN entries
    BY <1>2 DEF Listed
  <1> QED BY <1>1, <1>2, <1>3

\* The slots in the array, by which Publish finds the entries
LEMMA AddressIsSlot ==
    ASSUME NEW base \in Nat, Len(temp_heaps) \in Nat, Len(temp_heaps) > 0,
           DOMAIN temp_heaps = 1 .. Len(temp_heaps),
           DOMAIN entries = {Slot(base, n) : n \in DOMAIN temp_heaps}, NEW n \in Nat
    PROVE  Address(n) = Slot(base, n)
  <1>1. base \in DOMAIN entries
    <2>1. Slot(base, 1) = base
      <3>1. Entry \in Nat
        BY LayoutsAssumed
      <3> QED BY <3>1 DEF Slot
    <2>2. 1 \in DOMAIN temp_heaps
      OBVIOUS
    <2> QED BY <2>1, <2>2
  <1>2. \A a \in DOMAIN entries : a \in Nat /\ base <= a
    BY Slots
  <1>3. (CHOOSE a \in DOMAIN entries : \A b \in DOMAIN entries : a <= b) = base
    <2> DEFINE c == CHOOSE a \in DOMAIN entries : \A b \in DOMAIN entries : a <= b
    <2>1. c \in DOMAIN entries /\ \A b \in DOMAIN entries : c <= b
      BY <1>1, <1>2
    <2> HIDE DEF c
    <2>2. c \in Nat /\ base <= c /\ c <= base
      BY <1>1, <1>2, <2>1
    <2>3. \A x \in Nat : base <= x /\ x <= base => x = base
      OBVIOUS
    <2>4. c = base
      BY <2>2, <2>3
    <2> QED BY <2>4 DEF c
  <1> QED BY <1>3 DEF Address, Slot

LEMMA PublishStart == Regular /\ StartInv /\ Publish => StartInv'
  <1> SUFFICES ASSUME Regular, StartInv, Publish
               PROVE  StartInv'
    OBVIOUS
  <1>1. /\ pc = "publish" /\ pc' = pc /\ i' = i + 1 /\ i <= Len(temp_heaps)
        /\ UNCHANGED <<layout, regions, temp_heaps, entries, used, blocks>>
    BY DEF Publish
  <1>2. /\ BootInv /\ RegionInv /\ TempInv /\ DOMAIN lock = DOMAIN used
        /\ Sound(entries, used, blocks) /\ ListInv
        /\ Len(temp_heaps) \in Nat /\ DOMAIN temp_heaps = 1 .. Len(temp_heaps)
        /\ list \in Seq(DOMAIN entries) /\ Len(list) \in Nat /\ DOMAIN list = 1 .. Len(list)
        /\ Listed \subseteq DOMAIN entries /\ i \in Nat /\ i > 0
    BY <1>1, StartedFacts
  <1>3. BootInv' /\ TempInv' /\ RegionInv'
    BY <1>1, <1>2, PublishKeeps, TempStays
  <1>4. Sound(entries', used', blocks')
    BY <1>1, <1>2
  <1>5. PICK base \in Nat : ArrayAt(base, entries, temp_heaps) /\ PublishInv(base)
    BY <1>1, <1>2 DEF ListInv
  <1> DEFINE a == Slot(base, i)
  <1>6. /\ DOMAIN entries = {Slot(base, n) : n \in DOMAIN temp_heaps} /\ Len(list) = i - 1
        /\ \A n \in 1 .. i - 1 : list[n] = Slot(base, n)
    BY <1>5 DEF PublishInv
  <1>7. a \in DOMAIN entries
    BY <1>1, <1>2, <1>6
  <1>8. Address(i) = a
    BY <1>1, <1>2, <1>6, AddressIsSlot
  <1>9. /\ list' = Append(list, a)
        /\ lock' = IF entries[a].heap = NoHeap THEN lock ELSE [lock EXCEPT ![entries[a].heap.at] = a]
    BY <1>8 DEF Publish
  <1> HIDE DEF a
  <1>10. DOMAIN lock' = DOMAIN used'
    BY <1>1, <1>2, <1>9
  <1>11. /\ list' \in Seq(DOMAIN entries) /\ Len(list') = i
         /\ list'[i] = a /\ \A n \in 1 .. i - 1 : list'[n] = Slot(base, n)
    BY <1>2, <1>6, <1>7, <1>9
  <1>12. \A c \in Listed' : c \in Listed \/ c = a
    <2>1. \A n \in DOMAIN list' : (n \in DOMAIN list /\ list'[n] = list[n]) \/ list'[n] = a
      BY <1>2, <1>9
    <2> QED BY <2>1 DEF Listed
  <1>13. PublishInv(base)'
    <2>1. i' - 1 = i /\ i' <= Len(temp_heaps) + 1 /\ temp_heaps' = temp_heaps /\ entries' = entries
      BY <1>1, <1>2
    <2>2. \A n \in 1 .. i : list'[n] = Slot(base, n)
      BY <1>2, <1>11 DEF a
    <2> QED BY <1>6, <1>11, <2>1, <2>2 DEF PublishInv
  <1>14. Locked(entries', Listed', lock')
    <2> SUFFICES ASSUME NEW c \in Listed', entries[c].heap # NoHeap
                 PROVE  lock'[entries[c].heap.at] = c
      BY <1>1 DEF Locked
    <2>1. c \in DOMAIN entries
      BY <1>2, <1>7, <1>12
    <2>2. entries[c].heap.at = entries[c].start /\ entries[c].start \in DOMAIN lock
      BY <1>2, <2>1, HeapFacts
    <2>3. CASE c = a
      BY <1>9, <2>2, <2>3
    <2>4. CASE c # a
      <3>1. lock[entries[c].heap.at] = c
        BY <1>2, <1>12, <2>4 DEF ListInv, Locked
      <3>2. entries[a].heap # NoHeap => entries[a].heap.at = entries[a].start
        BY <1>2, <1>7, HeapFacts
      <3>3. entries[a].start # entries[c].start
        BY <1>2, <1>7, <2>1, <2>4, StartsDiffer
      <3> QED BY <1>9, <2>2, <3>1, <3>2, <3>3
    <2> QED BY <2>3, <2>4
  <1>15. ListInv'
    <2>1. ArrayAt(base, entries', temp_heaps')
      BY <1>1, <1>5
    <2> QED BY <1>1, <1>11, <1>13, <1>14, <2>1 DEF ListInv
  <1> QED BY <1>1, <1>3, <1>4, <1>10, <1>15 DEF StartInv

\* All entries are on the list when the loop has ended
LEMMA PublishedStart == Regular /\ StartInv /\ Goto("publish", "run", Len(temp_heaps)) => StartInv'
  <1> SUFFICES ASSUME Regular, StartInv, Goto("publish", "run", Len(temp_heaps))
               PROVE  StartInv'
    OBVIOUS
  <1>1. /\ pc = "publish" /\ pc' = "run" /\ i' = 1 /\ i > Len(temp_heaps)
        /\ UNCHANGED <<layout, regions, temp_heaps, entries, list, used, lock, blocks>>
    BY DEF Goto, registered, memory
  <1>2. /\ BootInv /\ RegionInv /\ TempInv /\ DOMAIN lock = DOMAIN used
        /\ Sound(entries, used, blocks) /\ ListInv
        /\ Len(temp_heaps) \in Nat /\ DOMAIN temp_heaps = 1 .. Len(temp_heaps)
        /\ list \in Seq(DOMAIN entries) /\ Len(list) \in Nat /\ DOMAIN list = 1 .. Len(list)
        /\ Listed \subseteq DOMAIN entries /\ i \in Nat /\ i > 0
    BY <1>1, StartedFacts
  <1>3. BootInv' /\ TempInv' /\ RegionInv'
    BY <1>1, <1>2, GotoKeeps, TempStays
  <1>4. PICK base \in Nat : ArrayAt(base, entries, temp_heaps) /\ PublishInv(base)
    BY <1>1, <1>2 DEF ListInv
  <1>5. /\ DOMAIN entries = {Slot(base, n) : n \in DOMAIN temp_heaps} /\ Len(list) = Len(temp_heaps)
        /\ \A n \in 1 .. Len(temp_heaps) : list[n] = Slot(base, n)
    BY <1>1, <1>2, <1>4 DEF PublishInv
  <1>6. Listed = DOMAIN entries
    BY <1>2, <1>5 DEF Listed
  <1>7. RunList(base)
    <2>1. \A n \in DOMAIN temp_heaps : Len(list) - Len(temp_heaps) + n = n
      BY <1>2, <1>5
    <2> QED BY <1>2, <1>5, <1>6, <2>1 DEF RunList
  <1>8. ListInv'
    <2>1. RunList(base)' /\ ArrayAt(base, entries', temp_heaps')
      BY <1>1, <1>4, <1>7 DEF RunList, Listed
    <2>2. Locked(entries', Listed', lock')
      BY <1>1, <1>2 DEF ListInv, Listed
    <2> QED BY <1>1, <1>2, <2>1, <2>2 DEF ListInv
  <1> QED BY <1>1, <1>2, <1>3, <1>8 DEF StartInv

LEMMA MallocStart ==
    ASSUME Regular, StartInv, NEW size \in Nat, Malloc(size)
    PROVE  StartInv'
  <1>1. /\ pc = "run" /\ UNCHANGED <<layout, pc, i, regions, temp_heaps, entries, list, lock>> /\ size <= SizeMax
    BY DEF Malloc, Allowed, boot, registered
  <1>2. /\ BootInv /\ RegionInv /\ TempInv /\ DOMAIN lock = DOMAIN used
        /\ Sound(entries, used, blocks) /\ ListInv /\ Listed \subseteq DOMAIN entries
    BY <1>1, StartedFacts
  <1>3. PICK a \in Listed : /\ entries[a].heap # NoHeap /\ HasRoom(entries[a].heap, size)
                            /\ HandOut(entries[a].heap, size)
    BY DEF Malloc
  <1> DEFINE e == entries[a]
             b == Block(e.heap, size)
  <1>4. /\ a \in DOMAIN entries /\ e \in GoodEntries /\ Fits(e) /\ e.heap # NoHeap
        /\ e.heap.at = e.start /\ used[e.heap.at] \in 0 .. e.heap.total
    BY <1>2, <1>3, HeapFacts
  <1>5. IsNew(b, e, used, size) /\ b.size = BlockSize(size)
    BY <1>1, <1>3, <1>4, HandOutNew
  <1>6. used' = Grown(used, e.start, b.size) /\ blocks' = blocks \cup {b}
    BY <1>3, <1>4, <1>5 DEF HandOut, Grown
  <1> HIDE DEF b
  <1>7. Sound(entries, used', blocks')
    BY <1>2, <1>4, <1>5, <1>6, GrowSound
  <1>8. DOMAIN lock' = DOMAIN used'
    BY <1>1, <1>2, <1>6 DEF Grown
  <1>9. BootInv' /\ RegionInv' /\ TempInv'
    BY <1>1, <1>2, TempStays DEF BootInv
  <1>10. ListInv'
    BY <1>1, <1>2 DEF ListInv, PublishInv, RunList, Listed
  <1> QED BY <1>1, <1>7, <1>8, <1>9, <1>10 DEF StartInv

LEMMA EnableStart ==
    ASSUME Regular, StartInv, NEW a \in DOMAIN entries, EnableStackHeap(a)
    PROVE  StartInv'
  <1> DEFINE w == WithHeap(entries[a])
  <1>1. /\ pc = "run" /\ UNCHANGED <<layout, pc, i, regions, temp_heaps, list, blocks>>
        /\ entries[a].heap = NoHeap /\ entries' = [entries EXCEPT ![a] = w]
        /\ used' = Put(used, w.heap.at, 0) /\ lock' = Put(lock, w.heap.at, a)
    BY DEF EnableStackHeap, boot
  <1>2. /\ BootInv /\ RegionInv /\ TempInv /\ DOMAIN lock = DOMAIN used
        /\ Sound(entries, used, blocks) /\ ListInv /\ Listed \subseteq DOMAIN entries
    BY <1>1, StartedFacts
  <1>3. BootInv' /\ RegionInv' /\ TempInv'
    BY <1>1, <1>2, EnableKeeps, TempStays
  <1>4. entries[a] \in GoodEntries /\ Fits(entries[a])
    BY <1>2, HeapFacts
  <1>5. /\ w \in GoodEntries /\ w.start = entries[a].start /\ w.end = entries[a].end /\ w.type = entries[a].type
        /\ w.heap = Heap(entries[a].start, entries[a].end - entries[a].start)
    <2>1. w \in GoodEntries
      BY <1>4, WithHeapGood
    <2> QED BY <1>4, <2>1 DEF WithHeap, GoodEntries, Good, EntryType
  <1>6. w.heap # NoHeap /\ w.heap.at = w.start
    BY <1>4, <1>5, HeapOfEntry
  <1> HIDE DEF w
  <1>7. Sound(entries', used', blocks')
    BY <1>1, <1>2, <1>5, <1>6, EnableSound
  <1>8. DOMAIN lock' = DOMAIN used'
    BY <1>1, <1>2 DEF Put
  <1>9. DOMAIN entries' = DOMAIN entries /\ entries'[a] = w /\ \A c \in DOMAIN entries : c # a => entries'[c] = entries[c]
    BY <1>1
  <1>10. Locked(entries', Listed', lock')
    <2> SUFFICES ASSUME NEW c \in Listed, entries'[c].heap # NoHeap
                 PROVE  lock'[entries'[c].heap.at] = c
      BY <1>1 DEF Locked, Listed
    <2>1. CASE c = a
      BY <1>1, <1>6, <1>9, <2>1 DEF Put
    <2>2. CASE c # a
      <3>1. c \in DOMAIN entries /\ entries'[c] = entries[c] /\ entries[c].heap # NoHeap
        BY <1>2, <1>9, <2>2
      <3>2. lock[entries[c].heap.at] = c
        BY <1>2, <3>1 DEF ListInv, Locked
      <3>3. entries[c].heap.at = entries[c].start /\ entries[c].start \in DOMAIN lock /\ entries[c].start # w.start
        BY <1>2, <1>5, <2>2, <3>1, HeapFacts, StartsDiffer
      <3> QED BY <1>1, <1>6, <3>1, <3>2, <3>3 DEF Put
    <2> QED BY <2>1, <2>2
  <1>11. ListInv'
    <2>1. PICK base \in Nat : ArrayAt(base, entries, temp_heaps) /\ RunList(base)
      BY <1>1, <1>2 DEF ListInv
    <2>2. ArrayAt(base, entries', temp_heaps')
      BY <1>1, <1>5, <1>9, <2>1 DEF ArrayAt, SameRegion
    <2>3. RunList(base)'
      BY <1>1, <1>9, <2>1 DEF RunList, Listed
    <2>4. list' \in Seq(DOMAIN entries')
      BY <1>1, <1>2, <1>9 DEF ListInv
    <2> QED BY <1>1, <1>10, <2>2, <2>3, <2>4 DEF ListInv
  <1> QED BY <1>1, <1>3, <1>7, <1>8, <1>11 DEF StartInv

-----------------------------------------------------------------------------
(* Regions added later *)

\* A region that passes the test for overlaps, and is the caller's to give, is apart
\* from a listed one or in a block of its heap
LEMMA NewRegion ==
    ASSUME Sound(entries, used, blocks), Listed = DOMAIN entries,
           NEW w, w.start \in Nat, w.end \in Nat, w.start < w.end,
           Offered(w.start, w.end), ~Overlaps(w.start, w.end), NEW a \in DOMAIN entries
    PROVE  Apart(entries[a], w) \/ Hosts(entries[a], w, entries, blocks)
  <1> DEFINE e == entries[a]
  <1>1. e.start \in Nat /\ e.end \in Nat /\ e.start < e.end
    BY HeapFacts
  <1>2. ~(w.start <= e.start /\ w.end > e.start) /\ ~(w.start < e.end /\ w.end > e.end)
    BY DEF Overlaps
  <1>3. Apart(e, w) \/ (e.start < w.start /\ w.end <= e.end)
    BY <1>1, <1>2 DEF Apart
  <1>4. SUFFICES ASSUME e.start < w.start, w.end <= e.end
                 PROVE  Hosts(e, w, entries, blocks)
    BY <1>3
  <1>5. Inside(w.start, w.end, e)
    BY <1>1, <1>4 DEF Inside
  <1>6. PICK b \in blocks : /\ Pointer(b) \notin DOMAIN entries /\ Inside(b.at, b.at + b.size, e)
                            /\ Pointer(b) <= w.start /\ w.end <= Pointer(b) + b.asked
    BY <1>5 DEF Offered
  <1>7. /\ b.at \in Nat /\ b.size \in Nat /\ b.asked \in Nat /\ Pointer(b) \in Nat /\ b.at < Pointer(b)
        /\ Pointer(b) + b.asked < b.at + b.size
        /\ \E d \in DOMAIN entries : entries[d].heap # NoHeap /\ entries[d].start = b.heap /\ b.at + b.size <= entries[d].end
        /\ b.heap + Header <= b.at /\ b.heap \in Nat /\ Header \in Nat
    BY BlockFacts, Numbers
  <1>8. PICK d \in DOMAIN entries : entries[d].heap # NoHeap /\ entries[d].start = b.heap /\ b.at + b.size <= entries[d].end
    BY <1>7
  <1> DEFINE f == entries[d]
  <1>9. f.start \in Nat /\ f.end \in Nat /\ f.start < f.end /\ f.heap.at = f.start
    BY <1>8, HeapFacts
  <1>10. e.start <= b.at /\ b.at + b.size <= e.end
    BY <1>6 DEF Inside
  <1>11. CASE d = a
    BY <1>6, <1>8, <1>9, <1>11 DEF Hosts
  <1>12. CASE d # a
    <2>1. ~Apart(e, f)
      BY <1>1, <1>7, <1>8, <1>9, <1>10 DEF Apart
    <2>2. CASE Hosts(e, f, entries, blocks)
      <3>1. PICK h \in blocks : /\ h.heap = e.heap.at /\ Pointer(h) \notin DOMAIN entries
                                /\ Pointer(h) <= f.start /\ f.end <= Pointer(h) + h.asked
        BY <2>2 DEF Hosts
      <3>2. Pointer(h) \in Nat /\ h.asked \in Nat
        BY BlockFacts
      <3>3. Pointer(h) <= w.start /\ w.end <= Pointer(h) + h.asked
        BY <1>6, <1>7, <1>8, <1>9, <3>1, <3>2
      <3> QED BY <2>2, <3>1, <3>3 DEF Hosts
    <2>3. CASE Hosts(f, e, entries, blocks)
      <3>1. PICK h \in blocks : /\ h.heap = f.heap.at
                                /\ Pointer(h) <= e.start /\ e.end <= Pointer(h) + h.asked
        BY <2>3 DEF Hosts
      <3>2. /\ h.at \in Nat /\ h.size \in Nat /\ h.asked \in Nat /\ Pointer(h) \in Nat
            /\ h.at < Pointer(h) /\ Pointer(h) + h.asked < h.at + h.size
        BY BlockFacts
      <3>3. h # b => Disjoint(h, b)
        BY <1>8, <1>9, <3>1 DEF Sound
      <3>4. h = b
        BY <1>1, <1>7, <1>10, <3>1, <3>2, <3>3 DEF Disjoint
      <3>5. FALSE
        BY <1>1, <1>7, <1>10, <3>1, <3>4
      <3> QED BY <3>5
    <2>4. Apart(e, f) \/ Hosts(e, f, entries, blocks) \/ Hosts(f, e, entries, blocks)
      BY <1>12 DEF Sound, Nested
    <2> QED BY <2>1, <2>2, <2>3, <2>4
  <1> QED BY <1>11, <1>12

LEMMA AddStart ==
    ASSUME Regular, StartInv, NEW type \in Types, NEW r \in Additions,
           AddRegionWithCaps(type, r[1], r[2])
    PROVE  StartInv'
  <1> DEFINE w == WithHeap(Unregistered(r[1], r[2], type))
  <1>1. /\ pc = "run" /\ UNCHANGED <<layout, pc, i, regions, temp_heaps>>
        /\ r[1] < r[2] /\ Offered(r[1], r[2]) /\ ~Overlaps(r[1], r[2])
    BY DEF AddRegionWithCaps, boot
  <1>2. /\ BootInv /\ RegionInv /\ TempInv /\ DOMAIN lock = DOMAIN used
        /\ Sound(entries, used, blocks) /\ ListInv /\ Listed \subseteq DOMAIN entries
        /\ Len(temp_heaps) \in Nat /\ DOMAIN temp_heaps = 1 .. Len(temp_heaps)
        /\ list \in Seq(DOMAIN entries) /\ Len(list) \in Nat /\ DOMAIN list = 1 .. Len(list)
    BY <1>1, StartedFacts
  <1>3. BootInv' /\ RegionInv' /\ TempInv'
    BY <1>1, <1>2, AddKeeps, TempStays
  <1>0. PICK a \in Listed : \E b :
          /\ b = Block(entries[a].heap, Entry)
          /\ IsInternal(entries[a]) /\ HasRoom(entries[a].heap, Entry)
          /\ entries' = Put(entries, Pointer(b), w)
          /\ list' = <<Pointer(b)>> \o list
          /\ blocks' = blocks \cup {b}
          /\ used' = Put([used EXCEPT ![entries[a].heap.at] = @ + b.size], w.heap.at, 0)
          /\ lock' = Put(lock, w.heap.at, Pointer(b))
    BY DEF AddRegionWithCaps
  <1>4. PICK b :
          /\ b = Block(entries[a].heap, Entry)
          /\ IsInternal(entries[a]) /\ HasRoom(entries[a].heap, Entry)
          /\ entries' = Put(entries, Pointer(b), w)
          /\ list' = <<Pointer(b)>> \o list
          /\ blocks' = blocks \cup {b}
          /\ used' = Put([used EXCEPT ![entries[a].heap.at] = @ + b.size], w.heap.at, 0)
          /\ lock' = Put(lock, w.heap.at, Pointer(b))
    BY <1>0
  <1>5. PICK base \in Nat : ArrayAt(base, entries, temp_heaps) /\ RunList(base)
    BY <1>1, <1>2 DEF ListInv
  <1>6. Listed = DOMAIN entries
    BY <1>5 DEF RunList
  <1> DEFINE e == entries[a]
             p == Pointer(b)
  <1>7. /\ a \in DOMAIN entries /\ e \in GoodEntries /\ Fits(e) /\ e.heap # NoHeap
        /\ e.heap.at = e.start /\ used[e.heap.at] \in 0 .. e.heap.total
    BY <1>2, <1>4, HeapFacts DEF IsInternal
  <1>8. IsNew(b, e, used, Entry) /\ Entry > 0
    BY <1>4, <1>7, LayoutsAssumed, HandOutNew
  <1>9. /\ w \in GoodEntries /\ Fits(w) /\ w.heap # NoHeap /\ w.heap.at = w.start
        /\ w.start = r[1] /\ w.end = r[2] /\ w.start \in Nat /\ w.end \in Nat
    <2> DEFINE u == Unregistered(r[1], r[2], type)
    <2>1. r[1] \in Place /\ r[2] \in Place /\ r[1] < r[2]
      BY <1>1, BootAssumption DEF Place
    <2>2. u \in GoodEntries /\ w \in GoodEntries
      BY <2>1, UnregisteredGood, WithHeapGood
    <2>3. u.start = r[1] /\ u.end = r[2]
      BY DEF Unregistered
    <2>4. w.start = r[1] /\ w.end = r[2] /\ w.heap = Heap(r[1], r[2] - r[1])
      BY DEF WithHeap, Unregistered
    <2>5. Fits(w)
      BY <1>1, <2>4 DEF Regular, Fits
    <2> HIDE DEF w
    <2>6. w.heap # NoHeap /\ w.heap.at = w.start /\ w.start \in Nat /\ w.end \in Nat
      BY <2>2, <2>4, <2>5, HeapOfEntry, EntryPlaces
    <2> QED BY <2>2, <2>4, <2>5, <2>6
  <1> HIDE DEF w
  <1>10. \A c \in DOMAIN entries : Apart(entries[c], w) \/ Hosts(entries[c], w, entries, blocks)
    BY <1>1, <1>2, <1>6, <1>9, NewRegion
  <1>11. p \in Nat /\ p \notin DOMAIN entries
    <2>1. /\ b.at = e.start + Header + used[e.start] /\ b.size \in Nat /\ b.size >= b.asked + Tags
          /\ b.asked = Entry /\ b.at + b.size <= e.start + Header + e.heap.total
      BY <1>2, <1>7, <1>8, NewFacts
    <2>2. b.size > Tags
      BY <1>8, <2>1, LayoutsAssumed, Numbers
    <2> QED BY <1>2, <1>7, <2>1, <2>2, NewPointer
  <1>12. Sound(entries', used', blocks')
    <2>1. used' = Put(Grown(used, e.start, b.size), w.start, 0)
      BY <1>4, <1>7, <1>9 DEF Grown
    <2>2. Sound(Put(entries, p, w), Put(Grown(used, e.start, b.size), w.start, 0), blocks \cup {b})
      BY <1>2, <1>7, <1>8, <1>9, <1>10, AddSound
    <2> QED BY <1>4, <2>1, <2>2
  <1>13. DOMAIN lock' = DOMAIN used'
    BY <1>2, <1>4 DEF Put
  <1>14. DOMAIN entries' = DOMAIN entries \cup {p} /\ entries'[p] = w /\ \A c \in DOMAIN entries : entries'[c] = entries[c]
    BY <1>4, <1>11 DEF Put
  <1> HIDE DEF p
  <1>15. /\ list' \in Seq(DOMAIN entries') /\ Len(list') = Len(list) + 1 /\ list'[1] = p
         /\ \A n \in 1 .. Len(list) : list'[n + 1] = list[n]
    <2>1. list' = <<p>> \o list /\ list \in Seq(DOMAIN entries') /\ p \in DOMAIN entries'
      BY <1>2, <1>4, <1>14 DEF p
    <2> QED BY <2>1
  <1>16. Listed' = DOMAIN entries'
    <2>1. Listed' = Listed \cup {p}
      <3>1. \A n \in DOMAIN list' : n = 1 \/ (n - 1 \in DOMAIN list /\ list'[n] = list[n - 1])
        <4> TAKE n \in DOMAIN list'
        <4>1. n \in 1 .. Len(list) + 1
          BY <1>15
        <4>2. n # 1 => n - 1 \in 1 .. Len(list) /\ (n - 1) + 1 = n
          BY <1>2, <4>1
        <4> QED BY <1>2, <1>15, <4>2
      <3>2. \A n \in DOMAIN list : n + 1 \in DOMAIN list' /\ list'[n + 1] = list[n]
        BY <1>2, <1>15
      <3>3. 1 \in DOMAIN list'
        BY <1>2, <1>15
      <3>4. ASSUME NEW c \in Listed'
            PROVE  c \in Listed \cup {p}
        <4>1. PICK n \in DOMAIN list' : c = list'[n]
          BY DEF Listed
        <4>2. n # 1 => n - 1 \in DOMAIN list /\ c = list[n - 1]
          BY <3>1, <4>1
        <4> QED BY <1>15, <4>1, <4>2 DEF Listed
      <3>5. ASSUME NEW c \in Listed \cup {p}
            PROVE  c \in Listed'
        <4>1. CASE c = p
          BY <1>15, <3>3, <4>1 DEF Listed
        <4>2. CASE c \in Listed
          <5>1. PICK n \in DOMAIN list : c = list[n]
            BY <4>2 DEF Listed
          <5>2. n + 1 \in DOMAIN list' /\ list'[n + 1] = c
            BY <3>2, <5>1
          <5> QED BY <5>2 DEF Listed
        <4> QED BY <4>1, <4>2
      <3> QED BY <3>4, <3>5
    <2> QED BY <1>6, <1>14, <2>1
  <1>17. Locked(entries', Listed', lock')
    <2> SUFFICES ASSUME NEW c \in DOMAIN entries', entries'[c].heap # NoHeap
                 PROVE  lock'[entries'[c].heap.at] = c
      BY <1>16 DEF Locked
    <2>1. lock' = Put(lock, w.start, p)
      BY <1>4, <1>9 DEF p
    <2>2. CASE c = p
      BY <1>9, <1>14, <2>1, <2>2 DEF Put
    <2>3. CASE c # p
      <3>1. c \in DOMAIN entries /\ entries'[c] = entries[c] /\ entries[c].heap # NoHeap
        BY <1>14, <2>3
      <3>2. lock[entries[c].heap.at] = c
        BY <1>2, <1>6, <3>1 DEF ListInv, Locked
      <3>3. entries[c].heap.at = entries[c].start /\ entries[c].start \in DOMAIN lock
        BY <1>2, <3>1, HeapFacts
      <3>4. entries[c].start # w.start
        <4>1. c \in DOMAIN entries' /\ p \in DOMAIN entries'
          BY <1>14
        <4>2. entries'[c].start # entries'[p].start
          BY <1>12, <2>3, <4>1, StartsDiffer
        <4> QED BY <1>14, <3>1, <4>2
      <3> QED BY <2>1, <3>1, <3>2, <3>3, <3>4 DEF Put
    <2> QED BY <2>2, <2>3
  <1>18. ListInv'
    <2>1. ArrayAt(base, entries', temp_heaps')
      BY <1>1, <1>5, <1>14 DEF ArrayAt
    <2>2. /\ Len(list) >= Len(temp_heaps)
          /\ \A n \in DOMAIN temp_heaps : list[Len(list) - Len(temp_heaps) + n] = Slot(base, n)
      BY <1>5 DEF RunList
    <2>3. ASSUME NEW n \in DOMAIN temp_heaps
          PROVE  list'[Len(list') - Len(temp_heaps) + n] = Slot(base, n)
      <3>1. /\ Len(list) - Len(temp_heaps) + n \in 1 .. Len(list)
            /\ Len(list') - Len(temp_heaps) + n = (Len(list) - Len(temp_heaps) + n) + 1
        BY <1>2, <1>15, <2>2
      <3> QED BY <1>15, <2>2, <3>1
    <2>4. RunList(base)'
      BY <1>1, <1>2, <1>15, <1>16, <2>2, <2>3 DEF RunList
    <2> QED BY <1>1, <1>15, <1>17, <2>1, <2>4 DEF ListInv
  <1> QED BY <1>1, <1>3, <1>12, <1>13, <1>18 DEF StartInv

LEMMA NextStart == Regular /\ StartInv /\ [Next]_vars => StartInv'
  <1> SUFFICES ASSUME Regular, StartInv, [Next]_vars
               PROVE  StartInv'
    OBVIOUS
  <1>1. CASE Boot
    BY <1>1, CoalesceStart, CoalescedStart, RegisterStart, RegisteredStart, ArrayStart, PublishStart,
       PublishedStart DEF Boot
  <1>2. CASE \E a \in DOMAIN entries : EnableStackHeap(a)
    BY <1>2, EnableStart
  <1>3. CASE \E size \in Sizes : Malloc(size)
    <2>1. \A size \in Sizes : size \in Nat
      BY BootAssumption
    <2> QED BY <1>3, <2>1, MallocStart
  <1>4. CASE \E r \in Additions : \E type \in Types : AddRegionWithCaps(type, r[1], r[2])
    BY <1>4, AddStart
  <1>5. CASE \E r \in Additions : AddRegion(r[1], r[2])
    <2>1. PICK r \in Additions, m \in Memory : AddRegionWithCaps(m.type, r[1], r[2])
      BY <1>5 DEF AddRegion
    <2>2. m.type \in Types
      BY BootAssumption DEF Region
    <2> QED BY <2>1, <2>2, AddStart
  <1>6. CASE UNCHANGED vars
    <2>1. UNCHANGED <<layout, pc, i, regions, temp_heaps, entries, list, used, lock, blocks>>
      BY <1>6 DEF vars, boot, registered, memory
    <2>2. /\ BootInv /\ RegionInv /\ TempInv /\ DOMAIN lock = DOMAIN used
          /\ IF pc \in {"publish", "run"} THEN Sound(entries, used, blocks) /\ ListInv
                                          ELSE EmptyInv
      BY DEF StartInv
    <2>3. BootInv'
      BY <2>1, <2>2 DEF BootInv
    <2>4. RegionInv'
      BY <2>1, <2>2 DEF RegionInv, RegionOk, HasNext, Settled, SameBytes
    <2>5. TempInv'
      BY <2>1, <2>2 DEF TempInv
    <2>6. ListInv => ListInv'
      BY <2>1 DEF ListInv, PublishInv, RunList, Listed
    <2>7. EmptyInv => EmptyInv'
      BY <2>1 DEF EmptyInv
    <2> QED BY <2>1, <2>2, <2>3, <2>4, <2>5, <2>6, <2>7 DEF StartInv
  <1> QED BY <1>1, <1>2, <1>3, <1>4, <1>5, <1>6 DEF Next

\* The invariant of start-up and running system for regions with an aligned start and
\* room for a header: no byte changes its owner while regions are joined, entries that
\* were copied are found in their slots, and regions are apart or nested in a block
THEOREM StartInvariant ==
    ASSUME Regular
    PROVE  Spec => []StartInv
  <1>1. Init => StartInv
    BY InitStart
  <1>2. StartInv /\ [Next]_vars => StartInv'
    BY NextStart
  <1> QED BY <1>1, <1>2, PTL DEF Spec

\* A block of any heap has the bytes it was asked for, lies in its heap and overlaps no
\* other, whatever regions heap_caps_add_region_with_caps added in blocks of others
THEOREM BlocksInPlace ==
    ASSUME Regular
    PROVE  Spec => []BlocksHold
  <1>1. StartInv => BlocksHold
    <2> SUFFICES ASSUME StartInv PROVE BlocksHold
      OBVIOUS
    <2>1. CASE pc \in {"publish", "run"}
      <3>1. Sound(entries, used, blocks) /\ Listed \subseteq DOMAIN entries
        BY <2>1, StartedFacts
      <3>2. ASSUME NEW b \in blocks
            PROVE  /\ b.asked + Tags <= b.size
                   /\ \A e \in Heaps :
                        e.heap.at = b.heap /\ Fits(e) =>
                          b.heap + Header <= b.at /\ b.at + b.size <= b.heap + Header + e.heap.total
                   /\ \A c \in blocks \ {b} :
                        c.heap = b.heap => b.at + b.size <= c.at \/ c.at + c.size <= b.at
        <4>1. /\ b.at \in Nat /\ b.size \in Nat /\ b.heap \in Nat /\ b.asked + Tags <= b.size
              /\ b.heap + Header <= b.at /\ b.at + b.size <= b.heap + Header + used[b.heap]
              /\ \E a \in DOMAIN entries : entries[a].heap # NoHeap /\ entries[a].start = b.heap
          BY <3>1, BlockFacts
        <4>2. ASSUME NEW e \in Heaps, e.heap.at = b.heap
              PROVE  b.at + b.size <= b.heap + Header + e.heap.total
          <5>1. PICK a \in DOMAIN entries : e = entries[a]
            BY <3>1 DEF Heaps
          <5>2. e.heap # NoHeap
            <6>1. b.heap > 0
              BY <3>1, <4>1, HeapFacts
            <6> QED BY <4>2, <6>1 DEF NoHeap
          <5>3. used[b.heap] \in 0 .. e.heap.total /\ e.heap.total \in Nat
            BY <3>1, <4>2, <5>1, <5>2, HeapFacts
          <5> QED BY <4>1, <5>3, Numbers
        <4>3. \A c \in blocks \ {b} : c.heap = b.heap => Disjoint(b, c)
          BY <3>1 DEF Sound
        <4> QED BY <4>1, <4>2, <4>3 DEF Disjoint
      <3> QED BY <3>2 DEF BlocksHold
    <2>2. CASE pc \notin {"publish", "run"}
      BY <2>2 DEF StartInv, EmptyInv, BlocksHold
    <2> QED BY <2>1, <2>2
  <1> QED BY <1>1, StartInvariant, PTL

\* heap_caps_init leaves every byte of the available memory in exactly one heap of its
\* own type, joined with its neighbours where they can be, and every heap locked with
\* the mutex of its permanent entry, whatever is registered and added later
THEOREM StartComplete ==
    ASSUME Regular
    PROVE  Spec => []Complete
  <1>1. StartInv => Complete
    <2> SUFFICES ASSUME StartInv, pc = "run" PROVE Complete
      BY DEF Complete
    <2>1. /\ RegionInv /\ TempInv /\ ListInv /\ temp_heaps \in Seq(GoodEntries)
          /\ DOMAIN temp_heaps = 1 .. Len(temp_heaps) /\ Len(temp_heaps) \in Nat
      BY StartedFacts
    <2>2. PICK base \in Nat : ArrayAt(base, entries, temp_heaps) /\ RunList(base)
      BY <2>1 DEF ListInv
    <2>3. ASSUME NEW k \in DOMAIN temp_heaps
          PROVE  /\ BootEntry(k).start = temp_heaps[k].start /\ BootEntry(k).end = temp_heaps[k].end
                 /\ BootEntry(k).type = temp_heaps[k].type
                 /\ temp_heaps[k].start \in Nat /\ temp_heaps[k].end \in Nat
                 /\ 0 < temp_heaps[k].start /\ temp_heaps[k].end < Width
      <3>1. BootEntry(k) = entries[Slot(base, k)]
        BY <2>2 DEF RunList, BootEntry
      <3>2. SameRegion(entries[Slot(base, k)], temp_heaps[k])
        BY <2>2 DEF ArrayAt
      <3>3. temp_heaps[k] \in GoodEntries
        BY <2>1
      <3> QED BY <3>1, <3>2, <3>3, EntryPlaces DEF SameRegion
    <2>4. ASSUME NEW t \in Types
          PROVE  UNION {BootEntry(k).start .. BootEntry(k).end - 1 :
                           k \in {k \in DOMAIN temp_heaps : BootEntry(k).type = t}}
                 = UNION {Span(layout[k]) : k \in {k \in DOMAIN layout : layout[k].type = t}}
      <3> DEFINE A == UNION {BootEntry(k).start .. BootEntry(k).end - 1 :
                                k \in {k \in DOMAIN temp_heaps : BootEntry(k).type = t}}
                 B == UNION {Span(layout[k]) : k \in {k \in DOMAIN layout : layout[k].type = t}}
      <3>1. \A x : x \in A <=> \E k \in DOMAIN temp_heaps :
                                   temp_heaps[k].type = t /\ x \in temp_heaps[k].start .. temp_heaps[k].end - 1
        BY <2>3
      <3>2. \A x : x \in B <=> \E k \in DOMAIN layout : layout[k].type = t /\ x \in Span(layout[k])
        OBVIOUS
      <3> HIDE DEF A, B
      <3>3. \A x \in A : x \in Place
        BY <2>3, <3>1, Numbers DEF Place
      <3>4. /\ DOMAIN layout = 1 .. Len(layout)
            /\ \A k \in DOMAIN layout : /\ layout[k].start \in Nat /\ layout[k].size \in Nat
                                        /\ layout[k].start > 0 /\ layout[k].start + layout[k].size < Width
        BY <2>1, LayoutFacts DEF RegionInv
      <3>5. \A x \in B : x \in Place
        <4> SUFFICES ASSUME NEW k \in DOMAIN layout, NEW x \in Span(layout[k])
                     PROVE  x \in Place
          BY <3>2
        <4>1. /\ layout[k].start \in Nat /\ layout[k].size \in Nat
              /\ layout[k].start > 0 /\ layout[k].start + layout[k].size < Width
          BY <3>4
        <4> QED BY <4>1, Numbers DEF Place, Span
      <3>6. ASSUME NEW x \in Place
            PROVE  x \in A <=> x \in B
        <4>1. InHeaps(temp_heaps, t, x) <=> InRegions(layout, Len(layout), t, x)
          BY <2>1 DEF TempInv, Covers
        <4>2. x \in A <=> InHeaps(temp_heaps, t, x)
          BY <2>3, <3>1 DEF InHeaps, Place
        <4>3. x \in B <=> InRegions(layout, Len(layout), t, x)
          BY <3>2, <3>4 DEF InRegions
        <4> QED BY <4>1, <4>2, <4>3
      <3>7. A = B
        BY <3>3, <3>5, <3>6
      <3> QED BY <3>7 DEF A, B
    <2>5. ASSUME NEW k \in 2 .. Len(temp_heaps)
          PROVE  /\ BootEntry(k - 1).end <= BootEntry(k).start
                 /\ BootEntry(k - 1).end = BootEntry(k).start => BootEntry(k - 1).type # BootEntry(k).type
      <3>1. k - 1 \in DOMAIN temp_heaps /\ k \in DOMAIN temp_heaps /\ k - 1 < k
        BY <2>1
      <3>2. /\ temp_heaps[k - 1].end <= temp_heaps[k].start
            /\ temp_heaps[k - 1].end = temp_heaps[k].start => temp_heaps[k - 1].type # temp_heaps[k].type
        BY <2>1, <3>1 DEF TempInv, Arranged
      <3> QED BY <2>3, <3>1, <3>2
    <2>6. \A a \in Listed : entries[a].heap # NoHeap => lock[entries[a].heap.at] = a
      BY <2>1 DEF ListInv, Locked
    <2> QED BY <2>4, <2>5, <2>6 DEF Complete
  <1> QED BY <1>1, StartInvariant, PTL
=============================================================================
