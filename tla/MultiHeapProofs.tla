--------------------------- MODULE MultiHeapProofs ---------------------------
(***************************************************************************)
(* The inductive invariant IInv of MultiHeap, action by action, and from   *)
(* it that MultiHeap implements Allocator.                                 *)
(***************************************************************************)
EXTENDS MultiHeap, TLAPS

\* mem_block_calc_size: the payload fits with its head and foot, with at most
\* three bytes of padding, and no block is smaller than the smallest
LEMMA BlockSizeBounds ==
    \A n \in Nat \ {0} : /\ BlockSize(n) \in Nat
                         /\ BlockSize(n) >= MinBlock
                         /\ n + 8 <= BlockSize(n)
                         /\ BlockSize(n) <= n + 11
  BY DEF BlockSize, MinBlock

\* The smallest block has twelve bytes
LEMMA MinBlockIs == MinBlock = 12
  BY DEF BlockSize, MinBlock

\* The map's groups are blocks like any other
LEMMA GroupBlocksBounds ==
    \A len \in GroupBlocks : len \in Nat /\ len >= MinBlock
  <1>1. 4 + 4 * GroupSize \in Nat \ {0} /\ 4 + 8 * GroupSize \in Nat \ {0} /\ 16 + 4 * GroupSize \in Nat \ {0}
    BY HeapAssumption
  <1> QED BY <1>1, BlockSizeBounds DEF GroupBlocks

-----------------------------------------------------------------------------
(* The four ways the tags change keep the heap tiled. *)

\* Tiling, read as facts on naturals: what the steps below use of it
LEMMA TilingFacts ==
    ASSUME TypeOK, Tiling
    PROVE  /\ HeapStart \in Nat /\ HeapStart > 0 /\ End \in Nat /\ size \in Nat
           /\ End = HeapStart + size
           /\ \A o \in Blocks : /\ o \in Nat /\ bsize[o] \in Nat /\ bsize[o] >= 12
                                /\ HeapStart <= o /\ o < End
                                /\ o + bsize[o] \in Nat /\ o + bsize[o] <= End
                                /\ o + bsize[o] \in Blocks \cup {End}
           /\ \A o \in Blocks : o = HeapStart \/ \E u \in Blocks : u + bsize[u] = o
           /\ End = HeapStart \/ \E u \in Blocks : u + bsize[u] = End
           /\ \A o, u \in Blocks : o < u => o + bsize[o] <= u
           /\ HeapStart \in Blocks \cup {End}
           /\ bsize \in [Blocks -> Nat]
  BY HeapAssumption, MinBlockIs DEF TypeOK, Tiling, Headed, Footed, Apart, Ends, End

\* malloc_direct's new block at the end keeps the heap tiled
LEMMA AppendTiles ==
    ASSUME TypeOK, Tiling, NEW len \in Nat, len >= MinBlock,
           size' = size + len, bsize' = Appended(len)
    PROVE  /\ Tiling'
           /\ Blocks' = Blocks \cup {End} /\ End \notin Blocks
           /\ End' = End + len
           /\ \A o \in Blocks : bsize'[o] = bsize[o]
           /\ bsize'[End] = len
  <1>1. Blocks' = Blocks \cup {End} /\ End \notin Blocks
    BY TilingFacts DEF Appended, Blocks
  <1>2. End' = End + len /\ End \in Nat
    BY TilingFacts DEF End
  <1>3. \A o \in Blocks : bsize'[o] = bsize[o]
    BY <1>1 DEF Appended
  <1>4. bsize'[End] = len
    BY <1>1 DEF Appended
  <1>5. Headed'
    BY <1>1, <1>2, <1>3, <1>4, TilingFacts, MinBlockIs DEF Headed, Ends
  <1>6. Footed'
    BY <1>1, <1>2, <1>3, <1>4, TilingFacts DEF Footed, Ends
  <1>7. Apart'
    BY <1>1, <1>2, <1>3, <1>4, TilingFacts DEF Apart, Ends
  <1>8. (HeapStart \in Blocks \cup {End})'
    BY <1>1, <1>2, TilingFacts
  <1> QED BY <1>1, <1>2, <1>3, <1>4, <1>5, <1>6, <1>7, <1>8 DEF Tiling

\* malloc_fit's split of a block keeps the heap tiled
LEMMA SplitTiles ==
    ASSUME TypeOK, Tiling, NEW pos \in Blocks, NEW want \in Nat,
           MinBlock <= want, want + MinBlock <= bsize[pos],
           size' = size, bsize' = Split(pos, want)
    PROVE  /\ Tiling'
           /\ Blocks' = Blocks \cup {pos + want} /\ pos + want \notin Blocks
           /\ pos + want \in Nat /\ pos + want > pos /\ pos + want < pos + bsize[pos]
           /\ End' = End
           /\ \A o \in Blocks \ {pos} : bsize'[o] = bsize[o]
           /\ bsize'[pos] = want /\ bsize'[pos + want] = bsize[pos] - want
  <1>0. pos \in Nat /\ bsize[pos] \in Nat /\ pos + want \in Nat
    BY TilingFacts
  <1>1. pos + want \notin Blocks
    BY <1>0, TilingFacts, MinBlockIs
  <1>2. Blocks' = Blocks \cup {pos + want}
    BY DEF Split, Blocks
  <1>3. End' = End
    BY DEF End
  <1>4. \A o \in Blocks \ {pos} : bsize'[o] = bsize[o]
    BY <1>1 DEF Split
  <1>5. bsize'[pos] = want /\ bsize'[pos + want] = bsize[pos] - want
    BY <1>1 DEF Split
  <1> DEFINE rest == pos + want
  <1>a. /\ rest \in Nat /\ rest \in Blocks' /\ rest \notin Blocks /\ pos \in Blocks'
        /\ rest + bsize'[rest] = pos + bsize[pos] /\ pos + bsize'[pos] = rest
        /\ bsize'[rest] \in Nat /\ bsize'[rest] >= 12 /\ bsize'[pos] >= 12
        /\ pos < rest /\ rest < pos + bsize[pos]
        /\ \A o \in Blocks' : o \in Nat /\ (o \in Blocks \ {pos} \/ o = pos \/ o = rest)
    <2>1. bsize[pos] >= 12 + want /\ want >= 12
      BY <1>0, MinBlockIs
    <2>2. \A o \in Blocks : o \in Nat
      BY TilingFacts
    <2> QED BY <1>0, <1>1, <1>2, <1>5, <2>1, <2>2
  <1>b. \A o \in Blocks \ {pos} : o + bsize[o] <= pos \/ pos + bsize[pos] <= o
    BY <1>0, TilingFacts
  <1> HIDE DEF rest
  <1>6. Headed'
    <2> SUFFICES ASSUME NEW o \in Blocks'
                 PROVE  /\ bsize'[o] >= 12 /\ HeapStart <= o /\ o + bsize'[o] <= End
                        /\ o + bsize'[o] \in Blocks' \cup {End}
      BY <1>3, MinBlockIs DEF Headed, Ends
    <2>1. CASE o \in Blocks \ {pos}
      BY <2>1, <1>2, <1>4, TilingFacts
    <2>2. CASE o = pos
      BY <2>2, <1>0, <1>a, TilingFacts
    <2>3. CASE o = rest
      BY <2>3, <1>0, <1>2, <1>a, TilingFacts
    <2> QED BY <2>1, <2>2, <2>3, <1>a
  <1>7. Footed'
    BY <1>a, <1>2, <1>3, <1>4, TilingFacts DEF Footed, Ends
  <1>8. Apart'
    BY <1>a, <1>b, <1>4, TilingFacts DEF Apart, Ends
  <1>9. (HeapStart \in Blocks \cup {End})'
    BY <1>2, <1>3, TilingFacts
  <1> QED BY <1>0, <1>1, <1>2, <1>3, <1>4, <1>5, <1>6, <1>7, <1>8, <1>9, MinBlockIs DEF Tiling

\* Cutting off the last block, or a range that ends the heap, keeps it tiled
LEMMA TruncateTiles ==
    ASSUME TypeOK, Tiling, NEW pos \in Blocks,
           HeapStart + size' = pos, size' \in Nat, bsize' = Truncated(pos)
    PROVE  /\ Tiling'
           /\ Blocks' = {o \in Blocks : o < pos}
           /\ End' = pos
           /\ \A o \in Blocks' : bsize'[o] = bsize[o]
  <1>0. /\ pos \in Nat /\ pos < End /\ HeapStart <= pos
        /\ \A o \in Blocks : o < pos => o + bsize[o] <= pos /\ o + bsize[o] \in Blocks
    BY TilingFacts
  <1>1. Blocks' = {o \in Blocks : o < pos}
    BY DEF Truncated, Blocks
  <1>2. End' = pos
    BY DEF End
  <1>3. \A o \in Blocks' : bsize'[o] = bsize[o]
    BY <1>1 DEF Truncated
  <1>4. Headed'
    <2> SUFFICES ASSUME NEW o \in Blocks'
                 PROVE  /\ bsize'[o] >= 12 /\ HeapStart <= o /\ o + bsize'[o] <= End'
                        /\ o + bsize'[o] \in Blocks' \cup {End'}
      BY MinBlockIs DEF Headed, Ends
    <2>1. /\ o \in Blocks /\ o < pos /\ bsize'[o] = bsize[o]
          /\ o \in Nat /\ bsize[o] \in Nat /\ bsize[o] >= 12 /\ HeapStart <= o
      BY <1>1, <1>3, TilingFacts
    <2>2. o + bsize[o] <= pos /\ o + bsize[o] \in Blocks /\ o + bsize[o] \in Nat
      BY <1>0, <2>1
    <2>3. o + bsize[o] = pos \/ o + bsize[o] < pos
      BY <1>0, <2>2
    <2> QED BY <1>1, <1>2, <2>1, <2>2, <2>3
  <1>5. Footed'
    BY <1>0, <1>1, <1>2, <1>3, TilingFacts DEF Footed, Ends
  <1>6. Apart'
    BY <1>0, <1>1, <1>2, <1>3, TilingFacts DEF Apart, Ends
  <1>7. (HeapStart \in Blocks \cup {End})'
    BY <1>1, <1>2, TilingFacts
  <1> QED BY <1>1, <1>2, <1>3, <1>4, <1>5, <1>6, <1>7 DEF Tiling

\* mem_block_init over a range that begins and ends with a block keeps the
\* heap tiled
LEMMA JoinTiles ==
    ASSUME TypeOK, Tiling, NEW pos \in Blocks, NEW len \in Nat, len > 0,
           pos + len \in Blocks \cup {End},
           size' = size, bsize' = Joined(pos, len)
    PROVE  /\ Tiling'
           /\ Blocks' = {o \in Blocks : o <= pos \/ pos + len <= o}
           /\ End' = End
           /\ bsize'[pos] = len
           /\ \A o \in Blocks' \ {pos} : bsize'[o] = bsize[o]
           /\ bsize[pos] <= len
  <1>0. pos \in Nat /\ pos + len \in Nat /\ bsize[pos] <= len
    BY TilingFacts
  <1>1. Blocks' = {o \in Blocks : o <= pos \/ pos + len <= o}
    BY DEF Joined, Blocks
  <1>2. End' = End
    BY DEF End
  <1>3. bsize'[pos] = len /\ \A o \in Blocks' \ {pos} : bsize'[o] = bsize[o]
    BY <1>0, <1>1 DEF Joined
  <1>4. Headed'
    BY <1>0, <1>1, <1>2, <1>3, TilingFacts, MinBlockIs DEF Headed, Ends
  <1>5. Footed'
    <2> SUFFICES ASSUME NEW o \in Blocks' \cup {End'}, o # HeapStart
                 PROVE  \E u \in Blocks' : u + bsize'[u] = o
      BY DEF Footed, Ends
    <2>1. PICK u \in Blocks : u + bsize[u] = o
      BY <1>1, <1>2, TilingFacts
    <2>2. CASE u < pos
      BY <2>1, <2>2, <1>1, <1>3, <1>0
    <2>3. CASE pos <= u /\ u < pos + len
      <3>1. o = pos + len
        BY <2>1, <2>3, <1>0, <1>1, <1>2, TilingFacts
      <3> QED BY <3>1, <1>1, <1>3, <1>0
    <2>4. CASE pos + len <= u
      BY <2>1, <2>4, <1>1, <1>3, <1>0, TilingFacts
    <2> QED BY <2>2, <2>3, <2>4, <1>0, TilingFacts
  <1>6. Apart'
    BY <1>0, <1>1, <1>2, <1>3, TilingFacts DEF Apart, Ends
  <1>7. (HeapStart \in Blocks \cup {End})'
    BY <1>0, <1>1, <1>2, TilingFacts
  <1> QED BY <1>0, <1>1, <1>2, <1>3, <1>4, <1>5, <1>6, <1>7 DEF Tiling

-----------------------------------------------------------------------------
(* What the helpers of the actions do to the containers and the counters. *)

\* A removal leaves no entry of the block in the map, whatever item it took
LEMMA MapRemovedRemoves ==
    ASSUME TypeOK, OneContainer, NEW o \in Blocks
    PROVE  /\ MapRemoved(bsize[o], o) \subseteq mapped
           /\ \A e \in MapRemoved(bsize[o], o) : e[2] # o
  <1>1. \A e \in mapped : e[2] = o => e = <<bsize[o], o>>
    BY DEF TypeOK, OneContainer
  <1> QED BY <1>1 DEF MapRemoved, EntriesOf

\* multi_heap_remove_offset leaves the block in neither container
LEMMA RemoveOffsetRemoves ==
    ASSUME TypeOK, OneContainer, NEW o \in Blocks, RemoveOffset(o)
    PROVE  /\ buffer' \subseteq buffer /\ o \notin buffer'
           /\ mapped' \subseteq mapped /\ \A e \in mapped' : e[2] # o
           /\ churn' \in 0 .. MaxChurn
  <1>1. CASE o \in buffer
    <2>1. buffer' = buffer \ {o} /\ mapped' = mapped /\ churn' = 0
      BY <1>1 DEF RemoveOffset
    <2>2. \A e \in mapped : e[2] # o
      BY <1>1 DEF OneContainer, MappedBlocks
    <2> QED BY <2>1, <2>2, HeapAssumption
  <1>2. CASE o \notin buffer
    <2>1. buffer' = buffer /\ mapped' = MapRemoved(bsize[o], o) /\ churn' \in {0, MaxChurn}
      BY <1>2 DEF RemoveOffset, MapRemove
    <2> QED BY <2>1, <1>2, MapRemovedRemoves, HeapAssumption
  <1> QED BY <1>1, <1>2

\* multi_heap_free_private adds no other offset to the buffer
LEMMA FreePrivateAdds ==
    ASSUME TypeOK, NEW o, FreePrivate(o)
    PROVE  buffer' \subseteq buffer \cup {o} /\ dirty' \in BOOLEAN /\ (dirty => dirty')
  BY DEF FreePrivate, TypeOK

StatType == [free_bytes : Int, minimum_free_bytes : Int,
             allocated_blocks : Int, free_blocks : Int, total_blocks : Int]

\* The counters stay counters
LEMMA StatTypes ==
    ASSUME TypeOK, NEW len \in Nat, NEW b \in BOOLEAN
    PROVE  Charged(len, b) \in StatType /\ Credited(len, b) \in StatType /\ Merged \in StatType
  BY DEF TypeOK, StatType, Counters, Charged, Credited, Merged

-----------------------------------------------------------------------------
(* One lemma for each action: the invariant survives it. *)

\* A heap that was just registered
LEMMA InitIInv == Init => IInv
  <1> SUFFICES ASSUME Init PROVE IInv
    OBVIOUS
  <1> USE DEF Init
  <1>1. Blocks = {} /\ End = HeapStart /\ Held = {} /\ MappedBlocks = {}
    BY HeapAssumption DEF Blocks, End, Held, MappedBlocks
  <1>2. TypeOK
    <2>1. size \in 0 .. TotalSize /\ churn \in 0 .. MaxChurn
      BY HeapAssumption
    <2>2. bsize \in [Blocks -> Nat]
      BY <1>1
    <2>3. stat \in [free_bytes : Int, minimum_free_bytes : Int,
                    allocated_blocks : Int, free_blocks : Int, total_blocks : Int]
      BY HeapAssumption DEF Counters
    <2>4. cur \in [pos : Nat, size : Nat, next : Nat, own : Nat] /\ take \in [pos : Nat, size : Nat, want : Nat]
      BY DEF NoBlock, NoTake
    <2> QED BY <1>1, <2>1, <2>2, <2>3, <2>4 DEF TypeOK
  <1>3. Tiling
    BY <1>1 DEF Tiling, Headed, Footed, Apart
  <1>4. Ownership
    BY <1>1 DEF Ownership, OneOwner, InHand, OneContainer, NoBlock, NoTake
  <1>5. Control
    BY DEF Control, NoBlock, NoTake
  <1> QED BY <1>2, <1>3, <1>4, <1>5 DEF IInv

\* Nothing that tiles the heap changes
LEMMA SameTiling ==
    ASSUME Tiling, UNCHANGED <<size, bsize>>
    PROVE  Tiling' /\ Blocks' = Blocks /\ End' = End
  BY DEF Tiling, Headed, Footed, Apart, Ends, End, Blocks

\* An entry of the map that malloc_fit chooses, and what taking it out leaves
LEMMA EntryTaken ==
    ASSUME TypeOK, Tiling, OneContainer, NEW len \in Nat, len >= MinBlock,
           NEW e \in mapped, IsBest(e, len)
    PROVE  /\ e[2] \in freed \ (Held \cup {take.pos}) /\ e[2] \in Nat /\ e[2] # 0
           /\ e[2] \notin buffer \cup pending
           /\ e[1] = bsize[e[2]]
           /\ len = e[1] \/ len + MinBlock <= e[1]
           /\ MapRemoved(e[1], e[2]) \subseteq mapped
           /\ \A f \in MapRemoved(e[1], e[2]) : f[2] # e[2]
  <1>1. e[1] = bsize[e[2]] /\ e[2] \in Blocks /\ e[2] \in MappedBlocks
    BY DEF TypeOK, OneContainer, MappedBlocks
  <1>2. len = e[1] \/ len + MinBlock <= e[1]
    BY DEF IsBest, Fitting, EntriesOf
  <1> QED BY <1>1, <1>2, MapRemovedRemoves, TilingFacts DEF OneContainer

\* The entry malloc_fit removes is in its hands and nowhere else
LEMMA MallocFitStep ==
    ASSUME IInv, NEW n \in Requests, MallocFit(n)
    PROVE  IInv'
  <1> DEFINE len == BlockSize(n)
  <1>1. len \in Nat /\ len >= MinBlock
    BY BlockSizeBounds, HeapAssumption
  <1> HIDE DEF len
  <1>2. PICK e \in mapped : TakeEntry(e, len)
    BY DEF MallocFit, len
  <1>3. Tiling' /\ Blocks' = Blocks /\ End' = End
    BY <1>2, SameTiling DEF IInv, TakeEntry, heap
  <1>4. /\ mapped' = MapRemoved(e[1], e[2]) /\ churn' \in 0 .. MaxChurn
        /\ take' = [pos |-> e[2], size |-> e[1], want |-> len]
        /\ UNCHANGED <<size, bsize, freed, stat, buffer, dirty, groups, live, call, cur, pending>>
        /\ pc = "idle" /\ pc' = "take"
    BY <1>2, HeapAssumption DEF MallocFit, TakeEntry, MapRemove, heap, owners
  <1>5. /\ e[2] \in freed \ (Held \cup {take.pos}) /\ e[2] \in Nat /\ e[2] # 0
        /\ e[2] \notin buffer \cup pending
        /\ e[1] = bsize[e[2]] /\ e[1] \in Nat
        /\ len = e[1] \/ len + MinBlock <= e[1]
        /\ mapped' \subseteq mapped
        /\ \A f \in mapped' : f[2] # e[2]
    BY <1>1, <1>2, <1>4, EntryTaken DEF IInv, Ownership, TakeEntry, TypeOK
  <1>6. Held' = Held /\ take.pos = 0
    BY <1>3, <1>4 DEF Held, IInv, Control, NoTake
  <1>7. TypeOK'
    BY <1>1, <1>3, <1>4, <1>5 DEF IInv, TypeOK
  <1>8. OneOwner' /\ InHand'
    BY <1>1, <1>3, <1>4, <1>5, <1>6 DEF IInv, Ownership, OneOwner, InHand
  <1>9. OneContainer'
    BY <1>4, <1>5, <1>6 DEF IInv, Ownership, OneContainer, MappedBlocks
  <1>10. Control'
    BY <1>4, <1>5 DEF IInv, Control
  <1> QED BY <1>3, <1>7, <1>8, <1>9, <1>10 DEF IInv, Ownership

\* A caller's block at the end of the heap
LEMMA MallocDirectStep ==
    ASSUME IInv, NEW n \in Requests, MallocDirect(n)
    PROVE  IInv'
  <1> DEFINE len == BlockSize(n)
  <1>1. len \in Nat /\ len >= MinBlock
    BY BlockSizeBounds, HeapAssumption
  <1> HIDE DEF len
  <1>2. /\ size' = size + len /\ bsize' = Appended(len) /\ stat' = Charged(len, FALSE)
        /\ TotalSize - size >= len + Reserve
        /\ live' = live \cup {End} /\ pc = "idle" /\ pc' = "copy"
        /\ UNCHANGED <<freed, buffer, mapped, dirty, groups, call, cur, take, pending, churn>>
    BY DEF MallocDirect, Append, free_space, len
  <1>3. /\ Tiling' /\ Blocks' = Blocks \cup {End} /\ End \notin Blocks /\ End' = End + len
        /\ \A o \in Blocks : bsize'[o] = bsize[o]
        /\ bsize'[End] = len
    BY <1>1, <1>2, AppendTiles DEF IInv
  <1>4. End \in Nat /\ End # 0 /\ \A o \in Blocks : o < End /\ o \in Nat
    BY TilingFacts DEF IInv
  <1>5. cur = NoBlock /\ take = NoTake
    BY <1>2 DEF IInv, Control
  <1>6. Held' = {} /\ Held = {}
    BY <1>3, <1>4, <1>5, <1>2, <1>1 DEF Held, NoBlock
  <1>7. TypeOK'
    <2>1. size' \in 0 .. TotalSize
      BY <1>1, <1>2, HeapAssumption DEF IInv, TypeOK
    <2>2. bsize' \in [Blocks' -> Nat] /\ Blocks' \subseteq Nat \ {0}
      BY <1>1, <1>2, <1>3, <1>4 DEF IInv, TypeOK, Appended
    <2>3. stat' \in StatType
      BY <1>1, <1>2, StatTypes DEF IInv
    <2> QED BY <2>1, <2>2, <2>3, <1>2, <1>3 DEF IInv, TypeOK, StatType
  <1>8. OneOwner' /\ InHand'
    BY <1>2, <1>3, <1>4, <1>5, <1>6 DEF IInv, TypeOK, Ownership, OneOwner, InHand, NoBlock, NoTake
  <1>9. OneContainer'
    BY <1>2, <1>3, <1>4, <1>5, <1>6 DEF IInv, TypeOK, Ownership, OneContainer, MappedBlocks
  <1>10. Control'
    BY <1>2, <1>5 DEF IInv, Control, NoBlock
  <1> QED BY <1>3, <1>7, <1>8, <1>9, <1>10 DEF IInv, Ownership

\* Steps that only move the call on and leave every block where it is
LEMMA QuietStep ==
    ASSUME IInv, pc = "idle", pc' = "copy",
           UNCHANGED <<heap, free_space, owners, call, cur, take, pending, churn>>
    PROVE  IInv'
  <1>1. UNCHANGED <<size, bsize, freed, stat, buffer, mapped, dirty, groups, live>>
    BY DEF heap, free_space, owners
  <1>2. Tiling' /\ Blocks' = Blocks /\ End' = End
    BY <1>1, SameTiling DEF IInv
  <1>3. Held' = Held /\ MappedBlocks' = MappedBlocks
    BY <1>1, <1>2 DEF Held, MappedBlocks
  <1>4. TypeOK'
    BY <1>1, <1>2 DEF IInv, TypeOK
  <1>5. Ownership'
    BY <1>1, <1>2, <1>3 DEF IInv, Ownership, OneOwner, InHand, OneContainer
  <1>6. Control'
    BY <1>1 DEF IInv, Control
  <1> QED BY <1>2, <1>4, <1>5, <1>6 DEF IInv

\* malloc_fit's second half, for a caller and for a group
LEMMA TakeStep ==
    ASSUME IInv, pc \in {"take", "grow"}, TakeExact \/ TakeSplit,
           \/ live' = live \cup {take.pos} /\ groups' = groups
           \/ live' = live /\ groups' = groups \cup {take.pos},
           pc' = IF pc = "take" THEN "copy" ELSE "add",
           take' = NoTake, churn' \in 0 .. MaxChurn,
           UNCHANGED <<size, mapped, call, cur, pending>>
    PROVE  IInv'
  <1> DEFINE t == take.pos
             rest == t + take.want
  <1>1. /\ t \in Nat /\ t # 0 /\ t \in freed \ Held /\ t \in Blocks
        /\ take.size = bsize[t] /\ take.want \in Nat /\ take.want >= MinBlock
        /\ take.want = take.size \/ take.want + MinBlock <= take.size
        /\ t \notin buffer \cup pending \cup MappedBlocks
    BY DEF IInv, TypeOK, Ownership, InHand, OneContainer, Control
  <1>2. /\ Tiling' /\ Blocks \subseteq Blocks' /\ End' = End
        /\ \A o \in Blocks : o # t \/ take.want = take.size => bsize'[o] = bsize[o]
        /\ freed' = (freed \ {t}) \cup (Blocks' \ Blocks)
        /\ buffer' \subseteq buffer \cup (Blocks' \ Blocks)
        /\ dirty' \in BOOLEAN /\ stat' \in StatType
        /\ bsize' \in [Blocks' -> Nat]
        /\ \A o \in Blocks' \ Blocks : o \in Nat /\ t < o /\ o < t + bsize[t]
    <2>1. CASE TakeExact
      <3>1. Tiling' /\ Blocks' = Blocks /\ End' = End
        BY <2>1, SameTiling DEF IInv, TakeExact
      <3>2. stat' \in StatType
        BY <2>1, <1>1, StatTypes DEF TakeExact, IInv
      <3>3. freed' = freed \ {t} /\ UNCHANGED <<bsize, buffer, dirty>>
        BY <2>1 DEF TakeExact
      <3> QED BY <3>1, <3>2, <3>3 DEF IInv, TypeOK
    <2>2. CASE TakeSplit
      <3>1. take.want + MinBlock <= bsize[t]
        BY <2>2, <1>1 DEF TakeSplit
      <3>2. /\ Tiling' /\ Blocks' = Blocks \cup {rest} /\ rest \notin Blocks
            /\ rest \in Nat /\ rest > t /\ rest < t + bsize[t] /\ End' = End
            /\ \A o \in Blocks \ {t} : bsize'[o] = bsize[o]
            /\ bsize'[t] = take.want /\ bsize'[rest] = bsize[t] - take.want
        BY <2>2, <3>1, <1>1, SplitTiles DEF IInv, TakeSplit
      <3>3. stat' \in StatType
        BY <2>2, <1>1, StatTypes DEF TakeSplit, IInv
      <3>4. buffer' \subseteq buffer \cup {rest} /\ dirty' \in BOOLEAN
        BY <2>2, FreePrivateAdds DEF TakeSplit, IInv
      <3>5. bsize' \in [Blocks' -> Nat]
        <4>1. bsize[t] - take.want \in Nat
          BY <3>1, <1>1, MinBlockIs DEF IInv, TypeOK
        <4> QED BY <2>2, <3>2, <4>1, <1>1 DEF TakeSplit, Split, IInv, TypeOK
      <3>6. freed' = (freed \ {t}) \cup {rest} /\ take.want # take.size
        BY <2>2 DEF TakeSplit
      <3> HIDE DEF t, rest
      <3>7. Blocks' \ Blocks = {rest}
        BY <3>2
      <3> QED BY <3>2, <3>3, <3>4, <3>5, <3>6, <3>7
    <2> QED BY <2>1, <2>2
  <1> HIDE DEF t, rest
  <1>3. Held' = Held
    <2>1. \A o \in Blocks' \ Blocks : ~(cur.pos <= o /\ o < cur.pos + cur.size)
      <3> SUFFICES ASSUME NEW o \in Blocks' \ Blocks, cur.pos <= o, o < cur.pos + cur.size
                   PROVE  FALSE
        OBVIOUS
      <3>1. /\ cur.pos \in Nat /\ cur.size \in Nat /\ o \in Nat /\ cur.size > 0
            /\ t < o /\ o < t + bsize[t] /\ bsize[t] \in Nat
        BY <1>1, <1>2 DEF IInv, TypeOK
      <3>2. cur.pos \in Blocks /\ cur.pos + cur.size \in Blocks \cup {End}
        BY <3>1 DEF IInv, Ownership, InHand
      <3>3. ~(cur.pos <= t /\ t < cur.pos + cur.size)
        BY <1>1 DEF Held
      <3>4. CASE t < cur.pos
        BY <3>1, <3>2, <3>4, <1>1, TilingFacts DEF IInv
      <3>5. CASE cur.pos + cur.size <= t
        BY <3>1, <3>5, <1>1
      <3> QED BY <3>1, <3>3, <3>4, <3>5, <1>1
    <2> QED BY <2>1, <1>2 DEF Held
  <1>4. TypeOK'
    <2>1. Blocks' \subseteq Nat \ {0}
      BY <1>1, <1>2 DEF IInv, TypeOK
    <2>2. freed' \subseteq Blocks' /\ buffer' \subseteq Blocks' /\ pending' \subseteq Blocks'
      BY <1>2 DEF IInv, TypeOK
    <2>3. live' \subseteq Blocks' /\ groups' \subseteq Blocks'
      BY <1>1, <1>2 DEF IInv, TypeOK, t
    <2>4. mapped' \subseteq Nat \X Blocks'
      BY <1>2 DEF IInv, TypeOK
    <2>5. pc' \in {"idle", "take", "copy", "update", "combine", "next", "last", "add", "grow"}
      OBVIOUS
    <2>6. take' \in [pos : Nat, size : Nat, want : Nat]
      BY DEF NoTake
    <2> QED BY <2>1, <2>2, <2>3, <2>4, <2>5, <2>6, <1>2 DEF IInv, TypeOK, StatType
  <1>5. OneOwner' /\ InHand'
    BY <1>1, <1>2, <1>3 DEF IInv, TypeOK, Ownership, OneOwner, InHand, NoTake, t
  <1>6. OneContainer'
    <2>1. \A e \in mapped : e[2] # t /\ e[2] \in Blocks /\ e[1] = bsize[e[2]]
      BY <1>1 DEF IInv, TypeOK, Ownership, OneContainer, MappedBlocks
    <2>2. \A e \in mapped' : e[1] = bsize'[e[2]]
      BY <2>1, <1>2
    <2>3. MappedBlocks' = MappedBlocks /\ MappedBlocks \subseteq Blocks
      BY <2>1 DEF MappedBlocks
    <2>4. \A o \in Blocks' \ Blocks : o \notin Held' /\ o \notin pending /\ o \notin MappedBlocks /\ o # 0
      BY <1>1, <1>2, <1>3, <2>3 DEF IInv, TypeOK, Held
    <2>5. \A o \in buffer \cup pending \cup MappedBlocks : o \in freed \ Held /\ o # t /\ o # 0
      BY <1>1 DEF IInv, TypeOK, Ownership, OneContainer
    <2>6. buffer \cap pending = {} /\ MappedBlocks \cap (buffer \cup pending) = {}
      BY DEF IInv, Ownership, OneContainer
    <2>7. take'.pos = 0 /\ pending' = pending
      BY DEF NoTake
    <2>8. buffer' \cup pending' \cup MappedBlocks' \subseteq freed' \ (Held' \cup {take'.pos})
      BY <1>2, <1>3, <2>3, <2>4, <2>5, <2>7 DEF IInv, TypeOK
    <2>9. buffer' \cap pending' = {} /\ MappedBlocks' \cap (buffer' \cup pending') = {}
      BY <1>2, <2>3, <2>4, <2>6, <2>7
    <2> QED BY <2>2, <2>8, <2>9 DEF OneContainer
  <1>7. Control'
    <2>1. pc' = "add" => cur.size = bsize'[cur.pos]
      <3> SUFFICES ASSUME pc = "grow" PROVE cur.size = bsize'[cur.pos]
        OBVIOUS
      <3>1. cur.pos \in Held /\ cur.size = bsize[cur.pos]
        BY DEF IInv, TypeOK, Control, Ownership, InHand, Held
      <3> QED BY <3>1, <1>1, <1>2 DEF Held
    <2> QED BY <2>1 DEF IInv, Control, NoTake
  <1> QED BY <1>2, <1>4, <1>5, <1>6, <1>7 DEF IInv, Ownership

\* What get_neighbours and the removal of the block before leave in hand, when
\* the tags below pos are the ones that were read
LEMMA LookBackHolds ==
    ASSUME IInv, Tiling', NEW pos \in Blocks, pos \in Blocks', NEW len \in Nat, len > 0,
           NEW own \in Nat, bsize'[pos] = len, LookBack(pos, len, own), size' = size,
           bsize' \in [Blocks' -> Nat], Blocks' \subseteq Blocks,
           \A o \in Blocks : o < pos => o \in Blocks' /\ bsize'[o] = bsize[o]
    PROVE  /\ cur' \in [pos : Nat, size : Nat, next : Nat, own : Nat]
           /\ cur'.own = own /\ cur'.pos # 0 /\ cur'.size > 0
           /\ cur'.next # 0 => cur'.next = pos + len /\ pos + len \in freed
           /\ cur'.pos + cur'.size = pos + len
           /\ pos + len \in Blocks' \cup {End'}
           /\ cur'.pos \in Blocks' /\ cur'.pos <= pos
           /\ cur'.pos = pos \/ (cur'.pos \in freed /\ cur'.pos + bsize[cur'.pos] = pos)
           /\ Held' = {cur'.pos, pos}
           /\ buffer' \subseteq buffer /\ mapped' \subseteq mapped
           /\ cur'.pos # pos => cur'.pos \notin buffer' \cup MappedBlocks'
           /\ stat' \in StatType /\ churn' \in 0 .. MaxChurn /\ pc' = "next"
  <1>1. /\ pos \in Nat /\ pos # 0 /\ pos + len \in Nat /\ pos + len \in Blocks' \cup {End'}
        /\ \A o \in Blocks' : o \in Nat
        /\ \A o, u \in Blocks' : o < u => o + bsize'[o] <= u
        /\ \A o \in Blocks : o \in Nat /\ o # 0 /\ bsize[o] \in Nat /\ bsize[o] > 0
        /\ pc' = "next"
    BY TilingFacts, HeapAssumption DEF IInv, Tiling, Headed, Apart, Ends, LookBack
  <1>a. \A x \in Blocks' : pos <= x /\ x < pos + len <=> x = pos
    BY <1>1
  <1>b. FreeAt(pos + len) \in Nat /\ (FreeAt(pos + len) # 0 => FreeAt(pos + len) = pos + len /\ pos + len \in freed)
    BY <1>1 DEF FreeAt
  <1>2. CASE FreeBefore(pos) = {}
    <2>1. /\ cur' = [pos |-> pos, size |-> len, next |-> FreeAt(pos + len), own |-> own]
          /\ churn' = 0 /\ UNCHANGED <<buffer, mapped, stat>>
      BY <1>2 DEF LookBack
    <2>2. Held' = {pos}
      BY <2>1, <1>a DEF Held
    <2> QED BY <2>1, <2>2, <1>1, <1>b, HeapAssumption DEF IInv, TypeOK, StatType
  <1>3. CASE FreeBefore(pos) # {}
    <2>1. PICK o \in FreeBefore(pos) :
            /\ RemoveOffset(o)
            /\ cur' = [pos |-> o, size |-> bsize[o] + len, next |-> FreeAt(pos + len), own |-> own]
            /\ stat' = Merged
      BY <1>3 DEF LookBack
    <2>2. o \in freed /\ o \in Blocks /\ o + bsize[o] = pos
      BY DEF FreeBefore, IInv, TypeOK
    <2>3. o \in Blocks' /\ bsize'[o] = bsize[o] /\ o < pos
      BY <2>2, <1>1
    <2>4. Held' = {o, pos}
      <3>1. \A x \in Blocks' : o <= x /\ x < pos + len <=> x = o \/ x = pos
        BY <2>2, <2>3, <1>1, <1>a
      <3>2. cur'.pos = o /\ cur'.pos + cur'.size = pos + len
        BY <2>1, <2>2, <1>1
      <3> QED BY <3>1, <3>2, <2>3 DEF Held
    <2>5. /\ buffer' \subseteq buffer /\ o \notin buffer' /\ mapped' \subseteq mapped
          /\ \A e \in mapped' : e[2] # o
          /\ churn' \in 0 .. MaxChurn
      BY <2>1, <2>2, RemoveOffsetRemoves DEF IInv, Ownership
    <2>6. stat' \in StatType
      BY <2>1, StatTypes DEF IInv
    <2>7. cur'.pos = o /\ cur'.size = bsize[o] + len /\ cur'.own = own /\ cur'.next = FreeAt(pos + len)
      BY <2>1
    <2>8. cur' \in [pos : Nat, size : Nat, next : Nat, own : Nat]
      BY <2>1, <2>2, <1>1, <1>b
    <2>9. o \notin MappedBlocks'
      BY <2>5 DEF MappedBlocks
    <2> QED BY <2>2, <2>3, <2>4, <2>5, <2>6, <2>7, <2>8, <2>9, <1>1, <1>b
  <1> QED BY <1>2, <1>3

\* A caller's block is taken back and the free block before it with it
LEMMA FreeStep ==
    ASSUME IInv, NEW p \in live, Free(p)
    PROVE  IInv'
  <1>1. /\ pc = "idle" /\ LookBack(p, bsize[p], p) /\ live' = live \ {p} /\ call' = "free"
        /\ UNCHANGED <<size, bsize, freed, dirty, groups, take, pending>>
    BY DEF Free
  <1>2. Tiling' /\ Blocks' = Blocks /\ End' = End
    BY <1>1, SameTiling DEF IInv
  <1>3. p \in Blocks /\ bsize[p] \in Nat /\ bsize[p] > 0 /\ p \in Nat /\ p # 0 /\ p \notin freed \cup groups
    BY TilingFacts DEF IInv, TypeOK, Ownership, OneOwner
  <1>4. bsize' \in [Blocks' -> Nat]
    BY <1>1, <1>2 DEF IInv, TypeOK
  <1>5. /\ cur' \in [pos : Nat, size : Nat, next : Nat, own : Nat]
        /\ cur'.own = p /\ cur'.pos # 0 /\ cur'.size > 0
        /\ cur'.next # 0 => cur'.next = p + bsize[p] /\ p + bsize[p] \in freed
        /\ cur'.pos + cur'.size = p + bsize[p]
        /\ p + bsize[p] \in Blocks' \cup {End'}
        /\ cur'.pos \in Blocks' /\ cur'.pos <= p
        /\ cur'.pos = p \/ cur'.pos \in freed
        /\ Held' = {cur'.pos, p}
        /\ buffer' \subseteq buffer /\ mapped' \subseteq mapped
        /\ cur'.pos # p => cur'.pos \notin buffer' \cup MappedBlocks'
        /\ stat' \in StatType /\ churn' \in 0 .. MaxChurn /\ pc' = "next"
    BY <1>1, <1>2, <1>3, <1>4, LookBackHolds
  <1>6. cur = NoBlock /\ take = NoTake /\ pending = {}
    BY <1>1 DEF IInv, Control
  <1>7. TypeOK'
    BY <1>1, <1>2, <1>5 DEF IInv, TypeOK, StatType
  <1>8. OneOwner' /\ InHand'
    BY <1>1, <1>2, <1>3, <1>5, <1>6 DEF IInv, TypeOK, Ownership, OneOwner, InHand, NoBlock, NoTake
  <1>9. OneContainer'
    <2>1. MappedBlocks' \subseteq MappedBlocks
      BY <1>5 DEF MappedBlocks
    <2> QED BY <1>1, <1>2, <1>3, <1>5, <1>6, <2>1 DEF IInv, Ownership, OneContainer, NoTake
  <1>10. Control'
    BY <1>1, <1>3, <1>5, <1>6 DEF IInv, Control
  <1> QED BY <1>2, <1>7, <1>8, <1>9, <1>10 DEF IInv, Ownership

\* update_map writes the tags of a combined block and reads its neighbours
LEMMA UpdateLookBackStep ==
    ASSUME IInv, UpdateLookBack
    PROVE  IInv'
  <1> DEFINE pos == cur.pos
             len == cur.size
  <1>1. /\ pc = "combine" /\ bsize' = Joined(pos, len) /\ freed' = freed \cap Blocks'
        /\ LookBack(pos, len, 0)
        /\ \A o \in pending : ~Adjacent(o)
        /\ UNCHANGED <<size, dirty, live, groups, call, take, pending>>
    BY DEF UpdateLookBack, Blocks, owners
  <1>2. /\ pos \in Nat /\ len \in Nat /\ len > 0 /\ pos \in Blocks /\ pos + len \in Blocks \cup {End}
        /\ call = "update" /\ cur.own = 0 /\ take = NoTake
        /\ Held \subseteq freed /\ pos \in Held /\ pos # 0
    BY <1>1 DEF IInv, TypeOK, Control, Ownership, InHand, OneOwner, Held
  <1>3. /\ Tiling' /\ Blocks' = {o \in Blocks : o <= pos \/ pos + len <= o} /\ End' = End
        /\ bsize'[pos] = len /\ \A o \in Blocks' \ {pos} : bsize'[o] = bsize[o]
    BY <1>1, <1>2, JoinTiles DEF IInv
  <1> HIDE DEF pos, len
  <1>4. bsize' \in [Blocks' -> Nat] /\ Blocks' \subseteq Blocks /\ pos \in Blocks'
    <2>1. Blocks' \subseteq Blocks /\ pos \in Blocks'
      BY <1>2, <1>3
    <2>2. bsize' = [o \in Blocks' |-> IF o = pos THEN len ELSE bsize[o]]
      BY <1>1, <1>3 DEF Joined
    <2>3. \A o \in Blocks' : bsize[o] \in Nat
      BY <2>1 DEF IInv, TypeOK
    <2> QED BY <2>1, <2>2, <2>3, <1>2
  <1>5. \A o \in Blocks : o < pos => o \in Blocks' /\ bsize'[o] = bsize[o]
    BY <1>2, <1>3, TilingFacts DEF IInv
  <1>6. /\ cur' \in [pos : Nat, size : Nat, next : Nat, own : Nat]
        /\ cur'.own = 0 /\ cur'.pos # 0 /\ cur'.size > 0
        /\ cur'.next # 0 => cur'.next = pos + len /\ pos + len \in freed
        /\ cur'.pos + cur'.size = pos + len
        /\ pos + len \in Blocks' \cup {End'}
        /\ cur'.pos \in Blocks' /\ cur'.pos <= pos
        /\ cur'.pos = pos \/ (cur'.pos \in freed /\ cur'.pos + bsize[cur'.pos] = pos)
        /\ Held' = {cur'.pos, pos}
        /\ buffer' \subseteq buffer /\ mapped' \subseteq mapped
        /\ cur'.pos # pos => cur'.pos \notin buffer' \cup MappedBlocks'
        /\ stat' \in StatType /\ churn' \in 0 .. MaxChurn /\ pc' = "next"
    BY <1>1, <1>2, <1>3, <1>4, <1>5, LookBackHolds
  <1>7. Blocks \ Blocks' \subseteq Held
    BY <1>2, <1>3, TilingFacts DEF Held, pos, len, IInv
  <1>8. Held \cap (buffer \cup pending \cup MappedBlocks) = {} /\ MappedBlocks' \subseteq MappedBlocks
    BY <1>6 DEF IInv, Ownership, OneContainer, MappedBlocks
  <1>9. /\ freed \subseteq Blocks /\ buffer \cup pending \cup MappedBlocks \subseteq freed
        /\ live \cup groups \subseteq Blocks \ freed /\ pending \cap buffer = {}
        /\ MappedBlocks \cap (buffer \cup pending) = {} /\ live \cap groups = {}
        /\ Blocks = freed \cup live \cup groups /\ 0 \notin Blocks
    BY <1>2 DEF IInv, TypeOK, Ownership, OneOwner, OneContainer
  <1>10. live \cup groups \cup buffer \cup pending \cup MappedBlocks \subseteq Blocks' /\ pos \in freed'
    BY <1>1, <1>2, <1>4, <1>7, <1>8, <1>9
  <1>11. pos + len \in freed => pos + len \in freed'
    <2>1. pos + len <= pos + len
      BY <1>2
    <2> QED BY <2>1, <1>1, <1>3, <1>9
  <1>12. cur'.pos \in freed' /\ cur'.pos \notin pending' /\ \A o \in pending' : o < cur'.pos
    <2>1. CASE cur'.pos = pos
      BY <2>1, <1>1, <1>2, <1>8, <1>10 DEF IInv, Control, pos, len
    <2>2. CASE cur'.pos # pos
      <3> DEFINE q == cur'.pos
      <3>1. q \in freed /\ q + bsize[q] = pos /\ q \in Blocks' /\ q < pos /\ q \in Nat
        BY <2>2, <1>2, <1>6
      <3>2. \A o \in pending : o \in Blocks /\ o \in Nat /\ o < pos /\ bsize[o] \in Nat
        BY <1>2, TilingFacts DEF IInv, TypeOK, Control, pos, len
      <3>3. \A o \in pending : o <= q
        BY <3>1, <3>2, <1>4, TilingFacts DEF IInv
      <3>4. q \notin pending
        BY <3>1, <3>3, <1>1, <1>2 DEF Adjacent, Highest, pos
      <3> HIDE DEF q
      <3>5. \A o \in pending : o < q
        BY <3>1, <3>2, <3>3, <3>4
      <3> QED BY <3>1, <3>4, <3>5, <1>1 DEF q
    <2> QED BY <2>1, <2>2
  <1>13. TypeOK'
    <2>1. mapped' \subseteq Nat \X Blocks'
      BY <1>6, <1>8, <1>10 DEF IInv, TypeOK, MappedBlocks
    <2>2. buffer' \subseteq Blocks' /\ live' \subseteq Blocks' /\ groups' \subseteq Blocks' /\ pending' \subseteq Blocks'
      BY <1>1, <1>6, <1>10
    <2> QED BY <1>1, <1>4, <1>6, <2>1, <2>2 DEF IInv, TypeOK, StatType
  <1>14. OneOwner' /\ InHand'
    BY <1>1, <1>2, <1>3, <1>4, <1>6, <1>9, <1>10, <1>12 DEF OneOwner, InHand, NoTake
  <1>15. OneContainer'
    <2>1. \A e \in mapped' : e[1] = bsize'[e[2]]
      <3> SUFFICES ASSUME NEW e \in mapped' PROVE e[1] = bsize'[e[2]]
        OBVIOUS
      <3>1. e[1] = bsize[e[2]] /\ e[2] \in MappedBlocks
        BY <1>6 DEF IInv, Ownership, OneContainer, MappedBlocks
      <3> QED BY <3>1, <1>2, <1>3, <1>8, <1>10
    <2>2. Held' \cap (buffer' \cup pending' \cup MappedBlocks') = {}
      BY <1>1, <1>2, <1>6, <1>8, <1>12
    <2> QED BY <2>1, <2>2, <1>1, <1>2, <1>6, <1>8, <1>9, <1>10 DEF OneContainer, NoTake
  <1>16. Control'
    BY <1>1, <1>2, <1>6, <1>11, <1>12 DEF Control
  <1> QED BY <1>3, <1>13, <1>14, <1>15, <1>16 DEF IInv, Ownership

\* The free block behind, read before groups were freed, is still the one
\* that touches the block in hand
LEMMA MergeNextStep ==
    ASSUME IInv, MergeNext
    PROVE  IInv'
  <1>1. /\ pc = "next" /\ pc' = "last"
        /\ UNCHANGED <<size, bsize, freed, dirty, groups, live, call, take, pending>>
    BY DEF MergeNext, owners
  <1>2. Tiling' /\ Blocks' = Blocks /\ End' = End
    BY <1>1, SameTiling DEF IInv
  <1>3. /\ cur.pos \in Nat /\ cur.size \in Nat /\ cur.size > 0 /\ cur.pos # 0 /\ take = NoTake
        /\ cur.pos \in Blocks /\ cur.pos + cur.size \in Blocks \cup {End}
    BY <1>1 DEF IInv, TypeOK, Control, Ownership, InHand
  <1>4. CASE cur.next = 0
    <2>1. churn' = 0 /\ UNCHANGED <<buffer, mapped, cur, stat>>
      BY <1>4 DEF MergeNext
    <2>2. Held' = Held /\ MappedBlocks' = MappedBlocks
      BY <2>1, <1>2 DEF Held, MappedBlocks
    <2>3. TypeOK'
      BY <1>1, <1>2, <2>1, HeapAssumption DEF IInv, TypeOK
    <2>4. Ownership'
      BY <1>1, <1>2, <2>1, <2>2 DEF IInv, Ownership, OneOwner, InHand, OneContainer
    <2>5. Control'
      BY <1>1, <2>1 DEF IInv, Control
    <2> QED BY <1>2, <2>3, <2>4, <2>5 DEF IInv
  <1>5. CASE cur.next # 0
    <2> DEFINE o == cur.next
    <2>1. /\ RemoveOffset(o) /\ cur' = [cur EXCEPT !.size = @ + bsize[o]] /\ stat' = Merged
      BY <1>5 DEF MergeNext
    <2>2. /\ o \in freed /\ o = cur.pos + cur.size /\ o \in Blocks /\ o \in Nat
          /\ bsize[o] \in Nat /\ bsize[o] > 0
          /\ o + bsize[o] \in Blocks \cup {End}
          /\ \A u \in Blocks : o < u => o + bsize[o] <= u
          /\ \A u \in Blocks : u \in Nat
      BY <1>1, <1>5, TilingFacts DEF IInv, TypeOK, Control
    <2> HIDE DEF o
    <2>3. /\ cur'.pos = cur.pos /\ cur'.size = cur.size + bsize[o] /\ cur'.own = cur.own
          /\ cur' \in [pos : Nat, size : Nat, next : Nat, own : Nat]
      BY <2>1, <2>2 DEF IInv, TypeOK
    <2>4. cur'.pos + cur'.size = o + bsize[o]
      BY <2>2, <2>3, <1>3
    <2>5. Held' = Held \cup {o} /\ o \notin Held
      <3>1. \A u \in Blocks : cur.pos <= u /\ u < o + bsize[o] <=> (cur.pos <= u /\ u < o) \/ u = o
        BY <2>2, <1>3
      <3>2. Held' = {u \in Blocks : cur.pos <= u /\ u < o + bsize[o]}
        BY <2>3, <2>4, <1>2 DEF Held
      <3>3. Held = {u \in Blocks : cur.pos <= u /\ u < o}
        BY <2>2 DEF Held
      <3>4. o \notin Held
        BY <3>3, <2>2
      <3>5. Held' = Held \cup {o}
        BY <3>1, <3>2, <3>3, <2>2
      <3> QED BY <3>4, <3>5
    <2>6. /\ buffer' \subseteq buffer /\ o \notin buffer' /\ mapped' \subseteq mapped
          /\ \A e \in mapped' : e[2] # o
          /\ churn' \in 0 .. MaxChurn
      BY <2>1, <2>2, RemoveOffsetRemoves DEF IInv, Ownership
    <2>7. MappedBlocks' \subseteq MappedBlocks /\ o \notin MappedBlocks'
      BY <2>6 DEF MappedBlocks
    <2>8. o \notin pending
      BY <1>3, <2>2 DEF IInv, Control
    <2>9. TypeOK'
      <3>1. stat' \in StatType
        BY <2>1, StatTypes DEF IInv
      <3> QED BY <1>1, <1>2, <2>3, <2>6, <3>1 DEF IInv, TypeOK, StatType
    <2>10. OneOwner' /\ InHand'
      BY <1>1, <1>2, <1>3, <2>2, <2>3, <2>4, <2>5 DEF IInv, Ownership, OneOwner, InHand, NoTake
    <2>11. OneContainer'
      BY <1>1, <1>2, <2>5, <2>6, <2>7, <2>8 DEF IInv, Ownership, OneContainer
    <2>12. Control'
      BY <1>1, <1>3, <2>2, <2>3 DEF IInv, Control
    <2> QED BY <1>2, <2>9, <2>10, <2>11, <2>12 DEF IInv, Ownership
  <1> QED BY <1>4, <1>5

\* The heap gets shorter by the block in hand
LEMMA ShrinkStep ==
    ASSUME IInv, Shrink
    PROVE  IInv'
  <1>1. /\ pc = "last" /\ pc' = Return /\ cur.pos + cur.size = End
        /\ size' = size - cur.size /\ bsize' = Truncated(cur.pos)
        /\ freed' = {o \in freed : o < cur.pos}
        /\ stat' = IF call = "free" THEN Credited(FreedBytes, FALSE) ELSE Merged
        /\ cur' = NoBlock /\ churn' = 0
        /\ UNCHANGED <<buffer, mapped, dirty, groups, live, call, take, pending>>
    BY DEF Shrink, free_space, owners
  <1>2. /\ cur.pos \in Nat /\ cur.size \in Nat /\ cur.size > 0 /\ take = NoTake
        /\ cur.pos \in Blocks /\ cur.own \in Nat
    BY <1>1 DEF IInv, TypeOK, Control, Ownership, InHand
  <1>3. size' \in Nat /\ HeapStart + size' = cur.pos /\ size' <= size
    BY <1>1, <1>2, TilingFacts DEF IInv
  <1>4. /\ Tiling' /\ Blocks' = {o \in Blocks : o < cur.pos}
        /\ \A o \in Blocks' : bsize'[o] = bsize[o]
    BY <1>1, <1>2, <1>3, TruncateTiles DEF IInv
  <1>5. Held = {o \in Blocks : ~(o < cur.pos)} /\ Held' = {}
    BY <1>1, <1>2, <1>4, TilingFacts DEF Held, IInv, NoBlock
  <1>6. Blocks' = Blocks \ Held /\ freed' = freed \ Held
    BY <1>4, <1>5, <1>1 DEF IInv, TypeOK
  <1>7. cur.own # 0 => cur.own \in Held
    BY DEF IInv, Ownership, InHand
  <1>8. /\ live \cup groups \subseteq Blocks' /\ freed' \subseteq Blocks'
        /\ buffer \cup pending \cup MappedBlocks \subseteq freed'
        /\ MappedBlocks' = MappedBlocks
    BY <1>1, <1>6 DEF IInv, TypeOK, Ownership, OneOwner, InHand, OneContainer, MappedBlocks
  <1>9. TypeOK'
    <2>1. stat' \in StatType
      <3>1. call = "free" => cur.own \in Blocks
        BY <1>1, <1>7 DEF IInv, Control, Held
      <3>2. call = "free" => FreedBytes \in Nat
        BY <3>1 DEF FreedBytes, IInv, TypeOK
      <3> QED BY <3>2, <1>1, StatTypes, HeapAssumption DEF IInv
    <2>2. size' \in 0 .. TotalSize
      BY <1>3, HeapAssumption, TilingFacts DEF IInv, TypeOK
    <2>3. bsize' \in [Blocks' -> Nat] /\ Blocks' \subseteq Nat \ {0}
      <3>1. bsize' = [o \in Blocks' |-> bsize[o]]
        BY <1>1, <1>4 DEF Truncated
      <3> QED BY <3>1, <1>4 DEF IInv, TypeOK
    <2>4. mapped' \subseteq Nat \X Blocks'
      BY <1>1, <1>8 DEF IInv, TypeOK, MappedBlocks
    <2>5. pc' \in {"copy", "update"} /\ churn' \in 0 .. MaxChurn
      BY <1>1, HeapAssumption DEF Return
    <2>6. cur' \in [pos : Nat, size : Nat, next : Nat, own : Nat]
      BY <1>1 DEF NoBlock
    <2> QED BY <1>1, <1>8, <2>1, <2>2, <2>3, <2>4, <2>5, <2>6 DEF IInv, TypeOK, StatType
  <1>10. OneOwner' /\ InHand'
    BY <1>1, <1>2, <1>5, <1>6, <1>7, <1>8 DEF IInv, TypeOK, Ownership, OneOwner, InHand, NoBlock, NoTake
  <1>11. OneContainer'
    <2>1. \A e \in mapped' : e[1] = bsize'[e[2]]
      BY <1>1, <1>4, <1>8 DEF IInv, Ownership, OneContainer, MappedBlocks
    <2> QED BY <2>1, <1>1, <1>2, <1>5, <1>8 DEF IInv, TypeOK, Ownership, OneContainer, NoTake
  <1>12. Control'
    BY <1>1, <1>2 DEF IInv, Control, NoBlock, Return
  <1> QED BY <1>4, <1>9, <1>10, <1>11, <1>12 DEF IInv, Ownership

\* The block in hand gets its tags and is free
LEMMA ReleaseStep ==
    ASSUME IInv, Release
    PROVE  IInv'
  <1> DEFINE pos == cur.pos
             len == cur.size
  <1>1. /\ pc = "last" /\ pc' = "add" /\ pos + len # End
        /\ bsize' = Joined(pos, len) /\ freed' = (freed \cap Blocks') \cup {pos}
        /\ stat' = IF call = "free" THEN Credited(FreedBytes, TRUE) ELSE stat
        /\ cur' = [cur EXCEPT !.own = 0, !.next = 0] /\ churn' = MaxChurn
        /\ UNCHANGED <<size, buffer, mapped, dirty, groups, live, call, take, pending>>
    BY DEF Release, free_space, owners, Blocks
  <1>2. /\ pos \in Nat /\ len \in Nat /\ len > 0 /\ pos # 0 /\ take = NoTake
        /\ pos \in Blocks /\ cur.own \in Nat /\ pos + len \in Blocks \cup {End}
        /\ Held \subseteq freed \cup {cur.own}
    BY <1>1 DEF IInv, TypeOK, Control, Ownership, InHand
  <1>3. /\ Tiling' /\ Blocks' = {o \in Blocks : o <= pos \/ pos + len <= o} /\ End' = End
        /\ bsize'[pos] = len /\ \A o \in Blocks' \ {pos} : bsize'[o] = bsize[o]
    BY <1>1, <1>2, JoinTiles DEF IInv
  <1>4. /\ cur'.pos = pos /\ cur'.size = len /\ cur'.own = 0 /\ cur'.next = 0
        /\ cur' \in [pos : Nat, size : Nat, next : Nat, own : Nat]
    BY <1>1 DEF IInv, TypeOK
  <1>5. \A o \in Blocks : o \in Nat
    BY TilingFacts DEF IInv
  <1>6. Held = {o \in Blocks : pos <= o /\ o < pos + len}
    BY DEF Held
  <1>7. Held' = {o \in Blocks' : pos <= o /\ o < pos + len}
    BY <1>4 DEF Held
  <1> HIDE DEF pos, len
  <1>8. pos \in Blocks' /\ Blocks' \subseteq Blocks /\ Blocks \ Blocks' = Held \ {pos} /\ pos \in Held
    <2>1. pos <= pos /\ pos < pos + len
      BY <1>2
    <2>2. \A o \in Blocks : ~(o <= pos \/ pos + len <= o) <=> (pos <= o /\ o < pos + len /\ o # pos)
      BY <1>2, <1>5
    <2>3. pos \in Blocks' /\ Blocks' \subseteq Blocks /\ pos \in Held
      BY <2>1, <1>2, <1>3, <1>6
    <2>4. \A o \in Blocks : o \notin Blocks' <=> (o \in Held /\ o # pos)
      BY <2>2, <1>3, <1>6
    <2>5. Held \subseteq Blocks
      BY <1>6
    <2> QED BY <2>3, <2>4, <2>5
  <1>9. Held' = {pos}
    <2>1. pos <= pos /\ pos < pos + len
      BY <1>2
    <2>2. \A o \in Blocks : (o <= pos \/ pos + len <= o) /\ pos <= o /\ o < pos + len => o = pos
      BY <1>2, <1>5
    <2>3. \A o \in Held' : o = pos
      BY <2>2, <1>3, <1>7
    <2>4. pos \in Held'
      BY <2>1, <1>7, <1>8
    <2> QED BY <2>3, <2>4
  <1>10. bsize' \in [Blocks' -> Nat]
    <2>1. bsize' = [o \in Blocks' |-> IF o = pos THEN len ELSE bsize[o]]
      BY <1>1, <1>3 DEF Joined
    <2>2. \A o \in Blocks' : bsize[o] \in Nat
      BY <1>8 DEF IInv, TypeOK
    <2> QED BY <2>1, <2>2, <1>2
  <1>11. /\ freed \subseteq Blocks /\ buffer \cup pending \cup MappedBlocks \subseteq freed \ Held
         /\ live \cup groups \subseteq Blocks \ (freed \cup {cur.own}) /\ pending \cap buffer = {}
         /\ MappedBlocks \cap (buffer \cup pending) = {} /\ live \cap groups = {}
         /\ Blocks = freed \cup live \cup groups \cup ({cur.own} \ {0}) /\ 0 \notin Blocks
         /\ cur.own # 0 => cur.own \in Held
    BY DEF IInv, TypeOK, Ownership, OneOwner, InHand, OneContainer
  <1>12. live \cup groups \subseteq Blocks' \ {pos}
    <2>1. live \cup groups \subseteq Blocks \ Held
      BY <1>2, <1>11
    <2> QED BY <2>1, <1>8
  <1>13. buffer \cup pending \cup MappedBlocks \subseteq freed' \ {pos} /\ freed' \subseteq Blocks'
    <2>1. freed' \subseteq Blocks'
      BY <1>1, <1>8
    <2>2. freed \ Held \subseteq Blocks'
      BY <1>8, <1>11
    <2>3. freed \ Held \subseteq freed' \ {pos}
      BY <2>2, <1>1, <1>8
    <2> QED BY <2>1, <2>3, <1>11
  <1>14. MappedBlocks' = MappedBlocks
    BY <1>1 DEF MappedBlocks
  <1>15. TypeOK'
    <2>1. stat' \in StatType
      <3>1. call = "free" => cur.own \in Blocks
        BY <1>1, <1>6, <1>11 DEF IInv, Control
      <3>2. call = "free" => FreedBytes \in Nat
        BY <3>1 DEF FreedBytes, IInv, TypeOK
      <3> QED BY <3>2, <1>1, StatTypes, HeapAssumption DEF IInv, TypeOK, StatType
    <2>2. mapped' \subseteq Nat \X Blocks'
      BY <1>1, <1>13 DEF IInv, TypeOK, MappedBlocks
    <2>3. Blocks' \subseteq Nat \ {0} /\ churn' \in 0 .. MaxChurn
      BY <1>1, <1>5, <1>8, <1>11, HeapAssumption
    <2>4. buffer' \subseteq Blocks' /\ pending' \subseteq Blocks' /\ live' \subseteq Blocks' /\ groups' \subseteq Blocks'
      BY <1>1, <1>12, <1>13
    <2> QED BY <1>1, <1>4, <1>10, <1>13, <2>1, <2>2, <2>3, <2>4 DEF IInv, TypeOK, StatType
  <1>16. OneOwner'
    BY <1>1, <1>4, <1>8, <1>11, <1>12, <1>13 DEF OneOwner
  <1>17. InHand'
    BY <1>1, <1>2, <1>3, <1>4, <1>8, <1>9 DEF InHand, NoTake
  <1>18. OneContainer'
    <2>1. \A e \in mapped' : e[1] = bsize'[e[2]]
      <3> SUFFICES ASSUME NEW e \in mapped' PROVE e[1] = bsize'[e[2]]
        OBVIOUS
      <3>1. e[1] = bsize[e[2]] /\ e[2] \in MappedBlocks
        BY <1>1 DEF IInv, Ownership, OneContainer, MappedBlocks
      <3> QED BY <3>1, <1>3, <1>13
    <2> QED BY <2>1, <1>1, <1>2, <1>9, <1>11, <1>13, <1>14 DEF OneContainer, NoTake
  <1>19. Control'
    BY <1>1, <1>2, <1>3, <1>4 DEF IInv, Control, pos, len
  <1> QED BY <1>3, <1>15, <1>16, <1>17, <1>18, <1>19 DEF IInv, Ownership

\* update_map copies the buffer and empties it
LEMMA CopyStep ==
    ASSUME IInv, Copy
    PROVE  IInv'
  <1>1. /\ pc = "copy" /\ pc' = "update" /\ pending' = buffer /\ buffer' = {}
        /\ UNCHANGED <<size, bsize, freed, stat, mapped, dirty, groups, live, call, cur, take, churn>>
    BY DEF Copy, heap, owners
  <1>2. Tiling' /\ Blocks' = Blocks /\ End' = End
    BY <1>1, SameTiling DEF IInv
  <1>3. Held' = Held /\ MappedBlocks' = MappedBlocks /\ pending = {} /\ cur = NoBlock
    BY <1>1, <1>2 DEF Held, MappedBlocks, IInv, Control
  <1>4. TypeOK'
    BY <1>1, <1>2 DEF IInv, TypeOK
  <1>5. OneOwner' /\ InHand'
    BY <1>1, <1>2, <1>3 DEF IInv, Ownership, OneOwner, InHand
  <1>6. OneContainer'
    BY <1>1, <1>2, <1>3 DEF IInv, Ownership, OneContainer
  <1>7. Control'
    BY <1>1, <1>3 DEF IInv, Control, NoBlock
  <1> QED BY <1>2, <1>4, <1>5, <1>6, <1>7 DEF IInv, Ownership

\* The lock is given back with nothing in hand
LEMMA UnlockStep ==
    ASSUME IInv, Unlock
    PROVE  IInv'
  <1>1. /\ pc = "update" /\ pc' = "idle" /\ pending = {} /\ call' = "free"
        /\ UNCHANGED <<size, bsize, freed, stat, buffer, mapped, dirty, groups, live, cur, take, pending, churn>>
    BY DEF Unlock, heap, free_space, owners
  <1>2. Tiling' /\ Blocks' = Blocks /\ End' = End
    BY <1>1, SameTiling DEF IInv
  <1>3. Held' = Held /\ MappedBlocks' = MappedBlocks /\ cur = NoBlock
    BY <1>1, <1>2 DEF Held, MappedBlocks, IInv, Control
  <1>4. TypeOK'
    BY <1>1, <1>2 DEF IInv, TypeOK
  <1>5. OneOwner' /\ InHand'
    BY <1>1, <1>2, <1>3 DEF IInv, Ownership, OneOwner, InHand
  <1>6. OneContainer'
    BY <1>1, <1>2, <1>3 DEF IInv, Ownership, OneContainer
  <1>7. Control'
    BY <1>1, <1>3 DEF IInv, Control, NoBlock
  <1> QED BY <1>2, <1>4, <1>5, <1>6, <1>7 DEF IInv, Ownership

\* update_map takes the next copied offset in hand
LEMMA NextPendingStep ==
    ASSUME IInv, NextPending
    PROVE  IInv'
  <1>1. PICK o \in pending : /\ Highest(o) /\ pending' = pending \ {o}
                             /\ cur' = [NoBlock EXCEPT !.pos = o, !.size = bsize[o]]
    BY DEF NextPending
  <1>2. /\ pc = "update" /\ pc' = "combine" /\ call' = "update"
        /\ UNCHANGED <<size, bsize, freed, stat, buffer, mapped, dirty, groups, live, take, churn>>
    BY DEF NextPending, heap, free_space, owners
  <1>3. Tiling' /\ Blocks' = Blocks /\ End' = End
    BY <1>2, SameTiling DEF IInv
  <1>4. /\ o \in Blocks /\ o \in freed /\ o \in Nat /\ o # 0 /\ bsize[o] \in Nat /\ bsize[o] > 0
        /\ o + bsize[o] \in Blocks \cup {End}
        /\ \A u \in Blocks : u \in Nat /\ (o < u => o + bsize[o] <= u)
    BY TilingFacts DEF IInv, TypeOK, Ownership, OneContainer
  <1>5. cur' = [pos |-> o, size |-> bsize[o], next |-> 0, own |-> 0]
    BY <1>1 DEF NoBlock
  <1>6. Held' = {o} /\ Held = {} /\ cur = NoBlock /\ take = NoTake
    <2>1. cur = NoBlock /\ take = NoTake
      BY <1>2 DEF IInv, Control
    <2>2. \A u \in Blocks : ~(u < 0 + 0)
      BY <1>4
    <2>3. Held = {}
      BY <2>1, <2>2, <1>4 DEF Held, NoBlock
    <2>4. \A u \in Blocks : (o <= u /\ u < o + bsize[o]) <=> u = o
      BY <1>4
    <2>5. Held' = {u \in Blocks : o <= u /\ u < o + bsize[o]}
      BY <1>3, <1>5 DEF Held
    <2>6. Held' = {o}
      BY <2>4, <2>5, <1>4
    <2> QED BY <2>1, <2>3, <2>6
  <1>7. MappedBlocks' = MappedBlocks
    BY <1>2 DEF MappedBlocks
  <1>8. cur' \in [pos : Nat, size : Nat, next : Nat, own : Nat]
    BY <1>4, <1>5
  <1>9. TypeOK'
    BY <1>1, <1>2, <1>3, <1>8 DEF IInv, TypeOK
  <1>10. OneOwner' /\ InHand'
    BY <1>2, <1>3, <1>4, <1>5, <1>6 DEF IInv, Ownership, OneOwner, InHand, NoBlock, NoTake
  <1>11. OneContainer'
    BY <1>1, <1>2, <1>3, <1>4, <1>6, <1>7 DEF IInv, Ownership, OneContainer
  <1>12. \A u \in pending' : u < o
    BY <1>1, <1>4 DEF Highest, IInv, TypeOK
  <1>13. Control'
    <2>1. cur'.pos = o /\ cur'.size = bsize[o] /\ cur'.next = 0 /\ cur'.own = 0
      BY <1>5
    <2> QED BY <2>1, <1>1, <1>2, <1>4, <1>6, <1>12 DEF Control
  <1> QED BY <1>3, <1>9, <1>10, <1>11, <1>13 DEF IInv, Ownership

\* update_map joins a copied offset to the block in hand
LEMMA CombineStep ==
    ASSUME IInv, Combine
    PROVE  IInv'
  <1>1. PICK o \in pending : /\ Adjacent(o) /\ pending' = pending \ {o}
                             /\ cur' = [cur EXCEPT !.pos = o, !.size = @ + bsize[o]]
    BY DEF Combine
  <1>2. /\ pc = "combine" /\ pc' = "combine" /\ stat' = Merged
        /\ UNCHANGED <<size, bsize, freed, buffer, mapped, dirty, groups, live, call, take, churn>>
    BY DEF Combine, free_space, owners
  <1>3. Tiling' /\ Blocks' = Blocks /\ End' = End
    BY <1>2, SameTiling DEF IInv
  <1>4. /\ cur.pos \in Nat /\ cur.size \in Nat /\ cur.size > 0 /\ cur.pos # 0 /\ take = NoTake
        /\ cur.pos \in Blocks /\ cur.pos + cur.size \in Blocks \cup {End}
        /\ cur.own = 0 /\ call = "update"
        /\ \A u \in pending : u < cur.pos
    BY <1>2 DEF IInv, TypeOK, Control, Ownership, InHand
  <1>5. /\ o \in Blocks /\ o \in freed /\ o \in Nat /\ o # 0 /\ bsize[o] \in Nat /\ bsize[o] > 0
        /\ \A u \in Blocks : u \in Nat /\ (o < u => o + bsize[o] <= u)
    BY TilingFacts DEF IInv, TypeOK, Ownership, OneContainer
  <1>6. o + bsize[o] = cur.pos
    BY <1>1, <1>4, <1>5 DEF Adjacent
  <1>7. /\ cur'.pos = o /\ cur'.size = cur.size + bsize[o] /\ cur'.own = cur.own /\ cur'.next = cur.next
        /\ cur' \in [pos : Nat, size : Nat, next : Nat, own : Nat]
    <2>1. cur \in [pos : Nat, size : Nat, next : Nat, own : Nat] /\ cur.size + bsize[o] \in Nat
      BY <1>5 DEF IInv, TypeOK
    <2> DEFINE s == cur.size + bsize[o]
    <2>2. cur' = [cur EXCEPT !.pos = o, !.size = s]
      BY <1>1
    <2>3. s \in Nat
      BY <2>1
    <2> HIDE DEF s
    <2>4. cur'.pos = o /\ cur'.size = s /\ cur'.own = cur.own /\ cur'.next = cur.next
      BY <2>1, <2>2
    <2>5. cur' \in [pos : Nat, size : Nat, next : Nat, own : Nat]
      BY <2>1, <2>2, <2>3, <1>5
    <2> QED BY <2>4, <2>5 DEF s
  <1>8. cur'.pos + cur'.size = cur.pos + cur.size
    BY <1>4, <1>5, <1>6, <1>7
  <1>9. Held' = Held \cup {o}
    <2>1. \A u \in Blocks : o <= u /\ u < cur.pos + cur.size <=> (cur.pos <= u /\ u < cur.pos + cur.size) \/ u = o
      BY <1>4, <1>5, <1>6
    <2>2. Held' = {u \in Blocks : o <= u /\ u < cur.pos + cur.size}
      BY <1>3, <1>7, <1>8 DEF Held
    <2> QED BY <2>1, <2>2, <1>5 DEF Held
  <1>10. MappedBlocks' = MappedBlocks
    BY <1>2 DEF MappedBlocks
  <1>11. TypeOK'
    <2>1. stat' \in StatType
      BY <1>2, StatTypes DEF IInv
    <2> QED BY <1>1, <1>2, <1>3, <1>7, <2>1 DEF IInv, TypeOK, StatType
  <1>12. OneOwner' /\ InHand'
    BY <1>2, <1>3, <1>4, <1>5, <1>7, <1>8, <1>9 DEF IInv, Ownership, OneOwner, InHand, NoTake
  <1>13. OneContainer'
    BY <1>1, <1>2, <1>3, <1>4, <1>5, <1>9, <1>10 DEF IInv, Ownership, OneContainer
  <1>14. \A u \in pending' : u < o
    BY <1>1, <1>5 DEF Adjacent, Highest, IInv, TypeOK
  <1>15. Control'
    BY <1>1, <1>2, <1>4, <1>5, <1>7, <1>14 DEF IInv, Control
  <1> QED BY <1>3, <1>11, <1>12, <1>13, <1>15 DEF IInv, Ownership

\* While the map is being told of a block, that block is the one in hand
LEMMA AddingHolds ==
    ASSUME IInv, pc \in {"add", "grow"}
    PROVE  /\ Held = {cur.pos} /\ cur.pos \in freed /\ cur.pos \in Blocks /\ cur.pos \in Nat
           /\ cur.pos # 0 /\ cur.size = bsize[cur.pos] /\ cur.size \in Nat /\ cur.own = 0
           /\ pending # {} => call = "update"
  <1>1. /\ cur.pos # 0 /\ cur.size > 0 /\ cur.size = bsize[cur.pos] /\ cur.own = 0
        /\ cur.pos \in Blocks /\ cur.size \in Nat /\ Held \subseteq freed \cup {cur.own}
        /\ pending # {} => call = "update"
    BY DEF IInv, TypeOK, Control, Ownership, InHand
  <1>2. \A u \in Blocks : u \in Nat /\ u # 0 /\ (cur.pos < u => cur.pos + bsize[cur.pos] <= u)
    BY <1>1, TilingFacts DEF IInv
  <1>3. \A u \in Blocks : (cur.pos <= u /\ u < cur.pos + cur.size) <=> u = cur.pos
    BY <1>1, <1>2
  <1>4. Held = {cur.pos}
    BY <1>1, <1>3 DEF Held
  <1> QED BY <1>1, <1>2, <1>4

\* The map knows the block, under its true size
LEMMA AddDoneStep ==
    ASSUME IInv, AddDone
    PROVE  IInv'
  <1>1. /\ pc = "add" /\ pc' = Return /\ cur' = NoBlock /\ churn' = 0
        /\ mapped' = mapped \cup {<<cur.size, cur.pos>>}
        /\ UNCHANGED <<size, bsize, freed, stat, buffer, dirty, groups, live, call, take, pending>>
    BY DEF AddDone, heap, owners
  <1>2. Tiling' /\ Blocks' = Blocks /\ End' = End
    BY <1>1, SameTiling DEF IInv
  <1>3. /\ Held = {cur.pos} /\ cur.pos \in freed /\ cur.pos \in Blocks /\ cur.pos # 0
        /\ cur.size = bsize[cur.pos] /\ cur.size \in Nat /\ cur.own = 0 /\ take = NoTake
        /\ pending # {} => call = "update"
    BY <1>1, AddingHolds DEF IInv, Control
  <1>4. Held' = {}
    BY <1>1, <1>2, TilingFacts DEF Held, NoBlock, IInv
  <1>5. MappedBlocks' = MappedBlocks \cup {cur.pos}
    <2> DEFINE f == <<cur.size, cur.pos>>
    <2>1. f[2] = cur.pos /\ mapped' = mapped \cup {f}
      BY <1>1
    <2> HIDE DEF f
    <2>2. \A x : x \in MappedBlocks' <=> x \in MappedBlocks \/ x = cur.pos
      BY <2>1 DEF MappedBlocks
    <2> QED BY <2>2
  <1>6. TypeOK'
    <2>1. cur' \in [pos : Nat, size : Nat, next : Nat, own : Nat] /\ churn' \in 0 .. MaxChurn
      BY <1>1, HeapAssumption DEF NoBlock
    <2>2. pc' \in {"copy", "update"}
      BY <1>1 DEF Return
    <2> QED BY <1>1, <1>2, <1>3, <2>1, <2>2 DEF IInv, TypeOK
  <1>7. OneOwner' /\ InHand'
    BY <1>1, <1>2, <1>3, <1>4 DEF IInv, Ownership, OneOwner, InHand, NoBlock, NoTake
  <1>8. OneContainer'
    <2>1. \A e \in mapped' : e[1] = bsize'[e[2]]
      BY <1>1, <1>3 DEF IInv, Ownership, OneContainer
    <2> QED BY <2>1, <1>1, <1>3, <1>4, <1>5 DEF IInv, Ownership, OneContainer, NoTake
  <1>9. Control'
    BY <1>1, <1>3 DEF IInv, Control, NoBlock, Return
  <1> QED BY <1>2, <1>6, <1>7, <1>8, <1>9 DEF IInv, Ownership

\* The map cannot get a group: the block is in no container
LEMMA AddFailsStep ==
    ASSUME IInv, AddFails
    PROVE  IInv'
  <1>1. /\ pc = "add" /\ pc' = Return /\ cur' = NoBlock /\ churn' = 0 /\ dirty' = TRUE
        /\ UNCHANGED <<size, bsize, freed, stat, buffer, mapped, groups, live, call, take, pending>>
    BY DEF AddFails, heap, owners
  <1>2. Tiling' /\ Blocks' = Blocks /\ End' = End
    BY <1>1, SameTiling DEF IInv
  <1>3. /\ Held = {cur.pos} /\ cur.pos \in freed /\ cur.own = 0 /\ take = NoTake
        /\ pending # {} => call = "update"
    BY <1>1, AddingHolds DEF IInv, Control
  <1>4. Held' = {} /\ MappedBlocks' = MappedBlocks
    BY <1>1, <1>2, TilingFacts DEF Held, NoBlock, IInv, MappedBlocks
  <1>5. TypeOK'
    <2>1. cur' \in [pos : Nat, size : Nat, next : Nat, own : Nat] /\ churn' \in 0 .. MaxChurn
      BY <1>1, HeapAssumption DEF NoBlock
    <2>2. pc' \in {"copy", "update"}
      BY <1>1 DEF Return
    <2> QED BY <1>1, <1>2, <2>1, <2>2 DEF IInv, TypeOK
  <1>6. OneOwner' /\ InHand'
    BY <1>1, <1>2, <1>3, <1>4 DEF IInv, Ownership, OneOwner, InHand, NoBlock, NoTake
  <1>7. OneContainer'
    BY <1>1, <1>2, <1>4 DEF IInv, Ownership, OneContainer
  <1>8. Control'
    BY <1>1, <1>3 DEF IInv, Control, NoBlock, Return
  <1> QED BY <1>2, <1>5, <1>6, <1>7, <1>8 DEF IInv, Ownership

\* A group takes a block of the buffer or a new one, never the one in hand
LEMMA GroupMallocStep ==
    ASSUME IInv, GroupMalloc
    PROVE  IInv'
  <1>1. PICK len \in GroupBlocks : (\E o \in buffer : GroupReuse(o, len)) \/ GroupDirect(len)
    BY DEF GroupMalloc
  <1>2. /\ pc = "add" /\ churn' \in 0 .. MaxChurn
        /\ UNCHANGED <<live, pc, call, cur, take, pending>>
    BY HeapAssumption DEF GroupMalloc, IInv, TypeOK
  <1>3. len \in Nat /\ len >= MinBlock
    BY GroupBlocksBounds
  <1>4. /\ Held = {cur.pos} /\ cur.pos \in freed /\ cur.pos \in Blocks /\ cur.pos # 0
        /\ cur.size = bsize[cur.pos] /\ cur.size \in Nat /\ cur.own = 0 /\ take = NoTake
    BY <1>2, AddingHolds DEF IInv, Control
  <1>5. ASSUME NEW o \in buffer, GroupReuse(o, len) PROVE IInv'
    <2>1. /\ buffer' = buffer \ {o} /\ freed' = freed \ {o} /\ stat' = Charged(len, TRUE)
          /\ groups' = groups \cup {o}
          /\ UNCHANGED <<size, bsize, mapped, dirty>>
      BY <1>5 DEF GroupReuse
    <2>2. Tiling' /\ Blocks' = Blocks /\ End' = End
      BY <2>1, SameTiling DEF IInv
    <2>3. Held' = Held /\ MappedBlocks' = MappedBlocks
      BY <1>2, <2>1, <2>2 DEF Held, MappedBlocks
    <2>4. o \in freed /\ o \in Blocks /\ o \notin Held /\ o \notin pending \cup MappedBlocks /\ o # 0
      BY DEF IInv, TypeOK, Ownership, OneContainer
    <2>5. TypeOK'
      <3>1. stat' \in StatType
        BY <2>1, <1>3, StatTypes DEF IInv
      <3> QED BY <1>2, <2>1, <2>2, <2>4, <3>1 DEF IInv, TypeOK, StatType
    <2>6. OneOwner' /\ InHand'
      BY <1>2, <1>4, <2>1, <2>2, <2>3, <2>4 DEF IInv, Ownership, OneOwner, InHand, NoTake
    <2>7. OneContainer'
      BY <1>2, <1>4, <2>1, <2>2, <2>3, <2>4 DEF IInv, Ownership, OneContainer
    <2>8. Control'
      BY <1>2, <2>1 DEF IInv, Control
    <2> QED BY <2>2, <2>5, <2>6, <2>7, <2>8 DEF IInv, Ownership
  <1>6. ASSUME GroupDirect(len) PROVE IInv'
    <2>1. /\ size' = size + len /\ bsize' = Appended(len) /\ stat' = Charged(len, FALSE)
          /\ TotalSize - size >= len /\ groups' = groups \cup {End}
          /\ UNCHANGED <<freed, buffer, mapped, dirty>>
      BY <1>6 DEF GroupDirect, Append, free_space
    <2>2. /\ Tiling' /\ Blocks' = Blocks \cup {End} /\ End \notin Blocks /\ End' = End + len
          /\ \A o \in Blocks : bsize'[o] = bsize[o]
          /\ bsize'[End] = len
      BY <1>3, <2>1, AppendTiles DEF IInv
    <2>3. End \in Nat /\ End # 0 /\ cur.pos + cur.size <= End /\ cur.pos \in Nat
      BY <1>4, TilingFacts DEF IInv
    <2>4. Held' = Held
      <3>1. ~(End < cur.pos + cur.size)
        BY <2>3, <1>4
      <3> QED BY <3>1, <1>2, <2>2 DEF Held
    <2>5. TypeOK'
      <3>1. size' \in 0 .. TotalSize
        BY <1>3, <2>1, HeapAssumption DEF IInv, TypeOK
      <3>2. bsize' \in [Blocks' -> Nat] /\ Blocks' \subseteq Nat \ {0}
        BY <1>3, <2>1, <2>2, <2>3 DEF IInv, TypeOK, Appended
      <3>3. stat' \in StatType
        BY <1>3, <2>1, StatTypes DEF IInv
      <3> QED BY <3>1, <3>2, <3>3, <1>2, <2>1, <2>2 DEF IInv, TypeOK, StatType
    <2>6. cur.pos + cur.size \in Blocks' \cup {End'}
      BY <1>4, <2>2 DEF IInv, Ownership, InHand, Tiling, Headed, Ends
    <2>7. OneOwner' /\ InHand'
      BY <1>2, <1>4, <2>1, <2>2, <2>3, <2>4, <2>6 DEF IInv, TypeOK, Ownership, OneOwner, InHand, NoTake
    <2>8. OneContainer'
      BY <1>2, <1>4, <2>1, <2>2, <2>3, <2>4 DEF IInv, TypeOK, Ownership, OneContainer, MappedBlocks
    <2>9. Control'
      BY <1>2, <1>4, <2>1, <2>2 DEF IInv, Control
    <2> QED BY <2>2, <2>5, <2>7, <2>8, <2>9 DEF IInv, Ownership
  <1> QED BY <1>1, <1>5, <1>6

\* A group's block is found in the map while the map is being changed
LEMMA GroupFitStep ==
    ASSUME IInv, GroupFit
    PROVE  IInv'
  <1>1. PICK len \in GroupBlocks, e \in mapped :
          /\ IsBest(e, len) /\ mapped' = MapRemoved(e[1], e[2])
          /\ take' = [pos |-> e[2], size |-> e[1], want |-> len]
    BY DEF GroupFit
  <1>2. /\ pc = "add" /\ pc' = "grow" /\ churn' \in 0 .. MaxChurn
        /\ UNCHANGED <<size, bsize, freed, stat, buffer, dirty, groups, live, call, cur, pending>>
    BY HeapAssumption DEF GroupFit, IInv, TypeOK, heap, owners
  <1>3. len \in Nat /\ len >= MinBlock
    BY GroupBlocksBounds
  <1>4. Tiling' /\ Blocks' = Blocks /\ End' = End
    BY <1>2, SameTiling DEF IInv
  <1>5. /\ e[2] \in freed \ Held /\ e[2] \in Nat /\ e[2] # 0
        /\ e[2] \notin buffer \cup pending
        /\ e[1] = bsize[e[2]] /\ e[1] \in Nat
        /\ len = e[1] \/ len + MinBlock <= e[1]
        /\ mapped' \subseteq mapped
        /\ \A f \in mapped' : f[2] # e[2]
    BY <1>1, <1>3, EntryTaken DEF IInv, Ownership, TypeOK
  <1>6. Held' = Held
    BY <1>2, <1>4 DEF Held
  <1>7. TypeOK'
    BY <1>1, <1>2, <1>3, <1>4, <1>5 DEF IInv, TypeOK
  <1>8. OneOwner' /\ InHand'
    BY <1>1, <1>2, <1>3, <1>4, <1>5, <1>6 DEF IInv, Ownership, OneOwner, InHand
  <1>9. OneContainer'
    BY <1>1, <1>2, <1>5, <1>6 DEF IInv, Ownership, OneContainer, MappedBlocks
  <1>10. Control'
    BY <1>1, <1>2, <1>5 DEF IInv, Control
  <1> QED BY <1>4, <1>7, <1>8, <1>9, <1>10 DEF IInv, Ownership

\* A group's block is freed while another block is in hand
LEMMA GroupFreeStep ==
    ASSUME IInv, NEW g \in groups, GroupFree(g)
    PROVE  IInv'
  <1>1. /\ pc \in {"take", "next", "last", "add", "grow"}
        /\ groups' = groups \ {g} /\ churn' \in 0 .. MaxChurn
        /\ UNCHANGED <<mapped, live, pc, call, cur, take, pending>>
    BY HeapAssumption DEF GroupFree, IInv, TypeOK
  <1>2. /\ g \in Blocks /\ g \in Nat /\ g # 0 /\ g \notin freed /\ g \notin live /\ g # cur.own
        /\ bsize[g] \in Nat /\ bsize[g] >= 12 /\ g >= HeapStart /\ g < End
        /\ \A o \in Blocks : o \in Nat /\ o < End /\ (g < o => g + bsize[g] <= o)
    BY TilingFacts DEF IInv, TypeOK, Ownership, OneOwner
  <1>3. g \notin Held /\ g # take.pos /\ g \notin buffer \cup pending \cup MappedBlocks
    BY <1>2 DEF IInv, Ownership, InHand, OneContainer
  <1>4. MappedBlocks' = MappedBlocks
    BY <1>1 DEF MappedBlocks
  <1>5. ASSUME g + bsize[g] = End, size' = size - bsize[g], bsize' = Truncated(g),
               stat' = Credited(bsize[g], FALSE), UNCHANGED <<freed, buffer, dirty>>
        PROVE  IInv'
    <2>1. size' \in Nat /\ HeapStart + size' = g /\ size' \in 0 .. TotalSize
      <3>1. size \in Nat /\ TotalSize \in Nat /\ size <= TotalSize /\ HeapStart \in Nat /\ End = HeapStart + size
        BY HeapAssumption DEF IInv, TypeOK, End
      <3> QED BY <3>1, <1>2, <1>5
    <2>2. /\ Tiling' /\ Blocks' = {o \in Blocks : o < g} /\ End' = g
          /\ \A o \in Blocks' : bsize'[o] = bsize[o]
      BY <1>2, <1>5, <2>1, TruncateTiles DEF IInv
    <2>3. Blocks' = Blocks \ {g}
      <3>1. \A o \in Blocks : o < g <=> o # g
        BY <1>2, <1>5
      <3> QED BY <3>1, <2>2
    <2>4. Held' = Held
      BY <1>1, <1>3, <2>3 DEF Held
    <2>5. TypeOK'
      <3>1. stat' \in StatType
        BY <1>2, <1>5, StatTypes DEF IInv
      <3>2. bsize' \in [Blocks' -> Nat] /\ Blocks' \subseteq Nat \ {0}
        <4>1. bsize' = [o \in Blocks' |-> bsize[o]]
          BY <1>5, <2>2 DEF Truncated
        <4> QED BY <4>1, <2>3 DEF IInv, TypeOK
      <3>3. mapped' \subseteq Nat \X Blocks'
        BY <1>1, <1>3, <2>3 DEF IInv, TypeOK, MappedBlocks
      <3>4. /\ freed' \subseteq Blocks' /\ buffer' \subseteq Blocks' /\ pending' \subseteq Blocks'
            /\ live' \subseteq Blocks' /\ groups' \subseteq Blocks'
        BY <1>1, <1>2, <1>3, <1>5, <2>3 DEF IInv, TypeOK
      <3> QED BY <1>1, <1>5, <2>1, <3>1, <3>2, <3>3, <3>4 DEF IInv, TypeOK, StatType
    <2>6. OneOwner'
      BY <1>1, <1>2, <1>5, <2>3 DEF IInv, Ownership, OneOwner
    <2>7. InHand'
      <3>1. cur.size > 0 => cur.pos \in Blocks' /\ cur.pos + cur.size \in Blocks' \cup {End'}
        <4> SUFFICES ASSUME cur.size > 0
                     PROVE  cur.pos \in Blocks' /\ cur.pos + cur.size \in Blocks' \cup {End'}
          OBVIOUS
        <4>1. cur.pos \in Blocks /\ cur.pos + cur.size \in Blocks \cup {End} /\ cur.pos \in Nat /\ cur.size \in Nat
          BY DEF IInv, TypeOK, Ownership, InHand
        <4>2. cur.pos # g
          BY <4>1, <1>3 DEF Held
        <4>3. ~(cur.pos <= g /\ g < cur.pos + cur.size)
          BY <1>2, <1>3 DEF Held
        <4>4. cur.pos < g
          BY <4>1, <4>2, <1>2, <1>5
        <4>5. cur.pos + cur.size # End
          BY <4>1, <4>3, <4>4, <1>2
        <4> QED BY <4>1, <4>2, <4>5, <2>2, <2>3
      <3>2. take.pos # 0 => take.pos \in freed \ Held /\ take.size = bsize'[take.pos]
        BY <1>2, <2>2, <2>3 DEF IInv, TypeOK, Ownership, InHand
      <3> QED BY <1>1, <1>2, <1>5, <2>4, <3>1, <3>2 DEF IInv, Ownership, InHand
    <2>8. OneContainer'
      <3>1. \A e \in mapped' : e[1] = bsize'[e[2]]
        <4> SUFFICES ASSUME NEW e \in mapped
                     PROVE  e[1] = bsize'[e[2]]
          BY <1>1
        <4>1. e[2] \in MappedBlocks /\ e[1] = bsize[e[2]]
          BY DEF IInv, Ownership, OneContainer, MappedBlocks
        <4>2. e[2] \in Blocks
          BY <4>1 DEF IInv, TypeOK, Ownership, OneContainer
        <4> QED BY <4>1, <4>2, <1>3, <2>2, <2>3
      <3>2. OneContainer
        BY DEF IInv, Ownership
      <3>3. UNCHANGED <<buffer, pending, mapped, freed, take, MappedBlocks, Held>>
        BY <1>1, <1>4, <1>5, <2>4
      <3> QED BY <3>1, <3>2, <3>3 DEF OneContainer
    <2>9. Control'
      <3>1. pc \in {"add", "grow"} => cur.size = bsize'[cur.pos]
        BY <1>2, <2>2, <2>3, AddingHolds DEF IInv
      <3>2. Control
        BY DEF IInv
      <3>3. UNCHANGED <<pc, call, cur, take, pending, freed>>
        BY <1>1, <1>5
      <3> QED BY <3>1, <3>2, <3>3 DEF Control
    <2> QED BY <2>2, <2>5, <2>6, <2>7, <2>8, <2>9 DEF IInv, Ownership
  <1>6. ASSUME freed' = freed \cup {g}, stat' = Credited(bsize[g], TRUE), FreePrivate(g),
               UNCHANGED <<size, bsize>>
        PROVE  IInv'
    <2>1. Tiling' /\ Blocks' = Blocks /\ End' = End
      BY <1>6, SameTiling DEF IInv
    <2>2. buffer' \subseteq buffer \cup {g} /\ dirty' \in BOOLEAN
      BY <1>6, FreePrivateAdds DEF IInv
    <2>3. Held' = Held
      BY <1>1, <2>1 DEF Held
    <2>4. TypeOK'
      <3>1. stat' \in StatType
        BY <1>2, <1>6, StatTypes DEF IInv
      <3> QED BY <1>1, <1>2, <1>6, <2>1, <2>2, <3>1 DEF IInv, TypeOK, StatType
    <2>5. OneOwner' /\ InHand'
      BY <1>1, <1>2, <1>3, <1>6, <2>1, <2>3 DEF IInv, Ownership, OneOwner, InHand
    <2>6. OneContainer'
      BY <1>1, <1>2, <1>3, <1>4, <1>6, <2>2, <2>3 DEF IInv, Ownership, OneContainer
    <2>7. Control'
      BY <1>1, <1>6 DEF IInv, Control
    <2> QED BY <2>1, <2>4, <2>5, <2>6, <2>7 DEF IInv, Ownership
  <1> QED BY <1>5, <1>6 DEF GroupFree

\* A step that changes nothing
LEMMA StutterStep ==
    ASSUME IInv, UNCHANGED vars
    PROVE  IInv'
  <1>1. UNCHANGED <<size, bsize, freed, stat, buffer, mapped, dirty, groups, live, pc, call, cur,
                    take, pending, churn>>
    BY DEF vars, heap, free_space, owners, locals
  <1>2. Tiling' /\ Blocks' = Blocks /\ End' = End
    BY <1>1, SameTiling DEF IInv
  <1>3. Held' = Held /\ MappedBlocks' = MappedBlocks
    BY <1>1, <1>2 DEF Held, MappedBlocks
  <1>4. TypeOK'
    BY <1>1, <1>2 DEF IInv, TypeOK
  <1>5. Ownership'
    BY <1>1, <1>2, <1>3 DEF IInv, Ownership, OneOwner, InHand, OneContainer
  <1>6. Control'
    BY <1>1 DEF IInv, Control
  <1> QED BY <1>2, <1>4, <1>5, <1>6 DEF IInv

\* Every step of a call keeps the invariant
LEMMA NextIInv == IInv /\ [Next]_vars => IInv'
  <1> SUFFICES ASSUME IInv, [Next]_vars PROVE IInv'
    OBVIOUS
  <1>1. ASSUME NEW n \in Requests, MallocFit(n) PROVE IInv'
    BY <1>1, MallocFitStep
  <1>2. ASSUME NEW n \in Requests, MallocDirect(n) PROVE IInv'
    BY <1>2, MallocDirectStep
  <1>3. ASSUME NEW n \in Requests, MallocFails(n) PROVE IInv'
    BY <1>3, QuietStep DEF MallocFails
  <1>4. ASSUME NEW p \in live, Free(p) PROVE IInv'
    BY <1>4, FreeStep
  <1>5. CASE FreeNull
    BY <1>5, QuietStep DEF FreeNull
  <1>6. CASE MallocTake
    <2>1. 0 \in 0 .. MaxChurn
      BY HeapAssumption
    <2> QED BY <1>6, <2>1, TakeStep DEF MallocTake
  <1>7. CASE MergeNext
    BY <1>7, MergeNextStep
  <1>8. CASE Shrink
    BY <1>8, ShrinkStep
  <1>9. CASE Release
    BY <1>9, ReleaseStep
  <1>10. CASE GroupMalloc
    BY <1>10, GroupMallocStep
  <1>11. CASE GroupFit
    BY <1>11, GroupFitStep
  <1>12. CASE GroupTake
    <2>1. churn' \in 0 .. MaxChurn
      BY <1>12 DEF GroupTake, IInv, TypeOK
    <2> QED BY <1>12, <2>1, TakeStep DEF GroupTake
  <1>13. ASSUME NEW g \in groups, GroupFree(g) PROVE IInv'
    BY <1>13, GroupFreeStep
  <1>14. CASE AddDone
    BY <1>14, AddDoneStep
  <1>15. CASE AddFails
    BY <1>15, AddFailsStep
  <1>16. CASE Copy
    BY <1>16, CopyStep
  <1>17. CASE NextPending
    BY <1>17, NextPendingStep
  <1>18. CASE Combine
    BY <1>18, CombineStep
  <1>19. CASE UpdateLookBack
    BY <1>19, UpdateLookBackStep
  <1>20. CASE Unlock
    BY <1>20, UnlockStep
  <1>21. CASE UNCHANGED vars
    BY <1>21, StutterStep
  <1> QED BY <1>1, <1>2, <1>3, <1>4, <1>5, <1>6, <1>7, <1>8, <1>9, <1>10, <1>11, <1>12, <1>13,
             <1>14, <1>15, <1>16, <1>17, <1>18, <1>19, <1>20, <1>21 DEF Next, Call, Locked

\* Tags, owners, containers and program counter agree in every state, for
\* every size of the heap, the buffer and the groups
THEOREM Inductive == Spec => []IInv
  BY InitIInv, NextIInv, PTL DEF Spec

\* Every variable keeps its type; the heap never grows over its region
THEOREM TypeCorrect == Spec => []TypeOK
  <1>1. IInv => TypeOK
    BY DEF IInv
  <1> QED BY <1>1, Inductive, PTL

\* The boundary tags always tile the heap (mem_block.c), in the middle of
\* every malloc, free and update_map too
THEOREM Tiled == Spec => []Tiling
  <1>1. IInv => Tiling
    BY DEF IInv
  <1> QED BY <1>1, Inductive, PTL

\* No block has two owners and no free block is known to two containers,
\* though the map allocates from the blocks it is being told of (multi_heap.c)
THEOREM Owned == Spec => []Ownership
  <1>1. IInv => Ownership
    BY DEF IInv
  <1> QED BY <1>1, Inductive, PTL

-----------------------------------------------------------------------------
(* MultiHeap implements Allocator, for every region, group size, buffer      *)
(* length and set of requests.                                               *)

\* What malloc_fit holds for a caller has the size of a request
Asked == pc = "take" => \E n \in Requests : take.want = BlockSize(n)

\* The size malloc_fit splits off is the size it was asked for
LEMMA AskedInductive == Asked /\ [Next]_vars => Asked'
  <1> SUFFICES ASSUME Asked, [Next]_vars, pc' = "take" PROVE Asked'
    BY DEF Asked
  <1>1. ASSUME NEW n \in Requests, MallocFit(n) PROVE Asked'
    BY <1>1 DEF MallocFit, TakeEntry, Asked
  <1>2. ASSUME NEW g \in groups, GroupFree(g) PROVE Asked'
    BY <1>2 DEF GroupFree, Asked
  <1>3. CASE UNCHANGED vars
    BY <1>3 DEF vars, locals, Asked
  <1>4. ASSUME NEW n \in Requests, MallocDirect(n) \/ MallocFails(n) PROVE FALSE
    BY <1>4 DEF MallocDirect, MallocFails
  <1>5. ASSUME NEW p \in live, Free(p) PROVE FALSE
    BY <1>5 DEF Free, LookBack
  <1>6. CASE FreeNull \/ MallocTake \/ MergeNext \/ Shrink \/ Release
    BY <1>6 DEF FreeNull, MallocTake, MergeNext, Shrink, Release, Return
  <1>7. CASE GroupMalloc \/ GroupFit \/ GroupTake \/ AddDone \/ AddFails
    BY <1>7 DEF GroupMalloc, GroupFit, GroupTake, AddDone, AddFails, Return
  <1>8. CASE Copy \/ NextPending \/ Combine \/ UpdateLookBack \/ Unlock
    BY <1>8 DEF Copy, NextPending, Combine, UpdateLookBack, LookBack, Unlock
  <1> QED BY <1>1, <1>2, <1>3, <1>4, <1>5, <1>6, <1>7, <1>8 DEF Next, Call, Locked

-----------------------------------------------------------------------------
(* Steps the callers do not see. *)

\* The payloads are those of the callers' blocks
LEMMA PayloadFacts ==
    ASSUME IInv
    PROVE  /\ DOMAIN Payloads = {p + 4 : p \in live}
           /\ \A p \in live : p \in Nat /\ p + 4 \in DOMAIN Payloads /\ Payloads[p + 4] = bsize[p] - 8
           /\ \A a \in DOMAIN Payloads : a - 4 \in live /\ a \in Nat
  <1>1. \A p \in live : p \in Nat /\ p + 4 - 4 = p
    BY TilingFacts DEF IInv, TypeOK
  <1>2. \A a \in {p + 4 : p \in live} : a - 4 \in live /\ a \in Nat
    BY <1>1
  <1> QED BY <1>1, <1>2 DEF Payloads

\* What keeps the callers' tags keeps their payloads
LEMMA SamePayloads ==
    ASSUME IInv, live' = live, \A p \in live : bsize'[p] = bsize[p]
    PROVE  Payloads' = Payloads
  <1>1. \A a \in {p + 4 : p \in live} : a - 4 \in live
    BY PayloadFacts
  <1>2. \A a \in {p + 4 : p \in live} : bsize'[a - 4] - 8 = bsize[a - 4] - 8
    BY <1>1
  <1>3. Payloads' = [a \in {p + 4 : p \in live} |-> bsize'[a - 4] - 8]
    BY DEF Payloads
  <1> QED BY <1>2, <1>3 DEF Payloads

\* Writing the tags of a combined block, cutting the end of the heap off,
\* appending and splitting a free block: no caller's tag is touched
LEMMA TagsKept ==
    ASSUME IInv, IInv', live' = live,
           \/ bsize' = bsize
           \/ \E len \in Nat : bsize' = Appended(len)
           \/ \E t \in freed, want \in Nat : t + want \notin Blocks /\ bsize' = Split(t, want)
           \/ \E pos : bsize' = Truncated(pos)
           \/ \E pos \in Held, len \in Nat : pos \notin live /\ bsize' = Joined(pos, len)
    PROVE  Payloads' = Payloads
  <1>1. live \subseteq Blocks /\ live \subseteq Blocks' /\ live \cap freed = {}
    BY DEF IInv, TypeOK, Ownership, OneOwner
  <1>2. End \notin Blocks
    BY TilingFacts DEF IInv
  <1>3. ASSUME NEW p \in live PROVE bsize'[p] = bsize[p]
    <2>1. ASSUME NEW len \in Nat, bsize' = Appended(len) PROVE bsize'[p] = bsize[p]
      BY <2>1, <1>1, <1>2 DEF Appended
    <2>2. ASSUME NEW t \in freed, NEW want \in Nat, t + want \notin Blocks, bsize' = Split(t, want)
          PROVE  bsize'[p] = bsize[p]
      <3>1. p \in Blocks /\ p # t /\ p # t + want
        BY <2>2, <1>1
      <3> QED BY <3>1, <2>2 DEF Split
    <2>3. ASSUME NEW pos, bsize' = Truncated(pos) PROVE bsize'[p] = bsize[p]
      BY <2>3, <1>1 DEF Truncated, Blocks
    <2>4. ASSUME NEW pos \in Held, NEW len \in Nat, pos \notin live, bsize' = Joined(pos, len)
          PROVE  bsize'[p] = bsize[p]
      <3>1. p # pos
        BY <2>4
      <3> QED BY <3>1, <2>4, <1>1 DEF Joined, Blocks
    <2> QED BY <2>1, <2>2, <2>3, <2>4
  <1> QED BY <1>3, SamePayloads

\* The heap's own steps, of a call that holds the lock
LEMMA LockedStutters ==
    ASSUME IInv, IInv', Locked, ~MallocTake
    PROVE  Payloads' = Payloads
  <1>1. CASE MergeNext \/ AddDone \/ AddFails \/ Copy \/ NextPending \/ Combine \/ Unlock \/ GroupFit
    BY <1>1, TagsKept DEF MergeNext, AddDone, AddFails, Copy, NextPending, Combine, Unlock, GroupFit,
                          heap, owners
  <1>2. CASE Shrink
    BY <1>2, TagsKept DEF Shrink, owners
  <1>3. CASE Release
    <2>1. live' = live /\ bsize' = Joined(cur.pos, cur.size) /\ cur.size \in Nat /\ cur.size > 0
      BY <1>3 DEF Release, owners, IInv, TypeOK, Control
    <2>2. cur.pos \in Held /\ cur.pos \notin live
      BY <2>1 DEF IInv, TypeOK, Ownership, OneOwner, InHand, Held
    <2> QED BY <2>1, <2>2, TagsKept
  <1>4. CASE UpdateLookBack
    <2>1. live' = live /\ bsize' = Joined(cur.pos, cur.size) /\ cur.size \in Nat /\ cur.size > 0
      BY <1>4 DEF UpdateLookBack, owners, IInv, TypeOK, Control
    <2>2. cur.pos \in Held /\ cur.pos \notin live
      BY <2>1 DEF IInv, TypeOK, Ownership, OneOwner, InHand, Held
    <2> QED BY <2>1, <2>2, TagsKept
  <1>5. CASE GroupMalloc
    <2>1. live' = live
      BY <1>5 DEF GroupMalloc
    <2>2. bsize' = bsize \/ \E len \in Nat : bsize' = Appended(len)
      BY <1>5, GroupBlocksBounds DEF GroupMalloc, GroupReuse, GroupDirect, Append
    <2> QED BY <2>1, <2>2, TagsKept
  <1>6. CASE GroupTake
    <2>1. live' = live
      BY <1>6 DEF GroupTake
    <2>2. CASE TakeExact
      BY <2>1, <2>2, TagsKept DEF TakeExact
    <2>3. CASE TakeSplit
      <3>1. /\ take.pos \in freed /\ take.want \in Nat /\ take.pos \in Blocks /\ MinBlock <= take.want
            /\ take.want + MinBlock <= bsize[take.pos]
        BY <1>6, <2>3 DEF GroupTake, TakeSplit, IInv, TypeOK, Ownership, InHand, Control
      <3>2. bsize' = Split(take.pos, take.want) /\ size' = size
        BY <1>6, <2>3 DEF GroupTake, TakeSplit
      <3>3. take.pos + take.want \notin Blocks
        BY <3>1, <3>2, SplitTiles DEF IInv
      <3> QED BY <3>1, <3>2, <3>3, <2>1, TagsKept
    <2> QED BY <1>6, <2>2, <2>3 DEF GroupTake
  <1>7. ASSUME NEW g \in groups, GroupFree(g) PROVE Payloads' = Payloads
    BY <1>7, TagsKept DEF GroupFree
  <1> QED BY <1>1, <1>2, <1>3, <1>4, <1>5, <1>6, <1>7 DEF Locked

-----------------------------------------------------------------------------
(* The three steps the callers see. *)

\* A block that becomes a caller's is an allocation of its request
LEMMA MallocSimulated ==
    ASSUME IInv, IInv', NEW n \in Requests, NEW t \in Nat, t \notin live,
           live' = live \cup {t}, \A p \in live : bsize'[p] = bsize[p],
           bsize'[t] = BlockSize(n)
    PROVE  Abstract!Malloc(n)
  <1> DEFINE len == BlockSize(n) - 8
  <1>1. n \in Nat \ {0} /\ len \in Nat /\ len \in n .. n + 3 /\ BlockSize(n) = len + 8
    BY HeapAssumption, BlockSizeBounds
  <1> HIDE DEF len
  <1>2. /\ t \in Blocks' /\ t + len + 8 <= HeapStart + TotalSize /\ HeapStart <= t
        /\ HeapStart \in Nat /\ TotalSize \in Nat
    <2>1. t \in Blocks' /\ size' <= TotalSize /\ size' \in Nat /\ HeapStart \in Nat /\ TotalSize \in Nat
      BY HeapAssumption DEF IInv, TypeOK
    <2>2. HeapStart <= t /\ t + bsize'[t] <= HeapStart + size'
      BY <2>1 DEF IInv, Tiling, Headed, Ends, End
    <2>3. bsize'[t] = len + 8 /\ len \in Nat
      BY <1>1
    <2>4. \A a, b, c, d \in Nat : a + (d + 8) <= b + c /\ c <= TotalSize => a + d + 8 <= b + TotalSize
      BY HeapAssumption
    <2> QED BY <2>1, <2>2, <2>3, <2>4
  <1>3. \A p \in live : /\ p \in Nat /\ bsize[p] \in Nat /\ p # t
                        /\ t + len + 8 <= p \/ p + bsize[p] <= t
    <2> SUFFICES ASSUME NEW p \in live
                 PROVE  /\ p \in Nat /\ bsize[p] \in Nat /\ p # t
                        /\ t + len + 8 <= p \/ p + bsize[p] <= t
      OBVIOUS
    <2>1. p \in Nat /\ bsize[p] \in Nat /\ p # t /\ p \in Blocks'
      BY TilingFacts DEF IInv, TypeOK
    <2>2. /\ p < t => p + bsize'[p] <= t
          /\ t < p => t + bsize'[t] <= p
      BY <2>1, <1>2 DEF IInv, Tiling, Apart, Ends
    <2> QED BY <2>1, <2>2, <1>1
  <1>4. t + 4 \in Abstract!Region
    BY <1>1, <1>2 DEF Abstract!Region
  <1>5. Abstract!Fresh(t + 4, len)
    <2>1. t + 4 + len <= HeapStart + TotalSize
      BY <1>1, <1>2
    <2>2. ASSUME NEW b \in DOMAIN Payloads PROVE t + 4 + len <= b \/ b + Payloads[b] <= t + 4
      <3>1. PICK p \in live : b = p + 4 /\ Payloads[b] = bsize[p] - 8
        BY PayloadFacts
      <3> QED BY <3>1, <1>1, <1>3
    <2> QED BY <2>1, <2>2 DEF Abstract!Fresh, Abstract!Disjoint
  <1>6. Payloads' = [b \in DOMAIN Payloads \cup {t + 4} |-> IF b = t + 4 THEN len ELSE Payloads[b]]
    <2>1. {p + 4 : p \in live'} = DOMAIN Payloads \cup {t + 4}
      BY PayloadFacts
    <2>2. ASSUME NEW b \in DOMAIN Payloads \cup {t + 4}
          PROVE  bsize'[b - 4] - 8 = IF b = t + 4 THEN len ELSE Payloads[b]
      <3>1. CASE b = t + 4
        <4>1. b - 4 = t
          BY <3>1
        <4> QED BY <4>1, <3>1, <1>1
      <3>2. CASE b # t + 4
        <4>1. PICK p \in live : b = p + 4 /\ Payloads[b] = bsize[p] - 8
          BY <3>2, PayloadFacts
        <4>2. b - 4 = p
          BY <4>1, <1>3
        <4> QED BY <4>1, <4>2, <3>2
      <3> QED BY <3>1, <3>2
    <2> QED BY <2>1, <2>2 DEF Payloads
  <1>7. t + 4 \in DOMAIN Payloads' \ DOMAIN Payloads
    <2>1. t + 4 \in DOMAIN Payloads'
      BY <1>6
    <2>2. ASSUME t + 4 \in DOMAIN Payloads PROVE FALSE
      <3>1. PICK p \in live : t + 4 = p + 4
        BY <2>2, PayloadFacts
      <3> QED BY <3>1, <1>3
    <2> QED BY <2>1, <2>2
  <1> QED BY <1>1, <1>4, <1>5, <1>6, <1>7 DEF Abstract!Malloc

\* A caller's free takes its range away and nothing else
LEMMA FreeSimulated ==
    ASSUME IInv, NEW p \in live, Free(p)
    PROVE  Abstract!Free(p + 4)
  <1>1. live' = live \ {p} /\ bsize' = bsize
    BY DEF Free
  <1>2. p + 4 \in DOMAIN Payloads /\ p \in Nat
    BY PayloadFacts
  <1>3. {q + 4 : q \in live'} = DOMAIN Payloads \ {p + 4}
    BY <1>1, <1>2, PayloadFacts
  <1>4. Payloads' = [b \in DOMAIN Payloads \ {p + 4} |-> Payloads[b]]
    BY <1>1, <1>3 DEF Payloads
  <1> QED BY <1>2, <1>4 DEF Abstract!Free

\* Every step of the heap is a malloc or a free of Allocator or invisible
LEMMA NextImplements ==
    ASSUME IInv, IInv', Asked, [Next]_vars
    PROVE  Abstract!Next \/ Payloads' = Payloads
  <1>1. ASSUME NEW n \in Requests, MallocFit(n) \/ MallocFails(n) PROVE Payloads' = Payloads
    BY <1>1, TagsKept DEF MallocFit, MallocFails, TakeEntry, heap, owners
  <1>2. ASSUME NEW n \in Requests, MallocDirect(n) PROVE Abstract!Malloc(n)
    <2>1. /\ BlockSize(n) \in Nat /\ BlockSize(n) >= MinBlock
      BY HeapAssumption, BlockSizeBounds
    <2>2. /\ size' = size + BlockSize(n) /\ bsize' = Appended(BlockSize(n)) /\ live' = live \cup {End}
      BY <1>2 DEF MallocDirect, Append
    <2>3. /\ End \notin Blocks /\ \A o \in Blocks : bsize'[o] = bsize[o]
          /\ bsize'[End] = BlockSize(n)
      BY <2>1, <2>2, AppendTiles DEF IInv
    <2>4. End \in Nat /\ live \subseteq Blocks
      BY TilingFacts DEF IInv, TypeOK
    <2> QED BY <2>2, <2>3, <2>4, MallocSimulated
  <1>3. ASSUME NEW p \in live, Free(p) PROVE Abstract!Free(p + 4) /\ p + 4 \in DOMAIN Payloads
    BY <1>3, FreeSimulated, PayloadFacts
  <1>4. CASE FreeNull
    BY <1>4, TagsKept DEF FreeNull, heap, owners
  <1>5. CASE MallocTake
    <2>1. PICK n \in Requests : take.want = BlockSize(n)
      BY <1>5 DEF MallocTake, Asked
    <2>2. /\ live' = live \cup {take.pos} /\ size' = size /\ live \subseteq Blocks
          /\ take.pos \in Nat /\ take.pos \in freed /\ take.pos \in Blocks /\ take.pos \notin live
          /\ take.size = bsize[take.pos] /\ take.want \in Nat /\ MinBlock <= take.want
          /\ take.want = take.size \/ take.want + MinBlock <= take.size
      BY <1>5 DEF MallocTake, IInv, TypeOK, Ownership, OneOwner, InHand, Control
    <2>3. CASE TakeExact
      <3>1. bsize' = bsize /\ take.want = take.size
        BY <2>3 DEF TakeExact
      <3> QED BY <3>1, <2>1, <2>2, MallocSimulated DEF Abstract!Next
    <2>4. CASE TakeSplit
      <3>1. bsize' = Split(take.pos, take.want) /\ take.want # take.size
        BY <2>4 DEF TakeSplit
      <3>2. bsize'[take.pos] = take.want /\ \A o \in Blocks \ {take.pos} : bsize'[o] = bsize[o]
        BY <3>1, <2>2, SplitTiles DEF IInv
      <3> QED BY <3>2, <2>1, <2>2, MallocSimulated DEF Abstract!Next
    <2> QED BY <1>5, <2>3, <2>4 DEF MallocTake
  <1>6. CASE Locked /\ ~MallocTake
    BY <1>6, LockedStutters
  <1>7. CASE UNCHANGED vars
    BY <1>7, TagsKept DEF vars, heap, owners
  <1> QED BY <1>1, <1>2, <1>3, <1>4, <1>5, <1>6, <1>7 DEF Next, Call, Abstract!Next

\* A heap that was just registered has given nothing out
LEMMA InitImplements == Init => Abstract!Init
  BY DEF Init, Abstract!Init, Payloads

\* multi_heap_malloc and multi_heap_free keep the promises of multi_heap.h:
\* fresh, large enough, disjoint ranges that nothing but their owner's free
\* changes
THEOREM Implements == Spec => ImplementsAllocator
  <1>1. Init => Asked
    BY DEF Init, Asked
  <1>2. Spec => []Asked
    BY <1>1, AskedInductive, PTL DEF Spec
  <1>3. IInv /\ IInv' /\ Asked /\ [Next]_vars => [Abstract!Next]_Payloads
    BY NextImplements
  <1> QED BY <1>2, <1>3, Inductive, InitImplements, PTL DEF Spec, ImplementsAllocator, Abstract!Spec
=============================================================================
