------------------------ MODULE MultiHeapSpaceProofs ------------------------
(***************************************************************************)
(* No free block is forgotten unless the heap is marked dirty, for every   *)
(* heap, buffer, group size and set of requests.                           *)
(*                                                                         *)
(* The invariant of MultiHeapProofs says that a block is in no container   *)
(* twice; here it is in one at least.  The two meet in the removal by size *)
(* (mem_block_map_item_group_remove_offset): an item that holds one offset *)
(* goes whatever offset was asked for, and that is the right one because   *)
(* the block asked for is known to be in the map.                          *)
(*                                                                         *)
(* The second part is about the counters: what every step does to the      *)
(* sets that they count, and to the bytes of the blocks that are not free. *)
(***************************************************************************)
EXTENDS MultiHeapProofs, FiniteSetTheorems

\* Where a free block is found again
KnownFree == buffer \cup pending \cup MappedBlocks \cup Held \cup {take.pos}

Kept == ~dirty => freed \subseteq KnownFree

-----------------------------------------------------------------------------
(* Removals take out the block they are about, and no other. *)

LEMMA RemoveKeepsOthers ==
    ASSUME TypeOK, OneContainer, NEW o \in buffer \cup MappedBlocks, RemoveOffset(o)
    PROVE  buffer \subseteq buffer' \cup {o} /\ MappedBlocks \subseteq MappedBlocks' \cup {o}
  <1>1. CASE o \in buffer
    BY <1>1 DEF RemoveOffset, MappedBlocks
  <1>2. CASE o \notin buffer
    <2>1. buffer' = buffer /\ mapped' = MapRemoved(bsize[o], o)
      BY <1>2 DEF RemoveOffset, MapRemove
    <2>2. PICK e \in mapped : e[2] = o
      BY <1>2 DEF MappedBlocks
    <2>3. e = <<bsize[o], o>> /\ e \in EntriesOf(bsize[o])
      BY <2>2 DEF TypeOK, OneContainer, EntriesOf
    <2>4. mapped \ {e} \subseteq mapped'
      BY <2>1, <2>3 DEF MapRemoved
    <2> QED BY <2>1, <2>2, <2>4 DEF MappedBlocks
  <1> QED BY <1>1, <1>2

LEMMA EntryKeepsOthers ==
    ASSUME TypeOK, NEW e \in mapped, mapped' = MapRemoved(e[1], e[2])
    PROVE  MappedBlocks \subseteq MappedBlocks' \cup {e[2]}
  <1>1. e = <<e[1], e[2]>> /\ e \in EntriesOf(e[1])
    BY DEF TypeOK, EntriesOf
  <1>2. mapped \ {e} \subseteq mapped'
    BY <1>1 DEF MapRemoved
  <1> QED BY <1>2 DEF MappedBlocks

\* multi_heap_free_private keeps the offset, or marks the heap
LEMMA FreePrivateKeeps ==
    ASSUME NEW o, FreePrivate(o), ~dirty'
    PROVE  ~dirty /\ buffer' = buffer \cup {o}
  BY DEF FreePrivate

\* A call that has no block in hand holds none
LEMMA NothingHeld == TypeOK /\ cur = NoBlock => Held = {}
  <1> SUFFICES ASSUME TypeOK, cur = NoBlock, NEW o \in Held
               PROVE  FALSE
    OBVIOUS
  <1>1. o \in Nat /\ 0 <= o /\ o < 0 + 0
    BY DEF Held, NoBlock, TypeOK
  <1> QED BY <1>1

-----------------------------------------------------------------------------
(* One lemma for the actions of each kind. *)

\* A block of the map goes to the hands of malloc_fit
LEMMA FitKeeps ==
    ASSUME IInv, IInv', Kept, NEW e \in mapped, mapped' = MapRemoved(e[1], e[2]),
           take'.pos = e[2], take = NoTake, UNCHANGED <<bsize, freed, buffer, pending, dirty, cur>>
    PROVE  Kept'
  <1>1. MappedBlocks \subseteq MappedBlocks' \cup {take'.pos}
    BY EntryKeepsOthers DEF IInv
  <1>2. Held' = Held
    BY DEF Held, Blocks
  <1>3. take.pos \notin freed
    BY DEF IInv, TypeOK, NoTake
  <1> QED BY <1>1, <1>2, <1>3 DEF Kept, KnownFree

\* The rest of a block that was split goes to the buffer
LEMMA TakeKeeps ==
    ASSUME IInv, Kept, TakeExact \/ TakeSplit, take' = NoTake, UNCHANGED <<mapped, cur, pending>>
    PROVE  Kept'
  <1>1. Held \subseteq Held' /\ MappedBlocks' = MappedBlocks
    BY DEF TakeExact, TakeSplit, Split, Held, Blocks, MappedBlocks
  <1>2. CASE TakeExact
    BY <1>1, <1>2 DEF TakeExact, Kept, KnownFree
  <1>3. CASE TakeSplit
    <2> SUFFICES ASSUME ~dirty'
                 PROVE  freed' \subseteq KnownFree'
      BY DEF Kept
    <2>1. ~dirty /\ buffer' = buffer \cup {take.pos + take.want}
          /\ freed' = (freed \ {take.pos}) \cup {take.pos + take.want}
      BY <1>3, FreePrivateKeeps DEF TakeSplit
    <2> QED BY <1>1, <2>1 DEF Kept, KnownFree
  <1> QED BY <1>2, <1>3

\* free takes in the free block before; it was in the buffer or in the map
LEMMA FreeKeeps ==
    ASSUME IInv, IInv', Kept, NEW p \in live, Free(p)
    PROVE  Kept'
  <1>1. /\ pc = "idle" /\ LookBack(p, bsize[p], p)
        /\ UNCHANGED <<bsize, freed, dirty, take, pending>>
    BY DEF Free
  <1>2. cur = NoBlock /\ take = NoTake /\ pending = {} /\ Blocks' = Blocks
    BY <1>1 DEF IInv, Control, Blocks
  <1>3. Held = {} /\ take.pos \notin freed
    BY <1>2, NothingHeld DEF NoTake, IInv, TypeOK
  <1>4. CASE FreeBefore(p) = {}
    BY <1>1, <1>2, <1>3, <1>4 DEF LookBack, Kept, KnownFree, MappedBlocks
  <1>5. CASE FreeBefore(p) # {}
    <2> SUFFICES ASSUME ~dirty
                 PROVE  freed \subseteq KnownFree'
      BY <1>1 DEF Kept
    <2>1. PICK o \in FreeBefore(p) :
            RemoveOffset(o) /\ cur'.pos = o /\ cur'.size = bsize[o] + bsize[p]
      BY <1>1, <1>5 DEF LookBack
    <2>2. o \in freed /\ o \in Blocks /\ o \in Nat /\ bsize[o] \in Nat /\ bsize[p] \in Nat /\ bsize[o] > 0
      BY TilingFacts DEF FreeBefore, IInv, TypeOK
    <2>3. o \in buffer \cup MappedBlocks
      BY <1>2, <1>3, <2>2 DEF Kept, KnownFree
    <2>4. buffer \subseteq buffer' \cup {o} /\ MappedBlocks \subseteq MappedBlocks' \cup {o}
      BY <2>1, <2>3, RemoveKeepsOthers DEF IInv, Ownership
    <2>5. o \in Held'
      BY <1>2, <2>1, <2>2 DEF Held
    <2> QED BY <1>2, <1>3, <2>4, <2>5 DEF Kept, KnownFree
  <1> QED BY <1>4, <1>5

\* update_map does the same with a block it has put together
LEMMA UpdateLookBackKeeps ==
    ASSUME IInv, IInv', Kept, UpdateLookBack
    PROVE  Kept'
  <1> DEFINE pos == cur.pos
             len == cur.size
  <1>1. /\ pc = "combine" /\ bsize' = Joined(pos, len) /\ freed' = freed \cap Blocks'
        /\ LookBack(pos, len, 0)
        /\ \A o \in pending : ~Adjacent(o)
        /\ UNCHANGED <<size, dirty, take, pending>>
    BY DEF UpdateLookBack, Blocks
  <1>2. /\ pos \in Nat /\ len \in Nat /\ len > 0 /\ pos \in Blocks /\ pos + len \in Blocks \cup {End}
        /\ take = NoTake
    BY <1>1 DEF IInv, TypeOK, Control, Ownership, InHand
  <1>3. Blocks' = {o \in Blocks : o <= pos \/ pos + len <= o} /\ pos \in Blocks'
    BY <1>1, <1>2, JoinTiles DEF IInv
  <1>4. Held \cap Blocks' \subseteq {pos}
    BY <1>2, <1>3 DEF Held, IInv, TypeOK
  <1>5. take.pos \notin freed
    BY <1>2 DEF NoTake, IInv, TypeOK
  <1>6. SUFFICES ASSUME ~dirty
                 PROVE  freed \cap Blocks' \subseteq KnownFree'
    BY <1>1 DEF Kept
  <1>7. freed \cap Blocks' \subseteq buffer \cup pending \cup MappedBlocks \cup {pos}
    BY <1>4, <1>5, <1>6 DEF Kept, KnownFree
  <1>8. CASE FreeBefore(pos) = {}
    <2>1. cur'.pos = pos /\ cur'.size = len /\ UNCHANGED <<buffer, mapped>>
      BY <1>1, <1>8 DEF LookBack
    <2>2. pos \in Held'
      BY <2>1, <1>2, <1>3 DEF Held
    <2> QED BY <2>1, <2>2, <1>1, <1>7 DEF KnownFree, MappedBlocks
  <1>9. CASE FreeBefore(pos) # {}
    <2>1. PICK o \in FreeBefore(pos) :
            RemoveOffset(o) /\ cur'.pos = o /\ cur'.size = bsize[o] + len
      BY <1>1, <1>9 DEF LookBack
    <2>2. /\ o \in freed /\ o \in Blocks /\ o \in Nat /\ bsize[o] \in Nat /\ bsize[o] > 0
          /\ o + bsize[o] = pos
      BY TilingFacts DEF FreeBefore, IInv, TypeOK
    <2>3. o < pos /\ o \in Blocks'
      BY <2>2, <1>2, <1>3
    <2>4. pos \in Held' /\ o \in Held'
      BY <2>1, <2>2, <2>3, <1>2, <1>3 DEF Held
    <2>5. o \notin pending
      <3> SUFFICES ASSUME o \in pending
                   PROVE  FALSE
        OBVIOUS
      <3>1. \A u \in pending : u \in Blocks /\ u \in Nat /\ u < pos
        BY <1>2 DEF IInv, TypeOK, Control
      <3>2. \A u \in pending : u <= o
        BY <3>1, <2>2, TilingFacts DEF IInv
      <3>3. Adjacent(o)
        BY <3>2, <2>2, <1>2 DEF Adjacent, Highest
      <3> QED BY <3>3, <1>1
    <2>6. o \in buffer \cup MappedBlocks
      BY <2>2, <2>3, <2>5, <1>7
    <2>7. buffer \subseteq buffer' \cup {o} /\ MappedBlocks \subseteq MappedBlocks' \cup {o}
      BY <2>1, <2>6, RemoveKeepsOthers DEF IInv, Ownership
    <2> QED BY <2>4, <2>7, <1>1, <1>7 DEF KnownFree
  <1> QED BY <1>8, <1>9

\* The block behind goes from the buffer or the map into the block in hand
LEMMA MergeNextKeeps ==
    ASSUME IInv, IInv', Kept, MergeNext
    PROVE  Kept'
  <1>1. pc = "next" /\ UNCHANGED <<bsize, freed, dirty, take, pending>> /\ Blocks' = Blocks
    BY DEF MergeNext, Blocks
  <1>2. /\ cur.pos \in Nat /\ cur.size \in Nat /\ cur.size > 0 /\ take = NoTake
    BY <1>1 DEF IInv, TypeOK, Control
  <1>3. CASE cur.next = 0
    <2>1. UNCHANGED <<buffer, mapped, cur>>
      BY <1>3 DEF MergeNext
    <2> QED BY <1>1, <2>1 DEF Kept, KnownFree, Held, MappedBlocks
  <1>4. CASE cur.next # 0
    <2> DEFINE o == cur.next
    <2>1. RemoveOffset(o) /\ cur'.pos = cur.pos /\ cur'.size = cur.size + bsize[o]
      BY <1>4 DEF MergeNext, IInv, TypeOK
    <2>2. /\ o \in freed /\ o = cur.pos + cur.size /\ o \in Blocks /\ o \in Nat
          /\ bsize[o] \in Nat /\ bsize[o] > 0
      BY <1>1, <1>4, TilingFacts DEF IInv, TypeOK, Control
    <2> HIDE DEF o
    <2>3. \A u \in Blocks : u \in Nat
      BY DEF IInv, TypeOK
    <2>4. o \notin Held
      BY <2>2, <1>2 DEF Held
    <2>5. Held \subseteq Held' /\ o \in Held'
      <3>1. Held' = {u \in Blocks : cur.pos <= u /\ u < cur.pos + (cur.size + bsize[o])}
        BY <1>1, <2>1 DEF Held
      <3>2. \A u \in Blocks : u < cur.pos + cur.size => u < cur.pos + (cur.size + bsize[o])
        BY <1>2, <2>2, <2>3
      <3>3. cur.pos <= o /\ o < cur.pos + (cur.size + bsize[o])
        BY <1>2, <2>2
      <3> QED BY <3>1, <3>2, <3>3, <2>2 DEF Held
    <2>6. o \notin pending /\ take.pos \notin freed
      BY <1>2, <2>2 DEF NoTake, IInv, TypeOK, Control
    <2> SUFFICES ASSUME ~dirty
                 PROVE  freed \subseteq KnownFree'
      BY <1>1 DEF Kept
    <2>7. o \in buffer \cup MappedBlocks
      BY <2>2, <2>4, <2>6 DEF Kept, KnownFree
    <2>8. buffer \subseteq buffer' \cup {o} /\ MappedBlocks \subseteq MappedBlocks' \cup {o}
      BY <2>1, <2>7, RemoveKeepsOthers DEF IInv, Ownership
    <2> QED BY <1>1, <2>5, <2>6, <2>8 DEF Kept, KnownFree
  <1> QED BY <1>3, <1>4

-----------------------------------------------------------------------------
(* Actions that move blocks without asking for one. *)

\* Nothing changes place except blocks that are handed out
LEMMA PlacesKeep ==
    ASSUME Kept, freed' \subseteq freed, freed' \cap Blocks \subseteq Blocks',
           freed' \cap buffer \subseteq buffer', freed \subseteq Blocks,
           UNCHANGED <<mapped, cur, take, pending, dirty>>
    PROVE  Kept'
  <1>1. freed' \cap Held \subseteq Held' /\ MappedBlocks' = MappedBlocks
    BY DEF Held, MappedBlocks
  <1> QED BY <1>1 DEF Kept, KnownFree

\* What is cut off at the end was in hand
LEMMA ShrinkKeeps ==
    ASSUME IInv, IInv', Kept, Shrink
    PROVE  Kept'
  <1>1. /\ freed' = {o \in freed : o < cur.pos}
        /\ UNCHANGED <<buffer, mapped, dirty, take, pending>>
    BY DEF Shrink, free_space
  <1>2. freed' \cap Held = {}
    <2>1. \A o \in Blocks : o \in Nat
      BY DEF IInv, TypeOK
    <2>2. cur.pos \in Nat
      BY DEF IInv, TypeOK
    <2>3. \A o \in Blocks : ~(o < cur.pos /\ cur.pos <= o)
      BY <2>1, <2>2
    <2> QED BY <2>3, <1>1 DEF Held
  <1>3. MappedBlocks' = MappedBlocks
    BY <1>1 DEF MappedBlocks
  <1> QED BY <1>1, <1>2, <1>3 DEF Kept, KnownFree

\* The tags of the block in hand are written: it is one block now, and in hand
LEMMA ReleaseKeeps ==
    ASSUME IInv, IInv', Kept, Release
    PROVE  Kept'
  <1>1. /\ pc = "last" /\ bsize' = Joined(cur.pos, cur.size)
        /\ freed' = (freed \cap Blocks') \cup {cur.pos}
        /\ cur'.pos = cur.pos /\ cur'.size = cur.size
        /\ UNCHANGED <<buffer, mapped, dirty, take, pending>>
    BY DEF Release, free_space, Blocks, IInv, TypeOK
  <1>2. cur.pos \in Nat /\ cur.size \in Nat /\ cur.size > 0 /\ cur.pos \in Blocks
    BY <1>1 DEF IInv, TypeOK, Control, Ownership, InHand
  <1>3. cur.pos \in Blocks'
    BY <1>1, <1>2 DEF Joined, Blocks
  <1>4. cur.pos \in Held' /\ Held \cap Blocks' \subseteq Held' /\ MappedBlocks' = MappedBlocks
    BY <1>1, <1>2, <1>3 DEF Held, MappedBlocks
  <1> QED BY <1>1, <1>4 DEF Kept, KnownFree

\* The group's block goes to the buffer, off the end, or the heap is marked
LEMMA GroupFreeKeeps ==
    ASSUME IInv, IInv', Kept, NEW g \in groups, GroupFree(g)
    PROVE  Kept'
  <1>1. UNCHANGED <<mapped, cur, take, pending>>
    BY DEF GroupFree
  <1>2. freed \subseteq Blocks /\ freed' \subseteq Blocks'
    BY DEF IInv, TypeOK
  <1>3. CASE UNCHANGED <<freed, buffer, dirty>>
    BY <1>1, <1>2, <1>3, PlacesKeep
  <1>4. ASSUME freed' = freed \cup {g}, FreePrivate(g), bsize' = bsize
        PROVE  Kept'
    <2>1. Held' = Held /\ MappedBlocks' = MappedBlocks
      BY <1>1, <1>4 DEF Held, Blocks, MappedBlocks
    <2> QED BY <1>1, <1>4, <2>1, FreePrivateKeeps DEF Kept, KnownFree
  <1> QED BY <1>3, <1>4 DEF GroupFree

\* The block in hand is in the map now
LEMMA AddDoneKeeps ==
    ASSUME IInv, IInv', Kept, AddDone
    PROVE  Kept'
  <1>1. /\ pc = "add" /\ mapped' = mapped \cup {<<cur.size, cur.pos>>}
        /\ UNCHANGED <<bsize, freed, buffer, dirty, take, pending>>
    BY DEF AddDone, heap
  <1>2. Held = {cur.pos}
    BY <1>1, AddingHolds
  <1>3. MappedBlocks \cup {cur.pos} \subseteq MappedBlocks'
    <2>1. <<cur.size, cur.pos>> \in mapped' /\ mapped \subseteq mapped'
      BY <1>1
    <2>2. <<cur.size, cur.pos>>[2] = cur.pos
      OBVIOUS
    <2> QED BY <2>1, <2>2 DEF MappedBlocks
  <1> QED BY <1>1, <1>2, <1>3 DEF Kept, KnownFree

\* update_map takes an offset from its copy into its hands
LEMMA NextPendingKeeps ==
    ASSUME IInv, IInv', Kept, NextPending
    PROVE  Kept'
  <1>1. PICK o \in pending : /\ pending' = pending \ {o}
                             /\ cur' = [NoBlock EXCEPT !.pos = o, !.size = bsize[o]]
    BY DEF NextPending
  <1>2. pc = "update" /\ UNCHANGED <<bsize, freed, buffer, mapped, dirty, take>>
    BY DEF NextPending, heap, free_space
  <1>3. cur'.pos = o /\ cur'.size = bsize[o]
    BY <1>1 DEF NoBlock
  <1>4. o \in Blocks /\ o \in Nat /\ bsize[o] \in Nat /\ bsize[o] > 0
    BY TilingFacts DEF IInv, TypeOK
  <1>5. o \in Held' /\ MappedBlocks' = MappedBlocks
    BY <1>2, <1>3, <1>4 DEF Held, Blocks, MappedBlocks
  <1>6. Held = {}
    BY <1>2, NothingHeld DEF IInv, Control
  <1> QED BY <1>1, <1>2, <1>5, <1>6 DEF Kept, KnownFree

\* ... and joins the offsets below to it
LEMMA CombineKeeps ==
    ASSUME IInv, IInv', Kept, Combine
    PROVE  Kept'
  <1>1. PICK o \in pending : /\ Adjacent(o) /\ pending' = pending \ {o}
                             /\ cur' = [cur EXCEPT !.pos = o, !.size = @ + bsize[o]]
    BY DEF Combine
  <1>2. pc = "combine" /\ UNCHANGED <<bsize, freed, buffer, mapped, dirty, take>>
    BY DEF Combine, free_space
  <1>3. cur'.pos = o /\ cur'.size = cur.size + bsize[o]
    BY <1>1 DEF IInv, TypeOK
  <1>4. /\ o \in Blocks /\ o \in Nat /\ bsize[o] \in Nat /\ bsize[o] > 0
        /\ cur.pos \in Nat /\ cur.size \in Nat /\ cur.size > 0 /\ o < cur.pos
        /\ o + bsize[o] >= cur.pos
    BY <1>1, <1>2, TilingFacts DEF IInv, TypeOK, Control, Adjacent
  <1>5. Blocks' = Blocks /\ \A u \in Blocks : u \in Nat
    BY <1>2 DEF Blocks, IInv, TypeOK
  <1>6. o \in Held' /\ Held \subseteq Held' /\ MappedBlocks' = MappedBlocks
    <2>1. Held' = {u \in Blocks : o <= u /\ u < o + (cur.size + bsize[o])}
      BY <1>3, <1>5 DEF Held
    <2>2. \A u \in Blocks : cur.pos <= u /\ u < cur.pos + cur.size
                            => o <= u /\ u < o + (cur.size + bsize[o])
      BY <1>4, <1>5
    <2>3. o <= o /\ o < o + (cur.size + bsize[o])
      BY <1>4
    <2>4. o \in Held' /\ Held \subseteq Held'
      BY <2>1, <2>2, <2>3, <1>4 DEF Held
    <2> QED BY <2>4, <1>2 DEF MappedBlocks
  <1> QED BY <1>1, <1>2, <1>6 DEF Kept, KnownFree

-----------------------------------------------------------------------------

\* Every step of a call leaves each free block where it can be found again
LEMMA NextKept == IInv /\ IInv' /\ Kept /\ [Next]_vars => Kept'
  <1> SUFFICES ASSUME IInv, IInv', Kept, [Next]_vars PROVE Kept'
    OBVIOUS
  <1>0. freed \subseteq Blocks /\ freed' \subseteq Blocks' /\ buffer \subseteq Blocks
    BY DEF IInv, TypeOK
  <1>1. ASSUME NEW n \in Requests, MallocFit(n) PROVE Kept'
    <2>1. PICK e \in mapped : TakeEntry(e, BlockSize(n))
      BY <1>1 DEF MallocFit
    <2>2. pc = "idle" /\ take = NoTake
      BY <1>1 DEF MallocFit, IInv, Control
    <2> QED BY <2>1, <2>2, FitKeeps DEF TakeEntry, MapRemove, heap
  <1>2. ASSUME NEW n \in Requests, MallocDirect(n) PROVE Kept'
    BY <1>0, <1>2, PlacesKeep DEF MallocDirect, Append, Appended, Blocks, free_space
  <1>3. CASE UNCHANGED <<heap, free_space, owners, cur, take, pending>>
    BY <1>0, <1>3, PlacesKeep DEF heap, free_space
  <1>4. ASSUME NEW p \in live, Free(p) PROVE Kept'
    BY <1>4, FreeKeeps
  <1>5. CASE MallocTake
    BY <1>5, TakeKeeps DEF MallocTake
  <1>6. CASE MergeNext
    BY <1>6, MergeNextKeeps
  <1>7. CASE Shrink
    BY <1>7, ShrinkKeeps
  <1>8. CASE Release
    BY <1>8, ReleaseKeeps
  <1>9. CASE GroupMalloc
    <2>1. UNCHANGED <<cur, take, pending>>
      BY <1>9 DEF GroupMalloc
    <2>2. PICK len \in GroupBlocks : (\E o \in buffer : GroupReuse(o, len)) \/ GroupDirect(len)
      BY <1>9 DEF GroupMalloc
    <2>3. ASSUME NEW o \in buffer, GroupReuse(o, len) PROVE Kept'
      BY <1>0, <2>1, <2>3, PlacesKeep DEF GroupReuse, Blocks
    <2>4. CASE GroupDirect(len)
      BY <1>0, <2>1, <2>4, PlacesKeep DEF GroupDirect, Append, Appended, Blocks, free_space
    <2> QED BY <2>2, <2>3, <2>4
  <1>10. CASE GroupFit
    <2>1. PICK len \in GroupBlocks, e \in mapped :
            mapped' = MapRemoved(e[1], e[2]) /\ take' = [pos |-> e[2], size |-> e[1], want |-> len]
      BY <1>10 DEF GroupFit
    <2>2. pc = "add" /\ take = NoTake /\ UNCHANGED <<bsize, freed, buffer, pending, dirty, cur>>
      BY <1>10 DEF GroupFit, heap, IInv, Control
    <2> QED BY <2>1, <2>2, FitKeeps
  <1>11. CASE GroupTake
    BY <1>11, TakeKeeps DEF GroupTake
  <1>12. ASSUME NEW g \in groups, GroupFree(g) PROVE Kept'
    BY <1>12, GroupFreeKeeps
  <1>13. CASE AddDone
    BY <1>13, AddDoneKeeps
  <1>14. CASE AddFails
    BY <1>14 DEF AddFails, Kept
  <1>15. CASE Copy
    <2>1. /\ pc = "copy" /\ pending' = buffer /\ buffer' = {}
          /\ UNCHANGED <<bsize, freed, mapped, dirty, cur, take>>
      BY <1>15 DEF Copy, heap
    <2>2. pending = {} /\ Held' = Held /\ MappedBlocks' = MappedBlocks
      BY <2>1 DEF IInv, Control, Held, Blocks, MappedBlocks
    <2> QED BY <2>1, <2>2 DEF Kept, KnownFree
  <1>16. CASE NextPending
    BY <1>16, NextPendingKeeps
  <1>17. CASE Combine
    BY <1>17, CombineKeeps
  <1>18. CASE UpdateLookBack
    BY <1>18, UpdateLookBackKeeps
  <1>19. CASE UNCHANGED vars
    BY <1>3, <1>19 DEF vars, locals
  <1> QED BY <1>1, <1>2, <1>3, <1>4, <1>5, <1>6, <1>7, <1>8, <1>9, <1>10, <1>11, <1>12, <1>13,
             <1>14, <1>15, <1>16, <1>17, <1>18, <1>19
          DEF Next, Call, Locked, MallocFails, FreeNull, Unlock

\* multi_heap_free, update_map and the map's own allocations lose no free
\* block without setting MULTI_HEAP_FLAG_DIRTY, and an unlocked heap has no
\* block in hand (multi_heap.c), for every size of the heap and its buffer
THEOREM SpaceKept == Spec => []FreeSpaceKept
  <1>1. Init => Kept
    BY DEF Init, Kept
  <1>2. IInv /\ Kept => FreeSpaceKept
    <2>1. ASSUME IInv, pc = "idle"
          PROVE  pending = {} /\ Held = {} /\ take.pos = 0
      BY <2>1, NothingHeld DEF IInv, Control, NoTake
    <2> QED BY <2>1 DEF FreeSpaceKept, Kept, KnownFree
  <1> QED BY <1>1, <1>2, NextKept, Inductive, PTL DEF Spec

-----------------------------------------------------------------------------
(* The counters of multi_heap_get_info: counting the blocks *)

\* The blocks of a heap are finitely many, for their heads lie below its end
LEMMA BlocksFinite ==
    ASSUME TypeOK, Tiling
    PROVE  IsFiniteSet(Blocks) /\ \A S : S \subseteq Blocks => IsFiniteSet(S) /\ Cardinality(S) \in Nat
  <1>1. Blocks \in SUBSET Nat /\ End \in Nat /\ \A o \in Blocks : o <= End
    BY TilingFacts DEF TypeOK
  <1>2. IsFiniteSet(Blocks)
    BY <1>1, FS_BoundedSetOfNaturals
  <1> QED BY <1>2, FS_Subset, FS_CardinalityType

LEMMA CountIn ==
    ASSUME NEW S, IsFiniteSet(S), NEW x, x \notin S
    PROVE  Cardinality(S \cup {x}) = Cardinality(S) + 1
  BY FS_AddElement

LEMMA CountOut ==
    ASSUME NEW S, IsFiniteSet(S), NEW x \in S
    PROVE  Cardinality(S \ {x}) = Cardinality(S) - 1
  BY FS_RemoveElement

Others == Blocks \ Held
OtherFree == freed \ Held

\* What there is to count
LEMMA Countable ==
    ASSUME IInv
    PROVE  /\ IsFiniteSet(Others) /\ Cardinality(Others) \in Nat
           /\ IsFiniteSet(OtherFree) /\ Cardinality(OtherFree) \in Nat
           /\ IsFiniteSet(live) /\ Cardinality(live) \in Nat
           /\ IsFiniteSet(groups) /\ Cardinality(groups) \in Nat
           /\ \A o \in Blocks : bsize[o] \in Nat /\ bsize[o] > 0 /\ o \in Nat /\ o # 0
           /\ stat \in StatType
  <1>1. /\ Others \subseteq Blocks /\ OtherFree \subseteq Blocks
        /\ live \subseteq Blocks /\ groups \subseteq Blocks
    BY DEF IInv, TypeOK, Others, OtherFree
  <1>2. \A o \in Blocks : bsize[o] \in Nat /\ bsize[o] > 0 /\ o \in Nat /\ o # 0
    BY TilingFacts DEF IInv, TypeOK
  <1> QED BY <1>1, <1>2, BlocksFinite DEF IInv, TypeOK, StatType

\* The three numbers that the counters have to show
Total == Cardinality(Others) + One(Held # {})
FreeOnes == Cardinality(OtherFree) + One(Held # {} /\ cur.own = 0)
InUse == Cardinality(live) + Cardinality(groups) + One(cur.own # 0)

LEMMA Tallied ==
    CountersExact <=> /\ stat.total_blocks = Total
                      /\ stat.free_blocks = FreeOnes
                      /\ stat.allocated_blocks = InUse
                      /\ stat.minimum_free_bytes <= stat.free_bytes
  BY DEF CountersExact, Total, FreeOnes, InUse, Others, OtherFree

LEMMA TalliedNext ==
    CountersExact' <=> /\ stat'.total_blocks = Total'
                       /\ stat'.free_blocks = FreeOnes'
                       /\ stat'.allocated_blocks = InUse'
                       /\ stat'.minimum_free_bytes <= stat'.free_bytes
  BY DEF CountersExact, Total, FreeOnes, InUse, Others, OtherFree

\* What each way to write the counters is right for
LEMMA ChargeExact ==
    ASSUME IInv, CountersExact, NEW len \in Nat, NEW existed \in BOOLEAN,
           stat' = Charged(len, existed), InUse' = InUse + 1,
           Total' = (IF existed THEN Total ELSE Total + 1),
           FreeOnes' = (IF existed THEN FreeOnes - 1 ELSE FreeOnes)
    PROVE  CountersExact'
  <1>1. stat \in StatType
    BY Countable
  <1> QED BY <1>1, Tallied, TalliedNext DEF StatType, Charged, Counters

LEMMA CreditExact ==
    ASSUME IInv, CountersExact, NEW len \in Nat, NEW stays \in BOOLEAN,
           stat' = Credited(len, stays), InUse' = InUse - 1,
           Total' = (IF stays THEN Total ELSE Total - 1),
           FreeOnes' = (IF stays THEN FreeOnes + 1 ELSE FreeOnes)
    PROVE  CountersExact'
  <1>1. stat \in StatType
    BY Countable
  <1> QED BY <1>1, Tallied, TalliedNext DEF StatType, Credited, Counters

LEMMA MergeExact ==
    ASSUME IInv, CountersExact, stat' = Merged, InUse' = InUse,
           Total' = Total - 1, FreeOnes' = FreeOnes - 1
    PROVE  CountersExact'
  <1>1. stat \in StatType
    BY Countable
  <1> QED BY <1>1, Tallied, TalliedNext DEF StatType, Merged, Counters

LEMMA StayExact ==
    ASSUME CountersExact, stat' = stat, InUse' = InUse, Total' = Total, FreeOnes' = FreeOnes
    PROVE  CountersExact'
  BY Tallied, TalliedNext

\* The owner of a block that is handed out: a caller, or the map for a group
HandedOut(o) ==
    \/ live' = live \cup {o} /\ groups' = groups
    \/ groups' = groups \cup {o} /\ live' = live

LEMMA HandedOutCounts ==
    ASSUME IInv, NEW o, o \notin live \cup groups, HandedOut(o)
    PROVE  Cardinality(live') + Cardinality(groups') = Cardinality(live) + Cardinality(groups) + 1
  <1>1. /\ Cardinality(live \cup {o}) = Cardinality(live) + 1
        /\ Cardinality(groups \cup {o}) = Cardinality(groups) + 1
    BY Countable, CountIn
  <1>2. CASE live' = live \cup {o} /\ groups' = groups
    BY <1>1, <1>2, Countable
  <1>3. CASE groups' = groups \cup {o} /\ live' = live
    BY <1>1, <1>3, Countable
  <1> QED BY <1>2, <1>3 DEF HandedOut

-----------------------------------------------------------------------------
(* One lemma for the actions of each kind. *)

\* Where a new block may begin: not in the range of the one in hand
LEMMA OutsideHeld ==
    ASSUME IInv, NEW y \in Nat,
           y = End \/ \E x \in Blocks \ Held : x < y /\ y < x + bsize[x]
    PROVE  ~(cur.pos <= y /\ y < cur.pos + cur.size)
  <1> SUFFICES ASSUME cur.pos <= y, y < cur.pos + cur.size
               PROVE  FALSE
    OBVIOUS
  <1>1. cur.pos \in Nat /\ cur.size \in Nat /\ cur.size > 0
    BY DEF IInv, TypeOK
  <1>2. cur.pos \in Blocks /\ cur.pos + cur.size \in Blocks \cup {End}
    BY <1>1 DEF IInv, Ownership, InHand
  <1>3. y # End
    BY <1>1, <1>2, TilingFacts DEF IInv
  <1>4. PICK x \in Blocks \ Held : x < y /\ y < x + bsize[x]
    BY <1>3
  <1>5. x \in Nat /\ bsize[x] \in Nat /\ x + bsize[x] <= End
    BY TilingFacts DEF IInv
  <1>6. x < cur.pos \/ cur.pos + cur.size <= x
    BY <1>1, <1>5 DEF Held
  <1>7. x < cur.pos => x + bsize[x] <= cur.pos
    BY <1>2, <1>5, TilingFacts DEF IInv
  <1> QED BY <1>1, <1>4, <1>5, <1>6, <1>7

\* malloc_direct makes a block
LEMMA AppendCounts ==
    ASSUME IInv, CountersExact, NEW len \in Nat, Append(len), HandedOut(End), UNCHANGED cur
    PROVE  CountersExact'
  <1>1. Blocks' = Blocks \cup {End} /\ End \notin Blocks /\ End \in Nat
    BY TilingFacts DEF Append, Appended, Blocks, IInv
  <1>2. stat' = Charged(len, FALSE) /\ freed' = freed
    BY DEF Append
  <1>3. End \notin live \cup groups /\ End \notin freed
    BY <1>1 DEF IInv, TypeOK
  <1>4. Held' = Held
    <2>1. ~(cur.pos <= End /\ End < cur.pos + cur.size)
      BY <1>1, OutsideHeld
    <2> QED BY <1>1, <2>1 DEF Held
  <1>5. Others' = Others \cup {End} /\ End \notin Others /\ OtherFree' = OtherFree
    BY <1>1, <1>2, <1>4 DEF Others, OtherFree, Held
  <1>6. Cardinality(Others') = Cardinality(Others) + 1
    BY <1>5, Countable, CountIn
  <1>7. Cardinality(live') + Cardinality(groups') = Cardinality(live) + Cardinality(groups) + 1
    BY <1>3, HandedOutCounts
  <1>8. Total' = Total + 1 /\ FreeOnes' = FreeOnes /\ InUse' = InUse + 1
    BY <1>4, <1>5, <1>6, <1>7, Countable DEF Total, FreeOnes, InUse, One
  <1> QED BY <1>2, <1>8, ChargeExact

\* A free block is handed out as it is
LEMMA ReuseCounts ==
    ASSUME IInv, CountersExact, NEW x \in freed \ Held, NEW len \in Nat,
           freed' = freed \ {x}, stat' = Charged(len, TRUE), HandedOut(x), UNCHANGED <<bsize, cur>>
    PROVE  CountersExact'
  <1>1. Held' = Held /\ Others' = Others
    BY DEF Held, Blocks, Others
  <1>2. OtherFree' = OtherFree \ {x} /\ x \in OtherFree
    BY <1>1 DEF OtherFree
  <1>3. Cardinality(OtherFree') = Cardinality(OtherFree) - 1
    BY <1>2, Countable, CountOut
  <1>4. Cardinality(live') + Cardinality(groups') = Cardinality(live) + Cardinality(groups) + 1
    BY HandedOutCounts DEF IInv, Ownership, OneOwner
  <1>5. Total' = Total /\ FreeOnes' = FreeOnes - 1 /\ InUse' = InUse + 1
    BY <1>1, <1>3, <1>4, Countable DEF Total, FreeOnes, InUse, One
  <1> QED BY <1>5, ChargeExact

\* malloc_fit and the block it took from the map
LEMMA TakeCounts ==
    ASSUME IInv, CountersExact, take.pos # 0, TakeExact \/ TakeSplit, HandedOut(take.pos),
           UNCHANGED <<size, cur>>
    PROVE  CountersExact'
  <1> DEFINE x == take.pos
             y == take.pos + take.want
  <1>1. /\ x \in freed \ Held /\ x \in Blocks /\ take.size = bsize[x] /\ take.want \in Nat
        /\ take.want >= MinBlock
        /\ take.want = take.size \/ take.want + MinBlock <= take.size
    BY DEF IInv, TypeOK, Ownership, InHand
  <1>2. CASE TakeExact
    BY <1>1, <1>2, ReuseCounts DEF TakeExact
  <1>3. CASE TakeSplit
    <2>1. /\ take.want + MinBlock <= bsize[x] /\ bsize' = Split(x, take.want)
          /\ stat' = Charged(take.want, FALSE) /\ freed' = (freed \ {x}) \cup {y}
      BY <1>1, <1>3 DEF TakeSplit
    <2>2. /\ Blocks' = Blocks \cup {y} /\ y \notin Blocks
          /\ y \in Nat /\ y > x /\ y < x + bsize[x]
      BY <1>1, <2>1, SplitTiles DEF IInv
    <2> HIDE DEF x, y
    <2>3. Held' = Held
      <3>1. ~(cur.pos <= y /\ y < cur.pos + cur.size)
        BY <1>1, <2>2, OutsideHeld
      <3> QED BY <2>2, <3>1 DEF Held
    <2>4. y \notin freed /\ y \notin Held
      BY <2>2 DEF IInv, TypeOK, Held
    <2>5. Others' = Others \cup {y} /\ y \notin Others
      BY <2>2, <2>3, <2>4 DEF Others
    <2>6. OtherFree' = (OtherFree \ {x}) \cup {y} /\ x \in OtherFree /\ y \notin OtherFree \ {x}
      BY <1>1, <2>1, <2>3, <2>4 DEF OtherFree
    <2>7. Cardinality(Others') = Cardinality(Others) + 1
      BY <2>5, Countable, CountIn
    <2>8. Cardinality(OtherFree') = Cardinality(OtherFree)
      <3>1. IsFiniteSet(OtherFree \ {x}) /\ Cardinality(OtherFree \ {x}) = Cardinality(OtherFree) - 1
        BY <2>6, Countable, FS_RemoveElement
      <3>2. Cardinality(OtherFree') = Cardinality(OtherFree \ {x}) + 1
        BY <2>6, <3>1, CountIn
      <3> QED BY <3>1, <3>2, Countable
    <2>9. Cardinality(live') + Cardinality(groups') = Cardinality(live) + Cardinality(groups) + 1
      BY <1>1, HandedOutCounts DEF IInv, Ownership, OneOwner, x
    <2>10. Total' = Total + 1 /\ FreeOnes' = FreeOnes /\ InUse' = InUse + 1
      BY <2>3, <2>7, <2>8, <2>9, Countable DEF Total, FreeOnes, InUse, One
    <2> QED BY <1>1, <2>1, <2>10, ChargeExact
  <1> QED BY <1>2, <1>3

\* A group's block goes, from the end of the heap or to the free ones
LEMMA GroupFreeCounts ==
    ASSUME IInv, CountersExact, NEW g \in groups, GroupFree(g)
    PROVE  CountersExact'
  <1>1. groups' = groups \ {g} /\ UNCHANGED <<live, cur>>
    BY DEF GroupFree
  <1>2. g \in Blocks /\ g \notin freed /\ g \notin Held /\ g \notin live
    BY DEF IInv, TypeOK, Ownership, OneOwner, InHand
  <1>3. Cardinality(groups') = Cardinality(groups) - 1
    BY <1>1, Countable, CountOut
  <1>4. CASE g + bsize[g] = End /\ bsize' = Truncated(g)
             /\ stat' = Credited(bsize[g], FALSE) /\ freed' = freed
    <2>1. Blocks' = {o \in Blocks : o < g}
      BY <1>4 DEF Truncated, Blocks
    <2>2. Blocks' = Blocks \ {g}
      BY <1>2, <1>4, <2>1, TilingFacts DEF IInv
    <2>3. Held' = Held
      BY <1>1, <1>2, <2>2 DEF Held
    <2>4. Others' = Others \ {g} /\ g \in Others /\ OtherFree' = OtherFree
      BY <1>2, <1>4, <2>2, <2>3 DEF Others, OtherFree
    <2>5. Cardinality(Others') = Cardinality(Others) - 1
      BY <2>4, Countable, CountOut
    <2>6. Total' = Total - 1 /\ FreeOnes' = FreeOnes /\ InUse' = InUse - 1
      BY <1>1, <1>3, <2>3, <2>4, <2>5, Countable DEF Total, FreeOnes, InUse, One
    <2> QED BY <1>2, <1>4, <2>6, Countable, CreditExact
  <1>5. CASE freed' = freed \cup {g} /\ stat' = Credited(bsize[g], TRUE) /\ bsize' = bsize
    <2>1. Held' = Held /\ Others' = Others
      BY <1>1, <1>5 DEF Held, Blocks, Others
    <2>2. OtherFree' = OtherFree \cup {g} /\ g \notin OtherFree
      BY <1>2, <1>5, <2>1 DEF OtherFree
    <2>3. Cardinality(OtherFree') = Cardinality(OtherFree) + 1
      BY <2>2, Countable, CountIn
    <2>4. Total' = Total /\ FreeOnes' = FreeOnes + 1 /\ InUse' = InUse - 1
      BY <1>1, <1>3, <2>1, <2>3, Countable DEF Total, FreeOnes, InUse, One
    <2> QED BY <1>2, <1>5, <2>4, Countable, CreditExact
  <1> QED BY <1>4, <1>5 DEF GroupFree

\* A block comes to hand: free takes it back, with a free block before it
LEMMA FreeCounts ==
    ASSUME IInv, IInv', CountersExact, NEW p \in live, Free(p)
    PROVE  CountersExact'
  <1>1. /\ pc = "idle" /\ LookBack(p, bsize[p], p) /\ live' = live \ {p} /\ call' = "free"
        /\ UNCHANGED <<size, bsize, freed, groups>>
    BY DEF Free
  <1>2. Blocks' = Blocks /\ Tiling' /\ bsize' \in [Blocks' -> Nat]
    BY <1>1 DEF Blocks, IInv, TypeOK
  <1>3. p \in Blocks /\ bsize[p] \in Nat /\ bsize[p] > 0 /\ p \in Nat /\ p # 0 /\ p \notin freed \cup groups
    BY TilingFacts DEF IInv, TypeOK, Ownership, OneOwner
  <1>4. /\ cur'.own = p /\ Held' = {cur'.pos, p}
        /\ cur'.pos = p \/ cur'.pos \in freed
    BY <1>1, <1>2, <1>3, LookBackHolds DEF IInv
  <1>5. cur = NoBlock /\ Held = {} /\ cur.own = 0
    BY <1>1, NothingHeld DEF IInv, Control, NoBlock
  <1>6. Cardinality(live') = Cardinality(live) - 1
    BY <1>1, Countable, CountOut
  <1>7. p \in Others /\ IsFiniteSet(Others \ {p}) /\ Cardinality(Others \ {p}) = Cardinality(Others) - 1
    BY <1>3, <1>5, Countable, FS_RemoveElement DEF Others
  <1>8. CASE FreeBefore(p) = {}
    <2>1. cur'.pos = p /\ stat' = stat
      BY <1>1, <1>8 DEF LookBack
    <2>2. Others' = Others \ {p} /\ OtherFree' = OtherFree
      BY <1>1, <1>2, <1>3, <1>4, <1>5, <2>1 DEF Others, OtherFree
    <2>3. Total' = Total /\ FreeOnes' = FreeOnes /\ InUse' = InUse
      BY <1>1, <1>3, <1>4, <1>5, <1>6, <1>7, <2>2, Countable DEF Total, FreeOnes, InUse, One
    <2> QED BY <2>1, <2>3, StayExact
  <1>9. CASE FreeBefore(p) # {}
    <2>1. PICK o \in FreeBefore(p) : cur'.pos = o /\ stat' = Merged
      BY <1>1, <1>9 DEF LookBack
    <2>2. o \in freed /\ o \in Blocks
      BY <2>1 DEF FreeBefore, IInv, TypeOK
    <2>3. Others' = (Others \ {p}) \ {o} /\ o \in Others \ {p}
      BY <1>2, <1>3, <1>4, <1>5, <2>1, <2>2 DEF Others
    <2>4. OtherFree' = OtherFree \ {o} /\ o \in OtherFree
      BY <1>1, <1>3, <1>4, <1>5, <2>1, <2>2 DEF OtherFree
    <2>5. Cardinality(Others') = Cardinality(Others) - 2
      <3>1. Cardinality(Others') = Cardinality(Others \ {p}) - 1
        BY <2>3, <1>7, CountOut
      <3> QED BY <3>1, <1>7, Countable
    <2>6. Cardinality(OtherFree') = Cardinality(OtherFree) - 1
      BY <2>4, Countable, CountOut
    <2>7. Total' = Total - 1 /\ FreeOnes' = FreeOnes - 1 /\ InUse' = InUse
      BY <1>1, <1>3, <1>4, <1>5, <1>6, <2>5, <2>6, Countable DEF Total, FreeOnes, InUse, One
    <2> QED BY <2>1, <2>7, MergeExact
  <1> QED BY <1>8, <1>9

\* update_map writes the tags of a combined block and looks back the same way
LEMMA UpdateLookBackCounts ==
    ASSUME IInv, IInv', CountersExact, UpdateLookBack
    PROVE  CountersExact'
  <1> DEFINE pos == cur.pos
             len == cur.size
  <1>1. /\ pc = "combine" /\ bsize' = Joined(pos, len) /\ freed' = freed \cap Blocks'
        /\ LookBack(pos, len, 0)
        /\ UNCHANGED <<size, live, groups>>
    BY DEF UpdateLookBack, Blocks, owners
  <1>2. /\ pos \in Nat /\ len \in Nat /\ len > 0 /\ pos \in Blocks /\ pos + len \in Blocks \cup {End}
        /\ cur.own = 0
    BY <1>1 DEF IInv, TypeOK, Control, Ownership, InHand
  <1>3. /\ Tiling' /\ Blocks' = {o \in Blocks : o <= pos \/ pos + len <= o}
        /\ bsize'[pos] = len /\ \A o \in Blocks' \ {pos} : bsize'[o] = bsize[o]
    BY <1>1, <1>2, JoinTiles DEF IInv
  <1>4. freed \subseteq Blocks /\ \A o \in Blocks : o \in Nat
    BY DEF IInv, TypeOK
  <1>5. pos \in Held /\ Held = {o \in Blocks : pos <= o /\ o < pos + len}
    BY <1>2 DEF Held
  <1> HIDE DEF pos, len
  <1>6. Blocks' = (Blocks \ Held) \cup {pos}
    <2>1. \A o \in Blocks : (o <= pos \/ pos + len <= o) <=> ~(pos <= o /\ o < pos + len) \/ o = pos
      BY <1>2, <1>4
    <2> QED BY <1>2, <1>3, <1>5, <2>1
  <1>7. bsize' \in [Blocks' -> Nat] /\ pos \in Blocks' /\ Blocks' \subseteq Blocks
    BY <1>2, <1>6 DEF IInv, TypeOK
  <1>8. \A o \in Blocks : o < pos => o \in Blocks' /\ bsize'[o] = bsize[o]
    BY <1>2, <1>3, <1>4
  <1>9. cur'.own = 0 /\ Held' = {cur'.pos, pos} /\ cur'.pos \in Blocks'
    BY <1>1, <1>2, <1>3, <1>7, <1>8, LookBackHolds
  <1>10. Held # {} /\ Held' # {}
    BY <1>5, <1>9
  <1>11. CASE FreeBefore(pos) = {}
    <2>1. cur'.pos = pos /\ stat' = stat
      BY <1>1, <1>11 DEF LookBack
    <2>2. Others' = Others /\ OtherFree' = OtherFree
      BY <1>1, <1>4, <1>5, <1>6, <1>9, <2>1 DEF Others, OtherFree
    <2>3. Total' = Total /\ FreeOnes' = FreeOnes /\ InUse' = InUse
      BY <1>1, <1>2, <1>9, <1>10, <2>2 DEF Total, FreeOnes, InUse, One
    <2> QED BY <2>1, <2>3, StayExact
  <1>12. CASE FreeBefore(pos) # {}
    <2>1. PICK o \in FreeBefore(pos) : cur'.pos = o /\ stat' = Merged
      BY <1>1, <1>12 DEF LookBack
    <2>2. o \in freed /\ o \in Blocks /\ o + bsize[o] = pos /\ bsize[o] \in Nat /\ bsize[o] > 0
      BY <2>1, Countable DEF FreeBefore, IInv, TypeOK
    <2>3. o \notin Held
      BY <1>2, <1>4, <1>5, <2>2
    <2>4. Others' = Others \ {o} /\ o \in Others
      BY <1>5, <1>6, <1>9, <2>1, <2>2, <2>3 DEF Others
    <2>5. OtherFree' = OtherFree \ {o} /\ o \in OtherFree
      <3>1. OtherFree' = (freed \cap ((Blocks \ Held) \cup {pos})) \ {o, pos}
        BY <1>1, <1>6, <1>9, <2>1 DEF OtherFree
      <3> QED BY <1>4, <1>5, <2>2, <2>3, <3>1 DEF OtherFree
    <2>6. Cardinality(Others') = Cardinality(Others) - 1
      BY <2>4, Countable, CountOut
    <2>7. Cardinality(OtherFree') = Cardinality(OtherFree) - 1
      BY <2>5, Countable, CountOut
    <2>8. Total' = Total - 1 /\ FreeOnes' = FreeOnes - 1 /\ InUse' = InUse
      BY <1>1, <1>2, <1>9, <1>10, <2>6, <2>7, Countable DEF Total, FreeOnes, InUse, One
    <2> QED BY <2>1, <2>8, MergeExact
  <1> QED BY <1>11, <1>12

\* The block in hand grows by a free one that was not in hand before
LEMMA GrowCounts ==
    ASSUME IInv, CountersExact, NEW o \in freed \ Held, Held # {}, Held' = Held \cup {o},
           cur'.own = cur.own, stat' = Merged, UNCHANGED <<bsize, freed, live, groups>>
    PROVE  CountersExact'
  <1>1. Others' = Others \ {o} /\ o \in Others /\ OtherFree' = OtherFree \ {o} /\ o \in OtherFree
    BY DEF Others, OtherFree, Blocks, IInv, TypeOK
  <1>2. Cardinality(Others') = Cardinality(Others) - 1
    BY <1>1, Countable, CountOut
  <1>3. Cardinality(OtherFree') = Cardinality(OtherFree) - 1
    BY <1>1, Countable, CountOut
  <1>4. Held' # {}
    OBVIOUS
  <1>5. Total' = Total - 1 /\ FreeOnes' = FreeOnes - 1 /\ InUse' = InUse
    BY <1>2, <1>3, <1>4, Countable DEF Total, FreeOnes, InUse, One
  <1> QED BY <1>5, MergeExact

LEMMA MergeNextCounts ==
    ASSUME IInv, CountersExact, MergeNext
    PROVE  CountersExact'
  <1>1. pc = "next" /\ UNCHANGED <<bsize, freed, live, groups>> /\ Blocks' = Blocks
    BY DEF MergeNext, owners, Blocks
  <1>2. /\ cur.pos \in Nat /\ cur.size \in Nat /\ cur.size > 0 /\ cur.pos \in Blocks
    BY <1>1 DEF IInv, TypeOK, Control, Ownership, InHand
  <1>3. CASE cur.next = 0
    <2>1. UNCHANGED <<cur, stat>>
      BY <1>3 DEF MergeNext
    <2>2. Held' = Held
      BY <1>1, <2>1 DEF Held
    <2> QED BY <1>1, <2>1, <2>2 DEF CountersExact
  <1>4. CASE cur.next # 0
    <2> DEFINE o == cur.next
    <2>1. /\ cur' = [cur EXCEPT !.size = @ + bsize[o]] /\ stat' = Merged
      BY <1>4 DEF MergeNext
    <2>2. o \in freed /\ o = cur.pos + cur.size /\ o \in Blocks
      BY <1>1, <1>4 DEF IInv, TypeOK, Control
    <2> HIDE DEF o
    <2>3. /\ o \in Nat /\ bsize[o] \in Nat /\ bsize[o] > 0
          /\ \A u \in Blocks : u \in Nat /\ (o < u => o + bsize[o] <= u)
      BY <2>2, TilingFacts DEF IInv
    <2>4. cur'.pos = cur.pos /\ cur'.size = cur.size + bsize[o] /\ cur'.own = cur.own
      BY <2>1 DEF IInv, TypeOK
    <2>5. o \notin Held
      BY <1>2, <2>2, <2>3 DEF Held
    <2>6. Held' = Held \cup {o}
      <3>1. Held' = {u \in Blocks : cur.pos <= u /\ u < cur.pos + (cur.size + bsize[o])}
        BY <1>1, <2>4 DEF Held
      <3>2. \A u \in Blocks : cur.pos <= u /\ u < cur.pos + (cur.size + bsize[o])
                              <=> (cur.pos <= u /\ u < cur.pos + cur.size) \/ u = o
        BY <1>2, <2>2, <2>3
      <3> QED BY <3>1, <3>2, <2>2 DEF Held
    <2>7. cur.pos \in Held
      BY <1>2 DEF Held
    <2> QED BY <1>1, <2>1, <2>2, <2>4, <2>5, <2>6, <2>7, GrowCounts
  <1> QED BY <1>3, <1>4

LEMMA CombineCounts ==
    ASSUME IInv, CountersExact, Combine
    PROVE  CountersExact'
  <1>1. PICK o \in pending : /\ Adjacent(o)
                             /\ cur' = [cur EXCEPT !.pos = o, !.size = @ + bsize[o]]
    BY DEF Combine
  <1>2. pc = "combine" /\ stat' = Merged /\ UNCHANGED <<bsize, freed, live, groups>> /\ Blocks' = Blocks
    BY DEF Combine, owners, Blocks
  <1>3. cur'.pos = o /\ cur'.size = cur.size + bsize[o] /\ cur'.own = cur.own
    BY <1>1 DEF IInv, TypeOK
  <1>4. /\ o \in Blocks /\ o \in Nat /\ bsize[o] \in Nat /\ bsize[o] > 0
        /\ cur.pos \in Nat /\ cur.size \in Nat /\ cur.size > 0 /\ o < cur.pos
        /\ o + bsize[o] >= cur.pos /\ cur.pos \in Blocks
    BY <1>1, <1>2, TilingFacts DEF IInv, TypeOK, Control, Adjacent, Ownership, InHand
  <1>5. /\ o + bsize[o] = cur.pos
        /\ \A u \in Blocks : u \in Nat /\ (o < u => o + bsize[o] <= u)
    <2>1. \A u \in Blocks : u \in Nat /\ (o < u => o + bsize[o] <= u)
      BY <1>4, TilingFacts DEF IInv
    <2>2. o + bsize[o] <= cur.pos
      BY <1>4, <2>1
    <2> QED BY <1>4, <2>1, <2>2
  <1>6. Held' = Held \cup {o}
    <2>1. Held' = {u \in Blocks : o <= u /\ u < o + (cur.size + bsize[o])}
      BY <1>2, <1>3 DEF Held
    <2>2. \A u \in Blocks : o <= u /\ u < o + (cur.size + bsize[o])
                            <=> (cur.pos <= u /\ u < cur.pos + cur.size) \/ u = o
      BY <1>4, <1>5
    <2> QED BY <2>1, <2>2, <1>4 DEF Held
  <1>7. cur.pos \in Held /\ o \in freed \ Held
    BY <1>4 DEF Held, IInv, Ownership, OneContainer
  <1> QED BY <1>2, <1>3, <1>6, <1>7, GrowCounts

\* The heap gets shorter by the block in hand: one block less, and not a free
\* one if it was being freed
LEMMA ShrinkCounts ==
    ASSUME IInv, CountersExact, Shrink
    PROVE  CountersExact'
  <1>1. /\ pc = "last" /\ cur.pos + cur.size = End /\ bsize' = Truncated(cur.pos)
        /\ freed' = {o \in freed : o < cur.pos}
        /\ stat' = IF call = "free" THEN Credited(FreedBytes, FALSE) ELSE Merged
        /\ cur' = NoBlock /\ UNCHANGED <<groups, live>>
    BY DEF Shrink, owners
  <1>2. /\ cur.pos \in Nat /\ cur.size \in Nat /\ cur.size > 0 /\ cur.pos \in Blocks
        /\ (cur.own # 0 <=> call = "free") /\ (cur.own # 0 => cur.own \in Blocks)
    BY <1>1 DEF IInv, TypeOK, Control, Ownership, InHand, Held
  <1>3. Blocks' = {o \in Blocks : o < cur.pos}
    BY <1>1 DEF Truncated, Blocks
  <1>4. Held = {o \in Blocks : ~(o < cur.pos)} /\ cur.pos \in Held
    BY <1>1, <1>2, TilingFacts DEF Held, IInv
  <1>5. Held' = {}
    <2>1. \A o \in Blocks' : o \in Nat
      BY <1>3 DEF IInv, TypeOK
    <2> QED BY <1>1, <2>1 DEF Held, NoBlock
  <1>6. Others' = Others /\ OtherFree' = OtherFree
    BY <1>1, <1>3, <1>4, <1>5 DEF Others, OtherFree, IInv, TypeOK
  <1>7. cur'.own = 0
    BY <1>1 DEF NoBlock
  <1>8. call = "free" => FreedBytes \in Nat
    BY <1>2, Countable DEF FreedBytes
  <1>9. Held # {} /\ ~(Held' # {})
    BY <1>4, <1>5
  <1>10. CASE call = "free"
    <2>1. Total' = Total - 1 /\ FreeOnes' = FreeOnes /\ InUse' = InUse - 1
      BY <1>1, <1>2, <1>6, <1>7, <1>9, <1>10, Countable DEF Total, FreeOnes, InUse, One
    <2> QED BY <1>1, <1>8, <1>10, <2>1, CreditExact
  <1>11. CASE call # "free"
    <2>1. Total' = Total - 1 /\ FreeOnes' = FreeOnes - 1 /\ InUse' = InUse
      BY <1>1, <1>2, <1>6, <1>7, <1>9, <1>11, Countable DEF Total, FreeOnes, InUse, One
    <2> QED BY <1>1, <1>11, <2>1, MergeExact
  <1> QED BY <1>10, <1>11

\* The block in hand becomes one free block, still in hand
LEMMA ReleaseCounts ==
    ASSUME IInv, CountersExact, Release
    PROVE  CountersExact'
  <1>1. /\ pc = "last" /\ bsize' = Joined(cur.pos, cur.size)
        /\ freed' = (freed \cap Blocks') \cup {cur.pos}
        /\ stat' = IF call = "free" THEN Credited(FreedBytes, TRUE) ELSE stat
        /\ cur' = [cur EXCEPT !.own = 0, !.next = 0] /\ UNCHANGED <<groups, live>>
    BY DEF Release, owners, Blocks
  <1>2. /\ cur.pos \in Nat /\ cur.size \in Nat /\ cur.size > 0 /\ cur.pos \in Blocks
        /\ (cur.own # 0 <=> call = "free") /\ (cur.own # 0 => cur.own \in Blocks)
        /\ \A o \in Blocks : o \in Nat
    BY <1>1 DEF IInv, TypeOK, Control, Ownership, InHand, Held
  <1>3. Blocks' = {o \in Blocks : o <= cur.pos \/ cur.pos + cur.size <= o}
    BY <1>1 DEF Joined, Blocks
  <1>4. cur.pos \in Held /\ Blocks' = (Blocks \ Held) \cup {cur.pos}
    BY <1>2, <1>3 DEF Held
  <1>5. cur'.pos = cur.pos /\ cur'.size = cur.size /\ cur'.own = 0
    BY <1>1 DEF IInv, TypeOK
  <1>6. Held' = {cur.pos}
    <2>1. Held' = {o \in Blocks' : cur.pos <= o /\ o < cur.pos + cur.size}
      BY <1>5 DEF Held
    <2> QED BY <2>1, <1>2, <1>3
  <1>7. Others' = Others /\ OtherFree' = OtherFree
    BY <1>1, <1>4, <1>6 DEF Others, OtherFree, IInv, TypeOK
  <1>8. call = "free" => FreedBytes \in Nat
    BY <1>2, Countable DEF FreedBytes
  <1>9. Held # {} /\ Held' # {}
    BY <1>4, <1>6
  <1>10. CASE call = "free"
    <2>1. Total' = Total /\ FreeOnes' = FreeOnes + 1 /\ InUse' = InUse - 1
      BY <1>1, <1>2, <1>5, <1>7, <1>9, <1>10, Countable DEF Total, FreeOnes, InUse, One
    <2> QED BY <1>1, <1>8, <1>10, <2>1, CreditExact
  <1>11. CASE call # "free"
    <2>1. Total' = Total /\ FreeOnes' = FreeOnes /\ InUse' = InUse
      BY <1>1, <1>2, <1>5, <1>7, <1>9, <1>11, Countable DEF Total, FreeOnes, InUse, One
    <2> QED BY <1>1, <1>11, <2>1, StayExact
  <1> QED BY <1>10, <1>11

\* A free block is let go, or taken to hand: no counter changes
LEMMA HandCounts ==
    ASSUME IInv, CountersExact, NEW o \in freed, cur.own = 0, cur'.own = 0,
           \/ Held = {o} /\ Held' = {}
           \/ Held = {} /\ Held' = {o},
           UNCHANGED <<bsize, freed, live, groups, stat>>
    PROVE  CountersExact'
  <1>1. o \in Blocks /\ Blocks' = Blocks
    BY DEF Blocks, IInv, TypeOK
  <1>2. CASE Held = {o} /\ Held' = {}
    <2>1. /\ Others' = Others \cup {o} /\ o \notin Others
          /\ OtherFree' = OtherFree \cup {o} /\ o \notin OtherFree
      BY <1>1, <1>2 DEF Others, OtherFree
    <2>2. /\ Cardinality(Others') = Cardinality(Others) + 1
          /\ Cardinality(OtherFree') = Cardinality(OtherFree) + 1
      BY <2>1, Countable, CountIn
    <2>3. Held # {} /\ ~(Held' # {})
      BY <1>2
    <2>4. Total' = Total /\ FreeOnes' = FreeOnes /\ InUse' = InUse
      BY <2>2, <2>3, Countable DEF Total, FreeOnes, InUse, One
    <2> QED BY <2>4, StayExact
  <1>3. CASE Held = {} /\ Held' = {o}
    <2>1. /\ Others' = Others \ {o} /\ o \in Others
          /\ OtherFree' = OtherFree \ {o} /\ o \in OtherFree
      BY <1>1, <1>3 DEF Others, OtherFree
    <2>2. Cardinality(Others') = Cardinality(Others) - 1
      BY <2>1, Countable, CountOut
    <2>3. Cardinality(OtherFree') = Cardinality(OtherFree) - 1
      BY <2>1, Countable, CountOut
    <2>4. ~(Held # {}) /\ Held' # {}
      BY <1>3
    <2>5. Total' = Total /\ FreeOnes' = FreeOnes /\ InUse' = InUse
      BY <2>2, <2>3, <2>4, Countable DEF Total, FreeOnes, InUse, One
    <2> QED BY <2>5, StayExact
  <1> QED BY <1>2, <1>3

LEMMA AddEndCounts ==
    ASSUME IInv, CountersExact, AddDone \/ AddFails
    PROVE  CountersExact'
  <1>1. pc = "add" /\ cur' = NoBlock /\ UNCHANGED <<bsize, freed, stat, live, groups>>
    BY DEF AddDone, AddFails, heap, owners
  <1>2. Held = {cur.pos} /\ cur.pos \in freed /\ cur.own = 0
    BY <1>1, AddingHolds
  <1>3. Held' = {} /\ cur'.own = 0
    <2>1. \A o \in Blocks' : o \in Nat
      BY <1>1 DEF Blocks, IInv, TypeOK
    <2> QED BY <1>1, <2>1 DEF Held, NoBlock
  <1> QED BY <1>1, <1>2, <1>3, HandCounts

LEMMA NextPendingCounts ==
    ASSUME IInv, CountersExact, NextPending
    PROVE  CountersExact'
  <1>1. PICK o \in pending : cur' = [NoBlock EXCEPT !.pos = o, !.size = bsize[o]]
    BY DEF NextPending
  <1>2. pc = "update" /\ UNCHANGED <<bsize, freed, stat, live, groups>>
    BY DEF NextPending, heap, owners
  <1>3. cur'.pos = o /\ cur'.size = bsize[o] /\ cur'.own = 0
    BY <1>1 DEF NoBlock
  <1>4. /\ o \in freed /\ o \in Blocks /\ o \in Nat /\ bsize[o] \in Nat /\ bsize[o] > 0
        /\ \A u \in Blocks : u \in Nat /\ (o < u => o + bsize[o] <= u)
    BY TilingFacts DEF IInv, Ownership, OneContainer, TypeOK
  <1>5. Held = {} /\ cur.own = 0
    BY <1>2, NothingHeld DEF IInv, Control, NoBlock
  <1>6. Held' = {o}
    <2>1. Held' = {u \in Blocks : o <= u /\ u < o + bsize[o]}
      BY <1>2, <1>3 DEF Held, Blocks
    <2>2. \A u \in Blocks : o <= u /\ u < o + bsize[o] <=> u = o
      BY <1>4
    <2> QED BY <2>1, <2>2, <1>4
  <1> QED BY <1>2, <1>3, <1>4, <1>5, <1>6, HandCounts

\* Steps that neither make, merge, hand out nor take back a block
LEMMA SameCounts ==
    ASSUME CountersExact, UNCHANGED <<bsize, freed, live, groups, stat, cur>>
    PROVE  CountersExact'
  BY DEF CountersExact, Held, Blocks

LEMMA NextCounts == IInv /\ IInv' /\ CountersExact /\ [Next]_vars => CountersExact'
  <1> SUFFICES ASSUME IInv, IInv', CountersExact, [Next]_vars PROVE CountersExact'
    OBVIOUS
  <1>1. ASSUME NEW n \in Requests, MallocDirect(n) PROVE CountersExact'
    <2>1. BlockSize(n) \in Nat
      BY BlockSizeBounds, HeapAssumption
    <2> QED BY <1>1, <2>1, AppendCounts DEF MallocDirect, HandedOut
  <1>2. CASE UNCHANGED <<heap, owners, cur>>
    BY <1>2, SameCounts DEF heap, owners
  <1>3. ASSUME NEW p \in live, Free(p) PROVE CountersExact'
    BY <1>3, FreeCounts
  <1>4. CASE MallocTake \/ GroupTake
    <2>1. take.pos # 0 /\ (TakeExact \/ TakeSplit) /\ HandedOut(take.pos) /\ UNCHANGED <<size, cur>>
      BY <1>4 DEF MallocTake, GroupTake, HandedOut, IInv, Control
    <2> QED BY <2>1, TakeCounts
  <1>5. CASE MergeNext
    BY <1>5, MergeNextCounts
  <1>6. CASE Shrink
    BY <1>6, ShrinkCounts
  <1>7. CASE Release
    BY <1>7, ReleaseCounts
  <1>8. CASE GroupMalloc
    <2>1. PICK len \in GroupBlocks : (\E o \in buffer : GroupReuse(o, len)) \/ GroupDirect(len)
      BY <1>8 DEF GroupMalloc
    <2>2. len \in Nat /\ UNCHANGED <<live, cur>>
      BY <1>8, GroupBlocksBounds DEF GroupMalloc
    <2>3. ASSUME NEW o \in buffer, GroupReuse(o, len) PROVE CountersExact'
      <3>1. o \in freed \ Held
        BY DEF IInv, Ownership, OneContainer
      <3> QED BY <2>2, <2>3, <3>1, ReuseCounts DEF GroupReuse, HandedOut
    <2>4. CASE GroupDirect(len)
      BY <2>2, <2>4, AppendCounts DEF GroupDirect, HandedOut
    <2> QED BY <2>1, <2>3, <2>4
  <1>9. ASSUME NEW g \in groups, GroupFree(g) PROVE CountersExact'
    BY <1>9, GroupFreeCounts
  <1>10. CASE AddDone \/ AddFails
    BY <1>10, AddEndCounts
  <1>11. CASE NextPending
    BY <1>11, NextPendingCounts
  <1>12. CASE Combine
    BY <1>12, CombineCounts
  <1>13. CASE UpdateLookBack
    BY <1>13, UpdateLookBackCounts
  <1>14. CASE UNCHANGED vars
    BY <1>2, <1>14 DEF vars, locals
  <1>15. ASSUME NEW n \in Requests, MallocFit(n) PROVE CountersExact'
    BY <1>2, <1>15 DEF MallocFit, TakeEntry
  <1> QED BY <1>1, <1>2, <1>3, <1>4, <1>5, <1>6, <1>7, <1>8, <1>9, <1>10, <1>11, <1>12, <1>13,
             <1>14, <1>15
          DEF Next, Call, Locked, MallocFails, FreeNull, GroupFit, Copy, Unlock

(* multi_heap_get_info's counters are exact at every step of every call, for *)
(* every heap, buffer, group size and set of requests: blocks in all, free   *)
(* ones and allocated ones; and minimum_free_bytes is never above what is    *)
(* free.                                                                     *)
THEOREM CountersKept == Spec => []CountersExact
  <1>1. Init => CountersExact
    <2> SUFFICES ASSUME Init
                 PROVE  CountersExact
      OBVIOUS
    <2>1. Blocks = {} /\ Held = {} /\ freed = {} /\ live = {} /\ groups = {} /\ cur.own = 0
      BY DEF Init, Blocks, Held, NoBlock
    <2>2. Cardinality({}) = 0 /\ Blocks \ Held = {} /\ freed \ Held = {}
      BY <2>1, FS_EmptySet
    <2> QED BY <2>1, <2>2, HeapAssumption DEF Init, Counters, CountersExact, One
  <1> QED BY <1>1, NextCounts, Inductive, PTL DEF Spec

-----------------------------------------------------------------------------
(* The bytes: what every step does to the blocks that are not free *)

Taken == Blocks \ freed

\* Steps that neither hand out nor take back a block
Still == Taken' = Taken /\ (\A o \in Taken : bsize'[o] = bsize[o]) /\ stat'.free_bytes = stat.free_bytes

\* Steps that hand out the block x
Gain(x) ==
    /\ x \notin Taken /\ Taken' = Taken \cup {x} /\ \A o \in Taken : bsize'[o] = bsize[o]
    /\ stat'.free_bytes = stat.free_bytes - bsize'[x]

\* Steps that take back the block x
Loss(x) ==
    /\ x \in Taken /\ Taken' = Taken \ {x} /\ \A o \in Taken' : bsize'[o] = bsize[o]
    /\ stat'.free_bytes = stat.free_bytes + bsize[x]

\* The bytes of blocks s with sizes z
Bytes(s, z) == UNION {o .. (o + z[o]) - 1 : o \in s}

LEMMA BytesAre ==
    /\ TakenBytes = Bytes(Taken, bsize)
    /\ TakenBytes' = Bytes(Taken', bsize')
  <1>1. TakenBytes = Bytes(Taken, bsize)
    BY DEF TakenBytes, Bytes, Taken, Ends
  <1>2. TakenBytes' = Bytes(Taken', bsize')
    BY DEF TakenBytes, Bytes, Taken, Ends
  <1> QED BY <1>1, <1>2

LEMMA IntervalCount ==
    ASSUME NEW x \in Nat, NEW n \in Nat
    PROVE  IsFiniteSet(x .. (x + n) - 1) /\ Cardinality(x .. (x + n) - 1) = n
  <1> DEFINE y == (x + n) - 1
  <1>1. y \in Int /\ (x > y <=> n = 0) /\ y - x + 1 = n
    OBVIOUS
  <1> HIDE DEF y
  <1>2. IsFiniteSet(x .. y) /\ Cardinality(x .. y) = IF x > y THEN 0 ELSE y - x + 1
    BY <1>1, FS_Interval
  <1>3. IsFiniteSet(x .. y) /\ Cardinality(x .. y) = n
    BY <1>1, <1>2
  <1> QED BY <1>3 DEF y

\* Bytes of blocks that do not overlap add up
LEMMA BytesAdd ==
    ASSUME NEW s \in SUBSET Nat, NEW z, NEW x \in Nat, x \notin s, z[x] \in Nat, NEW top \in Nat,
           \A o \in s : /\ z[o] \in Nat /\ o + z[o] <= top
                        /\ o < x => o + z[o] <= x
                        /\ x < o => x + z[x] <= o
    PROVE  /\ IsFiniteSet(Bytes(s, z))
           /\ Cardinality(Bytes(s, z)) \in Nat
           /\ Cardinality(Bytes(s \cup {x}, z)) = Cardinality(Bytes(s, z)) + z[x]
  <1>1. Bytes(s, z) \in SUBSET Nat /\ \A b \in Bytes(s, z) : b <= top
    BY DEF Bytes
  <1>2. IsFiniteSet(Bytes(s, z)) /\ Cardinality(Bytes(s, z)) \in Nat
    BY <1>1, FS_BoundedSetOfNaturals, FS_CardinalityType
  <1> DEFINE i == x .. (x + z[x]) - 1
             n == z[x]
  <1>3. IsFiniteSet(i) /\ Cardinality(i) = n
    BY IntervalCount
  <1>4. Bytes(s \cup {x}, z) = Bytes(s, z) \cup i
    BY DEF Bytes
  <1>5. Bytes(s, z) \cap i = {}
    BY DEF Bytes
  <1> HIDE DEF i, n
  <1>6. Cardinality(Bytes(s, z) \cap i) = 0
    BY <1>5, FS_EmptySet
  <1>7. Cardinality(Bytes(s, z) \cup i)
          = Cardinality(Bytes(s, z)) + Cardinality(i) - Cardinality(Bytes(s, z) \cap i)
    BY <1>2, <1>3, FS_Union
  <1>8. n \in Nat
    BY DEF n
  <1>9. Cardinality(Bytes(s \cup {x}, z)) = Cardinality(Bytes(s, z)) + n
    BY <1>2, <1>3, <1>4, <1>6, <1>7, <1>8
  <1> QED BY <1>2, <1>9 DEF n

\* The same bytes, whatever the sizes of other blocks
LEMMA BytesSame ==
    ASSUME NEW s, NEW z, NEW y, \A o \in s : y[o] = z[o]
    PROVE  Bytes(s, z) = Bytes(s, y)
  BY DEF Bytes

\* The blocks that are taken, as BytesAdd wants them
LEMMA TakenApart ==
    ASSUME IInv, NEW x \in Blocks
    PROVE  /\ Taken \in SUBSET Nat /\ x \in Nat /\ bsize[x] \in Nat /\ End \in Nat
           /\ \A o \in Taken : /\ bsize[o] \in Nat /\ o + bsize[o] <= End
                               /\ o < x => o + bsize[o] <= x
                               /\ x < o => x + bsize[x] <= o
  BY TilingFacts DEF IInv, TypeOK, Taken

LEMMA EndNext == TypeOK' => End' \in Nat
  <1>1. TypeOK' => size' \in 0 .. TotalSize
    BY DEF TypeOK
  <1>2. \A s \in 0 .. TotalSize : HeapStart + s \in Nat
    BY HeapAssumption
  <1> QED BY <1>1, <1>2 DEF End

LEMMA TakenApartNext ==
    ASSUME IInv', NEW x \in Blocks'
    PROVE  /\ Taken' \in SUBSET Nat /\ x \in Nat /\ bsize'[x] \in Nat /\ End' \in Nat
           /\ \A o \in Taken' : /\ bsize'[o] \in Nat /\ o + bsize'[o] <= End'
                                /\ o < x => o + bsize'[o] <= x
                                /\ x < o => x + bsize'[x] <= o
  <1>1. TypeOK' /\ Tiling'
    BY DEF IInv
  <1>2. /\ End' \in Nat /\ Blocks' \subseteq Nat
        /\ \A o \in Blocks' : bsize'[o] \in Nat /\ o + bsize'[o] <= End'
        /\ \A o, u \in Blocks' : o < u => o + bsize'[o] <= u
    <2>1. End' \in Nat
      BY <1>1, EndNext
    <2>2. Blocks' \subseteq Nat /\ \A o \in Blocks' : bsize'[o] \in Nat
      BY <1>1 DEF TypeOK
    <2>3. \A o \in Blocks' : o + bsize'[o] <= End'
      BY <1>1 DEF Tiling, Headed, Ends
    <2>4. \A o, u \in Blocks' : o < u => o + bsize'[o] <= u
      BY <1>1 DEF Tiling, Apart, Ends
    <2> QED BY <2>1, <2>2, <2>3, <2>4
  <1> QED BY <1>2 DEF Taken

LEMMA StillBytes ==
    ASSUME BytesExact, Still
    PROVE  BytesExact'
  <1>1. TakenBytes' = TakenBytes
    BY BytesAre, BytesSame DEF Still
  <1> QED BY <1>1 DEF BytesExact, Still

LEMMA GainBytes ==
    ASSUME IInv, IInv', BytesExact, NEW x, Gain(x)
    PROVE  BytesExact'
  <1>1. x \in Taken' /\ x \in Blocks' /\ Taken \subseteq Taken'
    BY DEF Gain, Taken
  <1>2. /\ x \notin Taken /\ Taken \in SUBSET Nat /\ x \in Nat /\ bsize'[x] \in Nat /\ End' \in Nat
        /\ \A o \in Taken : /\ bsize'[o] \in Nat /\ o + bsize'[o] <= End'
                            /\ o < x => o + bsize'[o] <= x
                            /\ x < o => x + bsize'[x] <= o
    BY <1>1, TakenApartNext DEF Gain
  <1>3. /\ Cardinality(Bytes(Taken, bsize')) \in Nat
        /\ Cardinality(Bytes(Taken \cup {x}, bsize')) = Cardinality(Bytes(Taken, bsize')) + bsize'[x]
    BY <1>2, BytesAdd
  <1>4. Bytes(Taken, bsize') = TakenBytes /\ TakenBytes' = Bytes(Taken \cup {x}, bsize')
    BY BytesAre, BytesSame DEF Gain
  <1> QED BY <1>2, <1>3, <1>4, HeapAssumption DEF BytesExact, Gain

LEMMA LossBytes ==
    ASSUME IInv, BytesExact, NEW x, Loss(x)
    PROVE  BytesExact'
  <1>1. x \in Blocks /\ Taken' \subseteq Taken /\ x \notin Taken' /\ Taken = Taken' \cup {x}
    BY DEF Loss, Taken
  <1>2. /\ Taken' \in SUBSET Nat /\ x \in Nat /\ bsize[x] \in Nat /\ End \in Nat
        /\ \A o \in Taken' : /\ bsize[o] \in Nat /\ o + bsize[o] <= End
                             /\ o < x => o + bsize[o] <= x
                             /\ x < o => x + bsize[x] <= o
    BY <1>1, TakenApart
  <1>3. /\ Cardinality(Bytes(Taken', bsize)) \in Nat
        /\ Cardinality(Bytes(Taken' \cup {x}, bsize)) = Cardinality(Bytes(Taken', bsize)) + bsize[x]
    BY <1>1, <1>2, BytesAdd
  <1>4. Bytes(Taken', bsize) = TakenBytes' /\ TakenBytes = Bytes(Taken' \cup {x}, bsize)
    BY <1>1, BytesAre, BytesSame DEF Loss
  <1> QED BY <1>2, <1>3, <1>4, HeapAssumption DEF BytesExact, Loss

\* What the counters' operators do to free_bytes
LEMMA FreeBytes ==
    ASSUME NEW len, NEW b
    PROVE  /\ Charged(len, b).free_bytes = stat.free_bytes - len
           /\ Credited(len, b).free_bytes = stat.free_bytes + len
           /\ Merged.free_bytes = stat.free_bytes
  BY DEF Charged, Credited, Merged, Counters

\* Which blocks a step on the free ones leaves alone
LEMMA SameTagsStill ==
    ASSUME UNCHANGED <<bsize, freed>>, stat' = stat \/ stat' = Merged
    PROVE  Still
  BY FreeBytes DEF Still, Taken, Blocks

LEMMA AppendGain ==
    ASSUME IInv, NEW len \in Nat, Append(len)
    PROVE  Gain(End)
  <1>1. Blocks' = Blocks \cup {End} /\ End \notin Blocks /\ freed' = freed
    BY TilingFacts DEF Append, Appended, Blocks, IInv
  <1>2. bsize'[End] = len /\ \A o \in Blocks : bsize'[o] = bsize[o]
    BY <1>1 DEF Append, Appended, Blocks
  <1>3. stat'.free_bytes = stat.free_bytes - len
    BY FreeBytes DEF Append
  <1>4. freed \subseteq Blocks
    BY DEF IInv, TypeOK
  <1> QED BY <1>1, <1>2, <1>3, <1>4 DEF Gain, Taken

LEMMA ReuseGain ==
    ASSUME IInv, NEW x \in freed, freed' = freed \ {x}, stat' = Charged(bsize[x], TRUE),
           bsize' = bsize
    PROVE  Gain(x)
  <1>1. x \in Blocks /\ Blocks' = Blocks
    BY DEF Blocks, IInv, TypeOK
  <1> QED BY <1>1, FreeBytes DEF Gain, Taken

LEMMA TakeGain ==
    ASSUME IInv, take.pos # 0, TakeExact \/ TakeSplit, size' = size
    PROVE  Gain(take.pos)
  <1> DEFINE x == take.pos
             y == take.pos + take.want
  <1>1. /\ x \in freed /\ x \in Blocks /\ take.size = bsize[x] /\ take.want \in Nat
        /\ take.want >= MinBlock
        /\ take.want = take.size \/ take.want + MinBlock <= take.size
    BY DEF IInv, TypeOK, Ownership, InHand
  <1>2. CASE TakeExact
    BY <1>1, <1>2, ReuseGain DEF TakeExact
  <1>3. CASE TakeSplit
    <2>1. /\ take.want + MinBlock <= bsize[x] /\ bsize' = Split(x, take.want)
          /\ stat' = Charged(take.want, FALSE) /\ freed' = (freed \ {x}) \cup {y}
      BY <1>1, <1>3 DEF TakeSplit
    <2>2. /\ Blocks' = Blocks \cup {y} /\ y \notin Blocks
          /\ y \in Nat /\ y > x
          /\ bsize'[x] = take.want /\ \A o \in Blocks \ {x} : bsize'[o] = bsize[o]
      BY <1>1, <2>1, SplitTiles DEF IInv
    <2> HIDE DEF x, y
    <2>3. x # y
      BY <1>1, <2>2
    <2>4. stat'.free_bytes = stat.free_bytes - bsize'[x]
      <3>1. stat' = Charged(bsize'[x], FALSE)
        BY <2>1, <2>2
      <3>2. Charged(bsize'[x], FALSE).free_bytes = stat.free_bytes - bsize'[x]
        BY FreeBytes
      <3> QED BY ONLY <3>1, <3>2
    <2> QED BY <1>1, <2>1, <2>2, <2>3, <2>4 DEF Gain, Taken, x
  <1> QED BY <1>2, <1>3

LEMMA GroupFreeLoss ==
    ASSUME IInv, NEW g \in groups, GroupFree(g)
    PROVE  Loss(g)
  <1>1. g \in Blocks /\ g \notin freed /\ freed \subseteq Blocks
    BY DEF IInv, TypeOK, Ownership, OneOwner
  <1>2. CASE g + bsize[g] = End /\ bsize' = Truncated(g)
             /\ stat' = Credited(bsize[g], FALSE) /\ freed' = freed
    <2>1. Blocks' = {o \in Blocks : o < g} /\ \A o \in Blocks' : bsize'[o] = bsize[o]
      BY <1>2 DEF Truncated, Blocks
    <2>2. Blocks' = Blocks \ {g}
      BY <1>1, <1>2, <2>1, TilingFacts DEF IInv
    <2>3. stat'.free_bytes = stat.free_bytes + bsize[g]
      BY <1>2, FreeBytes
    <2> QED BY <1>1, <1>2, <2>1, <2>2, <2>3 DEF Loss, Taken
  <1>3. CASE freed' = freed \cup {g} /\ stat' = Credited(bsize[g], TRUE) /\ bsize' = bsize
    <2>1. Blocks' = Blocks
      BY <1>3 DEF Blocks
    <2> QED BY <1>1, <1>3, <2>1, FreeBytes DEF Loss, Taken
  <1> QED BY <1>2, <1>3 DEF GroupFree

LEMMA UpdateLookBackStill ==
    ASSUME IInv, UpdateLookBack
    PROVE  Still
  <1> DEFINE pos == cur.pos
             len == cur.size
  <1>1. /\ pc = "combine" /\ bsize' = Joined(pos, len) /\ freed' = freed \cap Blocks'
        /\ LookBack(pos, len, 0) /\ size' = size
    BY DEF UpdateLookBack, Blocks
  <1>2. /\ pos \in Nat /\ len \in Nat /\ len > 0 /\ pos \in Blocks /\ pos + len \in Blocks \cup {End}
        /\ cur.own = 0 /\ Held \subseteq freed \cup {cur.own}
    BY <1>1 DEF IInv, TypeOK, Control, Ownership, InHand
  <1>3. /\ Blocks' = {o \in Blocks : o <= pos \/ pos + len <= o}
        /\ \A o \in Blocks' \ {pos} : bsize'[o] = bsize[o]
    BY <1>1, <1>2, JoinTiles DEF IInv
  <1>4. \A o \in Blocks : o \in Nat /\ o # 0
    BY DEF IInv, TypeOK
  <1>5. pos \in Held /\ Held = {o \in Blocks : pos <= o /\ o < pos + len}
    BY <1>2 DEF Held
  <1>6. stat'.free_bytes = stat.free_bytes
    BY <1>1, FreeBytes DEF LookBack
  <1> HIDE DEF pos, len
  <1>7. \A o \in Blocks \ Blocks' : o \in Held
    BY <1>2, <1>3, <1>4, <1>5
  <1>8. Held \subseteq freed
    BY <1>2, <1>4, <1>5
  <1> QED BY <1>1, <1>3, <1>5, <1>6, <1>7, <1>8 DEF Still, Taken

\* A block that is shortened away or released was freed by a caller, or it was
\* made of free ones
LEMMA ShrinkBytes ==
    ASSUME IInv, Shrink
    PROVE  IF call = "free" THEN Loss(cur.own) ELSE Still
  <1>1. /\ pc = "last" /\ cur.pos + cur.size = End /\ bsize' = Truncated(cur.pos)
        /\ freed' = {o \in freed : o < cur.pos}
        /\ stat' = IF call = "free" THEN Credited(FreedBytes, FALSE) ELSE Merged
    BY DEF Shrink
  <1>2. /\ cur.pos \in Nat /\ cur.size \in Nat /\ cur.size > 0 /\ cur.pos \in Blocks
        /\ (cur.own # 0 <=> call = "free") /\ (cur.own # 0 => cur.own \in Held)
        /\ Held \subseteq freed \cup {cur.own}
        /\ freed \subseteq Blocks /\ cur.own \notin freed
        /\ \A o \in Blocks : o # 0
    BY <1>1 DEF IInv, TypeOK, Control, Ownership, InHand, OneOwner
  <1>3. Blocks' = {o \in Blocks : o < cur.pos} /\ \A o \in Blocks' : bsize'[o] = bsize[o]
    BY <1>1 DEF Truncated, Blocks
  <1>4. Held = {o \in Blocks : ~(o < cur.pos)}
    BY <1>1, <1>2, TilingFacts DEF Held, IInv
  <1>5. Taken' = Taken \ Held /\ Taken \cap Held = {cur.own} \ {0}
    <2>1. Taken' = Taken \ Held
      BY <1>1, <1>2, <1>3, <1>4 DEF Taken
    <2>2. cur.own # 0 => cur.own \in Taken \cap Held
      BY <1>2, <1>4 DEF Taken, Held
    <2>3. \A o \in Taken \cap Held : o = cur.own /\ o # 0
      BY <1>2 DEF Taken
    <2> QED BY <2>1, <2>2, <2>3
  <1>6. \A o \in Taken' : bsize'[o] = bsize[o]
    BY <1>3 DEF Taken
  <1>7. CASE call = "free"
    <2>1. stat'.free_bytes = stat.free_bytes + bsize[cur.own]
      BY <1>1, <1>7, FreeBytes DEF FreedBytes
    <2> QED BY <1>2, <1>5, <1>6, <1>7, <2>1 DEF Loss
  <1>8. CASE call # "free"
    <2>1. stat'.free_bytes = stat.free_bytes
      BY <1>1, <1>8, FreeBytes
    <2> QED BY <1>2, <1>5, <1>6, <1>8, <2>1 DEF Still
  <1> QED BY <1>7, <1>8

LEMMA ReleaseBytes ==
    ASSUME IInv, Release
    PROVE  IF call = "free" THEN Loss(cur.own) ELSE Still
  <1>1. /\ pc = "last" /\ bsize' = Joined(cur.pos, cur.size) /\ size' = size
        /\ freed' = (freed \cap Blocks') \cup {cur.pos}
        /\ stat' = IF call = "free" THEN Credited(FreedBytes, TRUE) ELSE stat
    BY DEF Release, Blocks
  <1>2. /\ cur.pos \in Nat /\ cur.size \in Nat /\ cur.size > 0 /\ cur.pos \in Blocks
        /\ cur.pos + cur.size \in Blocks \cup {End}
        /\ (cur.own # 0 <=> call = "free") /\ (cur.own # 0 => cur.own \in Held)
        /\ Held \subseteq freed \cup {cur.own}
        /\ freed \subseteq Blocks /\ cur.own \notin freed
        /\ \A o \in Blocks : o \in Nat /\ o # 0
    BY <1>1 DEF IInv, TypeOK, Control, Ownership, InHand, OneOwner
  <1>3. /\ Blocks' = {o \in Blocks : o <= cur.pos \/ cur.pos + cur.size <= o}
        /\ \A o \in Blocks' \ {cur.pos} : bsize'[o] = bsize[o]
    BY <1>1, <1>2, JoinTiles DEF IInv
  <1>4. cur.pos \in Held /\ Blocks' = (Blocks \ Held) \cup {cur.pos}
    BY <1>2, <1>3 DEF Held
  <1>5. Taken' = Taken \ Held /\ Taken \cap Held = {cur.own} \ {0}
    <2>1. Taken' = Taken \ Held
      BY <1>1, <1>2, <1>4 DEF Taken
    <2>2. cur.own # 0 => cur.own \in Taken \cap Held
      BY <1>2, <1>4 DEF Taken, Held
    <2>3. \A o \in Taken \cap Held : o = cur.own /\ o # 0
      BY <1>2 DEF Taken
    <2> QED BY <2>1, <2>2, <2>3
  <1>6. \A o \in Taken' : bsize'[o] = bsize[o]
    BY <1>3, <1>4, <1>5 DEF Taken
  <1>7. CASE call = "free"
    <2>1. stat'.free_bytes = stat.free_bytes + bsize[cur.own]
      BY <1>1, <1>7, FreeBytes DEF FreedBytes
    <2> QED BY <1>2, <1>5, <1>6, <1>7, <2>1 DEF Loss
  <1>8. CASE call # "free"
    <2>1. stat'.free_bytes = stat.free_bytes
      BY <1>1, <1>8
    <2> QED BY <1>2, <1>5, <1>6, <1>8, <2>1 DEF Still
  <1> QED BY <1>7, <1>8

LEMMA NextBytes == IInv /\ IInv' /\ BytesExact /\ [Next]_vars => BytesExact'
  <1> SUFFICES ASSUME IInv, IInv', BytesExact, [Next]_vars PROVE BytesExact'
    OBVIOUS
  <1>0. Still \/ (\E x : Gain(x) \/ Loss(x)) => BytesExact'
    BY StillBytes, GainBytes, LossBytes
  <1>1. ASSUME NEW n \in Requests, MallocDirect(n) PROVE BytesExact'
    <2>1. BlockSize(n) \in Nat
      BY BlockSizeBounds, HeapAssumption
    <2> QED BY <1>0, <1>1, <2>1, AppendGain DEF MallocDirect
  <1>2. CASE UNCHANGED <<bsize, freed>> /\ (stat' = stat \/ stat' = Merged)
    BY <1>0, <1>2, SameTagsStill
  <1>3. ASSUME NEW p \in live, Free(p) PROVE BytesExact'
    BY <1>2, <1>3 DEF Free, LookBack
  <1>4. CASE MallocTake \/ GroupTake
    <2>1. take.pos # 0 /\ (TakeExact \/ TakeSplit) /\ size' = size
      BY <1>4 DEF MallocTake, GroupTake, IInv, Control
    <2> QED BY <1>0, <2>1, TakeGain
  <1>5. CASE MergeNext
    BY <1>2, <1>5 DEF MergeNext
  <1>6. CASE Shrink
    BY <1>0, <1>6, ShrinkBytes
  <1>7. CASE Release
    BY <1>0, <1>7, ReleaseBytes
  <1>8. CASE GroupMalloc
    <2>1. PICK len \in GroupBlocks : (\E o \in buffer : GroupReuse(o, len)) \/ GroupDirect(len)
      BY <1>8 DEF GroupMalloc
    <2>2. len \in Nat
      BY GroupBlocksBounds
    <2>3. ASSUME NEW o \in buffer, GroupReuse(o, len) PROVE BytesExact'
      <3>1. o \in freed
        BY DEF IInv, Ownership, OneContainer
      <3> QED BY <1>0, <2>3, <3>1, ReuseGain DEF GroupReuse
    <2>4. CASE GroupDirect(len)
      BY <1>0, <2>2, <2>4, AppendGain DEF GroupDirect
    <2> QED BY <2>1, <2>3, <2>4
  <1>9. ASSUME NEW g \in groups, GroupFree(g) PROVE BytesExact'
    BY <1>0, <1>9, GroupFreeLoss
  <1>10. CASE UpdateLookBack
    BY <1>0, <1>10, UpdateLookBackStill
  <1>11. CASE UNCHANGED heap
    BY <1>2, <1>11 DEF heap
  <1>12. CASE UNCHANGED vars
    BY <1>11, <1>12 DEF vars
  <1>13. ASSUME NEW n \in Requests, MallocFit(n) PROVE BytesExact'
    BY <1>11, <1>13 DEF MallocFit, TakeEntry
  <1>14. CASE Combine
    BY <1>2, <1>14 DEF Combine
  <1> QED BY <1>1, <1>3, <1>4, <1>5, <1>6, <1>7, <1>8, <1>9, <1>10, <1>11, <1>12, <1>13, <1>14
          DEF Next, Call, Locked, MallocFails, FreeNull, GroupFit, Copy, Unlock, AddDone, AddFails,
              NextPending

(* free_bytes of multi_heap_get_info counts the bytes, not one twice and     *)
(* none left out, at every step of every call, for every heap, buffer, group *)
(* size and set of requests.                                                 *)
THEOREM BytesKept == Spec => []BytesExact
  <1>1. Init => BytesExact
    <2> SUFFICES ASSUME Init
                 PROVE  BytesExact
      OBVIOUS
    <2>1. TakenBytes = {} /\ stat.free_bytes = TotalSize
      BY DEF Init, TakenBytes, Blocks, Counters
    <2> QED BY <2>1, FS_EmptySet, HeapAssumption DEF BytesExact
  <1> QED BY <1>1, NextBytes, Inductive, PTL DEF Spec

-----------------------------------------------------------------------------
(* The counters are numbers of the type size_t *)

NoWrap ==
    /\ stat.free_bytes \in 0 .. TotalSize
    /\ stat.minimum_free_bytes \in 0 .. stat.free_bytes
    /\ stat.total_blocks \in Nat
    /\ stat.free_blocks \in Nat
    /\ stat.allocated_blocks \in Nat

\* The bytes that are taken lie in the heap
LEMMA FreeBytesInRange ==
    ASSUME IInv, BytesExact
    PROVE  stat.free_bytes \in 0 .. TotalSize
  <1>1. size \in 0 .. TotalSize /\ TotalSize \in Nat /\ HeapStart \in Nat /\ End = HeapStart + size
    BY HeapAssumption DEF IInv, TypeOK, End
  <1> DEFINE all == HeapStart .. (HeapStart + size) - 1
  <1>2. TakenBytes \subseteq all
    <2>1. \A o \in Taken : o \in Nat /\ HeapStart <= o /\ bsize[o] \in Nat /\ o + bsize[o] <= End
      BY TilingFacts DEF IInv, Taken
    <2>2. \A o \in Taken : o .. (o + bsize[o]) - 1 \subseteq all
      BY <1>1, <2>1
    <2> HIDE DEF all
    <2> QED BY <2>2, BytesAre DEF Bytes
  <1>3. size \in Nat
    BY <1>1
  <1>4. IsFiniteSet(all) /\ Cardinality(all) = size
    BY <1>1, <1>3, IntervalCount
  <1> HIDE DEF all
  <1>5. Cardinality(TakenBytes) \in Nat /\ Cardinality(TakenBytes) <= size
    BY <1>2, <1>4, FS_Subset, FS_CardinalityType
  <1> QED BY <1>1, <1>5 DEF BytesExact

\* The low-water mark is what it was, or what is free now
LEMMA MinimumStep ==
    ASSUME IInv, [Next]_vars
    PROVE  stat'.minimum_free_bytes \in {stat.minimum_free_bytes, stat'.free_bytes}
  <1>1. \/ stat' = stat \/ stat' = Merged
        \/ \E len : \E b \in BOOLEAN : stat' = Charged(len, b) \/ stat' = Credited(len, b)
    BY DEF Next, Call, Locked, MallocFit, MallocDirect, MallocFails, Free, FreeNull, LookBack, MallocTake,
           TakeExact, TakeSplit, TakeEntry, Append, MergeNext, Shrink, Release, GroupMalloc, GroupReuse,
           GroupDirect, GroupFit, GroupTake, GroupFree, AddDone, AddFails, Copy, NextPending, Combine,
           UpdateLookBack, Unlock, vars, heap
  <1> QED BY <1>1 DEF Merged, Charged, Credited, Counters

(* The counters are of the type size_t and the code adds and subtracts       *)
(* without a check: none of them ever passes below zero, free_bytes not      *)
(* above the size of the region, and minimum_free_bytes stays between zero   *)
(* and free_bytes.                                                           *)
THEOREM CountersNeverWrap == Spec => []NoWrap
  <1> DEFINE Low == stat.minimum_free_bytes \in Nat
             InRange == stat.free_bytes \in 0 .. TotalSize
  <1>1. Init => Low
    BY HeapAssumption DEF Init, Counters
  <1>2. IInv /\ InRange' /\ Low /\ [Next]_vars => Low'
    BY MinimumStep
  <1>3. IInv /\ BytesExact => InRange
    BY FreeBytesInRange
  <1>4. IInv /\ CountersExact /\ BytesExact /\ Low => NoWrap
    <2> SUFFICES ASSUME IInv, CountersExact, BytesExact, Low
                 PROVE  NoWrap
      OBVIOUS
    <2>1. stat.free_bytes \in 0 .. TotalSize
      BY FreeBytesInRange
    <2>2. Total \in Nat /\ FreeOnes \in Nat /\ InUse \in Nat
      BY Countable DEF Total, FreeOnes, InUse, One
    <2> QED BY <2>1, <2>2, Tallied, HeapAssumption DEF NoWrap
  <1> QED BY <1>1, <1>2, <1>3, <1>4, Inductive, CountersKept, BytesKept, PTL DEF Spec

=============================================================================
