------------------------------ MODULE MultiHeap ------------------------------
(***************************************************************************)
(* One heap of src/multi_heap.c, from lock to unlock.                      *)
(*                                                                         *)
(* multi_heap_malloc and multi_heap_free run under the lock of the heap,   *)
(* so one call at a time is in progress; its progress is pc.  A call is    *)
(* still not atomic for the heap itself: the map of free blocks allocates  *)
(* and frees its own groups in the heap it maps, so every removal from the *)
(* map may free blocks, and every insertion may take a free block, split   *)
(* one, append one or free one, while the call works on a block it holds   *)
(* and on what it read before (the neighbours, the copied buffer).         *)
(*                                                                         *)
(* The cluster tree (mem_block_map.c, mem_block_list.c) is the set of its  *)
(* entries <<size, offset>> and the set of the blocks its groups live in;  *)
(* how many groups one call of the tree allocates and frees is left open.  *)
(* mem_block.c's boundary tags are the functions bsize and freed.          *)
(***************************************************************************)
EXTENDS Integers, FiniteSets

CONSTANTS
    HeapStart,      \* (size_t)heap + sizeof(multi_heap_t)
    TotalSize,      \* heap->total_size
    Reserve,        \* the 512 bytes a caller's malloc leaves at the end
    MaxOffsets,     \* CONFIG_HEAP_MAX_OFFSETS, the length of free_offsets
    GroupSize,      \* CONFIG_HEAP_GROUP_SIZE, the items of one group
    Requests,       \* sizes asked of malloc
    MaxChurn,       \* bound: group allocations or frees of one map call
    MaxGroups       \* bound: groups that exist at one time

ASSUME HeapAssumption ==
    /\ HeapStart \in Nat \ {0}
    /\ TotalSize \in Nat
    /\ Reserve \in Nat
    /\ MaxOffsets \in Nat \ {0}
    /\ GroupSize \in Nat \ {0}
    /\ Requests \subseteq Nat \ {0}
    /\ MaxChurn \in Nat \ {0}
    /\ MaxGroups \in Nat \ {0}

VARIABLES
    size,           \* heap->size: bytes between HeapStart and the heap's end
    bsize,          \* offset of a block -> size in its head and foot
    freed,          \* offsets of the blocks tagged MEM_BLOCK_FLAG_FREE
    buffer,         \* heap->free_offsets, sorted in the code, here a set
    mapped,         \* entries <<size, offset>> of heap->map_free
    groups,         \* offsets of the blocks that hold the map's groups
    live,           \* offsets of the blocks owned by callers of malloc
    stat,           \* the counters of multi_heap_t
    dirty,          \* MULTI_HEAP_FLAG_DIRTY
    pc,             \* where the call that holds the lock is
    call,           \* whose block is held: free_protected's or update_map's
    cur,            \* the block being combined: free_pos, free_size, locals
    take,           \* the block malloc_fit removed from the map
    pending,        \* update_map's local copy of the offsets
    churn           \* group operations the current map call may still do

heap == <<size, bsize, freed, stat>>
free_space == <<buffer, mapped, dirty>>
owners == <<groups, live>>
locals == <<pc, call, cur, take, pending, churn>>
vars == <<heap, free_space, owners, locals>>

-----------------------------------------------------------------------------
(* Boundary tags: mem_block.c *)

\* mem_block_calc_size: four-byte alignment, head and foot
BlockSize(n) == 4 * ((n + 3) \div 4) + 8

\* The smallest block worth splitting off, mem_block_calc_size(1)
MinBlock == BlockSize(1)

\* Blocks of list item-groups, map item-groups and parent-groups
GroupBlocks ==
    {BlockSize(4 + 4 * GroupSize), BlockSize(4 + 8 * GroupSize), BlockSize(16 + 4 * GroupSize)}

Blocks == DOMAIN bsize
End == HeapStart + size

\* mem_block_init over the blocks between pos and pos + len
Joined(pos, len) ==
    [o \in {x \in Blocks : x <= pos \/ pos + len <= x} |-> IF o = pos THEN len ELSE bsize[o]]

\* mem_block_init of the two parts of a block
Split(pos, want) ==
    [o \in Blocks \cup {pos + want} |->
        IF o = pos THEN want ELSE IF o = pos + want THEN bsize[pos] - want ELSE bsize[o]]

\* mem_block_init at the end of the heap
Appended(len) == [o \in Blocks \cup {End} |-> IF o = End THEN len ELSE bsize[o]]

\* The tags below a new end of the heap
Truncated(pos) == [o \in {x \in Blocks : x < pos} |-> bsize[o]]

\* mem_block_get_neighbours: the free block that ends where pos begins
FreeBefore(pos) == {o \in freed : o + bsize[o] = pos}

-----------------------------------------------------------------------------
(* The buffer, the map and the counters *)

\* Fault: a full buffer loses the offset and nobody knows
FreePrivateSilently(o) ==
    /\ buffer' = IF Cardinality(buffer) = MaxOffsets THEN buffer ELSE buffer \cup {o}
    /\ dirty' = dirty

\* multi_heap_free_private: a full buffer loses the offset and marks the heap
FreePrivate(o) ==
    IF Cardinality(buffer) = MaxOffsets
      THEN buffer' = buffer /\ dirty' = TRUE
      ELSE buffer' = buffer \cup {o} /\ dirty' = dirty

EntriesOf(len) == {e \in mapped : e[1] = len}

\* Fault: the entry stays in the map
MapRemovedNot(len, o) == mapped

\* mem_block_map_remove_offset: an item that holds one offset is removed by
\* its size, whatever that offset is; a list is searched for the offset
MapRemoved(len, o) ==
    IF \E e \in mapped : EntriesOf(len) = {e}
      THEN mapped \ EntriesOf(len)
      ELSE mapped \ {<<len, o>>}

\* A removal that takes an entry out of the tree may free groups
MapRemove(len, o) ==
    /\ mapped' = MapRemoved(len, o)
    /\ churn' = IF mapped' = mapped THEN 0 ELSE MaxChurn

\* Fault: the buffer is not searched
RemoveOffsetFromMap(o) == buffer' = buffer /\ MapRemove(bsize[o], o)

\* multi_heap_remove_offset: the buffer first, else the map
RemoveOffset(o) ==
    IF o \in buffer
      THEN buffer' = buffer \ {o} /\ mapped' = mapped /\ churn' = 0
      ELSE buffer' = buffer /\ MapRemove(bsize[o], o)

\* The tree gives its last group back when its last entry goes
Settled == churn > 0 /\ mapped = {} => groups = {}

\* What malloc_fit finds: the size itself, else the sizes that leave a block
Fitting(len) ==
    IF EntriesOf(len) # {} THEN EntriesOf(len) ELSE {e \in mapped : e[1] >= len + MinBlock}

\* The first of them: the smallest size, in it the lowest offset
IsBest(e, len) ==
    /\ e \in Fitting(len)
    /\ \A f \in Fitting(len) : e[1] < f[1] \/ (e[1] = f[1] /\ e[2] <= f[2])

Counters(free_bytes, minimum, allocated, free, total) ==
    [free_bytes |-> free_bytes, minimum_free_bytes |-> minimum,
     allocated_blocks |-> allocated, free_blocks |-> free, total_blocks |-> total]

\* The counters after an allocation, of a block that existed or of a new one
Charged(len, existed) ==
    LET left == stat.free_bytes - len
        least == stat.minimum_free_bytes
    IN  Counters(left, IF left < least THEN left ELSE least, stat.allocated_blocks + 1,
                 IF existed THEN stat.free_blocks - 1 ELSE stat.free_blocks,
                 IF existed THEN stat.total_blocks ELSE stat.total_blocks + 1)

\* The counters after a release, of a block that stays as a free one or goes
Credited(len, stays) ==
    Counters(stat.free_bytes + len, stat.minimum_free_bytes, stat.allocated_blocks - 1,
             IF stays THEN stat.free_blocks + 1 ELSE stat.free_blocks,
             IF stays THEN stat.total_blocks ELSE stat.total_blocks - 1)

\* Fault: a merge forgets one of the two counters
MergedHalf ==
    Counters(stat.free_bytes, stat.minimum_free_bytes, stat.allocated_blocks,
             stat.free_blocks - 1, stat.total_blocks)

\* The counters after a free block was merged into another or cut off
Merged ==
    Counters(stat.free_bytes, stat.minimum_free_bytes, stat.allocated_blocks,
             stat.free_blocks - 1, stat.total_blocks - 1)

NoBlock == [pos |-> 0, size |-> 0, next |-> 0, own |-> 0]
NoTake == [pos |-> 0, size |-> 0, want |-> 0]

Init ==
    /\ size = 0
    /\ bsize = [o \in {} |-> 0]
    /\ freed = {}
    /\ buffer = {}
    /\ mapped = {}
    /\ groups = {}
    /\ live = {}
    /\ stat = Counters(TotalSize, TotalSize, 0, 0, 0)
    /\ dirty = FALSE
    /\ pc = "idle"
    /\ call = "free"
    /\ cur = NoBlock
    /\ take = NoTake
    /\ pending = {}
    /\ churn = 0

-----------------------------------------------------------------------------
(* Allocation *)

\* malloc_direct: a new block at the end of the heap
Append(len) ==
    /\ size' = size + len
    /\ bsize' = Appended(len)
    /\ stat' = Charged(len, FALSE)
    /\ UNCHANGED <<freed, free_space>>

\* malloc_fit up to the return of mem_block_map_remove_offset
TakeEntry(e, len) ==
    /\ IsBest(e, len)
    /\ MapRemove(e[1], e[2])
    /\ take' = [pos |-> e[2], size |-> e[1], want |-> len]
    /\ UNCHANGED <<heap, buffer, dirty, owners, call, cur, pending>>

MallocFit(n) ==
    /\ pc = "idle"
    /\ stat.free_bytes >= BlockSize(n)
    /\ \E e \in mapped : TakeEntry(e, BlockSize(n))
    /\ pc' = "take"

MallocDirect(n) ==
    /\ pc = "idle"
    /\ stat.free_bytes >= BlockSize(n)
    /\ Fitting(BlockSize(n)) = {}
    /\ TotalSize - size >= BlockSize(n) + Reserve
    /\ Append(BlockSize(n))
    /\ live' = live \cup {End}
    /\ pc' = "copy"
    /\ UNCHANGED <<groups, call, cur, take, pending, churn>>

\* NULL is returned, after update_map all the same
MallocFails(n) ==
    /\ pc = "idle"
    /\ \/ stat.free_bytes < BlockSize(n)
       \/ Fitting(BlockSize(n)) = {} /\ TotalSize - size < BlockSize(n) + Reserve
    /\ pc' = "copy"
    /\ UNCHANGED <<heap, free_space, owners, call, cur, take, pending, churn>>

\* The rest of malloc_fit, exact or with a rest that goes to the buffer
TakeExact ==
    /\ take.size = take.want
    /\ stat' = Charged(take.want, TRUE)
    /\ freed' = freed \ {take.pos}
    /\ UNCHANGED <<bsize, buffer, dirty>>

TakeSplit ==
    /\ take.size # take.want
    /\ bsize' = Split(take.pos, take.want)
    /\ stat' = Charged(take.want, FALSE)
    /\ freed' = (freed \ {take.pos}) \cup {take.pos + take.want}
    /\ FreePrivate(take.pos + take.want)

MallocTake ==
    /\ pc = "take"
    /\ Settled
    /\ TakeExact \/ TakeSplit
    /\ live' = live \cup {take.pos}
    /\ take' = NoTake
    /\ churn' = 0
    /\ pc' = "copy"
    /\ UNCHANGED <<size, mapped, groups, call, cur, pending>>

-----------------------------------------------------------------------------
(* Release: multi_heap_free_protected, and its twin in update_map *)

\* The offset of the block at pos if it is free, else 0
FreeAt(pos) == IF pos \in freed THEN pos ELSE 0

\* get_neighbours is read once; then the free block before is taken in
LookBack(pos, len, own) ==
    /\ \/ \E o \in FreeBefore(pos) :
            /\ RemoveOffset(o)
            /\ cur' = [pos |-> o, size |-> bsize[o] + len, next |-> FreeAt(pos + len), own |-> own]
            /\ stat' = Merged
       \/ /\ FreeBefore(pos) = {}
          /\ cur' = [pos |-> pos, size |-> len, next |-> FreeAt(pos + len), own |-> own]
          /\ churn' = 0
          /\ UNCHANGED <<buffer, mapped, stat>>
    /\ pc' = "next"

Free(p) ==
    /\ pc = "idle"
    /\ p \in live
    /\ LookBack(p, bsize[p], p)
    /\ live' = live \ {p}
    /\ call' = "free"
    /\ UNCHANGED <<size, bsize, freed, dirty, groups, take, pending>>

\* free(NULL): no block is found, and update_map runs
FreeNull ==
    /\ pc = "idle"
    /\ pc' = "copy"
    /\ UNCHANGED <<heap, free_space, owners, call, cur, take, pending, churn>>

\* The free block behind, as it was when get_neighbours read it
MergeNext ==
    /\ pc = "next"
    /\ Settled
    /\ IF cur.next # 0
         THEN /\ RemoveOffset(cur.next)
              /\ cur' = [cur EXCEPT !.size = @ + bsize[cur.next]]
              /\ stat' = Merged
         ELSE /\ churn' = 0
              /\ UNCHANGED <<buffer, mapped, cur, stat>>
    /\ pc' = "last"
    /\ UNCHANGED <<size, bsize, freed, dirty, owners, call, take, pending>>

\* Where the call goes on when the block is dealt with
Return == IF call = "free" THEN "copy" ELSE "update"

\* Fault: the merged size is credited, the neighbours' bytes a second time
FreedBytesMerged == cur.size

\* The bytes a free gives back: those of the block that was freed
FreedBytes == bsize[cur.own]

\* The combined block is the last one: the heap gets shorter
Shrink ==
    /\ pc = "last"
    /\ Settled
    /\ cur.pos + cur.size = End
    /\ size' = size - cur.size
    /\ bsize' = Truncated(cur.pos)
    /\ freed' = {o \in freed : o < cur.pos}
    /\ stat' = IF call = "free" THEN Credited(FreedBytes, FALSE) ELSE Merged
    /\ cur' = NoBlock
    /\ churn' = 0
    /\ pc' = Return
    /\ UNCHANGED <<free_space, owners, call, take, pending>>

\* Otherwise its tags are written, and the map gets it
Release ==
    /\ pc = "last"
    /\ Settled
    /\ cur.pos + cur.size # End
    /\ bsize' = Joined(cur.pos, cur.size)
    /\ freed' = (freed \cap DOMAIN bsize') \cup {cur.pos}
    /\ stat' = IF call = "free" THEN Credited(FreedBytes, TRUE) ELSE stat
    /\ cur' = [cur EXCEPT !.own = 0, !.next = 0]
    /\ churn' = MaxChurn
    /\ pc' = "add"
    /\ UNCHANGED <<size, free_space, owners, call, take, pending>>

-----------------------------------------------------------------------------
(* The map's own groups: multi_heap_malloc_internal, multi_heap_free_internal *)

\* malloc_private finds the lowest offset of the buffer that has the size
GroupReuse(o, len) ==
    /\ bsize[o] = len
    /\ \A u \in buffer : bsize[u] = len => o <= u
    /\ buffer' = buffer \ {o}
    /\ freed' = freed \ {o}
    /\ stat' = Charged(len, TRUE)
    /\ groups' = groups \cup {o}
    /\ UNCHANGED <<size, bsize, mapped, dirty>>

BufferHas(len) == \E o \in buffer : bsize[o] = len

\* Fault: the end of the region is not checked
GroupDirectUnchecked(len) ==
    /\ ~BufferHas(len)
    /\ Fitting(len) = {}
    /\ Append(len)
    /\ groups' = groups \cup {End}

\* malloc_direct, without the reserve that binds the callers
GroupDirect(len) ==
    /\ ~BufferHas(len)
    /\ Fitting(len) = {}
    /\ TotalSize - size >= len
    /\ Append(len)
    /\ groups' = groups \cup {End}

\* multi_heap_malloc_internal that needs no entry of the map
GroupMalloc ==
    /\ pc = "add"
    /\ churn > 0
    /\ Cardinality(groups) < MaxGroups
    /\ \E len \in GroupBlocks :
         \/ \E o \in buffer : GroupReuse(o, len)
         \/ GroupDirect(len)
    /\ churn' = churn - 1
    /\ UNCHANGED <<live, pc, call, cur, take, pending>>

\* malloc_fit inside the insertion: the map changes while it is being changed
GroupFit ==
    /\ pc = "add"
    /\ churn > 0
    /\ Cardinality(groups) < MaxGroups
    /\ \E len \in GroupBlocks :
         /\ ~BufferHas(len)
         /\ \E e \in mapped :
              /\ IsBest(e, len)
              /\ mapped' = MapRemoved(e[1], e[2])
              /\ take' = [pos |-> e[2], size |-> e[1], want |-> len]
    /\ churn' = churn - 1
    /\ pc' = "grow"
    /\ UNCHANGED <<heap, buffer, dirty, owners, call, cur, pending>>

GroupTake ==
    /\ pc = "grow"
    /\ TakeExact \/ TakeSplit
    /\ groups' = groups \cup {take.pos}
    /\ take' = NoTake
    /\ pc' = "add"
    /\ UNCHANGED <<size, mapped, live, call, cur, pending, churn>>

\* multi_heap_free_internal, of a block at the end of the heap or before
GroupFree(g) ==
    /\ pc \in {"take", "next", "last", "add", "grow"}
    /\ churn > 0
    /\ groups # {g} \/ (mapped = {} /\ pc \in {"take", "next", "last"})
    /\ groups' = groups \ {g}
    /\ \/ /\ g + bsize[g] = End
          /\ size' = size - bsize[g]
          /\ bsize' = Truncated(g)
          /\ stat' = Credited(bsize[g], FALSE)
          /\ UNCHANGED <<freed, buffer, dirty>>
       \/ /\ g + bsize[g] # End
          /\ freed' = freed \cup {g}
          /\ stat' = Credited(bsize[g], TRUE)
          /\ FreePrivate(g)
          /\ UNCHANGED <<size, bsize>>
    /\ churn' = IF mapped = {} THEN churn ELSE churn - 1
    /\ UNCHANGED <<mapped, live, pc, call, cur, take, pending>>

AddDone ==
    /\ pc = "add"
    /\ groups # {}
    /\ mapped' = mapped \cup {<<cur.size, cur.pos>>}
    /\ cur' = NoBlock
    /\ churn' = 0
    /\ pc' = Return
    /\ UNCHANGED <<heap, buffer, dirty, owners, call, take, pending>>

\* No group could be allocated: the block stays free and in no container
AddFails ==
    /\ pc = "add"
    /\ \E len \in GroupBlocks : ~BufferHas(len) /\ Fitting(len) = {} /\ TotalSize - size < len
    /\ dirty' = TRUE
    /\ cur' = NoBlock
    /\ churn' = 0
    /\ pc' = Return
    /\ UNCHANGED <<heap, buffer, mapped, owners, call, take, pending>>

-----------------------------------------------------------------------------
(* multi_heap_update_map, at the end of every malloc and every free *)

Copy ==
    /\ pc = "copy"
    /\ pending' = buffer
    /\ buffer' = {}
    /\ pc' = "update"
    /\ UNCHANGED <<heap, mapped, dirty, owners, call, cur, take, churn>>

\* The highest offset first
Highest(o) == o \in pending /\ \A u \in pending : u <= o

NextPending ==
    /\ pc = "update"
    /\ \E o \in pending :
         /\ Highest(o)
         /\ pending' = pending \ {o}
         /\ cur' = [NoBlock EXCEPT !.pos = o, !.size = bsize[o]]
    /\ call' = "update"
    /\ pc' = "combine"
    /\ UNCHANGED <<heap, free_space, owners, take, churn>>

\* Fault: the gap between the two blocks is not looked at
AdjacentAnyway(o) == Highest(o)

Adjacent(o) == Highest(o) /\ o + bsize[o] >= cur.pos

\* The copied offsets below that touch the block
Combine ==
    /\ pc = "combine"
    /\ \E o \in pending :
         /\ Adjacent(o)
         /\ pending' = pending \ {o}
         /\ cur' = [cur EXCEPT !.pos = o, !.size = @ + bsize[o]]
    /\ stat' = Merged
    /\ UNCHANGED <<size, bsize, freed, free_space, owners, pc, call, take, churn>>

\* The tags of the combined block are written, then its neighbours are read
UpdateLookBack ==
    /\ pc = "combine"
    /\ \A o \in pending : ~Adjacent(o)
    /\ bsize' = Joined(cur.pos, cur.size)
    /\ freed' = freed \cap DOMAIN bsize'
    /\ LookBack(cur.pos, cur.size, 0)
    /\ UNCHANGED <<size, dirty, owners, call, take, pending>>

\* Fault: update_map goes on for as long as its own groups refill the buffer
UnlockWhenDrained ==
    /\ pc = "update"
    /\ pending = {}
    /\ pc' = IF buffer = {} THEN "idle" ELSE "copy"
    /\ call' = "free"
    /\ UNCHANGED <<heap, free_space, owners, cur, take, pending, churn>>

\* The buffer is not looked at again: what was freed meanwhile waits there
Unlock ==
    /\ pc = "update"
    /\ pending = {}
    /\ pc' = "idle"
    /\ call' = "free"
    /\ UNCHANGED <<heap, free_space, owners, cur, take, pending, churn>>

-----------------------------------------------------------------------------

Call ==
    \/ \E n \in Requests : MallocFit(n) \/ MallocDirect(n) \/ MallocFails(n)
    \/ \E p \in live : Free(p)
    \/ FreeNull

Locked ==
    \/ MallocTake
    \/ MergeNext
    \/ Shrink
    \/ Release
    \/ GroupMalloc
    \/ GroupFit
    \/ GroupTake
    \/ \E g \in groups : GroupFree(g)
    \/ AddDone
    \/ AddFails
    \/ Copy
    \/ NextPending
    \/ Combine
    \/ UpdateLookBack
    \/ Unlock

Next == Call \/ Locked

Spec == Init /\ [][Next]_vars

\* The caller of malloc or free runs its critical section to the end; nothing
\* makes a task call
FairSpec == Spec /\ WF_vars(Locked)

-----------------------------------------------------------------------------
(* Types *)

TypeOK ==
    /\ size \in 0 .. TotalSize
    /\ Blocks \subseteq Nat \ {0}
    /\ bsize \in [Blocks -> Nat]
    /\ freed \subseteq Blocks
    /\ buffer \subseteq Blocks
    /\ mapped \subseteq Nat \X Blocks
    /\ groups \subseteq Blocks
    /\ live \subseteq Blocks
    /\ stat \in [free_bytes : Int, minimum_free_bytes : Int,
                 allocated_blocks : Int, free_blocks : Int, total_blocks : Int]
    /\ dirty \in BOOLEAN
    /\ pc \in {"idle", "take", "copy", "update", "combine", "next", "last", "add", "grow"}
    /\ call \in {"free", "update"}
    /\ cur \in [pos : Nat, size : Nat, next : Nat, own : Nat]
    /\ take \in [pos : Nat, size : Nat, want : Nat]
    /\ pending \subseteq Blocks
    /\ churn \in 0 .. MaxChurn

(* The tags tile the heap: a walk by heads from HeapStart, and a walk by     *)
(* feet from any block, meets every block and ends exactly at an end of the  *)
(* heap, so mem_block_get_info and mem_block_get_neighbours never fail on an *)
(* offset the code passes them (mem_block.c:47-93, multi_heap.c:353, 201).   *)
Ends(o) == o + bsize[o]

Headed ==
    \A o \in Blocks : /\ bsize[o] >= MinBlock
                      /\ HeapStart <= o
                      /\ Ends(o) <= End
                      /\ Ends(o) \in Blocks \cup {End}

Footed == \A o \in Blocks \cup {End} : o = HeapStart \/ \E u \in Blocks : Ends(u) = o

Apart == \A o, u \in Blocks : o < u => Ends(o) <= u

Tiling ==
    /\ Headed
    /\ Footed
    /\ Apart
    /\ HeapStart \in Blocks \cup {End}

(* Every block has one owner.  A caller's block, a group of the map, the      *)
(* block being freed and a free block are never the same block, and a free    *)
(* block is known to one place only: the buffer, update_map's copy, the map   *)
(* (under its true size), the range being combined or malloc_fit's hands.     *)
(* This is what keeps one block from being handed out twice while the map     *)
(* allocates from the blocks it is being told about.                          *)
MappedBlocks == {e[2] : e \in mapped}

Held == {o \in Blocks : cur.pos <= o /\ o < cur.pos + cur.size}

OneOwner ==
    /\ freed \cap (live \cup groups) = {}
    /\ live \cap groups = {}
    /\ Blocks = freed \cup live \cup groups \cup ({cur.own} \ {0})
    /\ cur.own \notin freed \cup live \cup groups

InHand ==
    /\ cur.size > 0 => /\ cur.pos \in Blocks
                       /\ cur.pos + cur.size \in Blocks \cup {End}
    /\ Held \subseteq freed \cup {cur.own}
    /\ cur.own # 0 => cur.own \in Held
    /\ take.pos # 0 => /\ take.pos \in freed \ Held
                       /\ take.size = bsize[take.pos]
                       /\ take.want >= MinBlock
                       /\ take.want = take.size \/ take.want + MinBlock <= take.size

OneContainer ==
    /\ \A e \in mapped : e[1] = bsize[e[2]]
    /\ buffer \cup pending \cup MappedBlocks \subseteq freed \ (Held \cup {take.pos})
    /\ buffer \cap pending = {}
    /\ MappedBlocks \cap (buffer \cup pending) = {}

Ownership == OneOwner /\ InHand /\ OneContainer

(* What the program counter says of the locals; with it the three above are  *)
(* inductive.                                                                *)
Control ==
    /\ pc \in {"idle", "take", "copy", "update"} => cur = NoBlock
    /\ pc \in {"combine", "next", "last", "add", "grow"} => cur.pos # 0 /\ cur.size > 0
    /\ IF pc \in {"take", "grow"} THEN take.pos # 0 ELSE take = NoTake
    /\ cur.own # 0 <=> call = "free" /\ pc \in {"next", "last"}
    /\ pc = "next" /\ cur.next # 0 => cur.next = cur.pos + cur.size /\ cur.next \in freed
    /\ pc \in {"add", "grow"} => cur.size = bsize[cur.pos]
    /\ call = "update" => pc \in {"update", "combine", "next", "last", "add", "grow"}
    /\ pc = "combine" => call = "update"
    /\ pending # {} => pc = "update" \/ call = "update"
    /\ cur.size > 0 => \A o \in pending : o < cur.pos

IInv == TypeOK /\ Tiling /\ Ownership /\ Control

(* No free block is forgotten: until the heap is marked dirty, every free    *)
(* block is in the buffer, in the copy, in the map or in hand, and at rest   *)
(* nothing is in hand.  After a lost offset only memory is lost: Ownership   *)
(* does not depend on the mark.                                              *)
FreeSpaceKept ==
    /\ ~dirty => freed \subseteq buffer \cup pending \cup MappedBlocks \cup Held \cup {take.pos}
    /\ pc = "idle" => pending = {} /\ Held = {} /\ take.pos = 0

(* The counters of multi_heap_get_info are exact at every unlock, whatever   *)
(* the nested allocations did between, and in a call they are what the       *)
(* blocks already merged into the one in hand make them; the low-water mark  *)
(* is never above what is free.                                              *)
One(condition) == IF condition THEN 1 ELSE 0

CountersExact ==
    /\ stat.total_blocks = Cardinality(Blocks \ Held) + One(Held # {})
    /\ stat.free_blocks = Cardinality(freed \ Held) + One(Held # {} /\ cur.own = 0)
    /\ stat.allocated_blocks = Cardinality(live) + Cardinality(groups) + One(cur.own # 0)
    /\ stat.minimum_free_bytes <= stat.free_bytes

(* Every byte is accounted for: what free_bytes leaves out lies in a block   *)
(* of a caller, in a group of the map or in the block being freed (the code  *)
(* counts the never used end of the heap as free).                           *)
TakenBytes == UNION {o .. Ends(o) - 1 : o \in Blocks \ freed}

BytesExact == stat.free_bytes = TotalSize - Cardinality(TakenBytes)

(* Seen by its callers the heap is an allocator: the payload of a block is   *)
(* what lies between its head and its foot.  No merge, split, shrink or      *)
(* group allocation moves, resizes or hands out a block a caller owns.       *)
Payloads == [a \in {p + 4 : p \in live} |-> bsize[a - 4] - 8]

Abstract == INSTANCE Allocator WITH
    RegionStart <- HeapStart, RegionSize <- TotalSize, alloc <- Payloads

ImplementsAllocator == Abstract!Spec

(* A call that has the lock of the heap gives it back: the groups' own       *)
(* allocations end, and so does every loop of update_map.                    *)
LockReleased == pc # "idle" ~> pc = "idle"

=============================================================================
