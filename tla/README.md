# Verification of esp32-heap

TLA+ models, model checking and proofs of the heap component for the ESP32 in
`src/`: a heap whose free blocks are kept in cluster trees that live in the very
heap they describe, the capabilities allocator above it, and the heap trace
beside it.

## 1. The system

| component | state | operations | interacts with |
|---|---|---|---|
| boundary tags, `mem_block.c` | size and FREE flag in the first and last word of each block | `calc_size`, `init`, `get_info`, `get_neighbours` | the memory of one heap |
| heap, `multi_heap.c` | `size` (bytes in use from the start), `free_bytes`, `minimum_free_bytes`, three block counters, DIRTY flag, sorted buffer `free_offsets` | `register`, `malloc`, `free`, `get_info`, `check` | tags; map; platform lock |
| map of free blocks, `mem_block_map.c` | cluster tree size -> offset or list of offsets; groups of `CONFIG_HEAP_GROUP_SIZE` items | `add_offset`, `remove_offset`, iterator | **allocates and frees its groups in the heap it maps** (`multi_heap_malloc_internal`, `_free_internal`) |
| list of offsets, `mem_block_list.c` | cluster tree of the offsets of one size | the same | the same |
| group header, `mem_block_group.c` | level, child count, locked and dirty bits | getters and setters | map and list |
| capabilities, `heap_caps.c` | none of its own | `malloc`, `realloc`, `free`, `calloc`, info | walks the list of heaps, calls `multi_heap_*` |
| registration, `heap_caps_init.c` | `registered_heaps` (a list), each heap's caps, range, lock | `heap_caps_init`, `add_region`, `enable_nonos_stack_heaps` | `multi_heap_register`, the list's lock |
| heap trace, `heap_trace_standalone.c`, `heap_trace.inc` | record buffer, `count`, `tracing`, mode, totals | wrappers of malloc, free, realloc; `init`, `start`, `stop`, `resume` | the allocator below the wrappers, `trace_mux` |
| platform, `multi_heap_platform.h` | a spinlock per heap | lock, unlock (nothing for a NULL lock) | every heap operation |

What is hard here, and what makes each component correct:

* **Heap and map.**  There is no interleaving of tasks inside a heap (one lock),
  but the code re-enters itself.  Removing a block from the map may free groups
  of the map, adding one may allocate groups: from the buffer, from the map that
  is being changed, or at the end of the heap.  This happens while the outer call
  holds a block whose tags are not written yet and works on neighbours it read
  before.  Correct means: the tags always tile the heap; a block is handed out
  once; no free block is forgotten without the DIRTY mark; the five counters are
  right; the lock is released.
* **Capabilities.**  Tasks walk a list that grows at its head; a block has to go
  back to its heap; realloc over two heaps has to keep the data.
* **List of offsets.**  The same trees again, and an insertion may lose offsets of
  the very list it extends to the groups it asks for.  Parents cache their bounds
  as pointers into other groups.
* **Registration.**  Regions are joined, registered from entries on the stack and
  copied into one of the heaps they describe; sums of `size_t` may wrap; the
  overlap test runs before the lock is taken; stack heaps are in use before their
  lock is.
* **Trace.**  Recorders and controls interleave freely: `tracing` is tested twice,
  the controls take no lock, addresses are reused by the heap below.

`PROJECT.json` lists every such hazard with its line.

## 2. Modules

| module | models | composed with |
|---|---|---|
| `Allocator` | what a heap promises its callers (abstract) | refined by `MultiHeap` |
| `MultiHeap` | one heap with its map as a client of itself | `Allocator` by refinement mapping |
| `MultiHeapProofs` | the inductive invariant and its proof; proof that `MultiHeap` implements `Allocator` | `MultiHeap`, `Allocator` |
| `MultiHeapSpaceProofs` | proof that no free block is forgotten, and that the counters are exact | `MultiHeapProofs` |
| `BlockMap`, `MCBlockMap` | the tree of free blocks, with the allocations it makes out of itself | justifies the set `mapped` of `MultiHeap` |
| `BlockMapProofs` | proof that the tree is the set of its entries, sorted and tidy, and that its searches are right | `BlockMap`, `LeastNumber` |
| `BlockList`, `MCBlockList` | the tree behind an item of the map, pointers and allocations included | justifies that `BlockMap` takes a list for a set |
| `HeapBoot`, `MCHeapBoot` | `heap_caps_init`, regions and stack heaps added later, the arithmetic of `size_t` | where the lists of `HeapCaps` and `HeapList`, and the heap of `MultiHeap`, come from |
| `HeapBootProofs` | proof that a heap lies in its region, all memory is in heaps and a block lies in its heap | `HeapBoot` |
| `HeapCaps`, `MCHeapCaps` | `heap_caps_malloc`, `_free`, `_realloc` over the list of heaps, regions added meanwhile | each heap as `Allocator` describes it |
| `HeapList`, `MCHeapList` | the list's links and locks, assignment by assignment | justifies `HeapCaps`'s list and its atomic heap calls |
| `HeapListProofs` | proof that calls on one heap exclude each other, and that the list grows at its head | `HeapList` |
| `HeapCapsProofs` | proof that walks ask the heaps in order, and of what callers may rely on | `HeapCaps`, `LeastNumber` |
| `HeapTrace`, `MCHeapTrace` | the standalone trace with its wrappers | an external heap, as the wrappers use it |
| `HeapTraceProofs` | proof of the trace's invariants | `HeapTrace`, `LeastNumber` |
| `LeastNumber` | the least-number principle, for a first or last element that is chosen | the library's well-founded relations |

The layers meet as follows.  `MultiHeap` is shown to implement `Allocator`;
`HeapCaps` uses a heap only in the way `Allocator` allows (its `Fits` is
`Allocator`'s `Fresh`), as one step per call.  That a call may be one step needs
the heap's lock, and that a walk may count heaps from the end of the list needs
the list to grow at its head; both are checked in `HeapList`.
Downwards, `MultiHeap` takes the map for a set of entries (`BlockMap`), and
`BlockMap` takes what an item holds for a set of offsets (`BlockList`).

### MultiHeap

One variable per field of `multi_heap_t` that matters, the boundary tags as two
functions over block offsets, and the locals of the call that holds the lock
(`pc`, `cur`, `take`, `pending`).

| code | model |
|---|---|
| `size`, `free_bytes` and the four counters | `size`, `stat` |
| heads and feet | `bsize` (block -> size), `freed` (blocks tagged FREE) |
| `free_offsets[]` | `buffer`, a set: the code keeps it sorted and reads it by order |
| `map_free` | `mapped` (entries size, offset) and `groups` (the blocks the tree lives in) |
| `multi_heap_malloc_fit`, `_direct`, out of memory | `MallocFit` + `MallocTake`, `MallocDirect`, `MallocFails` |
| `multi_heap_free_protected` | `Free`, `MergeNext`, `Shrink` or `Release`, then `AddDone` or `AddFails` |
| `multi_heap_update_map` | `Copy`, `NextPending`, `Combine`, `UpdateLookBack`, then as above, `Unlock` |
| `multi_heap_malloc_internal`, `_free_internal` called by the tree | `GroupMalloc`, `GroupFit` + `GroupTake`, `GroupFree` |

A step ends where the code calls the tree, because there it may re-enter
itself.  How many groups one call of the tree takes or gives back is left open
(`churn`, at most `MaxChurn`): the model allows every sequence the tree could
produce, and more.  The tree being a set of entries is an **assumption** of this
module.  `BlockMap` is what supports it, for trees of two levels: its
`HoldsEntries` says that the tree is the set, its `FitIsBest` that the search
finds what `IsBest` of `MultiHeap` asks for.  Both are theorems (section 4).

`HeapStart`, `TotalSize`, `Reserve` (512 in the code), `MaxOffsets` and
`GroupSize` are parameters; `multi_heap_realloc`, which always answers NULL, and
the functions that only read are not actions.

### BlockMap

The tree is the record `map`: the kind of its root, the groups of items, and
`item_count` and the DIRTY bit of the parent group.  `entries` is history: the
offsets the map was given and has not been asked to give back.

| code | model |
|---|---|
| `mem_block_map_add_offset`, to where it needs a group or returns | `Add`: `AddFirst`, `AddItem`, `AddToList`, `AddDeeper` |
| a group for the list of an item | `GrowList`, `ListFails`, then `ListGrown` |
| `parent_group_create_with_child` | `NewRoot`, `NoLevel` |
| `parent_group_split_child` | `Split`, `SplitFails` |
| `mem_block_map_remove_offset` | `RemoveOffset` |
| the binary search in a group, one halving | `ItemPos`, `ItemStep` |
| `get_insert_pos`, `get_item_pos`, with their steps past empty groups | `Probe`, `ProbeStep`, `InsertPos` |
| `shift_children`, `move_space`, `move_children` | `Shifted`, `SpaceMoved`, `Moved` |
| `combine_child`, `combine_children`, `update_root` | `Combined`, `AllCombined`, `RootUpdated` |
| `mem_block_map_it_find` and a step of the iterator | `FitFound` |

A `while` loop of the code is a function of the number of rounds, `ItemStep`,
`ProbeStep` or `CombineStep` being a round; a round of a loop that is over changes
nothing.  `ItemPos` has as many rounds as the group has items and `Probe` two for each group (a
halving, and at most one step past an empty group), which is enough:
the proofs show that the interval is empty by then or the size found.  `SpaceMoved` is what the loop
of `move_space` has done at its end.

A step ends where the code allocates a group.  The allocation may come from
elsewhere or take the first offset of any item of this map (`Sources`); it then
goes through `Removed` with the group locked, as in the code.  What the locked
bits say is the program counter.  A list of offsets is the set of its offsets,
which is `HoldsEntries` of `BlockList`.
Three things are cut off, each a bound: no third level is granted, nothing is
taken while a group is empty, and a list that is being extended keeps two
offsets.  The last two need several nested allocations in one insertion (and
for the list, groups of three); what could happen there is among the hazards.

### BlockList

`mem` is the memory of groups, each a record of its level, items or children,
and for a parent the count and the two bounds, which are pointers (`group`,
`pos`).  `item` is what the map item holds: nothing, one offset, or the root of a
list.  `entries` is history, as in `BlockMap`.

| code | model |
|---|---|
| `mem_block_map_item_group_add_offset`, the part about the list | `AddFirst`, `AddSecond`, `AddToRoot`, `AddToTree`, then `Listed` |
| `list_add_offset` | `CreateList`, `CreateFails`, `NewRoot`, `NewRootFails`, `ReturnToList` |
| `parent_group_add_item_internal`, a frame of `stack` for each call | `TryItems`, `TryParent`, `ShiftChildren`, `ShiftedInVain`, `Split`, `GiveUp`, `ReturnToParent` |
| `get_insert_pos`, `get_item_pos` | `InsertPos`, `Probe` |
| `shift_children`, `move_space`, `move_children` | `Shifted`, `Moved` |
| `combine_child`, `combine_children`, `update_bounds`, `update_root` | `Combined`, `AllCombined`, `WithBounds`, `RootUpdated` |
| `mem_block_map_item_group_remove_offset` | `RemoveOffset`, `OffsetRemoved` |

An allocation may take the lowest offset out of the list (`Here`) while
`list_add_offset` works with its own copy of the root; the groups on the stack are
locked, as in the code.  `Freed` says what a pointer into a freed group reads: 0, or,
without `MayReuse`, what was there.  `shape` is a parameter kept in a variable that no
action changes, so that one run covers several: the group size, the offsets, the bound on levels, and
what the heap around may do (`MayTake`, `MayFail`, `MayFailLate`, `MayReuse`; see Bounds).

### HeapBoot

The boot is one task, loop by loop: `Coalesce`, `RegisterRegion`, `AllocateArray`,
`Publish`; then `EnableStackHeap`, `AddRegion`, `AddRegionWithCaps` and `Malloc` in any
order.  An entry (`heap_t`) has the address at which it was allocated, and a lock
is the address of the entry whose mutex it is, so a lock left in the entries on
the stack would be seen.  Sums are taken modulo `Width`.  `Heap` is
`multi_heap_register`, of which only what is never changed again is kept in the
entry (`at`, `total`); `used` is `heap->size`.  Blocks are taken from the end of a
heap and not freed; which heap answers is left open (`HeapCaps` says).  A region
the application offers may overlap others, lie in one of its blocks, or start
anywhere; what it may not do by the header's words is lie in memory that is in use
by others (`Offered`).  Calls that return an error change nothing and are not
steps; the branch for a NULL of `multi_heap_register` is never taken.

### HeapCaps

A task in `heap_caps_malloc` is a record `job`: the attempts that are left, the
priority, the place in the list.  The place is kept as the distance from the end
of the list, which is what a pointer to a list element amounts to when the list
grows at its head.  One heap call is one step whose answer is a free range
(`Grant`) or NULL (`Refuse`): a heap may refuse at any time.  `free` looks for the heap
and frees in one step: the list's insertions between the two cannot change what
is found, since a region may only be added over a block its adder holds.
Memory is counted in cells; the inverted D/IRAM mapping is the function
`c -> MirrorBase - c`, and the word before an executable block is `stored`.
What a caller offers as a region (`Offered`) is the documented precondition:
memory outside all heaps, or exactly one block it holds.

Left out: `calloc` (malloc and a clear), `HEAP_SIZE_MAX` (`HeapBoot` has it), the limit that selects
among the default attempts (the attempts are an input), an empty capability mask,
and the error path after `multi_heap_register` returns NULL, which it never does.

### HeapList

The same list, at the grain of assignments: `SLIST_INSERT_HEAD` is two writes
under the writers' lock, `multi_heap_set_lock` a write of its own, and
`MULTI_HEAP_LOCK` looks at the lock twice, once on entry and once on exit.
Walks read `next` one heap at a time.  Stores are seen in program order (the two
writes are separate statements on one core; reordering by the compiler is not modelled).

### HeapTrace

The application has arrays of records (`Buffers`, `Length`).  `buffer` is the one in use,
or `Null`, and `log` is what is in it.

| code | model |
|---|---|
| `record_allocation`: the test without the lock; lock, test and `memmove`; `memcpy` and unlock | `CheckAllocation`, `MakeRoom`, `Store` |
| `record_free` with `remove_record`: the test without the lock; lock, test and search; the rest and unlock | `CheckFree`, `Search`, `Mark` |
| the wrappers and the heap below them | `Malloc`, `Free`, `Realloc`; `HeapFree`, `HeapRealloc`, `HeapReallocFails` |
| `heap_trace_start`: its test; from the lock to its call of resume; the rest | `StartCheck`, `Start`, `StartResumes` |
| `heap_trace_init_standalone`: its test; the pointer; the size; the `memset` | `InitCheck`, `InitBuffer`, `InitSize`, `InitClear` |
| `heap_trace_stop`, `heap_trace_resume` | `Stop`, `Resume` |

An initialisation takes any array, or `(NULL, 0)` as `esp_heap_trace.h` allows, its four steps
hold no lock, and neither it nor `Resume` touches `count`.  Two tasks may be in it at once; the `memset`
then clears the array that was just assigned or the one that is in `buffer` by now, and both are possible.
One thing is assumed of the application: an array that is not in use has no records in it when it is handed over.

The code does not compare its indexes with the array.  `Outside` says that the
step a task is about to take would leave it; such a step is not taken, and the
behaviour ends there (`LeavesBuffer`), because what it writes over is not modelled.
`logged`, `gap`, `resized` and `refused` are history: what was logged
since the last start; whether the trace was stopped or re-initialised since, and whether it
was told another size; and the blocks a realloc was refused for.

## 3. What the runs check

| run | cfg | states | question |
|---|---|---|---|
| `heap` | `MultiHeap` | 374,467 | tags, ownership, no lost block, all counters, the lock is released, `Allocator` is implemented |
| `map` | `MCBlockMap` | 270,603 | the tree is the set of what it was given, ordered and tidy; its search finds the best fit |
| `trace` | `MCHeapTrace` | 3,092,527 | recorders stay in the array unless the trace is told another size, a leak trace holds live blocks only and misses none but those a realloc was refused for, frees are noted at the right record, overflow is told |
| `blocklist` | `MCBlockList` | 121,969 | the list is the set of what it was given, sorted, tidy and with no group lost, although it may give blocks to its own groups; the same with groups above groups above groups |
| `boot` | `MCHeapBoot` | 3,829 | all memory is in heaps, each inside its region and with its own lock; no size wraps |
| `caps` | `MCHeapCaps` | 1,672,904 | nothing lost, capabilities as asked, over DRAM and D/IRAM, while a block becomes a region and a stack heap appears |
| `list` | `MCHeapList` | 1,181 | the list grows at its head; calls on one heap exclude each other |

The five runs that end in a violation are in section 6.

Properties, by what they protect:

* **Tiling** - a walk by heads and a walk by feet both go through every block.
  It is what `mem_block_get_info` tests at each access.
* **Ownership** - every block is a caller's, a group of the map, free, or the
  one being freed, and only one of these; a free block is in at most one of buffer,
  copy and map, or in hand.
* **FreeSpaceKept** - as long as DIRTY is not set no free block is forgotten, and
  an idle heap holds nothing back.
* **CountersExact**, **BytesExact** - the counters `get_info` reports, also in the middle of
  a call: what they should be is expressed by the block in hand, and for `free_bytes` by
  the set of the addresses (`TakenBytes`) that are in a block not tagged free.
* **LockReleased** - liveness: a call that took the lock returns.
* **ImplementsAllocator** - refinement; the mapping is "payloads of the blocks
  callers own".
* **HoldsEntries** - the tree is the set of entries it was given, also in the
  middle of an insertion whose allocations take entries out of it.
* **Ordered**, **Tidy** - sizes ascend over all groups, no group overflows; after an
  insertion there is no empty group and no superfluous root.
* **FitIsBest** - the search finds the smallest block that is big enough.
* **DeeperOnlyWhenFull** - a level is added only when every group is full.
* **ReportedIsLast** - `item_count` runs ahead of the items, never behind:
  `get_info` reports the largest item or none.
* **Sorted**, **GroupsOwned**, **CountClose** - for the list of offsets: the order the searches rely
  on also in the middle of an insertion, every group of the tree and no other in
  use, and the count that decides when a list becomes a single offset again at
  most one ahead.
* **Complete** - every byte of the available memory is in one heap with its own
  capabilities, neighbours are joined, locks are those of the permanent entries.
* **HeapsInside**, **BlocksHold** - a heap lies in its region, for an aligned start and
  room for the header; a block has the bytes asked for whatever the size, lies in
  its heap and overlaps no other.
* **NothingLost**, **DataKept**, **CapsKept**, **Findable**, **AskedInOrder** - for the callers of
  `heap_caps_*`: no leak in any path of realloc, contents survive, all
  capabilities present, every pointer goes back to its own heap, and no
  heap is left out by a walk however the list changes.
* **GrowsAtHead**, **Reachable**, **OthersExclusive** - for the list and its locks.
* **RecordersInside** - no recorder is about to use a record the array does not have, whatever
  stop, resume and initialisations with an array of the same length do between its steps.  It claims nothing
  after the trace was told another size, until the next start: that is where the code goes wrong
  (`CountInBuffer`, section 6).
* **LeaksKept**, **LeaksAreLive**, **FreesMatch**, **OverflowTold** - for the trace that is not interrupted.
  `LeaksKept` and `FreesMatch` leave out the blocks a realloc was refused for (section 6).

Each property is known to fail for a bug of the modelled code: next to the
definition it would replace stands the faulty one, marked `Fault:`.

### Bounds

* `heap`: 76 bytes hold five or six of the smallest blocks (12 or 16 bytes), two kinds of request,
  a buffer of two, two groups, two group operations per call of the tree.  That
  is enough for a block with two free neighbours, for a neighbour that changes
  while the other is removed, for a group at the end of the heap (which shrinks)
  and before it, for a buffer that overflows and for a failed group allocation.
* `map`: ten sizes are one more than three groups of three can hold, so the
  map fills, splits, moves items over all groups and asks for a third level.  One size has
  four blocks: its list is created, grows and may fill a group.  `MaxDrift` = 1
  lets `item_count` run one ahead.
* `trace`: two tasks, three addresses (one can be reused while another is
  moved), an array of two records and one of one, three logged allocations after a start: both arrays
  overflow, and a trace can go from either to the other or to none and back.
  Tasks and addresses are interchangeable (symmetry), and records behind `count`, which nobody reads, are
  of no account (`VIEW InUse`); no liveness is checked there.
* `trace_smaller_buffer`: one task and two addresses are enough.
* `caps`: one block per task, three heaps of three to four cells; two priorities;
  attempts that succeed, are impossible, or fall through to a second.  One task
  adds a region, another walks; a stack heap appears at any time.  `MaxHeld` = 1
  still leaves two blocks in hand in realloc.
* `blocklist`, the shape `Broad`: groups of four, ten offsets, one level of parents: the root fills,
  is split, shifts, merges, shrinks back to a group and to a single offset, and every
  allocation may fail or come out of the list.  With groups of fewer than four
  the allocations of one insertion can empty the list (`BlockListAssumption`);
  Kconfig gives the size no range.  A split below a new root may fail, too
  (`MayFailLate`): with two levels the root then has one child and goes again.
* `blocklist`, the shape `High`: groups of two, so that eight offsets make three
  levels.  It excludes `MayReuse` and `MayFailLate`, and `MayTake` because
  of the group size; section 6 says what happens with the first two.
* `blocklist_tall`: six offsets in such groups, with `MayReuse`.
* Both runs compare states with their groups numbered in the order of the tree
  (`VIEW Renumbered`): which address an allocation returns is of no account.
* `boot`: a word of nine bits, headers of 16 bytes; layouts with regions that can be
  joined once and twice, that meet and differ, with a gap, with stacks; four
  blocks.  Sizes next to the width are asked for, regions overlap, nest, repeat.
* `list`: three tasks are two inside one heap and one that changes the list, or two writers and a walker.

### Fairness

Only `MultiHeap` has a liveness property.  `FairSpec` adds `WF_vars(Locked)`: a
task inside the heap's critical section (interrupts off, spinlock) runs on.
Nothing makes a task call `malloc` or `free`.  It is weak fairness on the whole
section, not on single actions: which way the tree goes stays open, so the
property covers every choice.  The mutant that drains the buffer until it is
empty shows the property is not vacuous: the groups freed by the map refill the
buffer and the lock is held for ever.

## 4. What is proved

For all values of the constants that satisfy `HeapAssumption` (any size, buffer, group
size, requests, and any bound on the tree's group operations), `ListAssumption`
(any tasks, regions, heaps of the start-up and stack heaps), `BootAssumption`
(any width, header, region added, and layout in the order of the memory whose array of
entries is no larger than a block may be), `RegionAssumption` (any heaps, capabilities,
attempts and tasks), `TraceAssumption` (any tasks, addresses, and arrays of any lengths) or
`BlockMapAssumption` (groups of three or more, any sizes and offsets of blocks):

| theorem | statement |
|---|---|
| `Inductive` | `Spec => []IInv` |
| `TypeCorrect`, `Tiled`, `Owned` | `Spec => []TypeOK`, `[]Tiling`, `[]Ownership` |
| `SpaceKept` | `Spec => []FreeSpaceKept` |
| `CountersKept`, `BytesKept` | `Spec => []CountersExact`, `[]BytesExact` |
| `CountersNeverWrap` | `free_bytes` stays in `0 .. TotalSize`, the minimum in `0 .. free_bytes`, the counts natural |
| `Implements` | `Spec => ImplementsAllocator` |
| `ListInvariant`, `MutualExclusion` (of `HeapList`) | `Spec => []ListInv`, `[]OthersExclusive` |
| `LinkInvariant`, `RegionsReachable`, `ListGrowsAtHead` | `Spec => []LinkInv`, `[]Reachable`, `GrowsAtHead` |
| `BootInvariant`, `InsideRegion` (of `HeapBoot`) | `Spec => []BootInv`, `[]HeapsInside` |
| `StartInvariant` | if regions are `Regular`, `Spec => []StartInv` |
| `StartComplete`, `BlocksInPlace` | the same for `[]Complete`, `[]BlocksHold` |
| `WalkInvariant`, `WalksAskInOrder` (of `HeapCaps`) | `Spec => []WalkInv`, `[]AskedInOrder` |
| `BlocksInvariant`, `RegionsStayApart` | if one task adds regions, `Spec => []BlocksInv`, `[]RegionsApart` |
| `TypesHold`, `PointersFindable`, `NoBlockLost` | the same for `[]TypeOK`, `[]Findable`, `[]NothingLost` |
| `CapabilitiesKept`, `ContentsKept` | the same for `[]CapsKept`, `[]DataKept` |
| `TraceInvariant`, `TraceTypes` (of `HeapTrace`) | `Spec => []IInv`, `[]TypeOK` |
| `LeaksReportedLive`, `NoLeakMissed` | `Spec => []LeaksAreLive`, `[]LeaksKept` |
| `FreesNotedRight`, `OverflowIsTold` | `Spec => []FreesMatch`, `[]OverflowTold` |
| `RecordersStayInside` | `Spec => []RecordersInside` |
| `MapInvariant`, `MapTypes` (of `BlockMap`) | `Spec => []IInv`, `[]TypeOK` |
| `MapHoldsEntries`, `MapOrdered`, `MapTidy` | `Spec => []HoldsEntries`, `[]Ordered`, `[]Tidy` |
| `MapFitIsBest`, `MapReportedIsLast` | `Spec => []FitIsBest`, `[]ReportedIsLast` |
| `MapDeeperOnlyWhenFull`, `MapSplitHasRoom` | `Spec => []DeeperOnlyWhenFull`, `[]SplitHasRoom` |
| `BlockSizeHolds` | `size <= SizeMax => size + Tags <= BlockSize(size) <= size + Tags + 3` |

The argument for one heap.  None of the three invariants is inductive alone.  Ownership needs
the tags to tile, since merging is arithmetic on sizes; tiling needs ownership,
since a block may be absorbed only if nobody owns it; and both need `Control`,
what the program counter says of the locals: which of them are set, that the
block behind, read once, is still adjacent and still free, that the pending offsets
lie below the block in hand.  `IInv` is their conjunction.  Tiling changes in four ways only - a block is appended,
split, joined with its neighbours, or cut off at the end - and each has a
lemma (`AppendTiles`, `SplitTiles`, `JoinTiles`, `TruncateTiles`); then one lemma per action.
For the refinement a step of the heap is a malloc exactly where a block
enters `live`, a free where it leaves, and a stutter elsewhere, because tags of
live blocks do not change.

That no free block is forgotten (`SpaceKept`) is the other half of ownership:
`OneContainer` says that a free block is in no two places, `Kept` that it is in
one at least, as long as the heap is not marked dirty.  The delicate step is a
removal.  An item of the tree that holds one offset is removed by its size,
whatever offset was asked for (`MapRemoved`), and would take out the wrong block
if the one asked for were not in the tree.  It always is: a neighbour that is
tagged free, is in nobody's hands and not in the buffer is in the map by `Kept`
itself, and not in update_map's copy because the copied blocks that touch the
block in hand were joined before (`Control`).  So the two invariants need each
other (`RemoveKeepsOthers`).  Once a heap is dirty the argument is gone, and
`Kept` claims nothing more.

The counters (`CountersKept`) are sums over blocks of which one is in hand.  Each
action adds to or takes from a set at most one element: all blocks but the one in hand, the
free ones among them, the live ones and the groups.  So every action has its own
account (`Total`, `FreeOnes`, `InUse`) and the cardinalities follow.  For the bytes a sum is not
needed: the addresses in blocks that are not free are a set, and as the blocks tile the heap,
taking or freeing one changes the set by an interval disjoint from the rest (`Gain`, `Loss`)
and any other step leaves it as it is (`Still`).  That no unchecked
`size_t` subtraction in the counters wraps (`CountersNeverWrap`) is a corollary.

For the list, mutual exclusion is not inductive either: that a task inside a
heap holds its lock (`LockHeld`) depends on the lock having been set before the
task came, which depends on no heap being reachable without one.  `SafeLinks`
says so of everything a task can follow - the head of the list, every link, every place
of a walk: it is a heap whose lock is set, or a stack heap.
The links describe one path without a repetition that ends in Null (`IsPath`), and
`Path`, which `PathOf` computes by following them, is that path: a shortest
prefix on which the two differ cannot exist.  Between the two writes of an
insertion the head is the one the new link was set to, since only the writer that
holds `registered_heaps_write_lock` changes it (`Growing`).  So the write of the head makes the
path one heap longer, and no other write changes it.

For the start-up, `BootInv` says that an entry's heap is the one
`multi_heap_register` makes of the entry's own region, wherever the entry was
copied, and that every region lies below the width, also after regions were
joined (`JoinedParts`).  What remains is arithmetic (`HeapFits`): with an aligned
start no sum wraps, and the end, rounded down to 16, is not before the first
byte, as long as the region is eight bytes longer than the header.  Both
conditions are needed: without the first the end may lie up to seven bytes behind
the region, without the second `total_size` wraps (section 6).

That all memory is in heaps (`StartComplete`) is followed through the loops of
`heap_caps_init`.  While regions are joined, each still ends where it ended, and one
that went into the next begins where that one begins now (`RegionOk`); so no byte changes its
type (`SameBytes`), and the heaps made of the first regions are those regions (`Covers`).
The array has an entry for each (`ArrayAt`), at a multiple of the entry's size
(`Slot`), and the list is that array behind whatever was added later (`RunList`).

For the blocks (`BlocksInPlace`) the difficulty is the descriptors.  They are written at
addresses that `malloc` returned, and a heap may not get a block over them.  They lie in
blocks that begin with one (`Placed`), so the pointer of a new block is
none of them (`NewPointer`).  A heap is told by where it
begins, so no two regions may begin at one heap.  This is `Nested`: two regions are apart, or one lies in a block of
the other that is in a caller's hands (`Hosts`); and since that block lies behind its heap's header, the
two heaps begin at different addresses.  A region that passes the overlap test, and which the
caller may offer, is nested in this sense (`NewRegion`).

Both rest on `Regular`: every region of the layout, and every one added, starts at a multiple of 8 and has eight
bytes more than a header.  It is needed.  A region of a few unaligned bytes just before
another one gets the address of that one's heap, and one without room for a header has a heap that
reaches into the next (`boot_too_small`).  In the run `boot` three of the four layouts and four of the five
additions are `Regular`; for the others there is only the run.

For the walks (`HeapCapsProofs`), `AskedInv` says that a heap which was there when the
attempt began, and offers one of the capabilities at a priority the walk is done
with, has refused.  Done with are the lower-numbered priorities and, at the present one, the heaps that
do not occur in the rest of the list; `Behind` is put this way because a region
that is added twice occurs twice, and its new place is not one the walk has
passed.  The rest of the list is counted from its end, so an insertion at the head
changes nothing for any walk (`InsertKeeps`), and a heap known to the walk cannot go
out of use.  Insertions elsewhere would break exactly this lemma.  It remains that a heap with all capabilities offers
one at some first priority (`FirstPrioExists`).

What callers may rely on (`BlocksInv`) is an account.  Every block a heap has
given out is claimed: by a task that holds it, by a task that is about to return it,
by the list for a descriptor.  No two claims are for one block, and what is not
claimed has become a region of its own (`BlockOfRegion`).  A block of D/IRAM has two
addresses, and the claim is for the block, whichever of them the task has (`PointsTo`,
`DramOf`).  Regions are apart or nested (`Laminar`), and a block belongs to
the innermost region around it; this is what makes the first hit of `free`'s
search the right heap, since a nested region stands before the one around it in
the list (`Ordered`).  From there `NothingLost` and `Findable` say that no claim and no pointer
goes astray in any of realloc's paths, and `DataKept` follows as no two pointers lead
to one block.  All of it assumes that one task at a time adds regions (`OneAdder`):
between its test for overlaps and its insertion `heap_caps_add_region_with_caps` holds
no lock, two adders can both pass the test, and then regions do overlap. The run
`caps_region_added_twice` is that case (section 6); for a list that is made
at start-up and extended by one task, as in the passing run, the hypothesis is met.

For the trace (`HeapTraceProofs`), everything hangs on three facts.  The lock
excludes (`LockInv`), although four of the controls do not take it.  A block a wrapper is
busy with is nobody else's, and has not been logged while it waits for its
record (`BlockInv`).  And an uninterrupted trace is off only while
`heap_trace_start` holds the lock with an empty buffer (`StartInv`), so a recorder that sees
`tracing` unset has nothing to look for.  From these, in leak mode, a block between the
wrapper's two steps has no record (`LeakInv`), and a record that is removed takes no
other with it as long as `count <= total_records` (`RecordRemovedAt`, `RoomInv`); in
the mode for all events, only the newest record of a block is open, and only until
its free is noted (`EventInv`).  The search's last match exists by `LeastNumber`.  Each
claim is made only while the trace is not interrupted, and that is needed: stop, resume and
init between two steps of a recorder lose records.

That recorders stay inside the array (`RecordersStayInside`) rests on `RoomInv`: as long as the trace
is told no other size, `count` is at most `total_records`, and below it while a task is
about to store, which holds although stop, resume and init come between the step that makes the room and
the store.  Where the array is at least `total_records` long, every index of a recorder is then in it (`MarkInv` for
the one its search found).  Without an interruption the array is the one the trace was started with, and the
records in use are slots of it (`EntriesInLog`).  The guards `~Outside` do not make the theorem true: a
state in which a recorder is about to leave the array is reached like any other, only its next
step is not followed.

For the map (`BlockMapProofs`) the groups are taken for pieces of one sequence of items, cut at
ascending places (`Cut`).  What moves items between groups - a move, a shift of the free
place over several groups, a split, a merge - changes the cuts and not the
sequence; what adds, removes or changes an item changes the sequence at one
place and one of the pieces (`ItemAdded`, `ItemRemoved`, `ItemChanged`).  A size has a place in the sequence
(`Rank`: so many items are smaller, so many are not bigger), and the groups it may go into are
those whose cuts are around this place (`Places`).  That a halving search over
groups, one of which may be empty for the moment, ends in these groups and
`get_insert_pos` names exactly these (`PlacesAre`) is the longest part: the interval of each
round is around the place, and it shrinks although the step past an empty
group compares a distance with a position.  `Belongs` says the same without cuts - groups before this one
hold smaller sizes, those behind it bigger ones - which makes it something that survives
when other items are taken.

`Tree` is a sorted sequence that holds the entries, with a cut; `Good` adds the root, the number of groups,
and that the count of a parent is not below its items; `Calm` is what a map between
two calls is like beyond that: no empty group, nothing dirty, no root with one child.  `IInv` is `Good`, `Calm` when no call is under
way, and for a waiting insertion what its locals still say of the tree after
allocations have taken blocks out of it (`AtList`, `AtRoot`, `AtSplit`, `AtLevel`): the group it holds on to is one its
size belongs into, and has a place unless the size is there already; a split is asked for only when
every group is full, so that the two halves have a place (`MapSplitHasRoom`).  At
most one group is empty at a time, since nothing is taken while one is (a bound of the model,
section 2).  Groups of two would not do: the allocations of a new root and of the split below it may
each take an item of the group that is to be split, and it must have one left to give to the
new group.  With three it has, which is why `BlockMapAssumption` asks for three.  TLC has checked `IInv` on every state of the run `map`.

The assumptions about one heap are those of `MultiHeap`: calls exclude each other, and the tree
is a set of entries.  The second is what the theorems about `BlockMap` say of two levels,
with the offsets of an item as a set, which the runs of `BlockList` support.

## 5. Only model-checked

`LockReleased` is a liveness property and out of the proof system's reach.
`BlockList` searches and walks trees of any height by recursion, and what its operators return
needs an induction over data, which is out of its reach, too; its runs check it with
trees of two and three levels.  In `BlockMap` two levels are all there is, loops are
functions of their rounds, and what they return is proved by a least counterexample (`LeastNumber`). Every other
property of a passing run is a theorem.  Some have a hypothesis on top of the
assumptions: one adder (`OneAdder`) or regular regions (`Regular`).

## 6. Where code and documentation disagree

Each is a run that ends in a counterexample.

* `trace_smaller_buffer`: `heap_trace_init_standalone` does not reset `count`, whose
  "maximum" is `total_records` by its comment.  Trace two allocations in an array of two
  records, stop, initialise with an array of one, resume: `count` is 2, the recorders never
  find the buffer full, and index behind the array.

* `map_largest_block`: `item_count` of a map also counts offsets that only went
  into a list, so `multi_heap_get_info` looks for its largest block behind the
  last item, finds none, and reports the unused end of the heap only.
* `caps_region_added_twice`: the overlap test of `heap_caps_add_region_with_caps`
  is made before the lock is taken.
* `blocklist_tall`: `parent_group_remove_item` updates the bounds of a parent and
  combines its child afterwards, which may free the group a bound points into.
  With three levels and the memory used again, the next removal compares an offset
  with what is written there and does not find it: a block that malloc has handed out
  stays in the list.  `mem_block_map.c:911-932` has the same order of calls.
* `boot_too_small`: a region smaller than the header of a heap is registered, the
  header is written behind it and `total_size` wraps.

Seen in earlier versions of the models or while reading, without a run of its own:

* Two adjacent free blocks can both stay in the map: `update_map` and `free` read the
  neighbours once, and removing the first from the map can free a group that lies
  behind the second.  `multi_heap_check` reports "free entries collide"; nothing is lost.
* An initialisation takes no lock, so it may put a shorter array, or none, between the steps of a
  recorder that saw `tracing` before it was stopped; the recorder then writes behind
  the array.  `RecordersInside` says nothing of this case.
* `trace_realloc` removes the record, or marks it as freed, before it knows whether the heap can resize
  the block (the exception in `LeaksKept` and `FreesMatch`).
* A stack heap is visible to all tasks before its lock is set (the exception in
  `OthersExclusive`).
* An insertion into a list that gets a new root, splits it, and is refused a
  second group below it returns false; `item->offset` keeps the old root, half of the
  tree (`mem_block_list.c:938-965`, `mem_block_map.c:318-322`).  `MayFailLate` shows it
  with three levels.
* `get_insert_pos` steps over empty groups at the end of a parent and may read
  behind the last child (`mem_block_list.c:436`, `mem_block_map.c:657`): seen with groups
  of three, three levels and refused allocations.
* `multi_heap_get_info` reports `heap->size` as `total_allocated_bytes`, which includes
  the free blocks below the end of the heap, and as `largest_free_block` a size with the
  block's tags and the reserve in it, so a malloc of that size fails
  (`multi_heap.h:171-172`).

## 7. Not modelled

| component | why |
|---|---|
| trees of three and more levels in `mem_block_map.c` | the code is that of `mem_block_list.c` with items for offsets; `BlockList` has them.  Together with items of lists the states are too many for TLC |
| `heap_caps_calloc`, queries, dumps, `multi_heap_check`, `multi_heap_get_info`'s copies, trace dumps | read, clear or print only |
| how level, child count and flags share one word | a conversion without a decision |
| reordering of stores by the compiler or between the cores | `HeapList` takes stores in program order |
| build files | no state |

What could come next: a parent of parents in `BlockMap`, for which `Cut` would have to nest;
`Complete` and `BlocksHold` without `Regular` for regions that become large enough
only when they are joined; and a proof that `HeapList`'s calls implement the steps of
`HeapCaps`, which so far rests on two properties of `HeapList`.
