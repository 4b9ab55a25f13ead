------------------------------ MODULE BlockMap ------------------------------
(***************************************************************************)
(* The map of free blocks (mem_block_map.c): a cluster tree of items       *)
(* (size, offset or list of offsets), in groups of GroupSize items below   *)
(* at most one parent group.  The groups live in the heap the map          *)
(* describes.  Whenever the tree needs a group, the allocation may take a  *)
(* block out of the very tree that is being changed; each such call is a   *)
(* step of its own here, and what lies between two of them is one step.    *)
(*                                                                         *)
(* The list of offsets inside an item (mem_block_list.c) is the set of its *)
(* offsets; how many groups it asks for is left open.                      *)
(***************************************************************************)
EXTENDS Integers, FiniteSets, Sequences, SequencesExt

CONSTANTS
    GroupSize,   \* CONFIG_HEAP_GROUP_SIZE
    Sizes,       \* the sizes of free blocks
    Offsets,     \* for each size, the offsets that blocks of this size may have
    MaxDrift     \* bound: how far item_count may run ahead of the items

(* Kconfig gives the group size no range.  With fewer than three items a      *)
(* group can be emptied by the allocation of the group it is split into.      *)
ASSUME BlockMapAssumption ==
    /\ GroupSize \in Nat /\ GroupSize >= 3
    /\ Sizes \subseteq Nat \ {0}
    /\ \A s \in Sizes : Offsets[s] \subseteq Nat
    /\ MaxDrift \in Nat

VARIABLES
    map,       \* [root, groups, item_count, dirty]: the tree; item_count and
               \* dirty are those of the parent group
    entries,   \* history: the offsets of each size the map was given
    pc,        \* which group mem_block_map_add_offset is waiting for
    job        \* the locals of that call

vars == <<map, entries, pc, job>>

EmptyMap == [root |-> "none", groups |-> <<>>, item_count |-> 0, dirty |-> FALSE]

NoJob == [size |-> 0, offset |-> 0, at |-> 0, allocs |-> 0, again |-> FALSE]

Init ==
    /\ map = EmptyMap
    /\ entries = [s \in Sizes |-> {}]
    /\ pc = "idle"
    /\ job = NoJob

-----------------------------------------------------------------------------
(* Items and groups *)

Item(size, offsets) == [size |-> size, offsets |-> offsets]

First(offsets) == CHOOSE o \in offsets : \A p \in offsets : o <= p

Has(group, size) == \E i \in DOMAIN group : group[i].size = size

At(group, size) == CHOOSE i \in DOMAIN group : group[i].size = size

(* The binary search of mem_block_map_item_group_get_item_pos: the position   *)
(* of the size, or the last one that was looked at.                           *)
ItemStep(group, size, s) ==
    LET pos == s.start + (s.end - s.start) \div 2
    IN  IF s.start >= s.end THEN s
        ELSE IF group[pos].size > size THEN [start |-> s.start, end |-> pos, last |-> pos]
        ELSE IF group[pos].size < size THEN [start |-> pos + 1, end |-> s.end, last |-> pos]
        ELSE [start |-> pos, end |-> pos, last |-> pos]

ItemPos(group, size) ==
    LET n == Len(group)
        search[k \in 0..n] ==
            IF k = 0 THEN [start |-> 1, end |-> n + 1, last |-> 1]
            ELSE ItemStep(group, size, search[k - 1])
    IN  search[n].last

(* Insertion at the position of get_insert_pos, behind the smaller sizes. *)
WithItem(group, item) ==
    InsertAt(group, 1 + Cardinality({i \in DOMAIN group : group[i].size < item.size}), item)

-----------------------------------------------------------------------------
(* Searching the parent group *)

(* The search both parent_group_get_item_pos and get_insert_pos make: halving,  *)
(* past groups that are empty for the moment.  Positions count from 0 as in     *)
(* the code, whose tests compare distances with positions.                      *)
ProbeStep(groups, size, s) ==
    LET half  == (s.end - s.start) \div 2
        pos   == s.start + half + s.empty
        group == groups[pos + 1]
        back  == IF s.empty < 0 THEN s.empty - 1 ELSE -1
    IN  IF s.over \/ s.start >= s.end THEN s
        ELSE IF group = <<>> THEN
             IF s.empty >= 0 /\ half + s.empty + 1 < s.end
             THEN [s EXCEPT !.empty = @ + 1, !.last = pos]
             ELSE [s EXCEPT !.empty = back, !.last = pos, !.over = half + back < s.start]
        ELSE IF group[1].size > size THEN [s EXCEPT !.end = pos, !.empty = 0, !.last = pos]
        ELSE IF Last(group).size < size THEN [s EXCEPT !.start = pos + 1, !.empty = 0, !.last = pos]
        ELSE [s EXCEPT !.start = pos, !.last = pos, !.hit = TRUE, !.over = TRUE]

(* At most one group is empty here, so between two halvings one is passed at most. *)
Probe(groups, size) ==
    LET n == Len(groups)
        search[k \in 0..2 * n] ==
            IF k = 0 THEN [start |-> 0, end |-> n, empty |-> 0, last |-> 0, hit |-> FALSE, over |-> FALSE]
            ELSE ProbeStep(groups, size, search[k - 1])
    IN  search[2 * n]

(* parent_group_get_insert_pos: the group the size belongs into, or the two   *)
(* groups it lies between, as the set of their positions.                     *)
InsertPos(groups, size) ==
    LET n     == Len(groups)
        found == Probe(groups, size)
        pos   == 1 + Min({found.start, n - 1})
        group == groups[pos]
    IN  IF found.hit THEN {pos}
        ELSE IF pos > 1 /\ (group = <<>> \/ group[1].size >= size) THEN {pos - 1, pos}
        ELSE IF pos < n /\ (group = <<>> \/ Last(group).size <= size) THEN {pos, pos + 1}
        ELSE {pos}

(* The first group that can take the size, 0 if there is none (the loops of   *)
(* parent_group_add_offset_internal; a map with one group tries this one).    *)
Candidate(groups, size) ==
    LET able == {u \in InsertPos(groups, size) : Has(groups[u], size) \/ Len(groups[u]) < GroupSize}
    IN  IF able = {} THEN 0 ELSE Min(able)

-----------------------------------------------------------------------------
(* Moving items between groups *)

(* Fault: the items go in the same way to both sides. *)
MovedLastItems(groups, from, to, count) ==
    LET src  == groups[from]
        rest == Len(src) - count
    IN  [groups EXCEPT ![to]   = SubSeq(src, rest + 1, Len(src)) \o @,
                       ![from] = SubSeq(src, 1, rest)]

(* move_children: the last `count` items of a group go to the front of the    *)
(* next one, or the first ones to the end of the one before.                  *)
Moved(groups, from, to, count) ==
    LET src  == groups[from]
        rest == Len(src) - count
    IN  IF from > to
        THEN [groups EXCEPT ![to]   = @ \o SubSeq(src, 1, count),
                            ![from] = SubSeq(src, count + 1, Len(src))]
        ELSE [groups EXCEPT ![to]   = SubSeq(src, rest + 1, Len(src)) \o @,
                            ![from] = SubSeq(src, 1, rest)]

(* move_space: one item from each group to its neighbour, until the free place  *)
(* of group `from` has arrived in group `to`.                                   *)
SpaceMoved(groups, from, to) ==
    [u \in DOMAIN groups |->
        IF from < to /\ from <= u /\ u <= to
        THEN (IF u > from THEN Tail(groups[u]) ELSE groups[u])
             \o (IF u < to THEN <<groups[u + 1][1]>> ELSE <<>>)
        ELSE IF to < from /\ to <= u /\ u <= from
        THEN (IF u > to THEN <<Last(groups[u - 1])>> ELSE <<>>)
             \o (IF u < from THEN Front(groups[u]) ELSE groups[u])
        ELSE groups[u]]

(* get_nearest_space: of two groups at the same distance the one before. *)
WithSpace(groups, pos) == {u \in DOMAIN groups \ {pos} : Len(groups[u]) < GroupSize}

NearestSpace(groups, pos) ==
    LET dist(u) == IF u < pos THEN pos - u ELSE u - pos
        near    == WithSpace(groups, pos)
    IN  CHOOSE u \in near : \A v \in near :
            dist(u) < dist(v) \/ (dist(u) = dist(v) /\ u <= v)

(* Fault: the tree is split and grown without looking for free places. *)
ShiftedNever(groups, size) == groups

(* shift_children: make room in the group, or between the two groups, that    *)
(* the size belongs into.                                                     *)
Shifted(groups, size) ==
    LET at    == InsertPos(groups, size)
        pos   == Min(at)
        space == NearestSpace(groups, pos)
    IN  IF WithSpace(groups, pos) = {} THEN groups
        ELSE SpaceMoved(groups, space, IF Cardinality(at) > 1 /\ space > pos THEN pos + 1 ELSE pos)

(* split_child after its allocation: a new group behind takes the last item. *)
SplitAt(groups, pos) == Moved(InsertAt(groups, pos + 1, <<>>), pos, pos + 1, 1)

(* combine_child: an empty group goes; a group that fits into a neighbour is  *)
(* merged with it.                                                            *)
Combined(groups, pos) ==
    LET count   == Len(groups[pos])
        Fits(u) == u \in DOMAIN groups /\ count + Len(groups[u]) <= GroupSize
    IN  IF count = 0 THEN RemoveAt(groups, pos)
        ELSE IF Fits(pos - 1) THEN RemoveAt(Moved(groups, pos, pos - 1, count), pos)
        ELSE IF Fits(pos + 1)
             THEN RemoveAt(Moved(groups, pos + 1, pos, Len(groups[pos + 1])), pos + 1)
        ELSE groups

(* combine_children: a position is tried again when a group went. *)
CombineStep(s) ==
    LET groups == Combined(s.groups, s.pos)
    IN  [groups |-> groups, pos |-> IF groups = s.groups THEN s.pos + 1 ELSE s.pos]

AllCombined(groups) ==
    LET loop[k \in 0..Len(groups)] ==
            IF k = 0 THEN [groups |-> groups, pos |-> 1] ELSE CombineStep(loop[k - 1])
    IN  loop[Len(groups)].groups

-----------------------------------------------------------------------------
(* The whole tree *)

IsParent(t) == t.root = "parent"

Items(t) == FlattenSeq(t.groups)

(* update_root: an empty map has no group, a parent with one child gives way  *)
(* to it, and with it goes its count.                                         *)
RootUpdated(t) ==
    IF Items(t) = <<>> /\ ~IsParent(t) THEN EmptyMap
    ELSE IF IsParent(t) /\ Len(t.groups) <= 1
         THEN [EmptyMap EXCEPT !.root = "items", !.groups = t.groups]
    ELSE t

(* Fault: the parent does not count what was added below it. *)
CountedNot(t) == t

(* The end of an insertion: parent_group_add_offset counts what was added,    *)
(* also when only a list has grown, and tidies up what nested removals left;  *)
(* then the root is updated.                                                  *)
Counted(t) == IF IsParent(t) THEN [t EXCEPT !.item_count = @ + 1] ELSE t

(* Fault: what nested removals left is not tidied up. *)
ClosedUntidy(t) == RootUpdated(t)

Closed(t) ==
    RootUpdated(IF t.dirty THEN [t EXCEPT !.groups = AllCombined(@), !.dirty = FALSE] ELSE t)

(* item_group_remove_offset in the group the search finds: an item with one   *)
(* offset goes altogether.                                                    *)
Erased(groups, u, size, offset) ==
    LET group == groups[u]
        pos   == ItemPos(group, size)
        rest  == group[pos].offsets \ {offset}
    IN  [groups EXCEPT ![u] = IF Cardinality(group[pos].offsets) = 1
                              THEN RemoveAt(group, pos)
                              ELSE [group EXCEPT ![pos] = Item(size, rest)]]

(* Fault: an offset that leaves a list counts as an item. *)
VanishesAlways(t, size) == TRUE

(* Does removing an offset of this size remove the item? *)
Vanishes(t, size) ==
    \E item \in Range(Items(t)) : item.size = size /\ Cardinality(item.offsets) = 1

(* parent_group_remove_offset: groups are merged at once, unless an insertion *)
(* is under way (the group is locked), which will do it when it is through.   *)
Removed(t, size, offset, locked) ==
    LET found == Probe(t.groups, size)
        u     == found.last + 1
        gone  == Vanishes(t, size)
        left  == Erased(t.groups, u, size, offset)
    IN  IF ~found.hit THEN t
        ELSE IF ~IsParent(t) \/ ~gone THEN [t EXCEPT !.groups = left]
        ELSE IF locked
             THEN [t EXCEPT !.groups = left, !.item_count = @ - 1, !.dirty = TRUE]
             ELSE [t EXCEPT !.groups = Combined(left, u), !.item_count = @ - 1]

(* Fault: the iterator stays where the search ended. *)
FitFoundHere(t, size) ==
    LET u   == Probe(t.groups, size).last + 1
        pos == ItemPos(t.groups[u], size)
    IN  IF t.root = "none" \/ t.groups[u][pos].size < size THEN 0 ELSE t.groups[u][pos].size

(* The item multi_heap_malloc_fit decides for: mem_block_map_it_find stops at *)
(* the size or at the item it looked at last, and if that is too small        *)
(* mem_block_map_it_move_next goes to the one behind.  0 if there is none.    *)
FitFound(t, size) ==
    LET u     == Probe(t.groups, size).last + 1
        group == t.groups[u]
        pos   == ItemPos(group, size)
    IN  IF t.root = "none" THEN 0
        ELSE IF group[pos].size >= size THEN group[pos].size
        ELSE IF pos < Len(group) THEN group[pos + 1].size
        ELSE IF u < Len(t.groups) THEN t.groups[u + 1][1].size
        ELSE 0

(* multi_heap_get_info: the size of the item at item_count - 1, 0 without one.*)
LastReported(t) ==
    LET count == IF IsParent(t) THEN t.item_count ELSE Len(Items(t))
    IN  IF count \in DOMAIN Items(t) THEN Items(t)[count].size ELSE 0

-----------------------------------------------------------------------------
(* Allocations of the tree *)

(* multi_heap_malloc_internal finds a group in the buffer of freed offsets or *)
(* at the end of the heap (size 0), or takes a block out of this map: the     *)
(* first offset of an item.  Bounds: nothing is taken while a group is empty, *)
(* and a list that is being extended keeps two offsets, as it does by itself  *)
(* for groups of four or more.                                                *)
Contents(t) ==
    LET items == Range(Items(t))
    IN  [s \in Sizes |-> UNION {item.offsets : item \in {i \in items : i.size = s}}]

LastTwo(s) == pc = "list" /\ s = job.size /\ Cardinality(Contents(map)[s]) = 2

Sources ==
    {0} \cup {item.size : item \in {i \in Range(Items(map)) :
        /\ ~LastTwo(i.size)
        /\ \A u \in DOMAIN map.groups : map.groups[u] # <<>>}}

Without(s) == IF s = 0 THEN map ELSE Removed(map, s, First(Contents(map)[s]), TRUE)

Taken(s) ==
    IF s = 0 THEN entries ELSE [entries EXCEPT ![s] = @ \ {First(Contents(map)[s])}]

-----------------------------------------------------------------------------
(* mem_block_map_add_offset *)

Finish(t) == map' = Closed(t) /\ pc' = "idle" /\ job' = NoJob

Give(size, offset) == entries' = [entries EXCEPT ![size] = @ \cup {offset}]

WaitFor(group, t, new_job) == map' = t /\ pc' = group /\ job' = new_job /\ UNCHANGED entries

NewJob(size, offset, at) == [NoJob EXCEPT !.size = size, !.offset = offset, !.at = at]

(* An empty map gets its first group. *)
AddFirst(size, offset) ==
    /\ map.root = "none"
    /\ map' = [EmptyMap EXCEPT !.root = "items", !.groups = <<(<<Item(size, {offset})>>)>>]
    /\ Give(size, offset)
    /\ UNCHANGED <<pc, job>>

(* The groups in which the size is looked for at last: if it fits nowhere,    *)
(* after room was made next to its place.                                     *)
Roomy(groups, size) ==
    IF Candidate(groups, size) = 0 THEN Shifted(groups, size) ELSE groups

(* A new size, and room for it. *)
AddItem(size, offset) ==
    LET groups == Roomy(map.groups, size)
        u      == Candidate(groups, size)
        t      == [map EXCEPT !.groups = [groups EXCEPT ![u] = WithItem(@, Item(size, {offset}))]]
    IN  /\ map.root # "none" /\ u # 0 /\ ~Has(groups[u], size)
        /\ Finish(Counted(t))
        /\ Give(size, offset)

(* A size that is there: its group is locked and its offsets become a list,   *)
(* or the list grows; a list that may be full asks for up to two groups.      *)
ListAllocs(n) == IF n = 1 THEN {1} ELSE IF n < GroupSize THEN {0} ELSE 0..2

Drift == map.item_count - Len(Items(map))

AddToList(size, offset) ==
    LET u == Candidate(map.groups, size)
    IN  /\ map.root # "none" /\ u # 0 /\ Has(map.groups[u], size)
        /\ IsParent(map) => Drift < MaxDrift
        /\ \E n \in ListAllocs(Cardinality(Contents(map)[size])) :
               WaitFor("list", map, [NewJob(size, offset, u) EXCEPT !.allocs = n])

(* A new size and no room: a full map gets a parent group, a parent another   *)
(* child, and a full parent would get a parent itself.                        *)
AddDeeper(size, offset) ==
    LET groups == Roomy(map.groups, size)
        new    == NewJob(size, offset, Min(InsertPos(groups, size)))
        group  == IF ~IsParent(map) THEN "root"
                  ELSE IF Len(groups) < GroupSize THEN "split" ELSE "level"
    IN  /\ map.root # "none" /\ Candidate(groups, size) = 0
        /\ WaitFor(group, [map EXCEPT !.groups = groups], new)

Add ==
    /\ pc = "idle"
    /\ \E size \in Sizes : \E offset \in Offsets[size] \ entries[size] :
           \/ AddFirst(size, offset)
           \/ AddItem(size, offset)
           \/ AddToList(size, offset)
           \/ AddDeeper(size, offset)

(* item_group_add_offset: a group for the list; without one nothing is added. *)
GrowList ==
    /\ pc = "list" /\ job.allocs > 0
    /\ \E s \in Sources :
        /\ map' = Without(s)
        /\ entries' = Taken(s)
        /\ job' = [job EXCEPT !.allocs = @ - 1]
        /\ UNCHANGED pc

ListFails ==
    /\ pc = "list" /\ job.allocs > 0
    /\ Finish(map)
    /\ UNCHANGED entries

(* Fault: the item is not looked up again. *)
ListedThere(group, size, offset) ==
    [i \in DOMAIN group |->
        IF group[i].size = size THEN [group[i] EXCEPT !.offsets = @ \cup {offset}] ELSE group[i]]

(* The item is looked up again: an allocation may have taken all it held.     *)
Listed(group, size, offset) ==
    IF Has(group, size)
    THEN [group EXCEPT ![At(group, size)].offsets = @ \cup {offset}]
    ELSE WithItem(group, Item(size, {offset}))

ListGrown ==
    /\ pc = "list" /\ job.allocs = 0
    /\ Finish(Counted([map EXCEPT !.groups[job.at] = Listed(@, job.size, job.offset)]))
    /\ Give(job.size, job.offset)

(* parent_group_create_with_child; what is counted is what the allocation     *)
(* has left.                                                                  *)
NewRoot ==
    /\ pc = "root"
    /\ \E s \in Sources :
        LET t == Without(s)
        IN  /\ map' = [t EXCEPT !.root = "parent", !.item_count = Len(Items(t))]
            /\ entries' = Taken(s)
    /\ pc' = "split"
    /\ job' = [job EXCEPT !.again = TRUE]

(* What is not added below a new root is given up; in an old parent the next  *)
(* level is tried.                                                            *)
NotAdded(t) ==
    IF job.again THEN Finish(t)
    ELSE map' = Closed(t) /\ pc' = "level" /\ UNCHANGED job

(* parent_group_add_offset_internal from split_child on. *)
Split ==
    /\ pc = "split"
    /\ \E s \in Sources :
        LET t      == Without(s)
            groups == SplitAt(t.groups, job.at)
            u      == Candidate(groups, job.size)
            item   == Item(job.size, {job.offset})
        IN  IF u = 0
            THEN NotAdded([t EXCEPT !.groups = groups]) /\ entries' = Taken(s)
            ELSE /\ Finish(Counted([t EXCEPT !.groups = [groups EXCEPT ![u] = WithItem(@, item)]]))
                 /\ entries' = [Taken(s) EXCEPT ![job.size] = @ \cup {job.offset}]

SplitFails ==
    /\ pc = "split"
    /\ NotAdded(map)
    /\ UNCHANGED entries

(* No parent for the root.  Bound: a third level is never granted. *)
NoLevel ==
    /\ pc \in {"root", "level"}
    /\ Finish(map)
    /\ UNCHANGED entries

(* mem_block_map_remove_offset, when no insertion is under way. *)
RemoveOffset ==
    /\ pc = "idle"
    /\ \E size \in Sizes : \E offset \in entries[size] :
        /\ map' = RootUpdated(Removed(map, size, offset, FALSE))
        /\ entries' = [entries EXCEPT ![size] = @ \ {offset}]
    /\ UNCHANGED <<pc, job>>

Next ==
    \/ Add \/ RemoveOffset
    \/ GrowList \/ ListFails \/ ListGrown
    \/ NewRoot \/ Split \/ SplitFails \/ NoLevel

Spec == Init /\ [][Next]_vars

-----------------------------------------------------------------------------
(* Properties *)

Largest(t) == Last(Items(t)).size

(* Types.  A parent's item_count never falls below zero, though nested        *)
(* removals decrease it behind the insertion's back (mem_block_map.c:920).    *)
TypeOK ==
    /\ map.root \in {"none", "items", "parent"}
    /\ map.item_count \in Nat
    /\ map.dirty \in BOOLEAN
    /\ map.root = "items" => Len(map.groups) = 1
    /\ \A s \in Sizes : entries[s] \subseteq Offsets[s]
    /\ pc \in {"idle", "list", "root", "split", "level"}
    /\ job.at \in 0..Len(map.groups)

(* The order every search relies on (mem_block_map_check reports it broken):  *)
(* over all groups the sizes ascend, whatever was moved between them, and no  *)
(* group is written past its array.                                           *)
Ordered ==
    /\ LET items == Items(map)
       IN  \A i \in 2..Len(items) : items[i - 1].size < items[i].size
    /\ Len(map.groups) <= GroupSize
    /\ \A u \in DOMAIN map.groups : Len(map.groups[u]) <= GroupSize

(* The map holds what was added and not removed or taken, also in the middle  *)
(* of an insertion whose allocations change it: it is the set of entries the  *)
(* heap relies on (multi_heap.c:389).                                         *)
HoldsEntries == Contents(map) = entries

(* An insertion leaves no empty group and no superfluous root behind, however *)
(* many items were taken while it held the lock (mem_block_map.c:719-723).    *)
Tidy ==
    pc = "idle" =>
        /\ \A u \in DOMAIN map.groups : map.groups[u] # <<>>
        /\ ~map.dirty
        /\ IsParent(map) => Len(map.groups) > 1

(* The search of multi_heap_malloc_fit, a halving that stops next to the size *)
(* and one step of the iterator, finds the smallest block that is big enough. *)
FitIsBest ==
    pc = "idle" => \A size \in Sizes :
        LET enough == {s \in Sizes : s >= size /\ entries[s] # {}}
        IN  FitFound(map, size) = IF enough = {} THEN 0 ELSE Min(enough)

(* item_count may run ahead of the items, but never behind: the item that     *)
(* get_info takes for the largest is the largest, or there is none.           *)
ReportedIsLast ==
    pc = "idle" /\ map.root # "none" => LastReported(map) \in {0, Largest(map)}

(* The tree grows a level only when all its groups are full: shift_children   *)
(* finds every free place, wherever the new size belongs.                     *)
DeeperOnlyWhenFull ==
    pc = "level" => \A u \in DOMAIN map.groups : Len(map.groups[u]) = GroupSize

(* What multi_heap.h:172 says of largest_free_block, as far as the map goes:  *)
(* multi_heap_get_info finds the largest block of the map.  The code does not *)
(* keep this, because item_count also counts offsets added to lists.          *)
LargestReported ==
    pc = "idle" /\ map.root # "none" => LastReported(map) = Largest(map)

=============================================================================
