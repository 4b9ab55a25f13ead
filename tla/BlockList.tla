----------------------------- MODULE BlockList -----------------------------
(***************************************************************************)
(* The offsets of one size in the map of free blocks: what is behind       *)
(* item->offset of a map item, a single offset or a list of them           *)
(* (mem_block_list.c), a cluster tree of any height.  The groups are       *)
(* records in a memory `mem`, as the bounds that a parent caches are       *)
(* pointers into it.                                                       *)
(*                                                                         *)
(* A group that is needed comes out of the heap whose free blocks the list *)
(* holds: the allocation may take an offset out of this list, through      *)
(* item->offset, while mem_block_list_add_offset is working on its own     *)
(* copy of the root.  Each allocation is a step of its own.                *)
(***************************************************************************)
EXTENDS Integers, FiniteSets, Sequences, SequencesExt

CONSTANTS
    Groups,      \* the addresses of groups
    Shapes       \* the builds and surroundings to check, of which one is chosen

(* A shape has CONFIG_HEAP_GROUP_SIZE, the offsets that free blocks of this   *)
(* size may have, a bound on the levels of groups that are granted, and what  *)
(* the heap around may do: take an offset out of this list in an allocation,  *)
(* refuse an allocation, refuse one in a call that has got a new root, give   *)
(* the memory of a freed group to somebody else.                              *)
(*                                                                            *)
(* Kconfig gives the group size no range.  With fewer than four items the     *)
(* allocations of one insertion can empty the list it works on.               *)
ASSUME BlockListAssumption ==
    /\ Groups \subseteq Nat \ {0}
    /\ \A s \in Shapes :
         /\ s.group_size \in Nat /\ s.group_size >= (IF s.take THEN 4 ELSE 2)
         /\ s.offsets \subseteq Nat \ {0}
         /\ s.max_level \in Nat /\ s.max_level >= 1
         /\ {s.take, s.fail, s.fail_late, s.reuse} \subseteq BOOLEAN

VARIABLES
    mem,       \* the memory of groups
    item,      \* [kind, at]: what item->offset of the map holds
    entries,   \* history: the offsets the heap has in the map
    pc,        \* where mem_block_list_add_offset is
    root,      \* its list.root
    stack,     \* its calls of parent_group_add_item, the innermost first
    job,       \* its other locals
    shape      \* the shape of this run, which never changes

vars == <<mem, item, entries, pc, root, stack, job, shape>>

GroupSize == shape.group_size
Offsets   == shape.offsets
MaxLevel  == shape.max_level
MayTake   == shape.take
MayFail   == shape.fail
MayFailLate == shape.fail_late
MayReuse  == shape.reuse

Null == [group |-> 0, pos |-> 0]

Free == [level |-> -1, items |-> <<>>, count |-> 0, first |-> Null, last |-> Null, dirty |-> FALSE]

NoItem == [kind |-> "none", at |-> 0]

NoJob == [offset |-> 0, again |-> FALSE, added |-> FALSE]

Init ==
    /\ mem = [g \in Groups |-> Free]
    /\ item = NoItem
    /\ entries = {}
    /\ pc = "idle"
    /\ root = 0
    /\ stack = <<>>
    /\ job = NoJob
    /\ shape \in Shapes

-----------------------------------------------------------------------------
(* Groups: level 0 holds offsets, the others hold groups, the number of       *)
(* items below them, and pointers to the first and the last of these.         *)

Leaf(items) == [Free EXCEPT !.level = 0, !.items = items]

Parent(level, children) == [Free EXCEPT !.level = level, !.items = children]

Live(m) == {g \in Groups : m[g].level >= 0}

ItemCount(m, g) == IF m[g].level = 0 THEN Len(m[g].items) ELSE m[g].count

FirstItem(m, g) ==
    IF m[g].level > 0 THEN m[g].first
    ELSE IF m[g].items = <<>> THEN Null ELSE [group |-> g, pos |-> 1]

LastItem(m, g) ==
    IF m[g].level > 0 THEN m[g].last
    ELSE IF m[g].items = <<>> THEN Null ELSE [group |-> g, pos |-> Len(m[g].items)]

(* Reading through a pointer.  Memory with another owner reads as 0. *)
Deref(m, p) ==
    IF m[p.group].level <= 0 /\ p.pos \in DOMAIN m[p.group].items THEN m[p.group].items[p.pos] ELSE 0

(* update_bounds: the bounds of the outermost children that have any. *)
WithBounds(m, g) ==
    LET children == m[g].items
        filled(Bound(_, _)) == SelectSeq([u \in DOMAIN children |-> Bound(m, children[u])],
                                         LAMBDA p : p # Null)
        firsts == filled(FirstItem)
        lasts  == filled(LastItem)
    IN  [m EXCEPT ![g].first = IF firsts = <<>> THEN Null ELSE Head(firsts),
                  ![g].last  = IF lasts = <<>> THEN Null ELSE Last(lasts)]

(* multi_heap_free_internal.  If nobody reuses it, memory that a bound still   *)
(* points to keeps its items.                                                 *)
PointedTo(m, g) ==
    \E h \in Live(m) : m[h].level > 0 /\ g \in {m[h].first.group, m[h].last.group}

Freed(m, g, items) ==
    LET freed == [m EXCEPT ![g] = Free]
    IN  IF MayReuse \/ ~PointedTo(freed, g) THEN freed ELSE [freed EXCEPT ![g].items = items]

(* The addresses an allocation may return. *)
Available(m) == {g \in Groups : m[g].level < 0 /\ (MayReuse \/ ~PointedTo(m, g))}

-----------------------------------------------------------------------------
(* Searching *)

(* The halving search of get_item_pos and get_insert_pos, past groups that    *)
(* are empty for the moment; positions count from 0 as in the code.           *)
Probe(m, g, offset) ==
    LET children == m[g].items
        n == Len(children)
        Result(hit, start, last) == [hit |-> hit, start |-> start, last |-> last]
        probe[start \in 0..n, end \in 0..n, empty \in -n..n, last \in 0..n] ==
          LET half  == (end - start) \div 2
              pos   == start + half + empty
              child == children[pos + 1]
              back  == IF empty < 0 THEN empty - 1 ELSE -1
          IN  CASE start >= end -> Result(FALSE, start, last)
                [] start < end /\ FirstItem(m, child) = Null ->
                     IF empty >= 0 /\ half + empty + 1 < end
                     THEN probe[start, end, empty + 1, pos]
                     ELSE IF half + back < start
                          THEN Result(FALSE, start, pos)
                          ELSE probe[start, end, back, pos]
                [] OTHER ->
                     IF Deref(m, FirstItem(m, child)) > offset THEN probe[start, pos, 0, pos]
                     ELSE IF Deref(m, LastItem(m, child)) < offset THEN probe[pos + 1, end, 0, pos]
                     ELSE Result(TRUE, pos, pos)
    IN  probe[0, n, 0, 0]

(* get_insert_pos: the child the offset belongs into, or the two it lies      *)
(* between.  It also looks for the offset itself (`exists`); what is added is *)
(* not in the list.                                                           *)
InsertPos(m, g, offset) ==
    LET n     == Len(m[g].items)
        found == Probe(m, g, offset)
        pos   == 1 + Min({found.start, n - 1})
        first == FirstItem(m, m[g].items[pos])
        last  == LastItem(m, m[g].items[pos])
    IN  IF found.hit THEN <<pos>>
        ELSE IF pos > 1 /\ (first = Null \/ Deref(m, first) >= offset) THEN <<pos - 1, pos>>
        ELSE IF pos < n /\ (last = Null \/ Deref(m, last) <= offset) THEN <<pos, pos + 1>>
        ELSE <<pos>>

(* get_item_at(0): by the counts of the children. *)
RECURSIVE LowestItem(_, _)
LowestItem(m, g) ==
    IF m[g].level = 0 THEN Head(m[g].items)
    ELSE LowestItem(m, SelectSeq(m[g].items, LAMBDA c : ItemCount(m, c) > 0)[1])

-----------------------------------------------------------------------------
(* Moving children between groups *)

RECURSIVE ChildCounts(_, _)
ChildCounts(m, children) ==
    IF children = <<>> THEN 0 ELSE ItemCount(m, Head(children)) + ChildCounts(m, Tail(children))

(* Fault: the children go in the same way to both sides. *)
MovedLast(m, g, from, to, n) ==
    LET src  == m[g].items[from]
        dst  == m[g].items[to]
        kept == Len(m[src].items) - n
    IN  [m EXCEPT ![dst].items = SubSeq(m[src].items, kept + 1, Len(m[src].items)) \o @,
                  ![src].items = SubSeq(@, 1, kept)]

(* move_children: the last n children of a group go to the front of the next  *)
(* one, or the first n to the end of the one before; groups take their counts *)
(* along.                                                                     *)
Moved(m, g, from, to, n) ==
    LET src   == m[g].items[from]
        dst   == m[g].items[to]
        all   == m[src].items
        kept  == Len(all) - n
        part  == IF from > to THEN SubSeq(all, 1, n) ELSE SubSeq(all, kept + 1, Len(all))
        rest  == IF from > to THEN SubSeq(all, n + 1, Len(all)) ELSE SubSeq(all, 1, kept)
        moved == [m EXCEPT ![dst].items = IF from > to THEN @ \o part ELSE part \o @,
                           ![src].items = rest]
        count == ChildCounts(m, part)
    IN  IF m[g].level = 1 THEN moved
        ELSE WithBounds(WithBounds([moved EXCEPT ![dst].count = @ + count, ![src].count = @ - count],
                                   dst), src)

(* get_nearest_space: of two children at the same distance the one before. *)
WithSpace(m, g, pos) == {u \in DOMAIN m[g].items \ {pos} : Len(m[m[g].items[u]].items) < GroupSize}

NearestSpace(m, g, pos) ==
    LET dist(u) == IF u < pos THEN pos - u ELSE u - pos
        near    == WithSpace(m, g, pos)
    IN  CHOOSE u \in near : \A v \in near :
            dist(u) < dist(v) \/ (dist(u) = dist(v) /\ u <= v)

(* shift_children with move_space: the free place wanders, child by child, to *)
(* the one that needs it, or to the one behind it.                            *)
Shifted(m, g, at) ==
    LET pos   == at[1]
        space == NearestSpace(m, g, pos)
        to    == IF Len(at) > 1 /\ space > pos THEN pos + 1 ELSE pos
    IN  IF space < to
        THEN FoldLeft(LAMBDA acc, u : Moved(acc, g, u + 1, u, 1), m,
                      [i \in 1..(to - space) |-> space + i - 1])
        ELSE FoldLeft(LAMBDA acc, u : Moved(acc, g, u - 1, u, 1), m,
                      [i \in 1..(space - to) |-> space - i + 1])

(* Fault: a group that is taken out of its parent is not given back. *)
WithoutChildKept(m, g, pos, items) == [m EXCEPT ![g].items = RemoveAt(@, pos)]

(* remove_group, of a child whose array holds these items. *)
WithoutChild(m, g, pos, items) ==
    Freed([m EXCEPT ![g].items = RemoveAt(@, pos)], m[g].items[pos], items)

(* Fault: one item too many is found to fit. *)
FitNearly(n, k) == n + k <= GroupSize + 1

FitTogether(n, k) == n + k <= GroupSize

(* combine_child: an empty child goes; one that fits into a neighbour is      *)
(* merged with it.  The bounds of the parent stay as they are.                *)
Combined(m, g, pos) ==
    LET items(u) == m[m[g].items[u]].items
        size(u)  == Len(items(u))
        Fits(u)  == u \in DOMAIN m[g].items /\ FitTogether(size(pos), size(u))
        Merged(from, to) == WithoutChild(Moved(m, g, from, to, size(from)), g, from, items(from))
    IN  IF size(pos) = 0 THEN WithoutChild(m, g, pos, <<>>)
        ELSE IF Fits(pos - 1) THEN Merged(pos, pos - 1)
        ELSE IF Fits(pos + 1) THEN Merged(pos + 1, pos)
        ELSE m

(* combine_children: a position is tried again when a group went. *)
AllCombined(m, g) ==
    FoldLeft(LAMBDA acc, i :
               LET c == Combined(acc.m, g, acc.pos)
               IN  [m |-> c, pos |-> IF c = acc.m THEN acc.pos + 1 ELSE acc.pos],
             [m |-> m, pos |-> 1], [i \in DOMAIN m[g].items |-> i]).m

-----------------------------------------------------------------------------
(* The list *)

(* Groups that are locked: those an insertion is in, and the root while a new *)
(* one is allocated.                                                          *)
Locked == {stack[i].group : i \in DOMAIN stack} \cup (IF pc = "root" THEN {root} ELSE {})

(* update_root: [mem, root], the root 0 if nothing is left. *)
RootUpdated(m, r, locked) ==
    LET n == Len(m[r].items)
    IN  IF r \in locked THEN [mem |-> m, root |-> r]
        ELSE IF m[r].level = 0
             THEN IF n = 0 THEN [mem |-> Freed(m, r, <<>>), root |-> 0] ELSE [mem |-> m, root |-> r]
        ELSE IF n > 1 THEN [mem |-> m, root |-> r]
        ELSE [mem |-> Freed(m, r, <<>>), root |-> m[r].items[1]]

(* mem_block_list_group_destroy *)
RECURSIVE Destroyed(_, _)
Destroyed(m, g) ==
    Freed(IF m[g].level = 0 THEN m ELSE FoldLeft(Destroyed, m, m[g].items), g, <<>>)

(* group_remove_item: [mem, found].  A parent merges the child that lost an   *)
(* item at once, or leaves that to the insertion that has it locked.          *)
RECURSIVE Removed(_, _, _, _)
Removed(m, g, offset, locked) ==
    LET found == Probe(m, g, offset)
        pos   == found.last + 1
        below == Removed(m, m[g].items[pos], offset, locked)
        left  == WithBounds([below.mem EXCEPT ![g].count = @ - 1], g)
        Not   == [mem |-> m, found |-> FALSE]
        Done(n) == [mem |-> n, found |-> TRUE]
    IN  IF m[g].level = 0
        THEN IF offset \in Range(m[g].items)
             THEN Done([m EXCEPT ![g].items = SelectSeq(@, LAMBDA o : o # offset)])
             ELSE Not
        ELSE IF ~found.hit THEN Not
        ELSE IF ~below.found THEN Not
        ELSE IF g \in locked THEN Done([left EXCEPT ![g].dirty = TRUE])
        ELSE Done(Combined(left, g, pos))

(* mem_block_map_item_group_remove_offset, of the item: [mem, item].  A list  *)
(* of one becomes a single offset, one of none takes the item with it.        *)
OffsetRemoved(m, offset, locked) ==
    LET removed == Removed(m, item.at, offset, locked)
        list    == RootUpdated(removed.mem, item.at, locked)
        count   == IF list.root = 0 THEN 0 ELSE ItemCount(list.mem, list.root)
    IN  IF item.kind # "list" THEN [mem |-> m, item |-> NoItem]
        ELSE IF ~removed.found THEN [mem |-> m, item |-> item]
        ELSE IF count > 1 THEN [mem |-> list.mem, item |-> [kind |-> "list", at |-> list.root]]
        ELSE IF count = 1
             THEN [mem  |-> Destroyed(list.mem, list.root),
                   item |-> [kind |-> "one", at |-> LowestItem(list.mem, list.root)]]
        ELSE [mem |-> list.mem, item |-> NoItem]

-----------------------------------------------------------------------------
(* Allocations of the list *)

(* The offset multi_heap_malloc_fit takes when it decides for this size. *)
Lowest == IF item.kind = "one" THEN item.at ELSE LowestItem(mem, item.at)

(* What multi_heap_malloc_internal may leave: nothing has changed, or an      *)
(* offset was taken out of this list.                                         *)
Elsewhere == [mem |-> mem, item |-> item, entries |-> entries]

Here ==
    LET left == OffsetRemoved(mem, Lowest, Locked)
    IN  [mem |-> left.mem, item |-> left.item, entries |-> entries \ {Lowest}]

Sources == {Elsewhere} \cup (IF MayTake /\ item # NoItem THEN {Here} ELSE {})

-----------------------------------------------------------------------------
(* mem_block_map_item_group_add_offset *)

Idle(m) ==
    /\ mem' = m /\ pc' = "idle" /\ root' = 0 /\ stack' = <<>> /\ job' = NoJob

(* Fault: the map keeps the root it had. *)
ListedAsBefore(m, r) ==
    IF item.kind = "one" THEN [mem |-> m, item |-> [kind |-> "list", at |-> r]]
    ELSE [mem |-> m, item |-> item]

(* The list is done; the item is looked up again, an allocation may have      *)
(* taken all it held.                                                         *)
Listed(m, r) ==
    IF item # NoItem /\ ItemCount(m, r) > 1
    THEN [mem |-> m, item |-> [kind |-> "list", at |-> r]]
    ELSE [mem |-> Destroyed(m, r), item |-> [kind |-> "one", at |-> job.offset]]

AddFirst(offset) ==
    /\ item = NoItem
    /\ item' = [kind |-> "one", at |-> offset]
    /\ entries' = entries \cup {offset}
    /\ UNCHANGED <<mem, pc, root, stack, job, shape>>

(* A second offset: the first one and the new one become a list. *)
AddSecond(offset) ==
    /\ item.kind = "one"
    /\ pc' = "create"
    /\ job' = [NoJob EXCEPT !.offset = offset]
    /\ UNCHANGED <<mem, item, entries, root, stack, shape>>

(* Insertion into the items of a group, in order. *)
WithOffset(items, offset) ==
    InsertAt(items, 1 + Cardinality({i \in DOMAIN items : items[i] < offset}), offset)

(* A call of parent_group_add_item: the children to try, and whether it may   *)
(* only split (`again`).                                                      *)
Frame(m, g, offset, again) ==
    LET at == InsertPos(m, g, offset)
    IN  [group |-> g, stage |-> IF again THEN "split" ELSE "try", at |-> at, left |-> at]

AddToRoot(offset) ==
    /\ item.kind = "list" /\ mem[item.at].level = 0
    /\ IF Len(mem[item.at].items) < GroupSize
       THEN /\ mem' = [mem EXCEPT ![item.at].items = WithOffset(@, offset)]
            /\ entries' = entries \cup {offset}
            /\ UNCHANGED <<pc, root, job>>
       ELSE /\ pc' = "root"
            /\ root' = item.at
            /\ job' = [NoJob EXCEPT !.offset = offset]
            /\ UNCHANGED <<mem, entries>>
    /\ UNCHANGED <<item, stack, shape>>

AddToTree(offset) ==
    /\ item.kind = "list" /\ mem[item.at].level > 0
    /\ pc' = "add"
    /\ root' = item.at
    /\ stack' = <<Frame(mem, item.at, offset, FALSE)>>
    /\ job' = [NoJob EXCEPT !.offset = offset]
    /\ UNCHANGED <<mem, item, entries, shape>>

(* What is added is not in the list: blocks become free once. *)
Add ==
    /\ pc = "idle"
    /\ \E offset \in Offsets \ entries :
           AddFirst(offset) \/ AddSecond(offset) \/ AddToRoot(offset) \/ AddToTree(offset)

CreateList ==
    /\ pc = "create" /\ Available(mem) # {}
    /\ \E s \in Sources : \E g \in Available(s.mem) :
        LET m == [s.mem EXCEPT ![g] = Leaf(SortSeq(<<item.at, job.offset>>, <))]
        IN  /\ IF s.item = NoItem
               THEN mem' = s.mem /\ item' = [kind |-> "one", at |-> job.offset]
               ELSE mem' = m /\ item' = [kind |-> "list", at |-> g]
            /\ entries' = s.entries \cup {job.offset}
    /\ pc' = "idle" /\ job' = NoJob
    /\ UNCHANGED <<root, stack, shape>>

CreateFails ==
    /\ pc = "create" /\ MayFail
    /\ Idle(mem)
    /\ UNCHANGED <<item, entries, shape>>

(* Fault: the new root counts what was there before it was allocated. *)
CountedBefore(m, child) == ItemCount(mem, child)

(* What parent_group_create_with_child counts. *)
CountedBelow(m, child) == ItemCount(m, child)

(* parent_group_create_with_child: the allocation first, then the bounds and  *)
(* the count of the child.                                                    *)
NewRoot ==
    /\ pc = "root" /\ Available(mem) # {} /\ mem[root].level < MaxLevel
    /\ \E s \in Sources : \E g \in Available(s.mem) :
        LET m == [s.mem EXCEPT ![g] = [Parent(s.mem[root].level + 1, <<root>>) EXCEPT
                                         !.count = CountedBelow(s.mem, root),
                                         !.first = FirstItem(s.mem, root),
                                         !.last  = LastItem(s.mem, root)]]
        IN  /\ mem' = m /\ item' = s.item /\ entries' = s.entries
            /\ root' = g
            /\ stack' = <<Frame(m, g, job.offset, TRUE)>>
    /\ pc' = "add"
    /\ job' = [job EXCEPT !.again = TRUE]
    /\ UNCHANGED shape

NewRootFails ==
    /\ pc = "root" /\ (MayFail \/ mem[root].level = MaxLevel)
    /\ Idle(RootUpdated(mem, root, {}).mem)
    /\ UNCHANGED <<item, entries, shape>>

-----------------------------------------------------------------------------
(* mem_block_list_parent_group_add_item, of the group on top of the stack *)

Top == stack[1]

Child == mem[Top.group].items[Top.left[1]]

Goto(frame) == stack' = <<frame>> \o Tail(stack)

Return(added) == pc' = "return" /\ job' = [job EXCEPT !.added = added]

(* Add to the next child: a group of items at once, a parent by a call. *)
TryItems ==
    /\ pc = "add" /\ Top.stage # "split" /\ Top.left # <<>> /\ mem[Child].level = 0
    /\ IF Len(mem[Child].items) < GroupSize
       THEN /\ mem' = [mem EXCEPT ![Child].items = WithOffset(@, job.offset)]
            /\ Return(TRUE)
            /\ UNCHANGED stack
       ELSE /\ Goto([Top EXCEPT !.left = Tail(@)])
            /\ UNCHANGED <<mem, pc, job>>
    /\ UNCHANGED <<item, entries, root, shape>>

TryParent ==
    /\ pc = "add" /\ Top.stage # "split" /\ Top.left # <<>> /\ mem[Child].level > 0
    /\ stack' = <<Frame(mem, Child, job.offset, Top.stage = "last")>>
                    \o <<[Top EXCEPT !.left = Tail(@)]>> \o Tail(stack)
    /\ UNCHANGED <<mem, item, entries, pc, root, job, shape>>

(* No child took it: make room among them, and try once more. *)
ShiftChildren ==
    /\ pc = "add" /\ Top.stage = "try" /\ Top.left = <<>>
    /\ IF WithSpace(mem, Top.group, Top.at[1]) = {}
       THEN Goto([Top EXCEPT !.stage = "split"]) /\ UNCHANGED mem
       ELSE LET m  == Shifted(mem, Top.group, Top.at)
                at == InsertPos(m, Top.group, job.offset)
            IN  mem' = m /\ Goto([Top EXCEPT !.stage = "shifted", !.at = at, !.left = at])
    /\ UNCHANGED <<item, entries, pc, root, job, shape>>

ShiftedInVain ==
    /\ pc = "add" /\ Top.stage = "shifted" /\ Top.left = <<>>
    /\ Goto([Top EXCEPT !.stage = "split"])
    /\ UNCHANGED <<mem, item, entries, pc, root, job, shape>>

MayFailNow == IF job.again THEN MayFailLate ELSE MayFail

(* split_child: a new child behind takes the last of the old one. *)
Split ==
    /\ pc = "add" /\ Top.stage = "split"
    /\ Len(mem[Top.group].items) < GroupSize /\ Available(mem) # {}
    /\ \E s \in Sources : \E g \in Available(s.mem) :
        LET pos == Top.at[1]
            new == Parent(s.mem[Top.group].level - 1, <<>>)
            m   == Moved([s.mem EXCEPT ![g] = new,
                                       ![Top.group].items = InsertAt(@, pos + 1, g)],
                         Top.group, pos, pos + 1, 1)
            at  == InsertPos(m, Top.group, job.offset)
        IN  /\ mem' = m /\ item' = s.item /\ entries' = s.entries
            /\ Goto([Top EXCEPT !.stage = "last", !.at = at, !.left = at])
    /\ UNCHANGED <<pc, root, job, shape>>

(* No child took it: the group is full, no memory for a new child, or the      *)
(* children could not take it after the split either.                         *)
GiveUp ==
    /\ pc = "add"
    /\ IF Top.stage = "last" THEN Top.left = <<>>
       ELSE /\ Top.stage = "split"
            /\ Len(mem[Top.group].items) < GroupSize => MayFailNow
    /\ Return(FALSE)
    /\ UNCHANGED <<mem, item, entries, root, stack, shape>>

(* Fault: what nested removals left is not tidied up. *)
LeftUntidy(m, g) == m

(* The end of the call: what removals inside it left is tidied up. *)
TidiedUp(m, g) ==
    IF m[g].dirty THEN [AllCombined(m, g) EXCEPT ![g].dirty = FALSE] ELSE m

Returned ==
    LET m == IF job.added THEN WithBounds([mem EXCEPT ![Top.group].count = @ + 1], Top.group)
             ELSE mem
    IN  TidiedUp(m, Top.group)

ReturnToParent ==
    /\ pc = "return" /\ Len(stack) > 1
    /\ mem' = Returned
    /\ stack' = Tail(stack)
    /\ pc' = IF job.added THEN "return" ELSE "add"
    /\ UNCHANGED <<item, entries, root, job, shape>>

(* The outermost call: the list is given to the map, or a new root is tried,  *)
(* once.                                                                      *)
ReturnToList ==
    /\ pc = "return" /\ Len(stack) = 1
    /\ LET list   == RootUpdated(Returned, root, {})
           listed == Listed(list.mem, list.root)
       IN  IF job.added
           THEN /\ Idle(listed.mem)
                /\ item' = listed.item
                /\ entries' = entries \cup {job.offset}
           ELSE /\ IF job.again THEN Idle(list.mem)
                   ELSE /\ mem' = list.mem /\ root' = list.root
                        /\ pc' = "root" /\ stack' = <<>> /\ UNCHANGED job
                /\ UNCHANGED <<item, entries>>
    /\ UNCHANGED shape

-----------------------------------------------------------------------------
(* mem_block_map_remove_offset, when no insertion is under way. *)
RemoveOffset ==
    /\ pc = "idle"
    /\ \E offset \in entries :
        LET left == OffsetRemoved(mem, offset, {})
        IN  /\ mem' = left.mem /\ item' = left.item
            /\ entries' = entries \ {offset}
    /\ UNCHANGED <<pc, root, stack, job, shape>>

Next ==
    \/ Add \/ RemoveOffset
    \/ CreateList \/ CreateFails \/ NewRoot \/ NewRootFails
    \/ TryItems \/ TryParent \/ ShiftChildren \/ ShiftedInVain
    \/ Split \/ GiveUp \/ ReturnToParent \/ ReturnToList

Spec == Init /\ [][Next]_vars

-----------------------------------------------------------------------------
(* Properties *)

RECURSIVE Leaves(_, _)
Leaves(m, g) ==
    IF m[g].level = 0 THEN m[g].items
    ELSE FlattenSeq([u \in DOMAIN m[g].items |-> Leaves(m, m[g].items[u])])

RECURSIVE Below(_, _)
Below(m, g) ==
    {g} \cup (IF m[g].level = 0 THEN {} ELSE UNION {Below(m, c) : c \in Range(m[g].items)})

Listing == IF item.kind = "list" THEN Leaves(mem, item.at)
           ELSE IF item.kind = "one" THEN <<item.at>> ELSE <<>>

(* Types, with the levels of the groups: every child is one level below its   *)
(* parent, by which the code decides how to read it.                          *)
TypeOK ==
    /\ item.kind \in {"none", "one", "list"}
    /\ item.kind = "list" => item.at \in Live(mem)
    /\ entries \subseteq Offsets
    /\ root \in Groups \cup {0}
    /\ pc \in {"idle", "create", "root", "add", "return"}
    /\ \A g \in Live(mem) :
           /\ mem[g].count \in Nat /\ mem[g].dirty \in BOOLEAN
           /\ Len(mem[g].items) <= GroupSize
           /\ mem[g].level > 0 =>
                 \A c \in Range(mem[g].items) : c \in Live(mem) /\ mem[c].level = mem[g].level - 1

(* What the map of the heap counts on (multi_heap.c:389): between calls the   *)
(* list holds the offsets that were added and not removed or taken since,     *)
(* although allocations take them out behind the back of the insertion.       *)
HoldsEntries == pc = "idle" => Range(Listing) = entries

(* The order all searches rely on: over all groups the offsets ascend, also   *)
(* when children were moved, split or merged in the middle of an insertion.   *)
Sorted ==
    LET list == IF root = 0 THEN Listing ELSE Leaves(mem, root)
    IN  \A i \in 2..Len(list) : list[i - 1] < list[i]

(* Between calls the groups in use are those of the tree: none was given      *)
(* back while the tree still leads to it, none is forgotten when groups are   *)
(* merged, a root is replaced or a list becomes a single offset again.        *)
GroupsOwned ==
    pc = "idle" => Live(mem) = (IF item.kind = "list" THEN Below(mem, item.at) ELSE {})

(* Between calls no group is empty or dirty, no root has a single child, and  *)
(* a list has two offsets at least (a search or get_item_at(0) in an empty    *)
(* group has no answer).                                                      *)
Tidy ==
    pc = "idle" =>
        /\ \A g \in Live(mem) : mem[g].items # <<>> /\ ~mem[g].dirty
        /\ item.kind = "list" =>
              /\ mem[item.at].level > 0 => Len(mem[item.at].items) > 1
              /\ Cardinality(entries) > 1

(* The count by which item_group_remove_offset decides that a list has become *)
(* a single offset is at most one ahead of the offsets: one may be taken      *)
(* through the old root while the new one is being split, and never behind.   *)
CountClose ==
    pc = "idle" /\ item.kind = "list" =>
        ItemCount(mem, item.at) - Cardinality(entries) \in {0, 1}

(* mem_block_list.c:5 calls a list "Sorted offsets of free memory-blocks with *)
(* the same size".  With groups above groups the code does not keep this: a   *)
(* block that is taken out of the map stays in the list.                      *)
OffsetsAreFree == pc = "idle" => Range(Listing) \subseteq entries

=============================================================================
