------------------------------ MODULE HeapCaps ------------------------------
(***************************************************************************)
(* The capabilities allocator: src/heap_caps.c over the list of heaps of   *)
(* src/heap_caps_init.c.                                                   *)
(*                                                                         *)
(* Tasks walk the list without a lock, once for each priority, and try     *)
(* every heap that has the capabilities; a region added meanwhile goes to  *)
(* the head of the list, where no walk in progress meets it.  One call of  *)
(* a heap is one step (its lock), its answer is a free range or NULL, as   *)
(* Allocator promises.  Memory is counted in cells; the first cell of a    *)
(* region holds the heap's own header.  A block is marked with the task    *)
(* that owns its contents, or Junk.                                        *)
(***************************************************************************)
EXTENDS Integers, Sequences, FiniteSets, SequencesExt

CONSTANTS
    Tasks,
    Region,         \* heap -> [start, end, caps]; caps: a set for each priority
    BootList,       \* the heaps heap_caps_init registers, in the list's order
    StackHeaps,     \* of these, the ones that are not in use yet
    Diram,          \* heaps in memory that is mapped as DRAM and as IRAM
    MirrorBase,     \* IRAM address of the DRAM cell c is MirrorBase - c
    NoHeap,
    Junk,
    Adders,         \* tasks that add regions
    Requests,       \* sizes asked for, in cells
    Attempts,       \* sequences of capabilities, tried one after the other
    MaxHeld         \* bound: blocks a task holds at one time

\* The MALLOC_CAP_ flags; pid stands for the six that no chip uses
Capabilities == {"exec", "32bit", "8bit", "dma", "pid", "spiram", "internal", "default", "invalid"}

Heaps == DOMAIN Region
Cells == UNION {Region[h].start .. Region[h].end - 1 : h \in Heaps}

ASSUME RegionAssumption ==
    /\ NoHeap \notin Heaps
    /\ \A h \in Heaps : {Region[h].start, Region[h].end} \subseteq Nat \ {0} /\ Region[h].start < Region[h].end
    /\ \A h \in Heaps : Region[h].caps \in Seq(SUBSET Capabilities) \ {<<>>}
    /\ \A h, g \in Heaps : Len(Region[h].caps) = Len(Region[g].caps)
    /\ BootList \in Seq(Heaps) /\ BootList # <<>>
    /\ \A i, k \in DOMAIN BootList : i # k =>
          LET a == Region[BootList[i]]
              b == Region[BootList[k]]
          IN  a.end <= b.start \/ b.end <= a.start
    /\ MirrorBase \in Nat
    /\ \A c, d \in Cells : c < MirrorBase - d
    /\ Junk \notin Tasks
    /\ Requests \subseteq Nat \ {0}
    /\ Attempts \subseteq Seq(SUBSET Capabilities) \ {<<>>}
    /\ \A a \in Attempts : \A i \in DOMAIN a : a[i] # {}

VARIABLES
    list,           \* registered_heaps
    enabled,        \* heaps with heap->heap # NULL
    alloc,          \* heap -> address of an allocated block -> its cells
    stored,         \* IRAM address -> the word before it: a DRAM address
    data,           \* pointer -> whose contents the block has
    holds,          \* task -> pointer it holds -> the capabilities it asked for
    descriptors,    \* pointers to the heap_t of the added regions
    job             \* task -> the call it is in

heaps == <<list, enabled, descriptors>>
vars == <<heaps, alloc, stored, data, holds, job>>

NoJob == [op |-> "none", pc |-> "idle", old |-> 0, new |-> 0, size |-> 0, tries |-> <<>>,
          region |-> NoHeap, prio |-> 0, rest |-> 0, known |-> {}, refused |-> {}]

Nothing == [p \in {} |-> 0]
Without(f, p) == [q \in DOMAIN f \ {p} |-> f[q]]
With(f, p, v) == [q \in DOMAIN f \cup {p} |-> IF q = p THEN v ELSE f[q]]

Mirrored == {MirrorBase - c : c \in Cells}

Init ==
    /\ list = BootList
    /\ enabled = ToSet(BootList) \ StackHeaps
    /\ alloc = [h \in Heaps |-> Nothing]
    /\ stored = [p \in Mirrored |-> 0]
    /\ data = [p \in Cells \cup Mirrored |-> Junk]
    /\ holds = [t \in Tasks |-> Nothing]
    /\ descriptors = {}
    /\ job = [t \in Tasks |-> NoJob]

Prios == Len(Region[BootList[1]].caps)

\* get_all_caps
AllCaps(h) == UNION ToSet(Region[h].caps)

\* The address the heap knows the block by: heap_caps_free's look at the word
\* before an IRAM pointer
Dram(p) == IF p \in Mirrored THEN stored[p] ELSE p

Covers(h, p) == h \in enabled /\ Region[h].start <= p /\ p < Region[h].end

\* find_containing_heap: the first of the list
Containing(p) ==
    IF \E i \in DOMAIN list : Covers(list[i], p)
      THEN list[CHOOSE i \in DOMAIN list :
                  Covers(list[i], p) /\ \A k \in 1 .. i - 1 : ~Covers(list[k], p)]
      ELSE NoHeap

Goto(t, label) == job' = [job EXCEPT ![t].pc = label]
Idle(t) == job[t].pc = "idle"
Finish(t) == job' = [job EXCEPT ![t] = NoJob]

-----------------------------------------------------------------------------
(* heap_caps_malloc *)

\* heap_caps_malloc, and the default and prefer variants with several attempts
Malloc(t, n, tries) ==
    /\ Idle(t)
    /\ Cardinality(DOMAIN holds[t]) < MaxHeld
    /\ job' = [job EXCEPT ![t] =
                  [NoJob EXCEPT !.op = "malloc", !.pc = "try", !.size = n, !.tries = tries]]
    /\ UNCHANGED <<heaps, alloc, stored, data, holds>>

\* IRAM has neither of the two
Impossible(caps) == "exec" \in caps /\ caps \cap {"8bit", "dma"} # {}

Wanted(j) ==
    LET caps == Head(j.tries) IN IF "exec" \in caps THEN caps \cup {"32bit"} ELSE caps

\* One attempt begins; realloc first finds the heap of the block it is given
Try(t) ==
    /\ job[t].pc = "try"
    /\ IF job[t].op = "realloc" /\ Containing(Dram(job[t].old)) = NoHeap
         THEN Goto(t, "abort")
         ELSE IF Impossible(Head(job[t].tries))
         THEN Goto(t, "null")
         ELSE job' = [job EXCEPT ![t].pc = "walk", ![t].prio = 1, ![t].rest = Len(list),
                                 ![t].known = ToSet(list) \cap enabled, ![t].refused = {}]
    /\ UNCHANGED <<heaps, alloc, stored, data, holds>>

\* The heap a walk looks at; it counts from the end, which insertions leave alone
Here(j) == list[Len(list) - j.rest + 1]

\* Fault: one of the capabilities is enough
OverlapsCaps(h, prio, caps) == h \in enabled /\ Region[h].caps[prio] \cap caps # {}

\* Some of the capabilities at this priority, the others at any
Matches(h, prio, caps) ==
    /\ h \in enabled
    /\ Region[h].caps[prio] \cap caps # {}
    /\ caps \subseteq AllCaps(h)

\* Fault: the walk goes on behind the last heap
OnwardPastEnd(j) ==
    IF j.rest > 0 THEN [j EXCEPT !.rest = @ - 1]
    ELSE IF j.prio < Prios THEN [j EXCEPT !.prio = @ + 1, !.rest = Len(list)]
    ELSE [j EXCEPT !.pc = "null"]

\* Fault: the walks at the lower priorities are left out
OnwardFirstOnly(j) == IF j.rest > 1 THEN [j EXCEPT !.rest = @ - 1] ELSE [j EXCEPT !.pc = "null"]

\* The next heap, the list again for the next priority, or nothing usable
Onward(j) ==
    IF j.rest > 1 THEN [j EXCEPT !.rest = @ - 1]
    ELSE IF j.prio < Prios THEN [j EXCEPT !.prio = @ + 1, !.rest = Len(list)]
    ELSE [j EXCEPT !.pc = "null"]

Pass(t) ==
    /\ job[t].pc = "walk"
    /\ ~Matches(Here(job[t]), job[t].prio, Wanted(job[t]))
    /\ job' = [job EXCEPT ![t] = Onward(@)]
    /\ UNCHANGED <<heaps, alloc, stored, data, holds>>

Refuse(t) ==
    /\ job[t].pc = "walk"
    /\ Matches(Here(job[t]), job[t].prio, Wanted(job[t]))
    /\ job' = [job EXCEPT ![t] = Onward([job[t] EXCEPT !.refused = @ \cup {Here(job[t])}])]
    /\ UNCHANGED <<heaps, alloc, stored, data, holds>>

\* multi_heap_malloc of len cells: a range the heap has not given out
Fits(h, p, len) ==
    /\ Region[h].start < p
    /\ p + len <= Region[h].end
    /\ \A q \in DOMAIN alloc[h] : p + len <= q \/ q + alloc[h][q] <= p

\* An executable block in D/IRAM is longer, and known by its IRAM address: the
\* mapping runs backwards, the word below the IRAM address is the last of the block
Executable(h, caps) == "exec" \in caps /\ h \in Diram

Grant(t) ==
    LET j == job[t]
        h == Here(j)
        iram == Executable(h, Wanted(j))
        len == IF iram THEN j.size + 1 ELSE j.size
    IN  /\ j.pc = "walk"
        /\ Matches(h, j.prio, Wanted(j))
        /\ \E p \in Region[h].start .. Region[h].end - 1 :
             LET q == IF iram THEN MirrorBase - (p + len - 1) + 1 ELSE p
             IN  /\ Fits(h, p, len)
                 /\ alloc' = [alloc EXCEPT ![h] = With(@, p, len)]
                 /\ stored' = IF iram THEN [stored EXCEPT ![q] = p] ELSE stored
                 /\ job' = [job EXCEPT ![t].pc = "got", ![t].new = q]
        /\ UNCHANGED <<heaps, data, holds>>

\* The block is the caller's, who fills it
Return(t) ==
    /\ job[t].pc = "got"
    /\ job[t].op = "malloc"
    /\ holds' = [holds EXCEPT ![t] = With(@, job[t].new, Wanted(job[t]))]
    /\ data' = [data EXCEPT ![job[t].new] = t]
    /\ Finish(t)
    /\ UNCHANGED <<heaps, alloc, stored>>

\* NULL: the next attempt, or the caller gets it and keeps what it had
Null(t) ==
    /\ job[t].pc = "null"
    /\ IF Len(job[t].tries) > 1
         THEN job' = [job EXCEPT ![t].pc = "try", ![t].tries = Tail(@)]
         ELSE Finish(t)
    /\ UNCHANGED <<heaps, alloc, stored, data, holds>>

-----------------------------------------------------------------------------
(* heap_caps_free and heap_caps_realloc *)

\* multi_heap_free of the containing heap: the block there, if there is one
Release(p) == alloc' = [alloc EXCEPT ![Containing(Dram(p))] = Without(@, Dram(p))]

Scribble(p) ==
    /\ data' = [data EXCEPT ![p] = Junk]
    /\ stored' = IF p \in Mirrored THEN [stored EXCEPT ![p] = 0] ELSE stored

Free(t, p) ==
    /\ Idle(t)
    /\ IF Containing(Dram(p)) = NoHeap
         THEN Goto(t, "abort") /\ UNCHANGED <<alloc, stored, data, holds>>
         ELSE /\ Release(p)
              /\ Scribble(p)
              /\ holds' = [holds EXCEPT ![t] = Without(@, p)]
              /\ UNCHANGED job
    /\ UNCHANGED heaps

\* multi_heap_realloc returns NULL for every block, so it is malloc, copy, free
Realloc(t, p, n, tries) ==
    /\ Idle(t)
    /\ job' = [job EXCEPT ![t] = [NoJob EXCEPT !.op = "realloc", !.pc = "try", !.old = p,
                                               !.size = n, !.tries = tries]]
    /\ UNCHANGED <<heaps, alloc, stored, data, holds>>

\* Fault: the block is freed before it is copied
CopyFreed(t) ==
    /\ job[t].pc = "got"
    /\ job[t].op = "realloc"
    /\ Release(job[t].old)
    /\ Scribble(job[t].old)
    /\ Goto(t, "drop")
    /\ UNCHANGED <<heaps, holds>>

Copy(t) ==
    /\ job[t].pc = "got"
    /\ job[t].op = "realloc"
    /\ data' = [data EXCEPT ![job[t].new] = data[job[t].old]]
    /\ Goto(t, "drop")
    /\ UNCHANGED <<heaps, alloc, stored, holds>>

\* Fault: the old block is not given back
DropKept(t) ==
    /\ job[t].pc = "drop"
    /\ holds' = [holds EXCEPT ![t] = With(Without(@, job[t].old), job[t].new, Wanted(job[t]))]
    /\ Finish(t)
    /\ UNCHANGED <<heaps, alloc, stored, data>>

Drop(t) ==
    /\ job[t].pc = "drop"
    /\ IF Containing(Dram(job[t].old)) = NoHeap
         THEN Goto(t, "abort") /\ UNCHANGED <<alloc, stored, data, holds>>
         ELSE /\ Release(job[t].old)
              /\ Scribble(job[t].old)
              /\ holds' = [holds EXCEPT ![t] =
                              With(Without(@, job[t].old), job[t].new, Wanted(job[t]))]
              /\ Finish(t)
    /\ UNCHANGED heaps

-----------------------------------------------------------------------------
(* heap_caps_add_region_with_caps and heap_caps_enable_nonos_stack_heaps *)

\* The region cuts a registered one, or covers one
Overlaps(r) ==
    \E h \in ToSet(list) :
        \/ Region[r].start <= Region[h].start /\ Region[h].start < Region[r].end
        \/ Region[r].start < Region[h].end /\ Region[h].end < Region[r].end

\* The memory the caller offers: outside all heaps, or a block it holds
Offered(t, r) ==
    \/ \A h \in ToSet(list) : Region[r].end <= Region[h].start \/ Region[h].end <= Region[r].start
    \/ /\ Region[r].start \in DOMAIN holds[t]
       /\ LET h == Containing(Region[r].start)
          IN  alloc[h][Region[r].start] = Region[r].end - Region[r].start

\* The test for overlaps, then the descriptor is asked for
AddRegion(t, r) ==
    /\ Idle(t)
    /\ Offered(t, r)
    /\ ~Overlaps(r)
    /\ job' = [job EXCEPT ![t] = [NoJob EXCEPT !.op = "add", !.pc = "try", !.size = 1,
                                    !.tries = <<{"internal", "8bit"}>>, !.region = r]]
    /\ UNCHANGED <<heaps, alloc, stored, data, holds>>

\* Fault: the heap goes to the end of the list
Appended(r) == Append(list, r)

Inserted(r) == <<r>> \o list

\* The heap is initialised and put into the list; the memory is no longer the caller's
Insert(t) ==
    LET r == job[t].region
    IN  /\ job[t].pc = "got"
        /\ job[t].op = "add"
        /\ alloc' = [alloc EXCEPT ![r] = Nothing]
        /\ list' = Inserted(r)
        /\ enabled' = enabled \cup {r}
        /\ descriptors' = descriptors \cup {job[t].new}
        /\ holds' = [holds EXCEPT ![t] = Without(@, Region[r].start)]
        /\ Finish(t)
        /\ UNCHANGED <<stored, data>>

EnableStackHeap(h) ==
    /\ h \in ToSet(list) \ enabled
    /\ enabled' = enabled \cup {h}
    /\ UNCHANGED <<list, descriptors, alloc, stored, data, holds, job>>

-----------------------------------------------------------------------------

Step(t) ==
    \/ Try(t) \/ Pass(t) \/ Refuse(t) \/ Grant(t) \/ Return(t) \/ Null(t)
    \/ Copy(t) \/ Drop(t) \/ Insert(t)

Call(t) ==
    \/ \E n \in Requests, tries \in Attempts : Malloc(t, n, tries)
    \/ \E p \in DOMAIN holds[t] :
         \/ Free(t, p)
         \/ \E n \in Requests, tries \in Attempts : Realloc(t, p, n, tries)
    \/ t \in Adders /\ \E r \in Heaps \ ToSet(BootList) : AddRegion(t, r)

Next ==
    \/ \E t \in Tasks : Step(t) \/ Call(t)
    \/ \E h \in StackHeaps : EnableStackHeap(h)

Spec == Init /\ [][Next]_vars

-----------------------------------------------------------------------------
(* Types *)

Pointers == Cells \cup Mirrored

TypeOK ==
    /\ ToSet(list) \subseteq Heaps
    /\ enabled \subseteq ToSet(list)
    /\ \A h \in Heaps : DOMAIN alloc[h] \subseteq Cells
    /\ stored \in [Mirrored -> Cells \cup {0}]
    /\ data \in [Pointers -> Tasks \cup {Junk}]
    /\ \A t \in Tasks : DOMAIN holds[t] \subseteq Pointers
    /\ descriptors \subseteq Cells
    /\ \A t \in Tasks :
         /\ job[t].op \in {"none", "malloc", "realloc", "add"}
         /\ job[t].pc \in {"idle", "try", "walk", "got", "null", "drop", "abort"}
         /\ job[t].pc = "walk" => job[t].rest \in DOMAIN list /\ job[t].prio \in 1 .. Prios
         /\ job[t].new \in Pointers \cup {0}

\* What somebody has a pointer to; the block being resized is still held
InHand(t) == IF job[t].new = 0 THEN {} ELSE {job[t].new}
Known == descriptors \cup UNION {DOMAIN holds[t] \cup InHand(t) : t \in Tasks}

(* free() finds the heap a block came from, although regions nest and the    *)
(* newest one is searched first, and an IRAM address is none of a heap: so   *)
(* the assertions of heap_caps.c:271, 301 and 310 hold for every pointer     *)
(* that malloc gave out.                                                     *)
Findable ==
    /\ \A p \in Known :
         Containing(Dram(p)) # NoHeap /\ Dram(p) \in DOMAIN alloc[Containing(Dram(p))]
    /\ \A t \in Tasks : job[t].pc # "abort"

\* The memory of an added region, if it was a block before
Nested == {Region[h].start : h \in ToSet(list) \ ToSet(BootList)}

(* Nothing leaks: what the heaps have given out is known to somebody, is a   *)
(* descriptor, or has become a region of its own.  realloc that is refused,  *)
(* and one that moves the block, lose neither of the two.                    *)
NothingLost ==
    \A h \in ToSet(list) : DOMAIN alloc[h] \subseteq {Dram(p) : p \in Known} \cup Nested

(* What a task has written is there until it frees it: no other task is      *)
(* given the same cells, and realloc copies before it frees.                 *)
DataKept == \A t \in Tasks : \A p \in DOMAIN holds[t] : data[p] = t

(* A block has all the capabilities it was asked for, whichever attempt, and *)
(* an executable one in D/IRAM is known by an address code can run at.       *)
CapsKept ==
    \A t \in Tasks : \A p \in DOMAIN holds[t] :
        LET h == Containing(Dram(p))
        IN  /\ holds[t][p] \subseteq AllCaps(h)
            /\ Executable(h, holds[t][p]) <=> p \in Mirrored

\* The first priority at which the heap offers one of the capabilities
FirstPrio(h, caps) ==
    CHOOSE i \in 1 .. Prios :
        /\ Region[h].caps[i] \cap caps # {}
        /\ \A k \in 1 .. i - 1 : Region[h].caps[k] \cap caps = {}

(* NULL means that every heap with the capabilities refused, and a block of  *)
(* a lower priority that every heap of a higher one did - whatever was added *)
(* to the list during the walk.                                              *)
AskedInOrder ==
    \A t \in Tasks :
        \A h \in job[t].known :
            /\ job[t].pc \in {"got", "null"}
            /\ ~Impossible(Head(job[t].tries))
            /\ Wanted(job[t]) \subseteq AllCaps(h)
            /\ job[t].pc = "got" => FirstPrio(h, Wanted(job[t])) < job[t].prio
            => h \in job[t].refused

(* heap_caps_init.c:188: "the same region cannot be add twice".  Regions of  *)
(* the list are apart or one lies inside the other.                          *)
RegionsApart ==
    \A i, k \in DOMAIN list :
        i < k =>
            LET new == Region[list[i]]
                old == Region[list[k]]
            IN  \/ new.end <= old.start \/ old.end <= new.start
                \/ old.start < new.start /\ new.end <= old.end
=============================================================================
