------------------------------ MODULE HeapBoot ------------------------------
(***************************************************************************)
(* How memory becomes heaps: heap_caps_init and the regions added later    *)
(* (src/heap_caps_init.c), the header multi_heap_register writes into a    *)
(* region, and the width of the sums it and mem_block_calc_size form.      *)
(*                                                                         *)
(* The other modules start where this one ends: with a list of heaps, each *)
(* of which lies in its region, and with sizes that do not wrap.  One task *)
(* starts the system; what tasks do to the list at the same time is        *)
(* HeapList's.  Blocks are only taken from the end of a heap: what happens *)
(* to a block that is freed is MultiHeap's.                                *)
(***************************************************************************)
EXTENDS Integers, Sequences, FiniteSets

CONSTANTS
    Width,          \* sums of size_t are taken modulo Width, 2^32
    Header,         \* sizeof(multi_heap_t)
    Entry,          \* sizeof(heap_t)
    Tags,           \* 2 * sizeof(size_t), head and foot of a block
    Reserve,        \* the 512 bytes multi_heap_malloc leaves at the end
    SizeMax,        \* HEAP_SIZE_MAX
    Types,          \* soc_memory_types
    StartupStack,   \* the types with startup_stack
    Internal,       \* the types with MALLOC_CAP_8BIT|MALLOC_CAP_INTERNAL
    Merged,         \* the type -1 of a region that went into the next
    Layouts,        \* what soc_get_available_memory_regions may answer
    Memory,         \* soc_memory_regions
    Additions,      \* <<start, end>> of the regions the application adds
    Sizes,          \* sizes the application asks for
    MaxBlocks       \* bound: blocks handed out

Region == [start : 1 .. Width - 1, size : 1 .. SizeMax, type : Types]

\* The regions of a layout are in the order of the memory, on which the loop that joins
\* them rests, and the entries for all of them are not too much for one block
ASSUME BootAssumption ==
    /\ {Width, Header, Entry, Tags, Reserve, SizeMax, MaxBlocks} \subseteq Nat
    /\ Width % 16 = 0 /\ Header % 8 = 0 /\ Header > 0
    /\ Tags % 2 = 0 /\ Tags > 0 /\ Entry > 0
    /\ SizeMax + Tags + Reserve + 4 < Width
    /\ StartupStack \subseteq Types /\ Internal \subseteq Types /\ Merged \notin Types
    /\ Layouts \subseteq Seq(Region) /\ Memory \subseteq Region
    /\ \A l \in Layouts : \A k \in DOMAIN l : l[k].start + l[k].size < Width
    /\ \A l \in Layouts : \A k \in 2 .. Len(l) : l[k - 1].start + l[k - 1].size <= l[k].start
    /\ Entry <= SizeMax /\ \A l \in Layouts : Entry * Len(l) <= SizeMax
    /\ Additions \subseteq (1 .. Width - 1) \X (1 .. Width - 1)
    /\ Sizes \subseteq 0 .. Width - 1

VARIABLES
    layout,         \* the answer of soc_get_available_memory_regions
    pc,
    i,              \* the loops' index
    regions,        \* regions[]
    temp_heaps,     \* temp_heaps[], on the stack
    entries,        \* address -> heap_t
    list,           \* registered_heaps: the addresses of its entries
    used,           \* handle -> heap->size
    lock,           \* handle -> heap->lock: the entry whose heap_mux it is, or 0
    blocks          \* the blocks handed out

boot == <<layout, pc, i, regions>>
registered == <<temp_heaps, entries, list>>
memory == <<used, lock, blocks>>
vars == <<boot, registered, memory>>

-----------------------------------------------------------------------------
(* Arithmetic of size_t.  No sum or difference here is off by more than one *)
(* Width.                                                                   *)

Wrap(n) == IF n >= Width THEN n - Width ELSE IF n < 0 THEN n + Width ELSE n

AlignDown(n, a) == n - (n % a)

AlignUp(n, a) == IF n % a = 0 THEN n ELSE Wrap(n + (a - (n % a)))

\* mem_block_calc_size
BlockSize(size) == Wrap(AlignUp(size, 4) + Tags)

-----------------------------------------------------------------------------
(* One heap. *)

NoHeap == [at |-> 0, total |-> 0]

\* Fault: the end is taken for the size
HeapToEnd(head, size) ==
    LET offset == AlignUp(head, 8) IN [at |-> offset, total |-> AlignDown(size, 16)]

\* multi_heap_register: the handle, which is where the header is, and total_size.
\* The end is rounded from the aligned start and the whole size.
Heap(head, size) ==
    LET offset == AlignUp(head, 8)
        start  == Wrap(offset + Header)
        end    == AlignDown(Wrap(offset + size), 16)
    IN [at |-> offset, total |-> Wrap(end - start)]

\* A heap_t before its heap is registered, and after
Unregistered(start, end, type) == [start |-> start, end |-> end, type |-> type, heap |-> NoHeap]

WithHeap(e) == [e EXCEPT !.heap = Heap(e.start, e.end - e.start)]

Put(f, x, v) == [y \in DOMAIN f \cup {x} |-> IF y = x THEN v ELSE f[y]]

First(h) == h.at + Header + used[h.at]

\* multi_heap_malloc_protected, where nothing fits that was freed before
HasRoom(h, size) ==
    /\ size # 0
    /\ h.total - used[h.at] >= BlockSize(size)
    /\ h.total - used[h.at] >= Wrap(BlockSize(size) + Reserve)

Block(h, size) == [at |-> First(h), size |-> BlockSize(size), heap |-> h.at, asked |-> size]

\* mem_block_init: the head is half of the tags
Pointer(b) == b.at + Tags \div 2

\* multi_heap_malloc_direct
HandOut(h, size) ==
    /\ Cardinality(blocks) < MaxBlocks
    /\ used' = [used EXCEPT ![h.at] = @ + BlockSize(size)]
    /\ blocks' = blocks \cup {Block(h, size)}

-----------------------------------------------------------------------------
(* heap_caps_init *)

Init ==
    /\ layout \in Layouts
    /\ pc = "coalesce" /\ i = 2
    /\ regions = layout
    /\ temp_heaps = <<>> /\ list = <<>>
    /\ entries = [a \in {} |-> NoHeap]
    /\ used = [h \in {} |-> 0] /\ lock = [h \in {} |-> 0]
    /\ blocks = {}

\* Fault: the type is not looked at
JoinedAnyType(a, b) ==
    IF b.start = a.start + a.size
      THEN <<[a EXCEPT !.type = Merged], [start |-> a.start, size |-> a.size + b.size, type |-> b.type]>>
      ELSE <<a, b>>

\* Of two regions that meet and have the same type the second becomes both
Joined(a, b) ==
    IF b.start = a.start + a.size /\ b.type = a.type
      THEN <<[a EXCEPT !.type = Merged], [start |-> a.start, size |-> a.size + b.size, type |-> b.type]>>
      ELSE <<a, b>>

Coalesce ==
    /\ pc = "coalesce" /\ i <= Len(regions)
    /\ LET both == Joined(regions[i - 1], regions[i])
       IN regions' = [regions EXCEPT ![i - 1] = both[1], ![i] = both[2]]
    /\ i' = i + 1
    /\ UNCHANGED <<layout, pc, registered, memory>>

Goto(from, to, len) ==
    /\ pc = from /\ i > len
    /\ pc' = to /\ i' = 1
    /\ UNCHANGED <<layout, regions, registered, memory>>

\* register_heap asserts the size and writes an empty heap into the region; its lock
\* is not set here
Fresh(h) == used' = Put(used, h.at, 0) /\ lock' = Put(lock, h.at, 0)

RegisterRegion ==
    /\ pc = "register" /\ i <= Len(regions)
    /\ i' = i + 1
    /\ LET r == regions[i]
           e == Unregistered(r.start, r.start + r.size, r.type)
       IN \/ /\ r.type = Merged
             /\ UNCHANGED <<temp_heaps, used, lock>>
          \/ /\ r.type \in StartupStack
             /\ temp_heaps' = Append(temp_heaps, e)
             /\ UNCHANGED <<used, lock>>
          \/ /\ r.type \in Types \ StartupStack
             /\ r.size <= SizeMax
             /\ temp_heaps' = Append(temp_heaps, WithHeap(e))
             /\ Fresh(WithHeap(e).heap)
    /\ UNCHANGED <<layout, pc, regions, entries, list, blocks>>

\* heap_caps_match(.., MALLOC_CAP_8BIT|MALLOC_CAP_INTERNAL)
IsInternal(e) == e.heap # NoHeap /\ e.type \in Internal

ArraySize == Entry * Len(temp_heaps)

Candidates ==
    {k \in DOMAIN temp_heaps : IsInternal(temp_heaps[k]) /\ HasRoom(temp_heaps[k].heap, ArraySize)}

\* The entries move from the stack into the first heap that takes them; the code
\* asserts that there is one
AllocateArray ==
    /\ pc = "array"
    /\ \E k \in Candidates :
          /\ \A c \in Candidates : k <= c
          /\ HandOut(temp_heaps[k].heap, ArraySize)
          /\ LET array == Pointer(Block(temp_heaps[k].heap, ArraySize))
             IN entries' = [a \in {array + Entry * (n - 1) : n \in DOMAIN temp_heaps} |->
                               temp_heaps[CHOOSE n \in DOMAIN temp_heaps : a = array + Entry * (n - 1)]]
    /\ pc' = "publish" /\ i' = 1
    /\ UNCHANGED <<layout, regions, temp_heaps, list, lock>>

\* heaps_array + n - 1
Address(n) == (CHOOSE a \in DOMAIN entries : \A b \in DOMAIN entries : a <= b) + Entry * (n - 1)

Publish ==
    /\ pc = "publish" /\ i <= Len(temp_heaps)
    /\ LET a == Address(i)
       IN /\ list' = Append(list, a)
          /\ lock' = IF entries[a].heap = NoHeap THEN lock
                       ELSE [lock EXCEPT ![entries[a].heap.at] = a]
    /\ i' = i + 1
    /\ UNCHANGED <<layout, pc, regions, temp_heaps, entries, used, blocks>>

-----------------------------------------------------------------------------
(* The system runs. *)

\* heap_caps_enable_nonos_stack_heaps, one heap of the list
EnableStackHeap(a) ==
    /\ pc = "run" /\ entries[a].heap = NoHeap
    /\ LET e == WithHeap(entries[a])
       IN /\ e.end - e.start <= SizeMax
          /\ entries' = [entries EXCEPT ![a] = e]
          /\ used' = Put(used, e.heap.at, 0)
          /\ lock' = Put(lock, e.heap.at, a)
    /\ UNCHANGED <<boot, temp_heaps, list, blocks>>

\* Fault: no such test
AllowedAny(size) == TRUE

\* The first test of heap_caps_malloc
Allowed(size) == size <= SizeMax

Listed == {list[n] : n \in DOMAIN list}

\* heap_caps_malloc: which heap answers depends on the capabilities (HeapCaps)
Malloc(size) ==
    /\ pc = "run" /\ Allowed(size)
    /\ \E a \in Listed :
          /\ entries[a].heap # NoHeap
          /\ HasRoom(entries[a].heap, size)
          /\ HandOut(entries[a].heap, size)
    /\ UNCHANGED <<boot, registered, lock>>

Inside(from, to, e) == e.start <= from /\ to <= e.end

\* "All memory within the region .. must be otherwise unused": what lies in another
\* region is in a block of the caller's.  That it may overlap a region is what the
\* code tests.
Offered(s, e) ==
    \A a \in Listed :
        Inside(s, e, entries[a]) =>
            \E b \in blocks : /\ Pointer(b) \notin DOMAIN entries
                              /\ Inside(b.at, b.at + b.size, entries[a])
                              /\ Pointer(b) <= s /\ e <= Pointer(b) + b.asked

\* The test for overlaps: a region inside another one passes
Overlaps(s, e) ==
    \E a \in Listed : \/ s <= entries[a].start /\ e > entries[a].start
                      \/ s < entries[a].end /\ e > entries[a].end

\* heap_caps_add_region_with_caps, when it returns ESP_OK; before that it changes
\* nothing, or cannot fail
AddRegionWithCaps(type, s, e) ==
    /\ pc = "run" /\ s < e /\ Offered(s, e)
    /\ ~Overlaps(s, e)
    /\ \E a \in Listed :
          /\ IsInternal(entries[a]) /\ HasRoom(entries[a].heap, Entry)
          /\ Cardinality(blocks) < MaxBlocks
          /\ LET b == Block(entries[a].heap, Entry)
                 new == WithHeap(Unregistered(s, e, type))
                 grown == [used EXCEPT ![entries[a].heap.at] = @ + b.size]
             IN /\ entries' = Put(entries, Pointer(b), new)
                /\ list' = <<Pointer(b)>> \o list
                /\ blocks' = blocks \cup {b}
                /\ used' = Put(grown, new.heap.at, 0)
                /\ lock' = Put(lock, new.heap.at, Pointer(b))
    /\ UNCHANGED <<boot, temp_heaps>>

\* heap_caps_add_region: the start tells the capabilities
AddRegion(s, e) ==
    \E r \in Memory : /\ r.start <= s /\ s < r.start + r.size
                      /\ AddRegionWithCaps(r.type, s, e)

-----------------------------------------------------------------------------
Boot ==
    \/ Coalesce
    \/ Goto("coalesce", "register", Len(regions))
    \/ RegisterRegion
    \/ Goto("register", "array", Len(regions))
    \/ AllocateArray
    \/ Publish
    \/ Goto("publish", "run", Len(temp_heaps))

Next ==
    \/ Boot
    \/ \E a \in DOMAIN entries : EnableStackHeap(a)
    \/ \E size \in Sizes : Malloc(size)
    \/ \E a \in Additions :
          \/ AddRegion(a[1], a[2])
          \/ \E type \in Types : AddRegionWithCaps(type, a[1], a[2])

Spec == Init /\ [][Next]_vars

-----------------------------------------------------------------------------
Heaps == {entries[a] : a \in Listed}

BootEntry(k) == entries[list[Len(list) - Len(temp_heaps) + k]]

Span(r) == r.start .. r.start + r.size - 1

\* heap_caps_init leaves every byte of the available memory in exactly one heap, in
\* the order of the memory and with its own capabilities, and joins what can be
\* joined.  Each heap is locked with the mutex of its permanent entry: the entry on
\* the stack, where it was first registered, is gone.
Complete ==
    pc = "run" =>
        /\ \A t \in Types :
              UNION {BootEntry(k).start .. BootEntry(k).end - 1 :
                        k \in {k \in DOMAIN temp_heaps : BootEntry(k).type = t}}
              = UNION {Span(layout[k]) : k \in {k \in DOMAIN layout : layout[k].type = t}}
        /\ \A k \in 2 .. Len(temp_heaps) :
              /\ BootEntry(k - 1).end <= BootEntry(k).start
              /\ BootEntry(k - 1).end = BootEntry(k).start => BootEntry(k - 1).type # BootEntry(k).type
        /\ \A a \in Listed : entries[a].heap # NoHeap => lock[entries[a].heap.at] = a

\* A region with an aligned start and room for a header
Fits(e) == e.start % 8 = 0 /\ e.end - e.start >= Header + 8

Within(e) ==
    /\ e.start <= e.heap.at
    /\ e.heap.total >= 0 /\ e.heap.at + Header + e.heap.total <= e.end

Known == {temp_heaps[k] : k \in DOMAIN temp_heaps} \cup {entries[a] : a \in DOMAIN entries}

\* A heap, its header and the bytes it may hand out, lies in the region it was made
\* from, although its end is rounded from another address than its region's.
HeapsInside == \A e \in Known : e.heap # NoHeap /\ Fits(e) => Within(e)

\* A block has the bytes it was asked for, next to its tags, whatever size a caller
\* passes; it lies in its heap, behind the header, and overlaps no other of that heap.
BlocksHold ==
    \A b \in blocks :
        /\ b.asked + Tags <= b.size
        /\ \A e \in Heaps :
              e.heap.at = b.heap /\ Fits(e) =>
                  b.heap + Header <= b.at /\ b.at + b.size <= b.heap + Header + e.heap.total
        /\ \A c \in blocks \ {b} : c.heap = b.heap => b.at + b.size <= c.at \/ c.at + c.size <= b.at

\* What multi_heap.h and esp_heap_caps_init.h promise: a region that is too small for
\* the header of a heap is not made one.  multi_heap_register never answers NULL.
TooSmallRefused == \A e \in Heaps : e.heap # NoHeap => e.heap.at + Header <= e.end
=============================================================================
