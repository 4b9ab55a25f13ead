------------------------------ MODULE Allocator ------------------------------
(***************************************************************************)
(* What a heap promises to the tasks that use it (src/include/multi_heap.h *)
(* malloc and free): a successful malloc returns a fresh range of bytes of *)
(* the region, at least as long as the request and padded only up to the   *)
(* next multiple of four; ranges that are allocated never overlap; nothing *)
(* but the owner's free changes an allocated range.  Everything the heap   *)
(* does to itself (headers, merging, the free-space map) is a stutter.     *)
(***************************************************************************)
EXTENDS Integers

CONSTANTS
    RegionStart,    \* first address of the region, a natural number
    RegionSize,     \* bytes in the region
    Requests        \* sizes a caller may ask for, none of them 0

VARIABLE
    alloc           \* address of an allocated range -> its length in bytes

Region == RegionStart .. (RegionStart + RegionSize - 1)

Disjoint(a, len, b, length) == a + len <= b \/ b + length <= a

Fresh(a, len) ==
    /\ a + len <= RegionStart + RegionSize
    /\ \A b \in DOMAIN alloc : Disjoint(a, len, b, alloc[b])

Init == alloc = [a \in {} |-> 0]

\* One range is new
Malloc(n) ==
    \E a \in Region \cap (DOMAIN alloc' \ DOMAIN alloc), len \in n .. (n + 3) :
        /\ Fresh(a, len)
        /\ alloc' = [b \in DOMAIN alloc \cup {a} |-> IF b = a THEN len ELSE alloc[b]]

Free(a) ==
    /\ a \in DOMAIN alloc
    /\ alloc' = [b \in DOMAIN alloc \ {a} |-> alloc[b]]

Next ==
    \/ \E n \in Requests : Malloc(n)
    \/ \E a \in DOMAIN alloc : Free(a)

Spec == Init /\ [][Next]_alloc
=============================================================================
