------------------------------ MODULE HeapList ------------------------------
(***************************************************************************)
(* The list of registered heaps and the locks of its heaps                 *)
(* (src/heap_caps_init.c, the SLIST macros, MULTI_HEAP_LOCK).              *)
(*                                                                         *)
(* Readers follow the links without any lock while regions are inserted at *)
(* the head and stack heaps are taken into use.  HeapCaps relies on what   *)
(* is checked here: the list only ever grows at its head, and the calls on *)
(* one heap exclude each other.                                            *)
(***************************************************************************)
EXTENDS Integers, Sequences, FiniteSets

CONSTANTS
    Tasks,
    BootHeaps,      \* sequence: what heap_caps_init put into the list
    StackHeaps,     \* of these, the ones it left without a heap
    Regions,        \* heaps to be added later
    Null

BootSet == {BootHeaps[i] : i \in DOMAIN BootHeaps}
Heaps == Regions \cup BootSet

ASSUME ListAssumption ==
    /\ BootHeaps \in Seq(BootSet) /\ BootHeaps # <<>>
    /\ \A i, j \in DOMAIN BootHeaps : BootHeaps[i] = BootHeaps[j] => i = j
    /\ IsFiniteSet(Regions)
    /\ Regions \cap BootSet = {}
    /\ StackHeaps \subseteq BootSet
    /\ Null \notin Heaps /\ Null \notin Tasks

VARIABLES
    first,          \* SLIST_FIRST
    next,           \* heap -> SLIST_NEXT
    ready,          \* heaps with heap->heap # NULL
    lock,           \* heaps whose multi_heap_set_lock was called
    mux,            \* heap -> the task in its critical section, or Null
    write_lock,     \* the task that holds registered_heaps_write_lock, or Null
    pc,
    at              \* the heap a task looks at

list == <<first, next>>
locks == <<lock, mux>>
vars == <<list, ready, locks, write_lock, pc, at>>

Init ==
    /\ first = BootHeaps[1]
    /\ next = [h \in Heaps |->
                  IF \E i \in 1 .. Len(BootHeaps) - 1 : BootHeaps[i] = h
                    THEN BootHeaps[1 + CHOOSE i \in 1 .. Len(BootHeaps) - 1 : BootHeaps[i] = h]
                    ELSE Null]
    /\ ready = Heaps \ (StackHeaps \cup Regions)
    /\ lock = ready
    /\ mux = [h \in Heaps |-> Null]
    /\ write_lock = Null
    /\ pc = [t \in Tasks |-> "idle"]
    /\ at = [t \in Tasks |-> Null]

\* The list as the links tell it
PathOf(head, link) ==
    LET f[n \in 0 .. Cardinality(Heaps)] ==
            IF n = 0 THEN <<head>>
            ELSE LET p == f[n - 1]
                     h == link[p[Len(p)]]
                 IN  IF h = Null THEN p ELSE Append(p, h)
    IN  f[Cardinality(Heaps)]

Path == PathOf(first, next)

Listed == {Path[i] : i \in DOMAIN Path}

Goto(t, label) == pc' = [pc EXCEPT ![t] = label]

-----------------------------------------------------------------------------
(* A walk over the list: malloc, free and the queries *)

Begin(t, label) ==
    /\ pc[t] = "idle"
    /\ at' = [at EXCEPT ![t] = first]
    /\ Goto(t, label)
    /\ UNCHANGED <<list, ready, locks, write_lock>>

\* SLIST_FOREACH goes on, or the walk ends
Onward(t, label) ==
    /\ at' = [at EXCEPT ![t] = next[at[t]]]
    /\ Goto(t, IF next[at[t]] = Null THEN "idle" ELSE label)
    /\ UNCHANGED <<list, ready, write_lock>>

Call(t) == Begin(t, "walk")

\* A heap that is not in use, or not what is looked for
Skip(t) ==
    /\ pc[t] = "walk"
    /\ Onward(t, "walk")
    /\ UNCHANGED locks

\* MULTI_HEAP_LOCK: nothing for a heap without a lock
Lock(t) ==
    /\ pc[t] = "walk"
    /\ at[t] \in ready
    /\ IF at[t] \in lock
         THEN mux[at[t]] = Null /\ mux' = [mux EXCEPT ![at[t]] = t]
         ELSE UNCHANGED mux
    /\ Goto(t, "inside")
    /\ UNCHANGED <<list, ready, lock, write_lock, at>>

\* MULTI_HEAP_UNLOCK looks at the lock again
Unlock(t) ==
    /\ pc[t] = "inside"
    /\ mux' = IF at[t] \in lock THEN [mux EXCEPT ![at[t]] = Null] ELSE mux
    /\ Onward(t, "walk")
    /\ UNCHANGED lock

-----------------------------------------------------------------------------
(* heap_caps_add_region_with_caps, once its descriptor is allocated *)

\* The heap is initialised; it is in nobody's list
Register(t, h) ==
    /\ pc[t] = "idle"
    /\ h \in Regions \ ready
    /\ ready' = ready \cup {h}
    /\ at' = [at EXCEPT ![t] = h]
    /\ Goto(t, "set_lock")
    /\ UNCHANGED <<list, locks, write_lock>>

\* Fault: the lock is set when the heap is in the list
SetLockLater(t) ==
    /\ pc[t] = "set_lock"
    /\ Goto(t, "insert")
    /\ UNCHANGED <<list, ready, locks, write_lock, at>>

SetLock(t) ==
    /\ pc[t] = "set_lock"
    /\ lock' = lock \cup {at[t]}
    /\ Goto(t, "insert")
    /\ UNCHANGED <<list, ready, mux, write_lock, at>>

\* Fault: the writers do not exclude each other
Unguarded == TRUE

Unlocked == write_lock = Null

\* Fault: the head is written before the link of the new heap
LinkNothing(t) ==
    /\ pc[t] = "insert"
    /\ Unlocked
    /\ write_lock' = t
    /\ Goto(t, "head")
    /\ UNCHANGED <<list, ready, locks, at>>

\* SLIST_INSERT_HEAD under the writers' lock: the link of the new heap ...
Link(t) ==
    /\ pc[t] = "insert"
    /\ Unlocked
    /\ write_lock' = t
    /\ next' = [next EXCEPT ![at[t]] = first]
    /\ Goto(t, "head")
    /\ UNCHANGED <<first, ready, locks, at>>

\* ... and then the head
SetFirst(t) ==
    /\ pc[t] = "head"
    /\ first' = at[t]
    /\ write_lock' = Null
    /\ at' = [at EXCEPT ![t] = Null]
    /\ Goto(t, "idle")
    /\ UNCHANGED <<next, ready, locks>>

-----------------------------------------------------------------------------
(* heap_caps_enable_nonos_stack_heaps *)

\* The start-up code calls it once
EnableStacks(t) ==
    /\ StackHeaps \cap ready = {}
    /\ \A u \in Tasks : pc[u] \notin {"enable", "enable_lock"}
    /\ Begin(t, "enable")

\* A heap that is in use already
SkipReady(t) ==
    /\ pc[t] = "enable"
    /\ at[t] \in ready
    /\ Onward(t, "enable")
    /\ UNCHANGED locks

\* register_heap writes heap->heap; from here on the walks see the heap
RegisterStack(t) ==
    /\ pc[t] = "enable"
    /\ at[t] \notin ready
    /\ ready' = ready \cup {at[t]}
    /\ Goto(t, "enable_lock")
    /\ UNCHANGED <<list, locks, write_lock, at>>

SetStackLock(t) ==
    /\ pc[t] = "enable_lock"
    /\ lock' = lock \cup {at[t]}
    /\ Onward(t, "enable")
    /\ UNCHANGED mux

-----------------------------------------------------------------------------

Next ==
    \E t \in Tasks :
        \/ Call(t) \/ Skip(t) \/ Lock(t) \/ Unlock(t)
        \/ \E h \in Regions : Register(t, h)
        \/ SetLock(t) \/ Link(t) \/ SetFirst(t)
        \/ EnableStacks(t) \/ SkipReady(t) \/ RegisterStack(t) \/ SetStackLock(t)

Spec == Init /\ [][Next]_vars

-----------------------------------------------------------------------------
(* Types *)

Labels == {"idle", "walk", "inside", "set_lock", "insert", "head", "enable", "enable_lock"}

TypeOK ==
    /\ first \in Heaps
    /\ next \in [Heaps -> Heaps \cup {Null}]
    /\ ready \subseteq Heaps
    /\ lock \subseteq ready
    /\ mux \in [Heaps -> Tasks \cup {Null}]
    /\ write_lock \in Tasks \cup {Null}
    /\ pc \in [Tasks -> Labels]
    /\ at \in [Tasks -> Heaps \cup {Null}]

(* The list only grows, and only at its head: no walk meets a heap twice or  *)
(* loses the way, and no insertion undoes another (the comment of            *)
(* heap_caps_init.c:226-228).                                                *)
GrowsAtHead == [][Path' = Path \/ \E h \in Heaps : Path' = <<h>> \o Path]_vars

(* A region that was added is in the list for good, once its call is over.   *)
Reachable == \A h \in ready : h \in Listed \/ \E t \in Tasks : at[t] = h

Inside(h) == {t \in Tasks : pc[t] = "inside" /\ at[t] = h}

(* The calls on one heap exclude each other: a region gets its lock before   *)
(* it gets into the list.                                                    *)
Exclusive(h) == Cardinality(Inside(h)) <= 1

OthersExclusive == \A h \in Heaps \ StackHeaps : Exclusive(h)
=============================================================================
