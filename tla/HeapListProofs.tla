--------------------------- MODULE HeapListProofs ---------------------------
(***************************************************************************)
(* The calls on one heap exclude each other, for any number of tasks,      *)
(* heaps and regions: what MULTI_HEAP_LOCK promises although it does       *)
(* nothing for a heap without a lock.  And the list of heaps, which is     *)
(* read without a lock, is always one path that grows at its head only.    *)
(***************************************************************************)
EXTENDS HeapList, LeastNumber, FiniteSetTheorems, SequenceTheorems, TLAPS

\* Heaps a walk may come to: those with a lock and those of the startup stacks
Safe == lock \cup StackHeaps

\* Everything the links lead to, and everything a walk looks at, is safe; a
\* writer links a heap after it has set the lock
SafeLinks ==
    /\ first \in Safe
    /\ \A h \in Heaps : next[h] \in Safe \cup {Null}
    /\ \A t \in Tasks :
         /\ pc[t] \in {"walk", "inside", "enable", "enable_lock"} => at[t] \in Safe
         /\ pc[t] = "enable_lock" => at[t] \in ready
         /\ pc[t] = "set_lock" => at[t] \in ready
         /\ pc[t] \in {"insert", "head"} => at[t] \in lock

\* A task inside a heap with a lock has it, but for the heaps of the stacks
LockHeld == \A t \in Tasks : pc[t] = "inside" /\ at[t] \notin StackHeaps => mux[at[t]] = t

ListInv == TypeOK /\ SafeLinks /\ LockHeld

LEMMA InitList == Init => ListInv
  <1> SUFFICES ASSUME Init
               PROVE  ListInv
    OBVIOUS
  <1>1. /\ Len(BootHeaps) \in Nat /\ Len(BootHeaps) > 0 /\ DOMAIN BootHeaps = 1 .. Len(BootHeaps)
        /\ \A i \in 1 .. Len(BootHeaps) : BootHeaps[i] \in BootSet
    BY ListAssumption DEF BootSet
  <1>2. BootSet \subseteq lock \cup StackHeaps /\ lock \subseteq Heaps /\ lock = ready
    BY ListAssumption DEF Init, Heaps
  <1>3. first \in BootSet
    BY <1>1 DEF Init
  <1>4. \A h \in Heaps : next[h] \in BootSet \cup {Null}
    <2> SUFFICES ASSUME NEW h \in Heaps
                 PROVE  next[h] \in BootSet \cup {Null}
      OBVIOUS
    <2> DEFINE Links == {i \in 1 .. Len(BootHeaps) - 1 : BootHeaps[i] = h}
               l == CHOOSE i \in 1 .. Len(BootHeaps) - 1 : BootHeaps[i] = h
    <2>1. CASE \E i \in 1 .. Len(BootHeaps) - 1 : BootHeaps[i] = h
      <3>1. l \in 1 .. Len(BootHeaps) - 1
        BY <2>1
      <3>2. next[h] = BootHeaps[1 + l]
        BY <2>1 DEF Init
      <3> HIDE DEF l
      <3>3. 1 + l \in 1 .. Len(BootHeaps)
        BY <3>1, <1>1
      <3> QED BY <3>2, <3>3, <1>1
    <2>2. CASE ~\E i \in 1 .. Len(BootHeaps) - 1 : BootHeaps[i] = h
      BY <2>2 DEF Init
    <2> QED BY <2>1, <2>2
  <1>5. TypeOK
    <2>1. next \in [Heaps -> Heaps \cup {Null}]
      BY <1>4 DEF Init, Heaps
    <2>2. \A t \in Tasks : pc[t] = "idle" /\ at[t] = Null
      BY DEF Init
    <2> QED BY <1>2, <1>3, <2>1 DEF Init, TypeOK, Heaps, Labels
  <1>6. SafeLinks
    BY <1>2, <1>3, <1>4 DEF Init, SafeLinks, Safe
  <1>7. LockHeld
    BY DEF Init, LockHeld
  <1> QED BY <1>5, <1>6, <1>7 DEF ListInv

-----------------------------------------------------------------------------
(* One lemma per action *)

\* Where the program counters of the other tasks stay
LEMMA OthersStay ==
    ASSUME TypeOK, NEW t \in Tasks, NEW label \in Labels, Goto(t, label)
    PROVE  /\ pc' \in [Tasks -> Labels]
           /\ pc'[t] = label
           /\ \A u \in Tasks \ {t} : pc'[u] = pc[u]
  BY DEF TypeOK, Goto

\* The links lead on to a safe heap, or the walk ends
LEMMA OnwardStep ==
    ASSUME ListInv, NEW t \in Tasks, NEW label \in {"walk", "enable"},
           pc[t] \in {"walk", "inside", "enable", "enable_lock"},
           Onward(t, label), lock \subseteq lock', lock' \subseteq ready,
           mux' \in [Heaps -> Tasks \cup {Null}],
           \A u \in Tasks \ {t} :
               pc[u] = "inside" /\ at[u] \notin StackHeaps => mux'[at[u]] = u
    PROVE  ListInv'
  <1>1. /\ at[t] \in Heaps /\ at' = [at EXCEPT ![t] = next[at[t]]]
        /\ next[at[t]] \in Heaps \cup {Null}
        /\ next[at[t]] = Null \/ next[at[t]] \in Safe
        /\ UNCHANGED <<first, next, ready, write_lock>>
    BY ListAssumption DEF ListInv, TypeOK, SafeLinks, Safe, Heaps, Onward, list
  <1>2. /\ at' \in [Tasks -> Heaps \cup {Null}] /\ at'[t] = next[at[t]]
        /\ \A u \in Tasks \ {t} : at'[u] = at[u]
    BY <1>1 DEF ListInv, TypeOK
  <1>3. /\ pc' \in [Tasks -> Labels] /\ pc'[t] \in {"idle", label}
        /\ pc'[t] = label => next[at[t]] # Null
        /\ \A u \in Tasks \ {t} : pc'[u] = pc[u]
    <2>1. Goto(t, IF next[at[t]] = Null THEN "idle" ELSE label)
      BY DEF Onward
    <2>2. (IF next[at[t]] = Null THEN "idle" ELSE label) \in Labels
      BY DEF Labels
    <2>3. label # "idle"
      OBVIOUS
    <2> QED BY <2>1, <2>2, <2>3, OthersStay DEF ListInv
  <1>4. TypeOK'
    BY <1>1, <1>2, <1>3 DEF ListInv, TypeOK
  <1>5. SafeLinks'
    <2>1. Safe \subseteq Safe'
      BY DEF Safe
    <2>2. \A u \in Tasks \ {t} :
            /\ pc'[u] \in {"walk", "inside", "enable", "enable_lock"} => at'[u] \in Safe'
            /\ pc'[u] = "enable_lock" => at'[u] \in ready'
            /\ pc'[u] = "set_lock" => at'[u] \in ready'
            /\ pc'[u] \in {"insert", "head"} => at'[u] \in lock'
      BY <1>1, <1>2, <1>3, <2>1 DEF ListInv, SafeLinks
    <2>3. pc'[t] \in {"walk", "enable", "idle"} /\ (pc'[t] # "idle" => at'[t] \in Safe')
      BY <1>1, <1>2, <1>3, <2>1
    <2> QED BY <1>1, <2>1, <2>2, <2>3 DEF ListInv, SafeLinks
  <1>6. LockHeld'
    BY <1>2, <1>3 DEF LockHeld
  <1> QED BY <1>4, <1>5, <1>6 DEF ListInv

LEMMA BeginStep ==
    ASSUME ListInv, NEW t \in Tasks, NEW label \in {"walk", "enable"}, Begin(t, label)
    PROVE  ListInv'
  <1>1. /\ at' = [at EXCEPT ![t] = first]
        /\ UNCHANGED <<first, next, ready, lock, mux, write_lock>>
    BY DEF Begin, list, locks
  <1>2. /\ pc' \in [Tasks -> Labels] /\ pc'[t] = label
        /\ \A u \in Tasks \ {t} : pc'[u] = pc[u]
    <2>1. label \in Labels
      BY DEF Labels
    <2> QED BY <2>1, OthersStay DEF ListInv, Begin
  <1>3. /\ at' \in [Tasks -> Heaps \cup {Null}] /\ at'[t] = first
        /\ \A u \in Tasks \ {t} : at'[u] = at[u]
    BY <1>1 DEF ListInv, TypeOK
  <1>4. TypeOK'
    BY <1>1, <1>2, <1>3 DEF ListInv, TypeOK
  <1>5. SafeLinks'
    BY <1>1, <1>2, <1>3 DEF ListInv, SafeLinks, Safe
  <1>6. LockHeld'
    BY <1>1, <1>2, <1>3 DEF ListInv, LockHeld
  <1> QED BY <1>4, <1>5, <1>6 DEF ListInv

LEMMA LockStep ==
    ASSUME ListInv, NEW t \in Tasks, Lock(t)
    PROVE  ListInv'
  <1>1. /\ pc[t] = "walk" /\ at[t] \in ready /\ at[t] \in Heaps /\ at[t] \in Safe
        /\ UNCHANGED <<first, next, ready, lock, write_lock, at>>
        /\ IF at[t] \in lock THEN mux[at[t]] = Null /\ mux' = [mux EXCEPT ![at[t]] = t]
                             ELSE mux' = mux
    BY DEF ListInv, TypeOK, SafeLinks, Lock, list
  <1>2. /\ pc' \in [Tasks -> Labels] /\ pc'[t] = "inside"
        /\ \A u \in Tasks \ {t} : pc'[u] = pc[u]
    <2>1. "inside" \in Labels
      BY DEF Labels
    <2> QED BY <2>1, OthersStay DEF ListInv, Lock
  <1>3. mux' \in [Heaps -> Tasks \cup {Null}]
    BY <1>1 DEF ListInv, TypeOK
  <1>4. TypeOK'
    BY <1>1, <1>2, <1>3 DEF ListInv, TypeOK
  <1>5. SafeLinks'
    BY <1>1, <1>2 DEF ListInv, SafeLinks, Safe
  <1>6. LockHeld'
    <2> SUFFICES ASSUME NEW u \in Tasks, pc'[u] = "inside", at[u] \notin StackHeaps
                 PROVE  mux'[at[u]] = u
      BY <1>1 DEF LockHeld
    <2>1. CASE u = t
      BY <2>1, <1>1 DEF ListInv, TypeOK, Safe
    <2>2. CASE u # t
      <3>1. pc[u] = "inside" /\ mux[at[u]] = u /\ u # Null
        BY <2>2, <1>2, ListAssumption DEF ListInv, LockHeld
      <3>2. at[u] \in Heaps
        BY <3>1, ListAssumption DEF ListInv, TypeOK, SafeLinks, Safe, Heaps
      <3> QED BY <3>1, <3>2, <1>1 DEF ListInv, TypeOK
    <2> QED BY <2>1, <2>2
  <1> QED BY <1>4, <1>5, <1>6 DEF ListInv

LEMMA SkipStep ==
    ASSUME ListInv, NEW t \in Tasks, Skip(t) \/ SkipReady(t)
    PROVE  ListInv'
  <1>1. lock' = lock /\ mux' = mux
    BY DEF Skip, SkipReady, locks
  <1>2. PICK label \in {"walk", "enable"} : Onward(t, label) /\ pc[t] = label
    BY DEF Skip, SkipReady
  <1>3. /\ lock \subseteq ready /\ mux \in [Heaps -> Tasks \cup {Null}]
        /\ \A u \in Tasks : pc[u] = "inside" /\ at[u] \notin StackHeaps => mux[at[u]] = u
    BY DEF ListInv, TypeOK, LockHeld
  <1> QED BY <1>1, <1>2, <1>3, OnwardStep

LEMMA UnlockStep ==
    ASSUME ListInv, NEW t \in Tasks, Unlock(t)
    PROVE  ListInv'
  <1>1. /\ pc[t] = "inside" /\ Onward(t, "walk") /\ lock' = lock
        /\ mux' = IF at[t] \in lock THEN [mux EXCEPT ![at[t]] = Null] ELSE mux
    BY DEF Unlock
  <1>2. lock \subseteq ready /\ mux' \in [Heaps -> Tasks \cup {Null}]
    BY <1>1 DEF ListInv, TypeOK
  <1>3. ASSUME NEW u \in Tasks \ {t}, pc[u] = "inside", at[u] \notin StackHeaps
        PROVE  mux'[at[u]] = u
    <2>1. mux[at[u]] = u /\ at[u] \in lock
      BY <1>3 DEF ListInv, LockHeld, SafeLinks, Safe
    <2>2. at[u] # at[t]
      <3>1. CASE at[t] \in StackHeaps
        BY <3>1, <1>3
      <3>2. CASE at[t] \notin StackHeaps
        BY <3>2, <1>1, <1>3, <2>1 DEF ListInv, LockHeld
      <3> QED BY <3>1, <3>2
    <2> QED BY <2>1, <2>2, <1>1 DEF ListInv, TypeOK
  <1> QED BY <1>1, <1>2, <1>3, OnwardStep

LEMMA RegisterStep ==
    ASSUME ListInv, NEW t \in Tasks, NEW h \in Regions, Register(t, h)
    PROVE  ListInv'
  <1>1. /\ pc[t] = "idle" /\ h \in Heaps /\ ready' = ready \cup {h} /\ at' = [at EXCEPT ![t] = h]
        /\ UNCHANGED <<first, next, lock, mux, write_lock>>
    BY DEF Register, list, locks, Heaps
  <1>2. /\ pc' \in [Tasks -> Labels] /\ pc'[t] = "set_lock"
        /\ \A u \in Tasks \ {t} : pc'[u] = pc[u]
    <2>1. "set_lock" \in Labels
      BY DEF Labels
    <2> QED BY <2>1, OthersStay DEF ListInv, Register
  <1>3. /\ at' \in [Tasks -> Heaps \cup {Null}] /\ at'[t] = h
        /\ \A u \in Tasks \ {t} : at'[u] = at[u]
    BY <1>1 DEF ListInv, TypeOK
  <1>4. TypeOK'
    BY <1>1, <1>2, <1>3 DEF ListInv, TypeOK
  <1>5. SafeLinks'
    BY <1>1, <1>2, <1>3 DEF ListInv, SafeLinks, Safe
  <1>6. LockHeld'
    BY <1>1, <1>2, <1>3 DEF ListInv, LockHeld
  <1> QED BY <1>4, <1>5, <1>6 DEF ListInv

LEMMA SetLockStep ==
    ASSUME ListInv, NEW t \in Tasks, SetLock(t)
    PROVE  ListInv'
  <1>1. /\ pc[t] = "set_lock" /\ at[t] \in ready /\ lock' = lock \cup {at[t]}
        /\ UNCHANGED <<first, next, ready, mux, write_lock, at>>
    BY DEF ListInv, SafeLinks, SetLock, list
  <1>2. /\ pc' \in [Tasks -> Labels] /\ pc'[t] = "insert"
        /\ \A u \in Tasks \ {t} : pc'[u] = pc[u]
    <2>1. "insert" \in Labels
      BY DEF Labels
    <2> QED BY <2>1, OthersStay DEF ListInv, SetLock
  <1>3. TypeOK'
    BY <1>1, <1>2 DEF ListInv, TypeOK
  <1>4. SafeLinks'
    BY <1>1, <1>2 DEF ListInv, SafeLinks, Safe
  <1>5. LockHeld'
    BY <1>1, <1>2 DEF ListInv, LockHeld
  <1> QED BY <1>3, <1>4, <1>5 DEF ListInv

LEMMA LinkStep ==
    ASSUME ListInv, NEW t \in Tasks, Link(t)
    PROVE  ListInv'
  <1>1. /\ pc[t] = "insert" /\ at[t] \in lock /\ next' = [next EXCEPT ![at[t]] = first]
        /\ write_lock' = t
        /\ UNCHANGED <<first, ready, lock, mux, at>>
    BY DEF ListInv, SafeLinks, Link, locks
  <1>2. /\ pc' \in [Tasks -> Labels] /\ pc'[t] = "head"
        /\ \A u \in Tasks \ {t} : pc'[u] = pc[u]
    <2>1. "head" \in Labels
      BY DEF Labels
    <2> QED BY <2>1, OthersStay DEF ListInv, Link
  <1>3. /\ next' \in [Heaps -> Heaps \cup {Null}]
        /\ \A h \in Heaps : next'[h] = next[h] \/ next'[h] = first
    BY <1>1 DEF ListInv, TypeOK
  <1>4. TypeOK'
    BY <1>1, <1>2, <1>3 DEF ListInv, TypeOK
  <1>5. SafeLinks'
    BY <1>1, <1>2, <1>3 DEF ListInv, SafeLinks, Safe
  <1>6. LockHeld'
    BY <1>1, <1>2 DEF ListInv, LockHeld
  <1> QED BY <1>4, <1>5, <1>6 DEF ListInv

LEMMA SetFirstStep ==
    ASSUME ListInv, NEW t \in Tasks, SetFirst(t)
    PROVE  ListInv'
  <1>1. /\ pc[t] = "head" /\ at[t] \in lock /\ first' = at[t] /\ write_lock' = Null
        /\ at' = [at EXCEPT ![t] = Null]
        /\ UNCHANGED <<next, ready, lock, mux>>
    BY DEF ListInv, SafeLinks, SetFirst, locks
  <1>2. /\ pc' \in [Tasks -> Labels] /\ pc'[t] = "idle"
        /\ \A u \in Tasks \ {t} : pc'[u] = pc[u]
    <2>1. "idle" \in Labels
      BY DEF Labels
    <2> QED BY <2>1, OthersStay DEF ListInv, SetFirst
  <1>3. /\ at' \in [Tasks -> Heaps \cup {Null}] /\ at'[t] = Null
        /\ \A u \in Tasks \ {t} : at'[u] = at[u]
    BY <1>1 DEF ListInv, TypeOK
  <1>4. TypeOK'
    BY <1>1, <1>2, <1>3 DEF ListInv, TypeOK
  <1>5. SafeLinks'
    BY <1>1, <1>2, <1>3 DEF ListInv, SafeLinks, Safe
  <1>6. LockHeld'
    BY <1>1, <1>2, <1>3 DEF ListInv, LockHeld
  <1> QED BY <1>4, <1>5, <1>6 DEF ListInv

LEMMA RegisterStackStep ==
    ASSUME ListInv, NEW t \in Tasks, RegisterStack(t)
    PROVE  ListInv'
  <1>1. /\ pc[t] = "enable" /\ at[t] \in Safe /\ at[t] \in Heaps /\ ready' = ready \cup {at[t]}
        /\ UNCHANGED <<first, next, lock, mux, write_lock, at>>
    <2>1. at[t] \in Safe /\ lock \subseteq Heaps
      BY DEF ListInv, TypeOK, SafeLinks, RegisterStack
    <2> QED BY <2>1, ListAssumption DEF RegisterStack, Safe, Heaps, list, locks
  <1>2. /\ pc' \in [Tasks -> Labels] /\ pc'[t] = "enable_lock"
        /\ \A u \in Tasks \ {t} : pc'[u] = pc[u]
    <2>1. "enable_lock" \in Labels
      BY DEF Labels
    <2> QED BY <2>1, OthersStay DEF ListInv, RegisterStack
  <1>3. TypeOK'
    BY <1>1, <1>2 DEF ListInv, TypeOK
  <1>4. SafeLinks'
    BY <1>1, <1>2 DEF ListInv, SafeLinks, Safe
  <1>5. LockHeld'
    BY <1>1, <1>2 DEF ListInv, LockHeld
  <1> QED BY <1>3, <1>4, <1>5 DEF ListInv

LEMMA SetStackLockStep ==
    ASSUME ListInv, NEW t \in Tasks, SetStackLock(t)
    PROVE  ListInv'
  <1>1. /\ pc[t] = "enable_lock" /\ Onward(t, "enable") /\ lock' = lock \cup {at[t]} /\ mux' = mux
    BY DEF SetStackLock
  <1>2. /\ lock \subseteq lock' /\ lock' \subseteq ready
        /\ mux' \in [Heaps -> Tasks \cup {Null}]
        /\ \A u \in Tasks : pc[u] = "inside" /\ at[u] \notin StackHeaps => mux'[at[u]] = u
    BY <1>1 DEF ListInv, TypeOK, SafeLinks, LockHeld
  <1> QED BY <1>1, <1>2, OnwardStep

-----------------------------------------------------------------------------

(* ListInv is an invariant: no walk reaches a region before its lock is set. *)
THEOREM ListInvariant == Spec => []ListInv
  <1>1. ListInv /\ [Next]_vars => ListInv'
    <2> SUFFICES ASSUME ListInv, [Next]_vars
                 PROVE  ListInv'
      OBVIOUS
    <2>1. CASE UNCHANGED vars
      BY <2>1 DEF vars, list, locks, ListInv, TypeOK, SafeLinks, Safe, LockHeld
    <2>2. CASE Next
      <3>1. PICK t \in Tasks :
              \/ Call(t) \/ Skip(t) \/ Lock(t) \/ Unlock(t)
              \/ \E h \in Regions : Register(t, h)
              \/ SetLock(t) \/ Link(t) \/ SetFirst(t)
              \/ EnableStacks(t) \/ SkipReady(t) \/ RegisterStack(t) \/ SetStackLock(t)
        BY <2>2 DEF Next
      <3>2. CASE Call(t) \/ EnableStacks(t)
        BY <3>2, BeginStep DEF Call, EnableStacks
      <3>3. CASE Skip(t) \/ SkipReady(t)
        BY <3>3, SkipStep
      <3>4. CASE Lock(t)
        BY <3>4, LockStep
      <3>5. CASE Unlock(t)
        BY <3>5, UnlockStep
      <3>6. CASE \E h \in Regions : Register(t, h)
        BY <3>6, RegisterStep
      <3>7. CASE SetLock(t)
        BY <3>7, SetLockStep
      <3>8. CASE Link(t)
        BY <3>8, LinkStep
      <3>9. CASE SetFirst(t)
        BY <3>9, SetFirstStep
      <3>10. CASE RegisterStack(t)
        BY <3>10, RegisterStackStep
      <3>11. CASE SetStackLock(t)
        BY <3>11, SetStackLockStep
      <3> QED BY <3>1, <3>2, <3>3, <3>4, <3>5, <3>6, <3>7, <3>8, <3>9, <3>10, <3>11
    <2> QED BY <2>1, <2>2
  <1> QED BY InitList, <1>1, PTL DEF Spec

(* For any number of tasks and regions at most one task is inside a heap,    *)
(* the heaps of the startup stacks excepted.                                 *)
THEOREM MutualExclusion == Spec => []OthersExclusive
  <1>1. ListInv => OthersExclusive
    <2> SUFFICES ASSUME ListInv, NEW h \in Heaps \ StackHeaps
                 PROVE  Cardinality(Inside(h)) <= 1
      BY DEF OthersExclusive, Exclusive
    <2>1. \A t, u \in Inside(h) : t = u
      BY DEF Inside, ListInv, LockHeld
    <2>2. CASE Inside(h) = {}
      BY <2>2, FS_EmptySet
    <2>3. CASE Inside(h) # {}
      <3>1. PICK t \in Inside(h) : Inside(h) = {t}
        BY <2>1, <2>3
      <3>2. Cardinality({t}) = 1
        BY FS_Singleton
      <3> QED BY <3>1, <3>2
    <2> QED BY <2>2, <2>3
  <1> QED BY ListInvariant, <1>1, PTL

-----------------------------------------------------------------------------
(* The path the links describe *)

\* The heaps of p in the order the links give them, each once
IsPath(p, head, link) ==
    /\ p \in Seq(Heaps)
    /\ Len(p) > 0
    /\ \A i, j \in 1 .. Len(p) : p[i] = p[j] => i = j
    /\ p[1] = head
    /\ \A i \in 1 .. Len(p) : link[p[i]] = IF i = Len(p) THEN Null ELSE p[i + 1]

LEMMA HeapsFinite ==
    /\ IsFiniteSet(Heaps)
    /\ Cardinality(Heaps) \in Nat
  <1>1. Len(BootHeaps) \in Nat /\ DOMAIN BootHeaps = 1 .. Len(BootHeaps)
    BY ListAssumption
  <1>2. BootHeaps \in Surjection(1 .. Len(BootHeaps), BootSet)
    <2>1. BootHeaps \in [1 .. Len(BootHeaps) -> BootSet]
      BY ListAssumption
    <2> QED BY <2>1, <1>1 DEF Surjection, BootSet
  <1>3. IsFiniteSet(1 .. Len(BootHeaps))
    BY <1>1, FS_Interval
  <1>4. IsFiniteSet(BootSet)
    BY <1>2, <1>3, FS_Surjection
  <1>5. IsFiniteSet(Heaps)
    BY <1>4, ListAssumption, FS_Union DEF Heaps
  <1> QED BY <1>5, FS_CardinalityType

\* A path is not longer than there are heaps
LEMMA PathShort ==
    ASSUME NEW p \in Seq(Heaps), \A i, j \in 1 .. Len(p) : p[i] = p[j] => i = j
    PROVE  Len(p) <= Cardinality(Heaps)
  <1>1. Len(p) \in Nat /\ p \in [1 .. Len(p) -> Heaps]
    OBVIOUS
  <1>2. p \in Injection(1 .. Len(p), Heaps)
    BY <1>1 DEF Injection, IsInjective
  <1>3. Cardinality(1 .. Len(p)) <= Cardinality(Heaps)
    BY <1>2, HeapsFinite, FS_Injection
  <1>4. Cardinality(1 .. Len(p)) = Len(p)
    BY <1>1, FS_Interval
  <1> QED BY <1>3, <1>4

\* One step of the walk that PathOf takes
Step(f, n, head, link) ==
    IF n = 0 THEN <<head>>
    ELSE IF link[f[n - 1][Len(f[n - 1])]] = Null
      THEN f[n - 1]
      ELSE Append(f[n - 1], link[f[n - 1][Len(f[n - 1])]])

Walk(f, head, link) == f = [n \in 0 .. Cardinality(Heaps) |-> Step(f, n, head, link)]

LEMMA PathOfWalk ==
    ASSUME NEW head, NEW link, \E f : Walk(f, head, link)
    PROVE  \E f : Walk(f, head, link) /\ PathOf(head, link) = f[Cardinality(Heaps)]
  <1> DEFINE g == CHOOSE f : Walk(f, head, link)
  <1>1. Walk(g, head, link)
    OBVIOUS
  <1>2. PathOf(head, link) = g[Cardinality(Heaps)]
    BY DEF PathOf, Walk, Step
  <1> QED BY <1>1, <1>2

Prefix(p, k) == [i \in 1 .. k |-> p[i]]
Upto(p, n) == IF n < Len(p) THEN n + 1 ELSE Len(p)

LEMMA Prefixes ==
    ASSUME NEW p \in Seq(Heaps), NEW k \in 1 .. Len(p)
    PROVE  /\ Prefix(p, k) \in Seq(Heaps)
           /\ Len(Prefix(p, k)) = k
           /\ Prefix(p, k)[k] = p[k]
           /\ k < Len(p) => Append(Prefix(p, k), p[k + 1]) = Prefix(p, k + 1)
           /\ Prefix(p, 1) = <<p[1]>>
           /\ Prefix(p, Len(p)) = p
  <1>1. Len(p) \in Nat /\ \A i \in 1 .. Len(p) : p[i] \in Heaps
    OBVIOUS
  <1>2. ASSUME NEW m \in 1 .. Len(p)
        PROVE  /\ Prefix(p, m) \in Seq(Heaps)
               /\ Len(Prefix(p, m)) = m
               /\ \A i \in 1 .. m : Prefix(p, m)[i] = p[i]
    BY <1>1 DEF Prefix
  <1>3. k < Len(p) => Append(Prefix(p, k), p[k + 1]) = Prefix(p, k + 1)
    <2> SUFFICES ASSUME k < Len(p)
                 PROVE  Append(Prefix(p, k), p[k + 1]) = Prefix(p, k + 1)
      OBVIOUS
    <2>1. k + 1 \in 1 .. Len(p)
      OBVIOUS
    <2>2. /\ Append(Prefix(p, k), p[k + 1]) \in Seq(Heaps)
          /\ Len(Append(Prefix(p, k), p[k + 1])) = k + 1
          /\ \A i \in 1 .. k : Append(Prefix(p, k), p[k + 1])[i] = p[i]
          /\ Append(Prefix(p, k), p[k + 1])[k + 1] = p[k + 1]
      BY <1>1, <1>2, <2>1, AppendProperties
    <2> HIDE DEF Prefix
    <2>3. \A i \in 1 .. k + 1 : Append(Prefix(p, k), p[k + 1])[i] = Prefix(p, k + 1)[i]
      BY <2>1, <2>2, <1>2
    <2> QED BY <2>1, <2>2, <2>3, <1>2, SeqEqual
  <1>4. Prefix(p, 1) = <<p[1]>>
    BY <1>1 DEF Prefix
  <1>5. Prefix(p, Len(p)) = p
    BY <1>1 DEF Prefix
  <1> QED BY <1>2, <1>3, <1>4, <1>5

(* PathOf returns the path the links describe.                               *)
LEMMA PathUnique ==
    ASSUME NEW p, NEW head, NEW link, IsPath(p, head, link)
    PROVE  PathOf(head, link) = p
  <1> DEFINE N == Cardinality(Heaps)
             w == [n \in 0 .. N |-> Prefix(p, Upto(p, n))]
  <1>1. /\ p \in Seq(Heaps) /\ Len(p) \in Nat /\ Len(p) > 0 /\ p[1] = head
        /\ \A i \in 1 .. Len(p) : p[i] \in Heaps
        /\ \A i \in 1 .. Len(p) : link[p[i]] = IF i = Len(p) THEN Null ELSE p[i + 1]
    BY DEF IsPath
  <1>2. N \in Nat /\ Len(p) <= N
    BY HeapsFinite, PathShort DEF IsPath
  <1>3. Null \notin Heaps
    BY ListAssumption
  <1> HIDE DEF N
  \* the walk goes one heap further, or it stays at the last one
  <1>4. ASSUME NEW f, NEW n \in 0 .. N, n # 0, f[n - 1] = Prefix(p, Upto(p, n - 1))
        PROVE  Step(f, n, head, link) = Prefix(p, Upto(p, n))
    <2>1. /\ Upto(p, n - 1) \in 1 .. Len(p)
          /\ Upto(p, n) = IF Upto(p, n - 1) = Len(p) THEN Len(p) ELSE Upto(p, n - 1) + 1
      BY <1>1, <1>2, <1>4 DEF Upto
    <2> DEFINE k == Upto(p, n - 1)
    <2>2. /\ Len(f[n - 1]) = k /\ f[n - 1][k] = p[k]
          /\ k < Len(p) => Append(f[n - 1], p[k + 1]) = Prefix(p, k + 1)
      BY <1>1, <1>4, <2>1, Prefixes
    <2>3. link[p[k]] = IF k = Len(p) THEN Null ELSE p[k + 1]
      BY <1>1, <2>1
    <2>4. k # Len(p) => p[k + 1] # Null /\ k < Len(p)
      BY <1>1, <1>3, <2>1
    <2> HIDE DEF k
    <2> QED BY <1>4, <2>1, <2>2, <2>3, <2>4 DEF Step, k
  <1>5. ASSUME NEW f
        PROVE  Step(f, 0, head, link) = Prefix(p, Upto(p, 0))
    <2>1. Upto(p, 0) = 1 /\ 1 \in 1 .. Len(p)
      BY <1>1 DEF Upto
    <2> QED BY <2>1, <1>1, Prefixes DEF Step
  <1>6. Walk(w, head, link)
    <2>1. \A n \in 0 .. N : w[n] = Step(w, n, head, link)
      <3> SUFFICES ASSUME NEW n \in 0 .. N
                   PROVE  w[n] = Step(w, n, head, link)
        OBVIOUS
      <3>1. CASE n = 0
        BY <3>1, <1>5
      <3>2. CASE n # 0
        <4>1. n - 1 \in 0 .. N
          BY <3>2, <1>2
        <4>2. w[n - 1] = Prefix(p, Upto(p, n - 1)) /\ w[n] = Prefix(p, Upto(p, n))
          BY <4>1
        <4> HIDE DEF w
        <4> QED BY <3>2, <4>2, <1>4
      <3> QED BY <3>1, <3>2
    <2>2. w = [n \in 0 .. N |-> Step(w, n, head, link)]
      <3>1. w = [n \in 0 .. N |-> w[n]]
        OBVIOUS
      <3> HIDE DEF w
      <3> QED BY <3>1, <2>1
    <2> QED BY <2>2 DEF Walk, N
  <1>7. PICK f : Walk(f, head, link) /\ PathOf(head, link) = f[N]
    BY <1>6, PathOfWalk DEF N
  <1>8. \A n \in 0 .. N : f[n] = Prefix(p, Upto(p, n))
    <2>0. \A n \in 0 .. N : f[n] = Step(f, n, head, link)
      BY <1>7 DEF Walk, N
    <2> DEFINE S == {n \in 0 .. N : f[n] # Prefix(p, Upto(p, n))}
    <2>1. CASE S = {}
      BY <2>1
    <2>2. CASE S # {}
      <3>1. PICK n \in S : \A m \in S : n <= m
        <4>1. S \in SUBSET Nat
          BY <1>2
        <4> HIDE DEF S
        <4> QED BY <4>1, <2>2, Least
      <3>2. n # 0
        BY <2>0, <1>5
      <3>3. f[n - 1] = Prefix(p, Upto(p, n - 1))
        BY <3>1, <3>2, <1>2
      <3> QED BY <3>2, <3>3, <2>0, <1>4
    <2> QED BY <2>1, <2>2
  <1>9. Upto(p, N) = Len(p) /\ N \in 0 .. N /\ Len(p) \in 1 .. Len(p)
    BY <1>1, <1>2 DEF Upto
  <1> QED BY <1>1, <1>7, <1>8, <1>9, Prefixes

-----------------------------------------------------------------------------
(* The links as a whole *)

\* Where a task has a heap that it is about to insert
Adding(t) == pc[t] \in {"set_lock", "insert", "head"}

\* What heap_caps_init listed stays listed; everything listed is in use or the
\* heap of a startup stack; what is about to be inserted is in nobody's list
\* and only one task's; and under the writers' lock the link of the new heap
\* is the head of the list
Growing ==
    /\ BootSet \subseteq Listed
    /\ Listed \subseteq ready \cup StackHeaps
    /\ \A t \in Tasks : Adding(t) => at[t] \in ready \ Listed
    /\ \A t, u \in Tasks : Adding(t) /\ Adding(u) /\ at[t] = at[u] => t = u
    /\ \A t \in Tasks : pc[t] = "head" => write_lock = t /\ next[at[t]] = first
    /\ \A h \in ready : h \in Listed \/ \E t \in Tasks : Adding(t) /\ at[t] = h

LinkInv == IsPath(Path, first, next) /\ Growing

LEMMA ListedHeaps ==
    ASSUME IsPath(Path, first, next)
    PROVE  /\ Listed \subseteq Heaps
           /\ Listed = {Path[i] : i \in 1 .. Len(Path)}
  BY DEF IsPath, Listed

LEMMA InitLinks == Init => LinkInv
  <1> SUFFICES ASSUME Init
               PROVE  LinkInv
    OBVIOUS
  <1>1. /\ BootHeaps \in Seq(Heaps) /\ Len(BootHeaps) \in Nat /\ Len(BootHeaps) > 0
        /\ \A i, j \in 1 .. Len(BootHeaps) : BootHeaps[i] = BootHeaps[j] => i = j
        /\ \A i \in 1 .. Len(BootHeaps) : BootHeaps[i] \in Heaps
        /\ BootSet = {BootHeaps[i] : i \in 1 .. Len(BootHeaps)}
    BY ListAssumption DEF Heaps, BootSet
  <1>2. ASSUME NEW i \in 1 .. Len(BootHeaps)
        PROVE  next[BootHeaps[i]] = IF i = Len(BootHeaps) THEN Null ELSE BootHeaps[i + 1]
    <2> DEFINE h == BootHeaps[i]
               l == CHOOSE j \in 1 .. Len(BootHeaps) - 1 : BootHeaps[j] = h
    <2>1. h \in Heaps
      BY <1>1
    <2>2. next[h] = IF \E j \in 1 .. Len(BootHeaps) - 1 : BootHeaps[j] = h
                      THEN BootHeaps[1 + l] ELSE Null
      BY <2>1 DEF Init
    <2>3. CASE i = Len(BootHeaps)
      <3>1. ~\E j \in 1 .. Len(BootHeaps) - 1 : BootHeaps[j] = h
        BY <1>1, <2>3
      <3> HIDE DEF l
      <3> QED BY <3>1, <2>2, <2>3
    <2>4. CASE i # Len(BootHeaps)
      <3>1. i \in 1 .. Len(BootHeaps) - 1
        BY <1>1, <2>4
      <3>2. l \in 1 .. Len(BootHeaps) - 1 /\ BootHeaps[l] = h
        BY <3>1
      <3> HIDE DEF l
      <3>3. l = i
        BY <1>1, <3>1, <3>2
      <3> QED BY <3>1, <3>3, <2>2, <2>4
    <2> QED BY <2>3, <2>4
  <1>3. IsPath(BootHeaps, first, next)
    BY <1>1, <1>2 DEF Init, IsPath
  <1>4. Path = BootHeaps
    BY <1>3, PathUnique DEF Path
  <1>5. Listed = BootSet
    BY <1>1, <1>4 DEF Listed
  <1>6. ready = Heaps \ (StackHeaps \cup Regions) /\ \A t \in Tasks : ~Adding(t) /\ pc[t] # "head"
    BY DEF Init, Adding
  <1>7. BootSet \subseteq ready \cup StackHeaps /\ ready \subseteq BootSet
    BY <1>6, ListAssumption DEF Heaps
  <1> QED BY <1>3, <1>4, <1>5, <1>6, <1>7 DEF LinkInv, Growing

\* Where no link changes, no path does
LEMMA SameLinks ==
    ASSUME UNCHANGED <<first, next>>
    PROVE  Path' = Path /\ Listed' = Listed
  BY DEF Path, PathOf, Listed

\* A step of a task that inserts nothing
LEMMA WalkerStep ==
    ASSUME LinkInv, NEW t \in Tasks, ~Adding(t), ~Adding(t)',
           \A u \in Tasks \ {t} : pc'[u] = pc[u] /\ at'[u] = at[u],
           UNCHANGED <<first, next, write_lock>>,
           ready \subseteq ready', ready' \subseteq ready \cup StackHeaps
    PROVE  LinkInv' /\ Path' = Path
  <1>1. Path' = Path /\ Listed' = Listed
    BY SameLinks
  <1>2. \A u \in Tasks : /\ Adding(u)' <=> Adding(u)
                         /\ Adding(u) => at'[u] = at[u]
                         /\ pc'[u] = "head" <=> pc[u] = "head"
    BY DEF Adding
  <1>3. StackHeaps \subseteq Listed
    BY ListAssumption DEF LinkInv, Growing
  <1>4. \A u \in Tasks : pc[u] = "head" => Adding(u)
    BY DEF Adding
  <1> HIDE DEF Adding
  <1>5. Growing'
    <2>1. \A h \in ready' : h \in Listed' \/ \E u \in Tasks : Adding(u)' /\ at'[u] = h
      BY <1>1, <1>2, <1>3 DEF LinkInv, Growing
    <2>2. \A u \in Tasks : pc'[u] = "head" => write_lock' = u /\ next'[at'[u]] = first'
      BY <1>2, <1>4 DEF LinkInv, Growing
    <2>3. \A u \in Tasks : Adding(u)' => at'[u] \in ready' \ Listed'
      BY <1>1, <1>2 DEF LinkInv, Growing
    <2>4. \A u, v \in Tasks : Adding(u)' /\ Adding(v)' /\ at'[u] = at'[v] => u = v
      BY <1>2 DEF LinkInv, Growing
    <2> QED BY <1>1, <2>1, <2>2, <2>3, <2>4 DEF LinkInv, Growing
  <1>6. IsPath(Path, first, next)'
    BY <1>1 DEF LinkInv, IsPath
  <1> QED BY <1>1, <1>5, <1>6 DEF LinkInv

LEMMA OtherTasks ==
    ASSUME TypeOK, NEW t \in Tasks, NEW label \in Labels, NEW h,
           Goto(t, label), at' = [at EXCEPT ![t] = h]
    PROVE  /\ pc'[t] = label /\ at'[t] = h
           /\ \A u \in Tasks \ {t} : pc'[u] = pc[u] /\ at'[u] = at[u]
  BY DEF TypeOK, Goto

LEMMA BeginLinks ==
    ASSUME ListInv, LinkInv, NEW t \in Tasks, NEW label \in {"walk", "enable"}, Begin(t, label)
    PROVE  LinkInv' /\ Path' = Path
  <1>1. label \in Labels /\ ~Adding(t) /\ UNCHANGED <<first, next, ready, write_lock>>
    BY DEF Begin, Labels, Adding, list
  <1>2. /\ pc'[t] = label
        /\ \A u \in Tasks \ {t} : pc'[u] = pc[u] /\ at'[u] = at[u]
    BY <1>1, OtherTasks DEF Begin, ListInv
  <1>3. ~Adding(t)'
    BY <1>2 DEF Adding
  <1> QED BY <1>1, <1>2, <1>3, WalkerStep

LEMMA OnwardLinks ==
    ASSUME ListInv, LinkInv, NEW t \in Tasks, NEW label \in {"walk", "enable"},
           pc[t] \in {"walk", "inside", "enable", "enable_lock"}, Onward(t, label)
    PROVE  LinkInv' /\ Path' = Path
  <1>1. ~Adding(t) /\ UNCHANGED <<first, next, ready, write_lock>>
    BY DEF Onward, Adding, list
  <1>2. PICK goal \in {"idle", "walk", "enable"} : Goto(t, goal)
    BY DEF Onward
  <1>3. goal \in Labels /\ at' = [at EXCEPT ![t] = next[at[t]]]
    BY DEF Labels, Onward
  <1>4. /\ pc'[t] = goal
        /\ \A u \in Tasks \ {t} : pc'[u] = pc[u] /\ at'[u] = at[u]
    BY <1>2, <1>3, OtherTasks DEF ListInv
  <1>5. ~Adding(t)'
    BY <1>4 DEF Adding
  <1> QED BY <1>1, <1>4, <1>5, WalkerStep

LEMMA StayLinks ==
    ASSUME ListInv, LinkInv, NEW t \in Tasks, Lock(t) \/ RegisterStack(t)
    PROVE  LinkInv' /\ Path' = Path
  <1>1. /\ ~Adding(t) /\ UNCHANGED <<first, next, write_lock, at>>
        /\ ready' = ready \/ (ready' = ready \cup {at[t]} /\ at[t] \notin ready /\ pc[t] = "enable")
    BY DEF Lock, RegisterStack, Adding, list
  <1>2. ready \subseteq ready' /\ ready' \subseteq ready \cup StackHeaps
    BY <1>1 DEF ListInv, TypeOK, SafeLinks, Safe
  <1>3. PICK goal \in {"inside", "enable_lock"} : Goto(t, goal)
    BY DEF Lock, RegisterStack
  <1>4. goal \in Labels
    BY DEF Labels
  <1>5. pc'[t] = goal /\ \A u \in Tasks \ {t} : pc'[u] = pc[u]
    BY <1>3, <1>4, OthersStay DEF ListInv
  <1>6. ~Adding(t)'
    BY <1>5 DEF Adding
  <1> QED BY <1>1, <1>2, <1>5, <1>6, WalkerStep

LEMMA RegisterLinks ==
    ASSUME ListInv, LinkInv, NEW t \in Tasks, NEW h \in Regions, Register(t, h)
    PROVE  LinkInv' /\ Path' = Path
  <1>1. /\ ready' = ready \cup {h} /\ h \notin ready /\ ~Adding(t)
        /\ UNCHANGED <<first, next, write_lock>>
    BY DEF Register, Adding, list
  <1>2. Path' = Path /\ Listed' = Listed
    BY <1>1, SameLinks
  <1>3. h \notin Listed
    BY <1>1, ListAssumption DEF LinkInv, Growing
  <1>4. /\ pc'[t] = "set_lock" /\ at'[t] = h
        /\ \A u \in Tasks \ {t} : pc'[u] = pc[u] /\ at'[u] = at[u]
    <2>1. "set_lock" \in Labels
      BY DEF Labels
    <2> QED BY <2>1, OtherTasks DEF Register, ListInv
  <1>5. /\ Adding(t)' /\ pc'[t] # "head" /\ at'[t] = h
        /\ \A u \in Tasks \ {t} : /\ Adding(u)' <=> Adding(u)
                                  /\ at'[u] = at[u]
                                  /\ pc'[u] = "head" <=> pc[u] = "head"
    BY <1>4 DEF Adding
  <1> HIDE DEF Adding
  <1>6. Growing'
    <2>1. \A g \in ready' : g \in Listed' \/ \E u \in Tasks : Adding(u)' /\ at'[u] = g
      <3> SUFFICES ASSUME NEW g \in ready', g \notin Listed'
                   PROVE  \E u \in Tasks : Adding(u)' /\ at'[u] = g
        OBVIOUS
      <3>1. CASE g = h
        BY <3>1, <1>5
      <3>2. CASE g # h
        <4>1. PICK u \in Tasks : Adding(u) /\ at[u] = g
          BY <3>2, <1>1, <1>2 DEF LinkInv, Growing
        <4> QED BY <4>1, <1>1, <1>5
      <3> QED BY <3>1, <3>2
    <2>2. \A u \in Tasks : pc'[u] = "head" => write_lock' = u /\ next'[at'[u]] = first'
      BY <1>1, <1>5 DEF LinkInv, Growing
    <2>3. \A u \in Tasks : Adding(u)' => at'[u] \in ready' \ Listed'
      BY <1>1, <1>2, <1>3, <1>5 DEF LinkInv, Growing
    <2>4. \A u, v \in Tasks : Adding(u)' /\ Adding(v)' /\ at'[u] = at'[v] => u = v
      BY <1>1, <1>5 DEF LinkInv, Growing
    <2> QED BY <1>1, <1>2, <2>1, <2>2, <2>3, <2>4 DEF LinkInv, Growing
  <1>7. IsPath(Path, first, next)'
    BY <1>1, <1>2 DEF LinkInv, IsPath
  <1> QED BY <1>2, <1>6, <1>7 DEF LinkInv

LEMMA SetLockLinks ==
    ASSUME ListInv, LinkInv, NEW t \in Tasks, SetLock(t)
    PROVE  LinkInv' /\ Path' = Path
  <1>1. pc[t] = "set_lock" /\ UNCHANGED <<first, next, ready, write_lock, at>>
    BY DEF SetLock, list
  <1>2. Path' = Path /\ Listed' = Listed
    BY <1>1, SameLinks
  <1>3. pc'[t] = "insert" /\ \A u \in Tasks \ {t} : pc'[u] = pc[u]
    <2>1. "insert" \in Labels
      BY DEF Labels
    <2> QED BY <2>1, OthersStay DEF ListInv, SetLock
  <1>4. \A u \in Tasks : (Adding(u)' <=> Adding(u)) /\ (pc'[u] = "head" <=> pc[u] = "head")
    BY <1>1, <1>3 DEF Adding
  <1>5. Growing'
    BY <1>1, <1>2, <1>4 DEF LinkInv, Growing
  <1>6. IsPath(Path, first, next)'
    BY <1>1, <1>2 DEF LinkInv, IsPath
  <1> QED BY <1>2, <1>5, <1>6 DEF LinkInv

LEMMA LinkLinks ==
    ASSUME ListInv, LinkInv, NEW t \in Tasks, Link(t)
    PROVE  LinkInv' /\ Path' = Path
  <1>1. /\ pc[t] = "insert" /\ write_lock = Null /\ write_lock' = t
        /\ next' = [next EXCEPT ![at[t]] = first]
        /\ UNCHANGED <<first, ready, at>>
    BY DEF Link, Unlocked, locks
  <1>2. Adding(t) /\ at[t] \notin Listed /\ at[t] \in Heaps
    BY <1>1 DEF Adding, LinkInv, Growing, ListInv, TypeOK
  <1>3. /\ next'[at[t]] = first
        /\ \A h \in Heaps \ {at[t]} : next'[h] = next[h]
    BY <1>1, <1>2 DEF ListInv, TypeOK
  \* the new link is not on the path
  <1>4. IsPath(Path, first', next')
    <2>1. \A i \in 1 .. Len(Path) : Path[i] \in Listed /\ Path[i] \in Heaps
      BY ListedHeaps DEF LinkInv
    <2>2. \A i \in 1 .. Len(Path) : next'[Path[i]] = next[Path[i]]
      BY <2>1, <1>2, <1>3
    <2> QED BY <1>1, <2>2 DEF LinkInv, IsPath
  <1>5. Path' = Path /\ Listed' = Listed
    <2>1. PathOf(first', next') = Path
      BY <1>4, PathUnique
    <2>2. Path' = Path
      BY <2>1 DEF Path, PathOf
    <2> QED BY <2>2 DEF Listed
  <1>6. pc'[t] = "head" /\ \A u \in Tasks \ {t} : pc'[u] = pc[u]
    <2>1. "head" \in Labels
      BY DEF Labels
    <2> QED BY <2>1, OthersStay DEF ListInv, Link
  <1>7. \A u \in Tasks : Adding(u)' <=> Adding(u)
    BY <1>1, <1>6 DEF Adding
  \* no other task has the writers' lock
  <1>8. \A u \in Tasks : pc'[u] = "head" => u = t
    BY <1>1, <1>6, ListAssumption DEF LinkInv, Growing
  <1>9. Growing'
    BY <1>1, <1>3, <1>5, <1>7, <1>8 DEF LinkInv, Growing
  <1>10. IsPath(Path, first, next)'
    BY <1>4, <1>5 DEF IsPath
  <1> QED BY <1>5, <1>9, <1>10 DEF LinkInv

\* The new heap in front of the others
LEMMA SetFirstLinks ==
    ASSUME ListInv, LinkInv, NEW t \in Tasks, SetFirst(t)
    PROVE  LinkInv' /\ \E h \in Heaps : Path' = <<h>> \o Path
  <1> DEFINE h == at[t]
             p == <<h>> \o Path
  <1>1. /\ pc[t] = "head" /\ first' = h /\ at' = [at EXCEPT ![t] = Null]
        /\ UNCHANGED <<next, ready>>
    BY DEF SetFirst, locks
  <1>2. /\ Adding(t) /\ h \notin Listed /\ h \in Heaps /\ h \in ready
        /\ next[h] = first /\ write_lock = t
    BY <1>1 DEF Adding, LinkInv, Growing, ListInv, TypeOK
  <1>3. /\ Path \in Seq(Heaps) /\ Len(Path) \in Nat /\ Len(Path) > 0 /\ Path[1] = first
        /\ \A i \in 1 .. Len(Path) : Path[i] \in Listed
        /\ \A i, j \in 1 .. Len(Path) : Path[i] = Path[j] => i = j
        /\ \A i \in 1 .. Len(Path) : next[Path[i]] = IF i = Len(Path) THEN Null ELSE Path[i + 1]
    <2>1. IsPath(Path, first, next)
      BY DEF LinkInv
    <2>2. \A i \in 1 .. Len(Path) : Path[i] \in Listed
      BY <2>1, ListedHeaps
    <2> QED BY <2>1, <2>2 DEF IsPath
  <1> HIDE DEF h
  <1>4. /\ p \in Seq(Heaps) /\ Len(p) = Len(Path) + 1 /\ p[1] = h
        /\ \A i \in 2 .. Len(p) : p[i] = Path[i - 1]
    <2>1. <<h>> \in Seq(Heaps) /\ Len(<<h>>) = 1 /\ <<h>>[1] = h
      BY <1>2
    <2>2. /\ p \in Seq(Heaps) /\ Len(p) = Len(Path) + 1
          /\ \A i \in 1 .. Len(Path) + 1 : p[i] = IF i <= 1 THEN <<h>>[i] ELSE Path[i - 1]
      BY <1>3, <2>1, ConcatProperties
    <2> QED BY <1>3, <2>1, <2>2
  <1> HIDE DEF p
  <1>5. IsPath(p, h, next)
    <2>1. \A i, j \in 1 .. Len(p) : p[i] = p[j] => i = j
      <3> SUFFICES ASSUME NEW i \in 1 .. Len(p), NEW j \in 1 .. Len(p), p[i] = p[j]
                   PROVE  i = j
        OBVIOUS
      <3>1. \A k \in 2 .. Len(p) : p[k] # h
        BY <1>2, <1>3, <1>4
      <3>2. CASE i = 1 \/ j = 1
        BY <3>1, <3>2, <1>3, <1>4
      <3>3. CASE i # 1 /\ j # 1
        <4>1. i \in 2 .. Len(p) /\ j \in 2 .. Len(p)
          BY <3>3, <1>3, <1>4
        <4>2. Path[i - 1] = Path[j - 1] /\ i - 1 \in 1 .. Len(Path) /\ j - 1 \in 1 .. Len(Path)
          BY <4>1, <1>3, <1>4
        <4>3. i - 1 = j - 1
          BY <4>2, <1>3
        <4> QED BY <4>1, <4>3, <1>3, <1>4
      <3> QED BY <3>2, <3>3
    <2>2. \A i \in 1 .. Len(p) : next[p[i]] = IF i = Len(p) THEN Null ELSE p[i + 1]
      <3> SUFFICES ASSUME NEW i \in 1 .. Len(p)
                   PROVE  next[p[i]] = IF i = Len(p) THEN Null ELSE p[i + 1]
        OBVIOUS
      <3>1. CASE i = 1
        <4>1. p[2] = Path[1] /\ 1 # Len(p)
          BY <1>3, <1>4
        <4> QED BY <3>1, <4>1, <1>2, <1>3, <1>4
      <3>2. CASE i # 1
        <4>1. i \in 2 .. Len(p) /\ i - 1 \in 1 .. Len(Path)
          BY <3>2, <1>3, <1>4
        <4>2. p[i] = Path[i - 1] /\ (i = Len(p) <=> i - 1 = Len(Path))
          BY <4>1, <1>3, <1>4
        <4>3. next[Path[i - 1]] = IF i - 1 = Len(Path) THEN Null ELSE Path[(i - 1) + 1]
          BY <4>1, <1>3
        <4>4. CASE i = Len(p)
          BY <4>2, <4>3, <4>4
        <4>5. CASE i # Len(p)
          <5>1. i + 1 \in 2 .. Len(p) /\ (i + 1) - 1 = i /\ (i - 1) + 1 = i
            BY <4>1, <4>5, <1>3, <1>4
          <5>2. p[i + 1] = Path[i]
            BY <5>1, <1>4
          <5>3. next[Path[i - 1]] = Path[i]
            BY <4>2, <4>3, <4>5, <5>1
          <5> QED BY <4>2, <4>5, <5>2, <5>3
        <4> QED BY <4>4, <4>5
      <3> QED BY <3>1, <3>2
    <2> QED BY <2>1, <2>2, <1>3, <1>4 DEF IsPath
  <1>6. Path' = p
    <2>1. PathOf(first', next') = p
      BY <1>1, <1>5, PathUnique DEF h
    <2> QED BY <2>1 DEF Path, PathOf
  <1>7. Listed' = Listed \cup {h}
    <2>1. Listed' = {p[i] : i \in 1 .. Len(p)}
      BY <1>4, <1>6 DEF Listed
    <2>2. Listed = {Path[i] : i \in 1 .. Len(Path)}
      BY ListedHeaps DEF LinkInv
    <2>3. ASSUME NEW i \in 1 .. Len(p)
          PROVE  p[i] \in Listed \cup {h}
      <3>1. CASE i = 1
        BY <3>1, <1>4
      <3>2. CASE i # 1
        BY <3>2, <1>3, <1>4, <2>2
      <3> QED BY <3>1, <3>2
    <2>4. ASSUME NEW i \in 1 .. Len(Path)
          PROVE  Path[i] \in {p[j] : j \in 1 .. Len(p)}
      <3>1. i + 1 \in 2 .. Len(p) /\ i + 1 \in 1 .. Len(p) /\ (i + 1) - 1 = i
        BY <1>3, <1>4
      <3>2. p[i + 1] = Path[i]
        BY <3>1, <1>4
      <3> QED BY <3>1, <3>2
    <2>5. h \in {p[j] : j \in 1 .. Len(p)}
      <3>1. 1 \in 1 .. Len(p) /\ p[1] = h
        BY <1>3, <1>4
      <3> QED BY <3>1
    <2> QED BY <2>1, <2>2, <2>3, <2>4, <2>5
  <1>8. /\ pc'[t] = "idle"
        /\ \A u \in Tasks \ {t} : pc'[u] = pc[u] /\ at'[u] = at[u]
    <2>1. "idle" \in Labels
      BY DEF Labels
    <2> QED BY <1>1, <2>1, OtherTasks DEF ListInv, SetFirst
  <1>9. ~Adding(t)' /\ \A u \in Tasks \ {t} : (Adding(u)' <=> Adding(u)) /\ pc'[u] # "head"
    BY <1>2, <1>8 DEF Adding, LinkInv, Growing
  <1>10. Growing'
    <2> HIDE DEF Adding
    <2>1. \A g \in ready' : g \in Listed' \/ \E u \in Tasks : Adding(u)' /\ at'[u] = g
      <3> SUFFICES ASSUME NEW g \in ready, g \notin Listed, g # h
                   PROVE  \E u \in Tasks : Adding(u)' /\ at'[u] = g
        BY <1>1, <1>7
      <3>1. PICK u \in Tasks : Adding(u) /\ at[u] = g
        BY DEF LinkInv, Growing
      <3> QED BY <3>1, <1>8, <1>9 DEF h
    <2>2. \A u \in Tasks : pc'[u] # "head"
      BY <1>8, <1>9
    <2>3. \A u \in Tasks : Adding(u)' => at'[u] \in ready' \ Listed'
      <3> SUFFICES ASSUME NEW u \in Tasks, Adding(u)'
                   PROVE  at'[u] \in ready' \ Listed'
        OBVIOUS
      <3>1. u # t /\ Adding(u) /\ at'[u] = at[u]
        BY <1>8, <1>9
      <3>2. at[u] # h
        BY <3>1, <1>2 DEF LinkInv, Growing, h
      <3> QED BY <3>1, <3>2, <1>1, <1>7 DEF LinkInv, Growing
    <2>4. \A u, v \in Tasks : Adding(u)' /\ Adding(v)' /\ at'[u] = at'[v] => u = v
      BY <1>8, <1>9 DEF LinkInv, Growing
    <2>5. BootSet \subseteq Listed' /\ Listed' \subseteq ready' \cup StackHeaps
      BY <1>1, <1>2, <1>7 DEF LinkInv, Growing
    <2> QED BY <2>1, <2>2, <2>3, <2>4, <2>5 DEF Growing
  <1>11. IsPath(Path, first, next)'
    BY <1>1, <1>5, <1>6 DEF IsPath, h
  <1> QED BY <1>2, <1>6, <1>10, <1>11 DEF LinkInv, p

LEMMA LinkSteps ==
    ASSUME ListInv, LinkInv, [Next]_vars
    PROVE  LinkInv' /\ (Path' = Path \/ \E h \in Heaps : Path' = <<h>> \o Path)
  <1>1. CASE UNCHANGED vars
    <2>1. UNCHANGED <<first, next, ready, write_lock, pc, at>>
      BY <1>1 DEF vars, list, locks
    <2>2. Path' = Path /\ Listed' = Listed
      BY <2>1, SameLinks
    <2> QED BY <2>1, <2>2 DEF LinkInv, Growing, IsPath, Adding
  <1>2. CASE Next
    <2>1. PICK t \in Tasks :
            \/ Call(t) \/ Skip(t) \/ Lock(t) \/ Unlock(t)
            \/ \E h \in Regions : Register(t, h)
            \/ SetLock(t) \/ Link(t) \/ SetFirst(t)
            \/ EnableStacks(t) \/ SkipReady(t) \/ RegisterStack(t) \/ SetStackLock(t)
      BY <1>2 DEF Next
    <2>2. CASE Call(t) \/ EnableStacks(t)
      BY <2>2, BeginLinks DEF Call, EnableStacks
    <2>3. CASE Skip(t) \/ Unlock(t) \/ SkipReady(t) \/ SetStackLock(t)
      BY <2>3, OnwardLinks DEF Skip, Unlock, SkipReady, SetStackLock
    <2>4. CASE Lock(t) \/ RegisterStack(t)
      BY <2>4, StayLinks
    <2>5. CASE \E h \in Regions : Register(t, h)
      BY <2>5, RegisterLinks
    <2>6. CASE SetLock(t)
      BY <2>6, SetLockLinks
    <2>7. CASE Link(t)
      BY <2>7, LinkLinks
    <2>8. CASE SetFirst(t)
      BY <2>8, SetFirstLinks
    <2> QED BY <2>1, <2>2, <2>3, <2>4, <2>5, <2>6, <2>7, <2>8
  <1> QED BY <1>1, <1>2

(* LinkInv is an invariant: the links never lose a heap or run in a circle.  *)
THEOREM LinkInvariant == Spec => []LinkInv
  <1>1. ListInv /\ LinkInv /\ [Next]_vars => LinkInv'
    BY LinkSteps
  <1> QED BY InitLinks, ListInvariant, <1>1, PTL DEF Spec

(* A region that was added can be found by every walk that begins later.     *)
THEOREM RegionsReachable == Spec => []Reachable
  <1>1. LinkInv => Reachable
    BY DEF LinkInv, Growing, Reachable
  <1> QED BY LinkInvariant, <1>1, PTL

(* The list grows at its head and in no other way: no insertion undoes       *)
(* another, and a walk that is under way meets each of its heaps once.       *)
THEOREM ListGrowsAtHead == Spec => GrowsAtHead
  <1>1. ListInv /\ LinkInv /\ [Next]_vars
          => [Path' = Path \/ \E h \in Heaps : Path' = <<h>> \o Path]_vars
    BY LinkSteps
  <1> QED BY ListInvariant, LinkInvariant, <1>1, PTL DEF Spec, GrowsAtHead
=============================================================================
