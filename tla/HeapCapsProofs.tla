--------------------------- MODULE HeapCapsProofs ---------------------------
(***************************************************************************)
(* A walk asks every heap that fits, however the list of heaps grows while *)
(* it is under way: the order in which heap_caps_malloc tries the heaps is *)
(* kept for every list, every set of capabilities and any number of tasks. *)
(* And while one task at most adds regions, every block that was given out *)
(* and not freed is somebody's, keeps its contents and is found by free(), *)
(* although regions are made of blocks, and D/IRAM has two addresses.      *)
(***************************************************************************)
EXTENDS HeapCaps, LeastNumber, TLAPS

-----------------------------------------------------------------------------
(* The parts of the inductive invariant *)

Tries == {a \in Seq(SUBSET Capabilities) : a # <<>> /\ \A i \in DOMAIN a : a[i] # {}}

\* The fields of a job, whatever their values
IsJob(j) ==
    j \in [op : {j.op}, pc : {j.pc}, old : {j.old}, new : {j.new}, size : {j.size},
           tries : {j.tries}, region : {j.region}, prio : {j.prio}, rest : {j.rest},
           known : {j.known}, refused : {j.refused}]

\* A walk stands on a heap of the list
OnList(l, j) ==
    /\ IsJob(j)
    /\ j.pc \notin {"idle", "abort"} => j.tries \in Tries
    /\ j.op = "add" => j.region \in Heaps
    /\ j.pc = "walk" => /\ j.rest \in 1 .. Len(l) /\ j.prio \in Nat \ {0}
                        /\ ~Impossible(Head(j.tries))

\* The walk has left the heap behind, at the priority it is at
Behind(l, j, h) == \A k \in DOMAIN l : l[k] = h => k <= Len(l) - j.rest

\* The walk is done with the heap at the priority i
DoneWith(l, j, h, i) ==
    \/ j.pc = "null"
    \/ i < j.prio
    \/ j.pc = "walk" /\ i = j.prio /\ Behind(l, j, h)

\* The heap has the capabilities, and some of them at the priority i
Offers(h, i, caps) == caps \subseteq AllCaps(h) /\ Region[h].caps[i] \cap caps # {}

Asked(l, j) ==
    \A h \in j.known : \A i \in 1 .. Prios :
        Offers(h, i, Wanted(j)) /\ DoneWith(l, j, h, i) => h \in j.refused

Underway(j) == j.pc \in {"walk", "got", "null"} /\ ~Impossible(Head(j.tries))

ListInv ==
    /\ list \in Seq(Heaps) /\ list # <<>>
    /\ enabled \subseteq Heaps

JobInv == job = [t \in Tasks |-> job[t]] /\ \A t \in Tasks : OnList(list, job[t])

\* The heaps that were there when the attempt began are still there, and were asked
AskedInv ==
    \A t \in Tasks : Underway(job[t]) =>
        /\ job[t].known \subseteq ToSet(list) \cap enabled
        /\ Asked(list, job[t])

WalkInv == ListInv /\ JobInv /\ AskedInv
-----------------------------------------------------------------------------
(* The walk *)

LEMMA PriosNat == Prios \in Nat
  <1>1. BootList[1] \in Heaps
    BY RegionAssumption
  <1> QED
    BY <1>1, RegionAssumption DEF Prios

\* A heap that the walk leaves behind, after it was asked if it had to be
LEMMA OnwardKeeps ==
    ASSUME ListInv, NEW j, OnList(list, j), j.pc = "walk",
           j.known \subseteq ToSet(list), Asked(list, j),
           Here(j) \in j.known /\ Offers(Here(j), j.prio, Wanted(j)) => Here(j) \in j.refused
    PROVE  /\ OnList(list, Onward(j))
           /\ Onward(j).known = j.known
           /\ Asked(list, Onward(j))
           /\ Onward(j).tries = j.tries
  <1> DEFINE o == Onward(j)
             NextHeap == [j EXCEPT !.rest = @ - 1]
             NextPrio == [j EXCEPT !.prio = @ + 1, !.rest = Len(list)]
             None == [j EXCEPT !.pc = "null"]
  <1>1. /\ j.rest \in 1 .. Len(list) /\ j.prio \in Nat \ {0} /\ Prios \in Nat
        /\ Len(list) \in Nat /\ DOMAIN list = 1 .. Len(list)
    BY PriosNat DEF OnList, ListInv
  <1>2. IsJob(j)
    BY DEF OnList
  <1>3. /\ IsJob(NextHeap) /\ NextHeap.tries = j.tries /\ NextHeap.known = j.known
        /\ NextHeap.refused = j.refused /\ NextHeap.op = j.op /\ NextHeap.region = j.region
        /\ IsJob(NextPrio) /\ NextPrio.tries = j.tries /\ NextPrio.known = j.known
        /\ NextPrio.refused = j.refused /\ NextPrio.op = j.op /\ NextPrio.region = j.region
        /\ IsJob(None) /\ None.tries = j.tries /\ None.known = j.known
        /\ None.refused = j.refused /\ None.op = j.op /\ None.region = j.region
    BY <1>2 DEF IsJob
  <1>4. /\ NextHeap.rest = j.rest - 1 /\ NextHeap.prio = j.prio /\ NextHeap.pc = "walk"
        /\ NextPrio.rest = Len(list) /\ NextPrio.prio = j.prio + 1 /\ NextPrio.pc = "walk"
        /\ None.pc = "null"
    BY <1>2 DEF IsJob
  <1>5. \/ j.rest > 1 /\ o = NextHeap
        \/ j.rest = 1 /\ j.prio < Prios /\ o = NextPrio
        \/ j.rest = 1 /\ j.prio >= Prios /\ o = None
    BY <1>1 DEF Onward
  <1> HIDE DEF NextHeap, NextPrio, None, o
  <1>6. /\ IsJob(o) /\ o.tries = j.tries /\ o.known = j.known /\ o.refused = j.refused
        /\ o.op = j.op /\ o.region = j.region
    BY <1>3, <1>5
  <1>7. \/ j.rest > 1 /\ o.rest = j.rest - 1 /\ o.prio = j.prio /\ o.pc = "walk"
        \/ /\ j.rest = 1 /\ j.prio < Prios
           /\ o.rest = Len(list) /\ o.prio = j.prio + 1 /\ o.pc = "walk"
        \/ j.rest = 1 /\ j.prio >= Prios /\ o.pc = "null"
    BY <1>4, <1>5
  <1>8. OnList(list, o)
    BY <1>1, <1>6, <1>7 DEF OnList
  <1>9. Wanted(o) = Wanted(j)
    BY <1>6 DEF Wanted
  <1>10. ASSUME NEW h \in j.known, NEW i \in 1 .. Prios, Offers(h, i, Wanted(j)),
                DoneWith(list, o, h, i), ~DoneWith(list, j, h, i)
         PROVE  h \in j.refused
    <2>1. PICK k \in DOMAIN list : list[k] = h
      BY DEF ToSet
    <2>2. i = j.prio
      <3>1. j.pc # "null" /\ ~(i < j.prio)
        BY <1>10 DEF DoneWith
      <3>2. CASE o.pc = "null"
        BY <1>1, <1>7, <3>1, <3>2
      <3>3. CASE o.pc = "walk" /\ o.prio = j.prio
        BY <1>1, <1>10, <3>1, <3>3 DEF DoneWith
      <3>4. CASE o.pc = "walk" /\ o.prio = j.prio + 1 /\ o.rest = Len(list)
        <4>1. ~Behind(list, o, h)
          BY <1>1, <2>1, <3>4 DEF Behind
        <4> QED
          BY <1>1, <1>10, <3>1, <3>4, <4>1 DEF DoneWith
      <3> QED
        BY <1>7, <3>2, <3>3, <3>4
    <2>3. PICK m \in DOMAIN list : list[m] = h /\ ~(m <= Len(list) - j.rest)
      BY <1>10, <2>2 DEF DoneWith, Behind
    <2>4. j.rest = 1 \/ m <= Len(list) - (j.rest - 1)
      <3>1. CASE j.rest > 1
        BY <1>1, <1>7, <1>10, <2>2, <2>3, <3>1 DEF DoneWith, Behind
      <3> QED
        BY <1>1, <3>1
    <2>5. m = Len(list) - j.rest + 1
      BY <1>1, <2>3, <2>4
    <2> QED
      BY <1>10, <2>2, <2>3, <2>5 DEF Here
  <1>11. Asked(list, o)
    BY <1>6, <1>9, <1>10 DEF Asked
  <1> QED
    BY <1>6, <1>8, <1>11 DEF o

\* A heap at the head of the list is not met by the walks that are under way
LEMMA InsertKeeps ==
    ASSUME NEW l \in Seq(Heaps), NEW r \in Heaps, NEW j, OnList(l, j)
    PROVE  /\ OnList(<<r>> \o l, j)
           /\ Asked(l, j) => Asked(<<r>> \o l, j)
           /\ ToSet(l) \subseteq ToSet(<<r>> \o l)
  <1> DEFINE m == <<r>> \o l
  <1>1. /\ Len(m) = Len(l) + 1 /\ Len(l) \in Nat /\ DOMAIN l = 1 .. Len(l)
        /\ DOMAIN m = 1 .. Len(l) + 1
    OBVIOUS
  <1>2. ASSUME NEW k \in DOMAIN l PROVE k + 1 \in DOMAIN m /\ m[k + 1] = l[k]
    OBVIOUS
  <1> HIDE DEF m
  <1>3. OnList(m, j)
    BY <1>1 DEF OnList
  <1>4. ToSet(l) \subseteq ToSet(m)
    BY <1>2 DEF ToSet
  <1>5. ASSUME NEW h, j.pc = "walk", Behind(m, j, h) PROVE Behind(l, j, h)
    <2> SUFFICES ASSUME NEW k \in DOMAIN l, l[k] = h PROVE k <= Len(l) - j.rest
      BY DEF Behind
    <2>1. k + 1 <= Len(m) - j.rest
      BY <1>2, <1>5 DEF Behind
    <2>2. j.rest \in 1 .. Len(l)
      BY <1>5 DEF OnList
    <2> QED
      BY <1>1, <2>1, <2>2
  <1> QED
    BY <1>3, <1>4, <1>5 DEF Asked, DoneWith, m

-----------------------------------------------------------------------------
(* Every step keeps the invariant *)

\* One task's job changes, and nothing its walk or another one depends on
LEMMA OneJob ==
    ASSUME WalkInv, NEW t \in Tasks, NEW j,
           job' = [job EXCEPT ![t] = j], UNCHANGED <<list, enabled>>,
           OnList(list, j),
           Underway(j) => j.known \subseteq ToSet(list) \cap enabled /\ Asked(list, j)
    PROVE  WalkInv'
  <1>1. \A u \in Tasks : job'[u] = IF u = t THEN j ELSE job[u]
    BY DEF WalkInv, JobInv
  <1>2. ListInv'
    BY DEF WalkInv, ListInv
  <1>3. JobInv'
    <2>1. job' = [u \in Tasks |-> job'[u]]
      BY DEF WalkInv, JobInv
    <2>2. \A u \in Tasks : OnList(list, job'[u])
      BY <1>1 DEF WalkInv, JobInv
    <2> QED
      BY <2>1, <2>2 DEF JobInv
  <1>4. AskedInv'
    BY <1>1 DEF WalkInv, AskedInv
  <1> QED
    BY <1>2, <1>3, <1>4 DEF WalkInv

\* No job changes, and the heaps are the same
LEMMA NoChange ==
    ASSUME WalkInv, UNCHANGED <<list, enabled, job>>
    PROVE  WalkInv'
  BY DEF WalkInv, ListInv, JobInv, AskedInv

\* A job whose new state is none of a walk
LEMMA LeavesWalk ==
    ASSUME WalkInv, NEW t \in Tasks, NEW label \in {"drop", "abort"}, Goto(t, label),
           job[t].pc \in {"idle", "abort"} => label = "abort", UNCHANGED <<list, enabled>>
    PROVE  WalkInv'
  <1> DEFINE j == [job[t] EXCEPT !.pc = label]
  <1>1. OnList(list, job[t])
    BY DEF WalkInv, JobInv
  <1>2. OnList(list, j) /\ j.pc = label
    BY <1>1 DEF OnList, IsJob
  <1>3. job' = [job EXCEPT ![t] = j]
    BY DEF Goto
  <1> HIDE DEF j
  <1>4. ~Underway(j)
    BY <1>2 DEF Underway
  <1> QED
    BY <1>2, <1>3, <1>4, OneJob

\* A task that has no call
LEMMA BecomesIdle ==
    ASSUME WalkInv, NEW t \in Tasks, Finish(t), UNCHANGED <<list, enabled>>
    PROVE  WalkInv'
  <1>1. OnList(list, NoJob) /\ ~Underway(NoJob)
    BY DEF OnList, IsJob, Underway, NoJob
  <1> QED
    BY <1>1, OneJob DEF Finish

\* A call begins
LEMMA Begins ==
    ASSUME WalkInv, NEW t \in Tasks, NEW j, job' = [job EXCEPT ![t] = j],
           UNCHANGED <<list, enabled>>, IsJob(j), j.pc = "try", j.tries \in Tries,
           j.op = "add" => j.region \in Heaps
    PROVE  WalkInv'
  <1>1. OnList(list, j) /\ ~Underway(j)
    BY DEF OnList, Underway
  <1> QED
    BY <1>1, OneJob

LEMMA CallStep ==
    ASSUME WalkInv, NEW t \in Tasks, Call(t)
    PROVE  WalkInv'
  <1>1. \A a \in Attempts : a \in Tries
    BY RegionAssumption DEF Tries
  <1>2. ASSUME NEW n \in Requests, NEW tries \in Attempts, Malloc(t, n, tries) PROVE WalkInv'
    <2> DEFINE j == [NoJob EXCEPT !.op = "malloc", !.pc = "try", !.size = n, !.tries = tries]
    <2>1. IsJob(j) /\ j.pc = "try" /\ j.tries \in Tries /\ j.op = "malloc"
      BY <1>1 DEF NoJob, IsJob
    <2>2. job' = [job EXCEPT ![t] = j] /\ UNCHANGED <<list, enabled>>
      BY <1>2 DEF Malloc, heaps
    <2> HIDE DEF j
    <2> QED
      BY <2>1, <2>2, Begins
  <1>3. ASSUME NEW p \in DOMAIN holds[t], Free(t, p) PROVE WalkInv'
    <2>1. UNCHANGED <<list, enabled>> /\ (UNCHANGED job \/ Goto(t, "abort"))
      BY <1>3 DEF Free, heaps
    <2> QED
      BY <2>1, NoChange, LeavesWalk
  <1>4. ASSUME NEW p \in DOMAIN holds[t], NEW n \in Requests, NEW tries \in Attempts,
               Realloc(t, p, n, tries)
        PROVE  WalkInv'
    <2> DEFINE j == [NoJob EXCEPT !.op = "realloc", !.pc = "try", !.old = p,
                                  !.size = n, !.tries = tries]
    <2>1. IsJob(j) /\ j.pc = "try" /\ j.tries \in Tries /\ j.op = "realloc"
      BY <1>1 DEF NoJob, IsJob
    <2>2. job' = [job EXCEPT ![t] = j] /\ UNCHANGED <<list, enabled>>
      BY <1>4 DEF Realloc, heaps
    <2> HIDE DEF j
    <2> QED
      BY <2>1, <2>2, Begins
  <1>5. ASSUME NEW r \in Heaps, AddRegion(t, r) PROVE WalkInv'
    <2> DEFINE tries == <<{"internal", "8bit"}>>
               j == [NoJob EXCEPT !.op = "add", !.pc = "try", !.size = 1,
                                  !.tries = tries, !.region = r]
    <2>1. tries \in Tries
      <3>1. {"internal", "8bit"} \in SUBSET Capabilities
        BY DEF Capabilities
      <3>2. tries \in Seq(SUBSET Capabilities) /\ Len(tries) = 1 /\ tries[1] = {"internal", "8bit"}
        BY <3>1
      <3> HIDE DEF tries
      <3>3. DOMAIN tries = 1 .. 1 /\ tries # <<>>
        BY DEF tries
      <3>4. {"internal", "8bit"} # {}
        OBVIOUS
      <3> QED
        BY <3>2, <3>3, <3>4 DEF Tries
    <2>2. IsJob(j) /\ j.pc = "try" /\ j.tries = tries /\ j.op = "add" /\ j.region = r
      BY DEF NoJob, IsJob
    <2>3. job' = [job EXCEPT ![t] = j] /\ UNCHANGED <<list, enabled>>
      BY <1>5 DEF AddRegion, heaps
    <2> HIDE DEF tries, j
    <2> QED
      BY <2>1, <2>2, <2>3, Begins
  <1> QED
    BY <1>2, <1>3, <1>4, <1>5 DEF Call

\* An attempt knows the heaps that are in use when it begins, and has asked none
LEMMA TryStep ==
    ASSUME WalkInv, NEW t \in Tasks, Try(t)
    PROVE  WalkInv'
  <1>1. OnList(list, job[t]) /\ job[t].pc = "try"
    BY DEF WalkInv, JobInv, Try
  <1>2. UNCHANGED <<list, enabled>>
    BY DEF Try, heaps
  <1>3. CASE Goto(t, "abort")
    BY <1>2, <1>3, LeavesWalk
  <1>4. CASE Goto(t, "null") /\ Impossible(Head(job[t].tries))
    <2> DEFINE j == [job[t] EXCEPT !.pc = "null"]
    <2>1. OnList(list, j) /\ j.tries = job[t].tries
      BY <1>1 DEF OnList, IsJob
    <2>2. job' = [job EXCEPT ![t] = j]
      BY <1>4 DEF Goto
    <2> HIDE DEF j
    <2> QED
      BY <1>2, <1>4, <2>1, <2>2, OneJob DEF Underway
  <1>5. CASE /\ ~Impossible(Head(job[t].tries))
             /\ job' = [job EXCEPT ![t].pc = "walk", ![t].prio = 1, ![t].rest = Len(list),
                                   ![t].known = ToSet(list) \cap enabled, ![t].refused = {}]
    <2> DEFINE j == [job[t] EXCEPT !.pc = "walk", !.prio = 1, !.rest = Len(list),
                                   !.known = ToSet(list) \cap enabled, !.refused = {}]
    <2>1. /\ j.pc = "walk" /\ j.prio = 1 /\ j.rest = Len(list) /\ j.op = job[t].op
          /\ j.known = ToSet(list) \cap enabled /\ j.tries = job[t].tries
          /\ j.region = job[t].region /\ IsJob(j)
      BY <1>1 DEF OnList, IsJob
    <2>2. job' = [job EXCEPT ![t] = j]
      BY <1>5 DEF WalkInv, JobInv
    <2> HIDE DEF j
    <2>3. Len(list) \in Nat \ {0} /\ DOMAIN list = 1 .. Len(list) /\ Prios \in Nat
      BY PriosNat DEF WalkInv, ListInv
    <2>4. OnList(list, j)
      BY <1>1, <1>5, <2>1, <2>3 DEF OnList
    <2>5. \A h \in ToSet(list) : ~Behind(list, j, h)
      BY <2>1, <2>3 DEF Behind, ToSet
    <2>6. Asked(list, j)
      BY <2>1, <2>3, <2>5 DEF Asked, DoneWith
    <2> QED
      BY <1>2, <2>1, <2>2, <2>4, <2>6, OneJob
  <1> QED
    BY <1>3, <1>4, <1>5 DEF Try

LEMMA WalksPossible ==
    ASSUME WalkInv, NEW t \in Tasks, job[t].pc = "walk"
    PROVE  Underway(job[t])
  BY DEF WalkInv, JobInv, OnList, Underway

\* A heap that does not match was not to be asked: the ones known are in use
LEMMA PassStep ==
    ASSUME WalkInv, NEW t \in Tasks, Pass(t)
    PROVE  WalkInv'
  <1> DEFINE j == job[t]
  <1>1. OnList(list, j) /\ j.pc = "walk" /\ ListInv /\ j \in {job[u] : u \in Tasks}
    BY DEF WalkInv, JobInv, Pass
  <1>2. job' = [job EXCEPT ![t] = Onward(j)] /\ UNCHANGED <<list, enabled>>
    BY DEF Pass, heaps
  <1>3. CASE Underway(j)
    <2>1. j.known \subseteq ToSet(list) \cap enabled /\ Asked(list, j)
      BY <1>3 DEF WalkInv, AskedInv
    <2>2. ~(Here(j) \in j.known /\ Offers(Here(j), j.prio, Wanted(j)))
      BY <2>1 DEF Pass, Matches, Offers
    <2>3. OnList(list, Onward(j)) /\ Onward(j).known = j.known /\ Asked(list, Onward(j))
      BY <1>1, <2>1, <2>2, OnwardKeeps
    <2> QED
      BY <1>2, <2>1, <2>3, OneJob
  <1> QED
    BY <1>1, <1>3, WalksPossible

\* A heap that refuses is asked
LEMMA RefuseStep ==
    ASSUME WalkInv, NEW t \in Tasks, Refuse(t)
    PROVE  WalkInv'
  <1> DEFINE j == job[t]
             k == [j EXCEPT !.refused = @ \cup {Here(j)}]
  <1>1. OnList(list, j) /\ j.pc = "walk" /\ ListInv
    BY DEF WalkInv, JobInv, Refuse
  <1>2. job' = [job EXCEPT ![t] = Onward(k)] /\ UNCHANGED <<list, enabled>>
    BY DEF Refuse, heaps
  <1>3. j.known \subseteq ToSet(list) \cap enabled /\ Asked(list, j)
    BY <1>1, WalksPossible DEF WalkInv, AskedInv
  <1>4. /\ k.refused = j.refused \cup {Here(j)} /\ k.known = j.known /\ k.tries = j.tries
        /\ k.pc = "walk" /\ k.prio = j.prio /\ k.rest = j.rest /\ k.op = j.op
        /\ k.region = j.region /\ IsJob(k)
    BY <1>1 DEF OnList, IsJob
  <1> HIDE DEF k
  <1>5. OnList(list, k) /\ Wanted(k) = Wanted(j) /\ Here(k) = Here(j)
    BY <1>1, <1>4 DEF OnList, Wanted, Here
  <1>6. \A h, i : DoneWith(list, k, h, i) => DoneWith(list, j, h, i)
    BY <1>1, <1>4 DEF DoneWith, Behind
  <1>7. Asked(list, k)
    BY <1>3, <1>4, <1>5, <1>6 DEF Asked
  <1>8. OnList(list, Onward(k)) /\ Onward(k).known = k.known /\ Asked(list, Onward(k))
    BY <1>1, <1>3, <1>4, <1>5, <1>7, OnwardKeeps
  <1> QED
    BY <1>2, <1>3, <1>4, <1>8, OneJob

LEMMA GrantStep ==
    ASSUME WalkInv, NEW t \in Tasks, Grant(t)
    PROVE  WalkInv'
  <1>1. OnList(list, job[t]) /\ job[t].pc = "walk" /\ Underway(job[t])
    BY WalksPossible DEF WalkInv, JobInv, Grant
  <1>2. PICK q : job' = [job EXCEPT ![t].pc = "got", ![t].new = q]
    BY DEF Grant
  <1> DEFINE j == [job[t] EXCEPT !.pc = "got", !.new = q]
  <1>3. job' = [job EXCEPT ![t] = j] /\ UNCHANGED <<list, enabled>>
    BY <1>2 DEF Grant, heaps, WalkInv, JobInv
  <1>4. /\ IsJob(j) /\ j.pc = "got" /\ j.tries = job[t].tries /\ j.known = job[t].known
        /\ j.refused = job[t].refused /\ j.prio = job[t].prio /\ j.op = job[t].op
        /\ j.region = job[t].region
    BY <1>1 DEF OnList, IsJob
  <1> HIDE DEF j
  <1>5. OnList(list, j) /\ Wanted(j) = Wanted(job[t])
    BY <1>1, <1>4 DEF OnList, Wanted
  <1>6. job[t].known \subseteq ToSet(list) \cap enabled /\ Asked(list, job[t])
    BY <1>1 DEF WalkInv, AskedInv
  <1>7. \A h, i : DoneWith(list, j, h, i) => DoneWith(list, job[t], h, i)
    BY <1>4 DEF DoneWith
  <1>8. Asked(list, j)
    BY <1>4, <1>5, <1>6, <1>7 DEF Asked
  <1> QED
    BY <1>3, <1>4, <1>5, <1>6, <1>8, OneJob

LEMMA NullStep ==
    ASSUME WalkInv, NEW t \in Tasks, Null(t)
    PROVE  WalkInv'
  <1>1. OnList(list, job[t]) /\ job[t].pc = "null" /\ job[t].tries \in Tries
    BY DEF WalkInv, JobInv, Null, OnList
  <1>2. UNCHANGED <<list, enabled>>
    BY DEF Null, heaps
  <1>3. CASE /\ Len(job[t].tries) > 1
             /\ job' = [job EXCEPT ![t].pc = "try", ![t].tries = Tail(@)]
    <2> DEFINE rest == Tail(job[t].tries)
               j == [job[t] EXCEPT !.pc = "try", !.tries = rest]
    <2>1. rest \in Tries
      <3>1. /\ rest \in Seq(SUBSET Capabilities) /\ Len(rest) = Len(job[t].tries) - 1
            /\ DOMAIN rest = 1 .. Len(job[t].tries) - 1
            /\ \A i \in DOMAIN rest : i + 1 \in DOMAIN job[t].tries /\ rest[i] = job[t].tries[i + 1]
        BY <1>1, <1>3 DEF Tries
      <3> HIDE DEF rest
      <3>2. rest # <<>>
        BY <1>3, <3>1
      <3> QED
        BY <1>1, <3>1, <3>2 DEF Tries
    <2>2. job' = [job EXCEPT ![t] = j]
      BY <1>3 DEF WalkInv, JobInv
    <2> HIDE DEF rest
    <2>3. IsJob(j) /\ j.pc = "try" /\ j.tries = rest /\ j.op = job[t].op /\ j.region = job[t].region
      BY <1>1 DEF OnList, IsJob
    <2> HIDE DEF j
    <2> QED
      BY <1>1, <1>2, <2>1, <2>2, <2>3, Begins DEF OnList
  <1>4. CASE Finish(t)
    BY <1>2, <1>4, BecomesIdle
  <1> QED
    BY <1>3, <1>4 DEF Null

\* The block is returned or copied, the old one given back
LEMMA EndStep ==
    ASSUME WalkInv, NEW t \in Tasks, Return(t) \/ Copy(t) \/ Drop(t)
    PROVE  WalkInv'
  <1>1. UNCHANGED <<list, enabled>>
    BY DEF Return, Copy, Drop, heaps
  <1>2. CASE Return(t)
    BY <1>1, <1>2, BecomesIdle DEF Return
  <1>3. CASE Copy(t)
    BY <1>1, <1>3, LeavesWalk DEF Copy
  <1>4. CASE Drop(t)
    BY <1>1, <1>4, LeavesWalk, BecomesIdle DEF Drop
  <1> QED
    BY <1>2, <1>3, <1>4

\* A region is inserted in front of every walk
LEMMA InsertStep ==
    ASSUME WalkInv, NEW t \in Tasks, Insert(t)
    PROVE  WalkInv'
  <1> DEFINE r == job[t].region
  <1>1. r \in Heaps /\ list \in Seq(Heaps) /\ enabled \subseteq Heaps
    BY DEF WalkInv, JobInv, ListInv, OnList, Insert
  <1>2. list' = <<r>> \o list /\ enabled' = enabled \cup {r}
    BY DEF Insert, Inserted
  <1>3. job' = [job EXCEPT ![t] = NoJob]
    BY DEF Insert, Finish
  <1> HIDE DEF r
  <1>4. ListInv'
    BY <1>1, <1>2 DEF ListInv
  <1>5. \A u \in Tasks : job'[u] = IF u = t THEN NoJob ELSE job[u]
    BY <1>3 DEF WalkInv, JobInv
  <1>6. OnList(list', NoJob) /\ ~Underway(NoJob)
    BY DEF OnList, IsJob, Underway, NoJob
  <1>7. \A u \in Tasks : /\ OnList(list', job[u])
                         /\ Asked(list, job[u]) => Asked(list', job[u])
    BY <1>1, <1>2, InsertKeeps DEF WalkInv, JobInv
  <1>8. ToSet(list) \subseteq ToSet(list')
    BY <1>1, <1>2, <1>7, InsertKeeps DEF WalkInv, JobInv
  <1>9. JobInv'
    <2>1. job' = [u \in Tasks |-> job'[u]]
      BY <1>3 DEF WalkInv, JobInv
    <2> QED
      BY <1>5, <1>6, <1>7, <2>1 DEF JobInv
  <1>10. AskedInv'
    <2> SUFFICES ASSUME NEW u \in Tasks, Underway(job[u])
                 PROVE  /\ job[u].known \subseteq ToSet(list') \cap enabled'
                        /\ Asked(list', job[u])
      BY <1>5, <1>6 DEF AskedInv
    <2> QED
      BY <1>2, <1>7, <1>8 DEF WalkInv, AskedInv
  <1> QED
    BY <1>4, <1>9, <1>10 DEF WalkInv

\* More heaps come into use, none is known before an attempt begins
LEMMA EnableStep ==
    ASSUME WalkInv, NEW h \in StackHeaps, EnableStackHeap(h)
    PROVE  WalkInv'
  <1>1. h \in Heaps
    BY DEF EnableStackHeap, WalkInv, ListInv, ToSet
  <1> QED
    BY <1>1 DEF EnableStackHeap, WalkInv, ListInv, JobInv, AskedInv

-----------------------------------------------------------------------------
(* The theorems *)

\* The inductive invariant of the walks, for every list of heaps, every number of tasks
\* and every sequence of attempts (heap_caps.c:106-167, heap_caps_init.c:201-214)
THEOREM WalkInvariant == Spec => []WalkInv
  <1>1. Init => WalkInv
    <2> SUFFICES ASSUME Init PROVE WalkInv
      OBVIOUS
    <2>1. \A t \in Tasks : job[t] = NoJob
      BY DEF Init
    <2>2. ListInv
      BY RegionAssumption DEF Init, ListInv, ToSet
    <2>3. OnList(list, NoJob) /\ ~Underway(NoJob)
      BY DEF OnList, IsJob, Underway, NoJob
    <2>4. JobInv /\ AskedInv
      <3>1. job = [t \in Tasks |-> job[t]]
        BY DEF Init
      <3> QED
        BY <2>1, <2>3, <3>1 DEF JobInv, AskedInv
    <2> QED
      BY <2>2, <2>4 DEF WalkInv
  <1>2. WalkInv /\ [Next]_vars => WalkInv'
    <2> SUFFICES ASSUME WalkInv, [Next]_vars PROVE WalkInv'
      OBVIOUS
    <2>1. CASE UNCHANGED vars
      BY <2>1, NoChange DEF vars, heaps
    <2>2. ASSUME NEW t \in Tasks, Step(t) PROVE WalkInv'
      BY <2>2, TryStep, PassStep, RefuseStep, GrantStep, NullStep, EndStep, InsertStep DEF Step
    <2> QED
      BY <2>1, <2>2, CallStep, EnableStep DEF Next
  <1> QED
    BY <1>1, <1>2, PTL DEF Spec

\* A heap that has all of some capabilities offers one of them at some priority
LEMMA FirstPrioExists ==
    ASSUME NEW h \in Heaps, NEW caps, caps # {}, caps \subseteq AllCaps(h)
    PROVE  FirstPrio(h, caps) \in 1 .. Prios /\ Offers(h, FirstPrio(h, caps), caps)
  <1>1. /\ Region[h].caps \in Seq(SUBSET Capabilities) /\ Len(Region[h].caps) = Prios
        /\ DOMAIN Region[h].caps = 1 .. Prios /\ Prios \in Nat
    <2>1. BootList[1] \in Heaps
      BY RegionAssumption
    <2> QED
      BY <2>1, RegionAssumption DEF Prios
  <1> DEFINE S == {i \in 1 .. Prios : Region[h].caps[i] \cap caps # {}}
  <1>2. S # {}
    <2>1. PICK c \in caps : TRUE
      OBVIOUS
    <2>2. PICK i \in DOMAIN Region[h].caps : c \in Region[h].caps[i]
      BY <2>1 DEF AllCaps, ToSet
    <2> QED
      BY <1>1, <2>1, <2>2
  <1>3. S \in SUBSET Nat
    BY <1>1
  <1>4. PICK i \in S : \A k \in S : i <= k
    BY <1>2, <1>3, Least
  <1>5. \A k \in 1 .. i - 1 : Region[h].caps[k] \cap caps = {}
    BY <1>1, <1>4
  <1>6. /\ FirstPrio(h, caps) \in 1 .. Prios
        /\ Region[h].caps[FirstPrio(h, caps)] \cap caps # {}
    BY <1>4, <1>5, Zenon DEF FirstPrio
  <1> QED
    BY <1>6 DEF Offers

\* NULL means that every heap with the capabilities has refused, and a block of a lower
\* priority that the heaps of the higher ones have, whatever was added to the list
\* meanwhile (heap_caps.c:123-166)
THEOREM WalksAskInOrder == Spec => []AskedInOrder
  <1>1. WalkInv => AskedInOrder
    <2> SUFFICES ASSUME WalkInv, NEW t \in Tasks, NEW h \in job[t].known,
                        job[t].pc \in {"got", "null"}, ~Impossible(Head(job[t].tries)),
                        Wanted(job[t]) \subseteq AllCaps(h),
                        job[t].pc = "got" => FirstPrio(h, Wanted(job[t])) < job[t].prio
                 PROVE  h \in job[t].refused
      BY Zenon DEF AskedInOrder
    <2> DEFINE j == job[t]
               i == FirstPrio(h, Wanted(j))
    <2>1. Underway(j) /\ j.known \subseteq ToSet(list) \cap enabled /\ Asked(list, j)
      BY DEF WalkInv, AskedInv, Underway
    <2>2. h \in Heaps
      BY <2>1 DEF WalkInv, ListInv
    <2>3. Wanted(j) # {}
      <3>1. j.tries \in Tries
        BY DEF WalkInv, JobInv, OnList
      <3>2. Head(j.tries) = j.tries[1] /\ 1 \in DOMAIN j.tries
        BY <3>1 DEF Tries
      <3>3. Head(j.tries) # {}
        BY <3>1, <3>2 DEF Tries
      <3> QED
        BY <3>3 DEF Wanted
    <2>4. i \in 1 .. Prios /\ Offers(h, i, Wanted(j))
      BY <2>2, <2>3, FirstPrioExists
    <2>5. DoneWith(list, j, h, i)
      BY DEF DoneWith
    <2> QED
      BY <2>1, <2>4, <2>5 DEF Asked
  <1> QED
    BY WalkInvariant, <1>1, PTL

-----------------------------------------------------------------------------
(* Regions *)

InRegion(h, a) == Region[h].start <= a /\ a < Region[h].end

Apart(g, h) == Region[g].end <= Region[h].start \/ Region[h].end <= Region[g].start

\* A region added inside a block: the block's heap has its own header before it
Nests(g, h) == Region[h].start < Region[g].start /\ Region[g].end <= Region[h].end

\* Of the listed regions around an address the others are around h
Innermost(S, h, a) ==
    /\ h \in S /\ InRegion(h, a)
    /\ \A g \in S : InRegion(g, a) => g = h \/ Nests(h, g)

Laminar(S) ==
    \A g, h \in S : g = h \/ Apart(g, h) \/ Nests(g, h) \/ Nests(h, g)

-----------------------------------------------------------------------------
(* Blocks.  An account is a set of claims: who has the block, by which      *)
(* pointer, at which address the heap knows it, and with which capabilities *)

BlocksApart(f, h) ==
    /\ f = [p \in DOMAIN f |-> f[p]]
    /\ \A p \in DOMAIN f :
          /\ p \in Nat /\ f[p] \in Nat \ {0}
          /\ Region[h].start < p /\ p + f[p] <= Region[h].end
    /\ \A p, q \in DOMAIN f : p = q \/ p + f[p] <= q \/ q + f[q] <= p

\* The block of the heap h that the region m lies in, all of it
BlockOfRegion(al, m, h) ==
    Region[m].start \in DOMAIN al[h] /\ al[h][Region[m].start] = Region[m].end - Region[m].start

Contained(g, m) == Region[m].start <= Region[g].start /\ Region[g].end <= Region[m].end

\* The pointer to the block of n cells at d
PointsTo(p, d, n) == IF p \in Mirrored THEN p = MirrorBase - (d + n - 2) ELSE p = d

Backed(S, al, p, d, caps) ==
    \E h \in S :
        /\ Innermost(S, h, d) /\ d \in DOMAIN al[h]
        /\ p \in Cells \cup Mirrored /\ PointsTo(p, d, al[h][d])
        /\ caps \subseteq AllCaps(h)
        /\ Executable(h, caps) <=> p \in Mirrored

Ordered(S, al) ==
    /\ S \subseteq Heaps /\ Laminar(S)
    /\ al = [h \in Heaps |-> al[h]]
    /\ \A h \in Heaps : BlocksApart(al[h], h) /\ (h \notin S => DOMAIN al[h] = {})
    /\ \A g, h \in S : Nests(g, h) => \E m \in S : BlockOfRegion(al, m, h) /\ Contained(g, m)

Sound(S, al, C) ==
    /\ Ordered(S, al)
    /\ \A o, p, d, c : <<o, p, d, c>> \in C => Backed(S, al, p, d, c)
    /\ \A o, p, d, c, v, q, b : <<o, p, d, c>> \in C /\ <<v, q, d, b>> \in C =>
          o = v /\ p = q /\ c = b
    /\ \A h \in S : \A d \in DOMAIN al[h] :
          \/ \E o, p, c : <<o, p, d, c>> \in C
          \/ \E m \in S \ ToSet(BootList) : d = Region[m].start

DescriptorCaps == {"internal", "8bit"}

Held(t) == <<"held", t>>
Given(t) == <<"given", t>>
HeapsOwn == <<"heaps", NoHeap>>

DramOf(st, p) == IF p \in Mirrored THEN st[p] ELSE p

Claims(st, ho, jo, de) ==
    {<<HeapsOwn, p, DramOf(st, p), DescriptorCaps>> : p \in de}
    \cup (UNION {{<<Held(t), p, DramOf(st, p), ho[t][p]>> : p \in DOMAIN ho[t]} : t \in Tasks})
    \cup {<<Given(t), jo[t].new, DramOf(st, jo[t].new), Wanted(jo[t])>> :
             t \in {t \in Tasks : jo[t].pc \in {"got", "drop"}}}

\* The region a call adds is still outside all heaps, or a block the caller holds
Offer(S, al, held, r) ==
    /\ r \in Heaps \ S
    /\ \A h \in S : Apart(r, h) \/ Nests(r, h)
    /\ \/ \A h \in S : Apart(r, h)
       \/ /\ Region[r].start \in held
          /\ \E h \in S : Innermost(S, h, Region[r].start) /\ BlockOfRegion(al, r, h)

Sized(j) == j.size \in Nat \ {0}

CallOK(j, t, S, al, held, dt) ==
    /\ j.op \in {"none", "malloc", "realloc", "add"}
    /\ j.pc \in {"idle", "try", "walk", "got", "null", "drop"}
    /\ j.pc = "idle" <=> j.op = "none"
    /\ j.pc # "idle" => Sized(j)
    /\ IF j.pc \in {"got", "drop"} THEN j.new # 0 ELSE j.new = 0
    /\ j.pc = "walk" => j.prio <= Prios
    /\ j.pc = "drop" => j.op = "realloc" /\ dt[j.new] = t
    /\ j.op = "realloc" => j.old \in held
    /\ j.op = "add" => /\ t \in Adders
                       /\ j.tries = <<DescriptorCaps>>
                       /\ j.region \notin ToSet(BootList)
                       /\ Offer(S, al, held, j.region)

BlocksInv ==
    /\ RegionsApart
    /\ enabled \subseteq ToSet(list)
    /\ \A h \in Heaps : DOMAIN alloc[h] # {} => h \in enabled
    /\ stored \in [Mirrored -> Cells \cup {0}]
    /\ data \in [Pointers -> Tasks \cup {Junk}]
    /\ holds = [t \in Tasks |-> holds[t]]
    /\ descriptors \subseteq Cells
    /\ Sound(ToSet(list), alloc, Claims(stored, holds, job, descriptors))
    /\ DataKept
    /\ \A t \in Tasks : CallOK(job[t], t, ToSet(list), alloc, DOMAIN holds[t], data)

-----------------------------------------------------------------------------
(* What holds of regions and blocks *)

LEMMA RegionFacts ==
    ASSUME NEW h \in Heaps
    PROVE  /\ Region[h].start \in Nat \ {0} /\ Region[h].end \in Nat
           /\ Region[h].start < Region[h].end
           /\ Region[h].caps \in Seq(SUBSET Capabilities) /\ Region[h].caps # <<>>
  BY RegionAssumption

LEMMA CellFacts ==
    /\ \A h \in Heaps : \A a \in Nat : InRegion(h, a) => a \in Cells
    /\ Cells \subseteq Nat \ {0}
    /\ \A p \in Mirrored : p \in Nat \ {0} /\ p \notin Cells
    /\ \A c \in Cells : MirrorBase - c \in Mirrored
  <1>1. ASSUME NEW h \in Heaps, NEW a \in Nat, InRegion(h, a) PROVE a \in Cells
    BY <1>1, RegionFacts DEF InRegion, Cells
  <1>2. \A c \in Cells : c \in Nat \ {0}
    BY RegionFacts DEF Cells
  <1>3. ASSUME NEW p \in Mirrored PROVE p \in Nat \ {0} /\ p \notin Cells
    <2>1. PICK c \in Cells : p = MirrorBase - c
      BY DEF Mirrored
    <2> QED
      BY <1>2, <2>1, RegionAssumption
  <1> QED
    BY <1>1, <1>2, <1>3 DEF Mirrored

\* Two listed regions around a cell nest
LEMMA Around ==
    ASSUME NEW S \in SUBSET Heaps, Laminar(S), NEW g \in S, NEW h \in S, NEW a \in Nat,
           InRegion(g, a), InRegion(h, a)
    PROVE  g = h \/ Nests(g, h) \/ Nests(h, g)
  BY RegionFacts DEF Laminar, InRegion, Apart

LEMMA InnermostUnique ==
    ASSUME NEW S \in SUBSET Heaps, NEW a \in Nat, NEW g, NEW h,
           Innermost(S, g, a), Innermost(S, h, a)
    PROVE  g = h
  <1>1. g \in S /\ h \in S /\ InRegion(g, a) /\ InRegion(h, a)
    BY DEF Innermost
  <1>2. (g = h \/ Nests(g, h)) /\ (h = g \/ Nests(h, g))
    BY <1>1 DEF Innermost
  <1> QED
    BY <1>1, <1>2, RegionFacts DEF Nests

\* A cell of a nested region is in the block that the region was made of
LEMMA InBlockOfRegion ==
    ASSUME NEW S, NEW al, Ordered(S, al), NEW g \in S, NEW h \in S, Nests(g, h),
           NEW a \in Nat, InRegion(g, a)
    PROVE  \E m \in S : /\ Region[m].start \in DOMAIN al[h]
                        /\ Region[m].start <= a /\ a < Region[m].start + al[h][Region[m].start]
  <1>1. PICK m \in S : BlockOfRegion(al, m, h) /\ Contained(g, m)
    BY DEF Ordered
  <1>2. g \in Heaps /\ m \in Heaps
    BY DEF Ordered
  <1> QED
    BY <1>1, <1>2, RegionFacts DEF BlockOfRegion, Contained, InRegion

\* A block where its heap is the innermost one is not a region
LEMMA NotARegion ==
    ASSUME NEW S, NEW al, Ordered(S, al), NEW h \in S, NEW d,
           Innermost(S, h, d), d \in DOMAIN al[h]
    PROVE  \A m \in S : d # Region[m].start
  <1> SUFFICES ASSUME NEW m \in S, d = Region[m].start PROVE FALSE
    OBVIOUS
  <1>1. m \in Heaps /\ h \in Heaps
    BY DEF Ordered
  <1>2. InRegion(m, d)
    BY <1>1, RegionFacts DEF InRegion
  <1>3. m = h \/ Nests(h, m)
    BY <1>2 DEF Innermost
  <1>4. d \in Nat /\ Region[h].start < d
    BY <1>1 DEF Ordered, BlocksApart
  <1> QED
    BY <1>1, <1>3, <1>4, RegionFacts DEF Nests

\* Two blocks with a cell in common are one, if neither has become a region
LEMMA OneBlock ==
    ASSUME NEW S, NEW al, Ordered(S, al), NEW g \in S, NEW h \in S,
           NEW d \in DOMAIN al[g], NEW e \in DOMAIN al[h], NEW a \in Nat,
           \A m \in S : d # Region[m].start /\ e # Region[m].start,
           d <= a, a < d + al[g][d], e <= a, a < e + al[h][e]
    PROVE  g = h /\ d = e
  <1>1. S \in SUBSET Heaps /\ Laminar(S)
    BY DEF Ordered
  <1>2. BlocksApart(al[g], g) /\ BlocksApart(al[h], h)
    BY <1>1 DEF Ordered
  <1>3. InRegion(g, a) /\ InRegion(h, a)
    <2>1. /\ d \in Nat /\ al[g][d] \in Nat /\ Region[g].start < d /\ d + al[g][d] <= Region[g].end
          /\ e \in Nat /\ al[h][e] \in Nat /\ Region[h].start < e /\ e + al[h][e] <= Region[h].end
      BY <1>2 DEF BlocksApart
    <2>2. {Region[g].start, Region[g].end, Region[h].start, Region[h].end} \subseteq Nat
      BY <1>1, RegionFacts
    <2> QED
      BY <2>1, <2>2 DEF InRegion
  <1>4. CASE g = h
    BY <1>2, <1>4 DEF BlocksApart
  <1>5. CASE Nests(g, h)
    <2>1. PICK m \in S : /\ Region[m].start \in DOMAIN al[h]
                         /\ Region[m].start <= a /\ a < Region[m].start + al[h][Region[m].start]
      BY <1>3, <1>5, InBlockOfRegion
    <2> QED
      BY <1>2, <2>1 DEF BlocksApart
  <1>6. CASE Nests(h, g)
    <2>1. PICK m \in S : /\ Region[m].start \in DOMAIN al[g]
                         /\ Region[m].start <= a /\ a < Region[m].start + al[g][Region[m].start]
      BY <1>3, <1>6, InBlockOfRegion
    <2> QED
      BY <1>2, <2>1 DEF BlocksApart
  <1> QED
    BY <1>1, <1>3, <1>4, <1>5, <1>6, Around

-----------------------------------------------------------------------------
(* How the accounts change: a block is given out, given back, passed on, or *)
(* becomes a region                                                         *)

LEMMA BackedStays ==
    ASSUME NEW S, NEW al, NEW am, NEW p, NEW d, NEW c, Backed(S, al, p, d, c),
           \A h \in S : d \in DOMAIN al[h] => d \in DOMAIN am[h] /\ am[h][d] = al[h][d]
    PROVE  Backed(S, am, p, d, c)
  BY DEF Backed

\* Where the heap finds room, no other region is
LEMMA RoomIsInnermost ==
    ASSUME NEW S, NEW al, Ordered(S, al), NEW h \in S, NEW a \in Nat, InRegion(h, a),
           \A q \in DOMAIN al[h] : a < q \/ q + al[h][q] <= a
    PROVE  Innermost(S, h, a)
  <1>1. S \in SUBSET Heaps /\ Laminar(S) /\ BlocksApart(al[h], h)
    BY DEF Ordered
  <1>2. ASSUME NEW g \in S, InRegion(g, a), Nests(g, h) PROVE FALSE
    <2>1. PICK m \in S : /\ Region[m].start \in DOMAIN al[h]
                         /\ Region[m].start <= a /\ a < Region[m].start + al[h][Region[m].start]
      BY <1>2, InBlockOfRegion
    <2> QED
      BY <1>1, <2>1 DEF BlocksApart
  <1> QED
    BY <1>1, <1>2, Around DEF Innermost

\* A heap with one more block
LEMMA OneMore ==
    ASSUME NEW S, NEW al, Ordered(S, al), NEW h \in S, NEW d \in Nat, NEW n \in Nat \ {0},
           Region[h].start < d, d + n <= Region[h].end,
           \A q \in DOMAIN al[h] : d + n <= q \/ q + al[h][q] <= d
    PROVE  LET am == [al EXCEPT ![h] = With(@, d, n)]
           IN  /\ Ordered(S, am)
               /\ d \notin DOMAIN al[h] /\ d \in DOMAIN am[h] /\ am[h][d] = n
               /\ DOMAIN am[h] = DOMAIN al[h] \cup {d}
               /\ \A g \in Heaps : g # h => am[g] = al[g]
               /\ \A g \in Heaps : \A e \in DOMAIN al[g] : e \in DOMAIN am[g] /\ am[g][e] = al[g][e]
  <1> DEFINE f == With(al[h], d, n)
             am == [al EXCEPT ![h] = f]
  <1>1. /\ S \in SUBSET Heaps /\ Laminar(S) /\ BlocksApart(al[h], h) /\ h \in Heaps
        /\ al = [g \in Heaps |-> al[g]]
    BY DEF Ordered
  <1>2. d \notin DOMAIN al[h]
    BY <1>1 DEF BlocksApart
  <1>3. /\ DOMAIN f = DOMAIN al[h] \cup {d} /\ f[d] = n
        /\ \A q \in DOMAIN al[h] : f[q] = al[h][q]
        /\ f = [q \in DOMAIN f |-> f[q]]
    BY <1>2 DEF With
  <1> HIDE DEF f
  <1>4. /\ am = [g \in Heaps |-> am[g]] /\ am[h] = f
        /\ \A g \in Heaps : g # h => am[g] = al[g]
    BY <1>1
  <1> HIDE DEF am
  <1>5. BlocksApart(f, h)
    BY <1>1, <1>3 DEF BlocksApart
  <1>6. \A g \in Heaps : \A e \in DOMAIN al[g] : e \in DOMAIN am[g] /\ am[g][e] = al[g][e]
    BY <1>3, <1>4
  <1>7. \A g \in Heaps : BlocksApart(am[g], g) /\ (g \notin S => DOMAIN am[g] = {})
    BY <1>4, <1>5 DEF Ordered
  <1>8. ASSUME NEW g \in S, NEW k \in S, Nests(g, k)
        PROVE  \E m \in S : BlockOfRegion(am, m, k) /\ Contained(g, m)
    <2>1. PICK m \in S : BlockOfRegion(al, m, k) /\ Contained(g, m)
      BY <1>8 DEF Ordered
    <2>2. BlockOfRegion(am, m, k)
      BY <1>1, <1>6, <2>1 DEF BlockOfRegion
    <2> QED
      BY <2>1, <2>2
  <1>9. Ordered(S, am)
    BY <1>1, <1>4, <1>7, <1>8 DEF Ordered
  <1> QED
    BY <1>2, <1>3, <1>4, <1>6, <1>9 DEF am, f

\* A block is given out
LEMMA GrantSound ==
    ASSUME NEW S, NEW al, NEW C, Sound(S, al, C), NEW h \in S, NEW d \in Nat, NEW n \in Nat \ {0},
           Region[h].start < d, d + n <= Region[h].end,
           \A q \in DOMAIN al[h] : d + n <= q \/ q + al[h][q] <= d,
           NEW o, NEW p \in Cells \cup Mirrored, NEW c, PointsTo(p, d, n),
           c \subseteq AllCaps(h), Executable(h, c) <=> p \in Mirrored
    PROVE  /\ Sound(S, [al EXCEPT ![h] = With(@, d, n)], C \cup {<<o, p, d, c>>})
           /\ \A v, e, b : <<v, p, e, b>> \notin C
  <1> DEFINE am == [al EXCEPT ![h] = With(@, d, n)]
             D == C \cup {<<o, p, d, c>>}
  <1>1. Ordered(S, al) /\ S \in SUBSET Heaps
    BY DEF Sound, Ordered
  <1>2. /\ Ordered(S, am)
        /\ d \notin DOMAIN al[h] /\ d \in DOMAIN am[h] /\ am[h][d] = n
        /\ DOMAIN am[h] = DOMAIN al[h] \cup {d}
        /\ \A g \in Heaps : g # h => am[g] = al[g]
        /\ \A g \in Heaps : \A e \in DOMAIN al[g] : e \in DOMAIN am[g] /\ am[g][e] = al[g][e]
    BY <1>1, OneMore
  <1> HIDE DEF am
  <1>3. Innermost(S, h, d)
    <2>1. h \in Heaps /\ BlocksApart(al[h], h)
      BY <1>1 DEF Ordered
    <2>2. InRegion(h, d)
      BY <2>1, RegionFacts DEF InRegion
    <2>3. \A q \in DOMAIN al[h] : d < q \/ q + al[h][q] <= d
      BY <2>1 DEF BlocksApart
    <2> QED
      BY <1>1, <2>2, <2>3, RoomIsInnermost
  <1>4. \A m \in S : d # Region[m].start
    BY <1>2, <1>3, NotARegion
  \* Who has a block has another one, and another pointer
  <1>5. ASSUME NEW v, NEW q, NEW e, NEW b, <<v, q, e, b>> \in C PROVE e # d /\ q # p
    <2>1. PICK g \in S : /\ Innermost(S, g, e) /\ e \in DOMAIN al[g]
                         /\ q \in Cells \cup Mirrored /\ PointsTo(q, e, al[g][e])
      BY <1>5 DEF Sound, Backed
    <2>2. \A m \in S : e # Region[m].start
      BY <1>1, <2>1, NotARegion
    <2>3. e \in DOMAIN am[g] /\ am[g][e] = al[g][e] /\ BlocksApart(am[g], g)
      BY <1>1, <1>2, <2>1 DEF Ordered
    <2>4. e # d
      <3> SUFFICES ASSUME e = d PROVE FALSE
        OBVIOUS
      <3>1. g = h
        BY <1>1, <1>3, <2>1, InnermostUnique
      <3> QED
        BY <1>2, <2>1, <3>1
    <2>5. q # p
      <3> SUFFICES ASSUME q = p PROVE FALSE
        OBVIOUS
      <3>1. CASE p \notin Mirrored
        BY <2>1, <2>4, <3>1 DEF PointsTo
      <3>2. CASE p \in Mirrored
        <4>1. MirrorBase \in Nat /\ e \in Nat /\ am[g][e] \in Nat \ {0}
          BY <2>3, RegionAssumption DEF BlocksApart
        <4>2. e + am[g][e] = d + n
          BY <2>1, <2>3, <3>2, <4>1 DEF PointsTo
        <4> DEFINE a == d + n - 1
        <4>3. a \in Nat /\ d <= a /\ a < d + am[h][d] /\ e <= a /\ a < e + am[g][e]
          BY <1>2, <4>1, <4>2
        <4> HIDE DEF a
        <4>4. e = d
          BY <1>2, <1>4, <2>2, <2>3, <4>3, OneBlock
        <4> QED
          BY <2>4, <4>4
      <3> QED
        BY <3>1, <3>2
    <2> QED
      BY <2>4, <2>5
  <1>6. Backed(S, am, p, d, c)
    BY <1>2, <1>3 DEF Backed
  <1>7. ASSUME NEW v, NEW q, NEW e, NEW b, <<v, q, e, b>> \in D PROVE Backed(S, am, q, e, b)
    <2>1. CASE <<v, q, e, b>> = <<o, p, d, c>>
      BY <1>6, <2>1
    <2>2. CASE <<v, q, e, b>> \in C
      <3>1. Backed(S, al, q, e, b)
        BY <2>2 DEF Sound
      <3> QED
        BY <1>1, <1>2, <3>1, BackedStays
    <2> QED
      BY <1>7, <2>1, <2>2
  <1>8. ASSUME NEW v, NEW q, NEW e, NEW b, NEW w, NEW r, NEW k, <<v, q, e, b>> \in D, <<w, r, e, k>> \in D
        PROVE  v = w /\ q = r /\ b = k
    <2>1. CASE <<v, q, e, b>> \in C /\ <<w, r, e, k>> \in C
      BY <2>1 DEF Sound
    <2>2. CASE <<v, q, e, b>> = <<o, p, d, c>>
      <3>1. e = d
        BY <2>2
      <3>2. <<w, r, e, k>> \notin C
        BY <1>5, <3>1
      <3>3. <<w, r, e, k>> = <<o, p, d, c>>
        BY <1>8, <3>2
      <3> QED
        BY <2>2, <3>3
    <2>3. CASE <<w, r, e, k>> = <<o, p, d, c>>
      <3>1. e = d
        BY <2>3
      <3>2. <<v, q, e, b>> \notin C
        BY <1>5, <3>1
      <3>3. <<v, q, e, b>> = <<o, p, d, c>>
        BY <1>8, <3>2
      <3> QED
        BY <2>3, <3>3
    <2> QED
      BY <1>8, <2>1, <2>2, <2>3
  <1>9. ASSUME NEW g \in S, NEW e \in DOMAIN am[g]
        PROVE  \/ \E v, q, b : <<v, q, e, b>> \in D
               \/ \E m \in S \ ToSet(BootList) : e = Region[m].start
    <2>1. e \in DOMAIN al[g] \/ e = d
      BY <1>1, <1>2
    <2>2. CASE e = d
      BY <2>2
    <2>3. CASE e \in DOMAIN al[g]
      BY <2>3 DEF Sound
    <2> QED
      BY <2>1, <2>2, <2>3
  <1> HIDE DEF D
  <1>10. Sound(S, am, D)
    <2>1. \A v, q, e, b : <<v, q, e, b>> \in D => Backed(S, am, q, e, b)
      BY <1>7
    <2>2. \A v, q, e, b, w, r, k : <<v, q, e, b>> \in D /\ <<w, r, e, k>> \in D =>
             v = w /\ q = r /\ b = k
      BY <1>8
    <2>3. \A g \in S : \A e \in DOMAIN am[g] :
             \/ \E v, q, b : <<v, q, e, b>> \in D
             \/ \E m \in S \ ToSet(BootList) : e = Region[m].start
      BY <1>9
    <2> QED
      BY <1>2, <2>1, <2>2, <2>3 DEF Sound
  <1> QED
    BY <1>5, <1>10 DEF am, D

\* The block of a claim is nowhere else: no other heap knows the address
LEMMA OnlyThere ==
    ASSUME NEW S, NEW al, Ordered(S, al), NEW h \in S, NEW d,
           Innermost(S, h, d), d \in DOMAIN al[h], NEW g \in S, d \in DOMAIN al[g]
    PROVE  g = h
  <1>1. BlocksApart(al[h], h) /\ BlocksApart(al[g], g)
    BY DEF Ordered
  <1>2. /\ d \in Nat /\ d < d + al[h][d] /\ d < d + al[g][d]
    BY <1>1 DEF BlocksApart
  <1>3. \A m \in S : d # Region[m].start
    BY NotARegion
  <1> QED
    BY <1>2, <1>3, OneBlock

\* A heap with one block less, which is not a region
LEMMA OneLess ==
    ASSUME NEW S, NEW al, Ordered(S, al), NEW h \in S, NEW d,
           Innermost(S, h, d), d \in DOMAIN al[h]
    PROVE  LET am == [al EXCEPT ![h] = Without(@, d)]
           IN  /\ Ordered(S, am)
               /\ \A g \in Heaps : g # h => am[g] = al[g]
               /\ DOMAIN am[h] = DOMAIN al[h] \ {d}
               /\ \A g \in S : \A e \in DOMAIN al[g] : e # d => e \in DOMAIN am[g] /\ am[g][e] = al[g][e]
               /\ \A g \in S : DOMAIN am[g] \subseteq DOMAIN al[g] \ {d}
  <1> DEFINE f == Without(al[h], d)
             am == [al EXCEPT ![h] = f]
  <1>1. /\ S \in SUBSET Heaps /\ Laminar(S) /\ BlocksApart(al[h], h) /\ h \in Heaps
        /\ al = [g \in Heaps |-> al[g]]
    BY DEF Ordered
  <1>2. /\ DOMAIN f = DOMAIN al[h] \ {d} /\ \A q \in DOMAIN f : f[q] = al[h][q]
        /\ f = [q \in DOMAIN f |-> f[q]]
    BY DEF Without
  <1> HIDE DEF f
  <1>3. /\ am = [g \in Heaps |-> am[g]] /\ am[h] = f
        /\ \A g \in Heaps : g # h => am[g] = al[g]
    BY <1>1
  <1> HIDE DEF am
  <1>4. BlocksApart(f, h)
    BY <1>1, <1>2 DEF BlocksApart
  <1>5. \A g \in Heaps : BlocksApart(am[g], g) /\ (g \notin S => DOMAIN am[g] = {})
    BY <1>3, <1>4 DEF Ordered
  <1>6. \A g \in S : \A e \in DOMAIN al[g] : e # d => e \in DOMAIN am[g] /\ am[g][e] = al[g][e]
    BY <1>1, <1>2, <1>3
  <1>7. \A m \in S : d # Region[m].start
    BY NotARegion
  <1>8. ASSUME NEW g \in S, NEW k \in S, Nests(g, k)
        PROVE  \E m \in S : BlockOfRegion(am, m, k) /\ Contained(g, m)
    <2>1. PICK m \in S : BlockOfRegion(al, m, k) /\ Contained(g, m)
      BY <1>8 DEF Ordered
    <2>2. BlockOfRegion(am, m, k)
      BY <1>6, <1>7, <2>1 DEF BlockOfRegion
    <2> QED
      BY <2>1, <2>2
  <1>9. Ordered(S, am)
    BY <1>1, <1>3, <1>5, <1>8 DEF Ordered
  <1>10. ASSUME NEW g \in S PROVE DOMAIN am[g] \subseteq DOMAIN al[g] \ {d}
    <2>1. CASE g = h
      BY <1>2, <1>3, <2>1
    <2>2. CASE g # h
      BY <1>1, <1>3, <2>2, OnlyThere
    <2> QED
      BY <2>1, <2>2
  <1> QED
    BY <1>2, <1>3, <1>6, <1>9, <1>10 DEF am, f

\* A block is given back
LEMMA ReleaseSound ==
    ASSUME NEW S, NEW al, NEW C, Sound(S, al, C), NEW o, NEW p, NEW d, NEW c, <<o, p, d, c>> \in C,
           NEW h \in S, Innermost(S, h, d), d \in DOMAIN al[h]
    PROVE  Sound(S, [al EXCEPT ![h] = Without(@, d)], C \ {<<o, p, d, c>>})
  <1> DEFINE am == [al EXCEPT ![h] = Without(@, d)]
             D == C \ {<<o, p, d, c>>}
  <1>1. Ordered(S, al) /\ S \in SUBSET Heaps
    BY DEF Sound, Ordered
  <1>2. /\ Ordered(S, am)
        /\ \A g \in S : \A e \in DOMAIN al[g] : e # d => e \in DOMAIN am[g] /\ am[g][e] = al[g][e]
        /\ \A g \in S : DOMAIN am[g] \subseteq DOMAIN al[g] \ {d}
    BY <1>1, OneLess
  <1> HIDE DEF am
  <1>3. ASSUME NEW v, NEW q, NEW e, NEW b, <<v, q, e, b>> \in D PROVE Backed(S, am, q, e, b)
    <2>1. <<v, q, e, b>> \in C /\ Backed(S, al, q, e, b)
      BY <1>3 DEF Sound
    <2>2. e # d
      BY <1>3, <2>1 DEF Sound
    <2> QED
      BY <1>2, <2>1, <2>2, BackedStays
  <1>4. \A v, q, e, b, w, r, k : <<v, q, e, b>> \in D /\ <<w, r, e, k>> \in D =>
           v = w /\ q = r /\ b = k
    BY DEF Sound
  <1>5. ASSUME NEW g \in S, NEW e \in DOMAIN am[g]
        PROVE  \/ \E v, q, b : <<v, q, e, b>> \in D
               \/ \E m \in S \ ToSet(BootList) : e = Region[m].start
    <2>1. e \in DOMAIN al[g] /\ e # d
      BY <1>2
    <2>2. CASE \E v, q, b : <<v, q, e, b>> \in C
      <3>1. PICK v, q, b : <<v, q, e, b>> \in C
        BY <2>2
      <3>2. <<v, q, e, b>> # <<o, p, d, c>>
        BY <2>1
      <3> QED
        BY <3>1, <3>2
    <2> QED
      BY <2>1, <2>2 DEF Sound
  <1>6. \A v, q, e, b : <<v, q, e, b>> \in D => Backed(S, am, q, e, b)
    BY <1>3
  <1>7. \A g \in S : \A e \in DOMAIN am[g] :
           \/ \E v, q, b : <<v, q, e, b>> \in D
           \/ \E m \in S \ ToSet(BootList) : e = Region[m].start
    BY <1>5
  <1> HIDE DEF D
  <1>8. Sound(S, am, D)
    BY <1>2, <1>4, <1>6, <1>7 DEF Sound
  <1> QED
    BY <1>8 DEF am, D

\* A block is passed on: malloc returns, or realloc does
LEMMA PassSound ==
    ASSUME NEW S, NEW al, NEW C, Sound(S, al, C), NEW o, NEW p, NEW d, NEW c, <<o, p, d, c>> \in C,
           NEW w
    PROVE  Sound(S, al, (C \ {<<o, p, d, c>>}) \cup {<<w, p, d, c>>})
  <1> DEFINE x == <<o, p, d, c>>
             y == <<w, p, d, c>>
             D == (C \ {x}) \cup {y}
  <1>1. ASSUME NEW v, NEW q, NEW e, NEW b, <<v, q, e, b>> \in D
        PROVE  \E u : <<u, q, e, b>> \in C
    <2>1. CASE <<v, q, e, b>> = y
      BY <2>1
    <2>2. CASE <<v, q, e, b>> \in C
      BY <2>2
    <2> QED
      BY <1>1, <2>1, <2>2
  <1>2. \A v, q, e, b : <<v, q, e, b>> \in D => Backed(S, al, q, e, b)
    BY <1>1 DEF Sound
  <1>3. ASSUME NEW v, NEW q, NEW e, NEW b, <<v, q, e, b>> \in D
        PROVE  IF e = d THEN <<v, q, e, b>> = y ELSE <<v, q, e, b>> \in C
    <2>1. CASE e = d /\ <<v, q, e, b>> \in C
      <3>1. v = o /\ q = p /\ b = c
        BY <2>1 DEF Sound
      <3>2. <<v, q, e, b>> = x
        BY <2>1, <3>1
      <3> QED
        BY <1>3, <2>1, <3>2
    <2>2. CASE e # d
      <3>1. <<v, q, e, b>> # y
        BY <2>2
      <3> QED
        BY <1>3, <2>2, <3>1
    <2> QED
      BY <1>3, <2>1, <2>2
  <1>4. ASSUME NEW v, NEW q, NEW e, NEW b, NEW u, NEW r, NEW k, <<v, q, e, b>> \in D, <<u, r, e, k>> \in D
        PROVE  v = u /\ q = r /\ b = k
    <2>1. CASE e = d
      <3>1. <<v, q, e, b>> = y /\ <<u, r, e, k>> = y
        BY <1>3, <1>4, <2>1
      <3> QED
        BY <3>1
    <2>2. CASE e # d
      <3>1. <<v, q, e, b>> \in C /\ <<u, r, e, k>> \in C
        BY <1>3, <1>4, <2>2
      <3> QED
        BY <3>1 DEF Sound
    <2> QED
      BY <2>1, <2>2
  <1>5. ASSUME NEW e, NEW v, NEW q, NEW b, <<v, q, e, b>> \in C
        PROVE  \E u, r, k : <<u, r, e, k>> \in D
    <2>1. CASE <<v, q, e, b>> = x
      <3>1. e = d
        BY <2>1
      <3> QED
        BY <3>1
    <2>2. CASE <<v, q, e, b>> # x
      BY <1>5, <2>2
    <2> QED
      BY <2>1, <2>2
  <1>6. \A g \in S : \A e \in DOMAIN al[g] :
           \/ \E v, q, b : <<v, q, e, b>> \in D
           \/ \E m \in S \ ToSet(BootList) : e = Region[m].start
    BY <1>5 DEF Sound
  <1>7. \A v, q, e, b, u, r, k : <<v, q, e, b>> \in D /\ <<u, r, e, k>> \in D =>
           v = u /\ q = r /\ b = k
    BY <1>4
  <1> HIDE DEF D
  <1>8. Sound(S, al, D)
    BY <1>2, <1>6, <1>7 DEF Sound
  <1> QED
    BY <1>8 DEF D

\* A region joins the heaps: what was a block is one no longer
LEMMA JoinOrdered ==
    ASSUME NEW S, NEW al, Ordered(S, al), NEW held, NEW r, Offer(S, al, held, r)
    PROVE  Ordered(S \cup {r}, al)
  <1> DEFINE T == S \cup {r}
             s == Region[r].start
  <1>1. /\ S \in SUBSET Heaps /\ Laminar(S) /\ r \in Heaps /\ r \notin S
        /\ \A h \in S : Apart(r, h) \/ Nests(r, h)
    BY DEF Ordered, Offer
  <1>2. T \subseteq Heaps /\ Laminar(T)
    BY <1>1 DEF Laminar, Apart
  <1>3. \A g \in T : Apart(g, r) => ~Nests(g, r) /\ ~Nests(r, g)
    BY <1>2, RegionFacts DEF Apart, Nests
  <1>4. ASSUME NEW g \in T, NEW h \in T, Nests(g, h)
        PROVE  \E m \in T : BlockOfRegion(al, m, h) /\ Contained(g, m)
    <2>1. CASE g \in S /\ h \in S
      BY <1>4, <2>1 DEF Ordered
    <2>2. h \in S
      <3> SUFFICES ASSUME h = r PROVE FALSE
        OBVIOUS
      <3>1. g \in Heaps
        BY <1>2
      <3>2. g = r \/ Apart(r, g) \/ Nests(r, g)
        BY <1>1
      <3> QED
        BY <1>1, <1>4, <3>1, <3>2, RegionFacts DEF Apart, Nests
    <2>3. CASE g = r
      <3>1. ~Apart(r, h)
        BY <1>1, <1>4, <2>2, <2>3, RegionFacts DEF Apart, Nests
      <3>2. PICK k \in S : Innermost(S, k, s) /\ BlockOfRegion(al, r, k)
        BY <2>2, <3>1 DEF Offer
      <3>3. InRegion(h, s)
        BY <1>1, <1>4, <2>2, <2>3, RegionFacts DEF Nests, InRegion
      <3>4. CASE h = k
        BY <1>1, <2>3, <3>2, <3>4, RegionFacts DEF Contained
      <3>5. CASE Nests(k, h)
        <4>1. PICK m \in S : BlockOfRegion(al, m, h) /\ Contained(k, m)
          BY <2>2, <3>5 DEF Ordered
        <4>2. /\ s \in Nat /\ Region[k].start < s /\ s + al[k][s] <= Region[k].end
              /\ al[k][s] = Region[r].end - s
          BY <3>2 DEF Ordered, BlocksApart, BlockOfRegion
        <4>3. Contained(r, m)
          <5>1. {Region[r].end, Region[k].start, Region[k].end, Region[m].start, Region[m].end} \subseteq Nat
            BY <1>1, RegionFacts
          <5> QED
            BY <4>1, <4>2, <5>1 DEF Contained
        <4> QED
          BY <2>3, <4>1, <4>3
      <3> QED
        BY <2>2, <3>2, <3>3, <3>4, <3>5 DEF Innermost
    <2> QED
      BY <2>1, <2>2, <2>3
  <1>5. \A h \in Heaps : BlocksApart(al[h], h) /\ (h \notin T => DOMAIN al[h] = {})
    BY DEF Ordered
  <1>6. al = [h \in Heaps |-> al[h]]
    BY DEF Ordered
  <1> HIDE DEF T
  <1>7. Ordered(T, al)
    BY <1>2, <1>4, <1>5, <1>6 DEF Ordered
  <1> QED
    BY <1>7 DEF T

\* No block of somebody else lies in the new region, so all are found where they were
LEMMA JoinInnermost ==
    ASSUME NEW S, NEW al, Ordered(S, al), NEW held, NEW r, Offer(S, al, held, r),
           NEW h \in S, NEW d, Innermost(S, h, d), d \in DOMAIN al[h], d # Region[r].start
    PROVE  Innermost(S \cup {r}, h, d)
  <1> DEFINE s == Region[r].start
  <1>1. /\ S \in SUBSET Heaps /\ r \in Heaps
        /\ Apart(r, h) \/ Nests(r, h)
    BY DEF Ordered, Offer
  <1>2. /\ d \in Nat /\ d < d + al[h][d] /\ InRegion(h, d)
    BY <1>1 DEF Ordered, BlocksApart, Innermost
  <1>3. ~InRegion(r, d)
    <2> SUFFICES ASSUME InRegion(r, d) PROVE FALSE
      OBVIOUS
    <2>1. ~Apart(r, h)
      BY <1>1, <1>2, RegionFacts DEF Apart, InRegion
    <2>2. PICK k \in S : Innermost(S, k, s) /\ BlockOfRegion(al, r, k)
      BY <2>1 DEF Offer
    <2>3. \A m \in S : s # Region[m].start /\ d # Region[m].start
      BY <2>2, NotARegion DEF BlockOfRegion
    <2>4. s \in DOMAIN al[k] /\ s <= d /\ d < s + al[k][s]
      BY <1>1, <1>2, <2>2, RegionFacts DEF BlockOfRegion, InRegion
    <2>5. s = d
      BY <1>2, <2>3, <2>4, OneBlock
    <2> QED
      BY <2>5
  <1> QED
    BY <1>3 DEF Innermost

LEMMA JoinSound ==
    ASSUME NEW S, NEW al, NEW C, Sound(S, al, C), NEW held, NEW r, Offer(S, al, held, r),
           r \notin ToSet(BootList), NEW D,
           \A v, q, e, b : <<v, q, e, b>> \in D <=> <<v, q, e, b>> \in C /\ e # Region[r].start
    PROVE  Sound(S \cup {r}, al, D)
  <1> DEFINE T == S \cup {r}
             s == Region[r].start
  <1>1. Ordered(S, al) /\ r \notin S /\ r \in Heaps
    BY DEF Sound, Offer
  <1>2. Ordered(T, al)
    BY <1>1, JoinOrdered
  <1>3. ASSUME NEW v, NEW q, NEW e, NEW b, <<v, q, e, b>> \in D PROVE Backed(T, al, q, e, b)
    <2>1. PICK h \in S :
            /\ Innermost(S, h, e) /\ e \in DOMAIN al[h]
            /\ q \in Cells \cup Mirrored /\ PointsTo(q, e, al[h][e])
            /\ b \subseteq AllCaps(h)
            /\ Executable(h, b) <=> q \in Mirrored
      BY <1>3 DEF Sound, Backed
    <2>2. Innermost(T, h, e)
      BY <1>1, <1>3, <2>1, JoinInnermost
    <2> QED
      BY <2>1, <2>2 DEF Backed
  <1>4. \A v, q, e, b, w, x, k : <<v, q, e, b>> \in D /\ <<w, x, e, k>> \in D =>
           v = w /\ q = x /\ b = k
    BY DEF Sound
  <1>5. ASSUME NEW h \in T, NEW e \in DOMAIN al[h]
        PROVE  \/ \E v, q, b : <<v, q, e, b>> \in D
               \/ \E m \in T \ ToSet(BootList) : e = Region[m].start
    <2>1. h \in S
      BY <1>1 DEF Ordered
    <2>2. CASE e = s
      BY <2>2
    <2>3. CASE e # s
      BY <2>1, <2>3 DEF Sound
    <2> QED
      BY <2>2, <2>3
  <1>6. \A v, q, e, b : <<v, q, e, b>> \in D => Backed(T, al, q, e, b)
    BY <1>3
  <1>7. \A h \in T : \A e \in DOMAIN al[h] :
           \/ \E v, q, b : <<v, q, e, b>> \in D
           \/ \E m \in T \ ToSet(BootList) : e = Region[m].start
    BY <1>5
  <1> HIDE DEF T
  <1>8. Sound(T, al, D)
    BY <1>2, <1>4, <1>6, <1>7 DEF Sound
  <1> QED
    BY <1>8 DEF T

-----------------------------------------------------------------------------
(* The claims of a state *)

\* Whose the pointer is, with which capabilities
ClaimOf(ho, jo, de, o, p, c) ==
    \/ o = HeapsOwn /\ p \in de /\ c = DescriptorCaps
    \/ \E t \in Tasks : o = Held(t) /\ p \in DOMAIN ho[t] /\ c = ho[t][p]
    \/ \E t \in Tasks : /\ jo[t].pc \in {"got", "drop"}
                        /\ o = Given(t) /\ p = jo[t].new /\ c = Wanted(jo[t])

LEMMA InClaims ==
    ASSUME NEW st, NEW ho, NEW jo, NEW de, NEW o, NEW p, NEW d, NEW c
    PROVE  <<o, p, d, c>> \in Claims(st, ho, jo, de) <=> d = DramOf(st, p) /\ ClaimOf(ho, jo, de, o, p, c)
  <1> DEFINE A == {<<HeapsOwn, q, DramOf(st, q), DescriptorCaps>> : q \in de}
             H(t) == {<<Held(t), q, DramOf(st, q), ho[t][q]>> : q \in DOMAIN ho[t]}
             B == UNION {H(t) : t \in Tasks}
             T == {t \in Tasks : jo[t].pc \in {"got", "drop"}}
             G == {<<Given(t), jo[t].new, DramOf(st, jo[t].new), Wanted(jo[t])>> : t \in T}
  <1>1. <<o, p, d, c>> \in A <=> d = DramOf(st, p) /\ o = HeapsOwn /\ p \in de /\ c = DescriptorCaps
    OBVIOUS
  <1>2. \A t : <<o, p, d, c>> \in H(t) <=>
                 d = DramOf(st, p) /\ o = Held(t) /\ p \in DOMAIN ho[t] /\ c = ho[t][p]
    OBVIOUS
  <1>3. <<o, p, d, c>> \in G <=>
           \E t \in T : o = Given(t) /\ p = jo[t].new /\ d = DramOf(st, p) /\ c = Wanted(jo[t])
    OBVIOUS
  <1> HIDE DEF H
  <1>4. <<o, p, d, c>> \in B <=> \E t \in Tasks : <<o, p, d, c>> \in H(t)
    BY Zenon
  <1>5. Claims(st, ho, jo, de) = A \cup B \cup G
    BY Zenon DEF Claims, H
  <1> HIDE DEF A, B, G
  <1> QED
    BY <1>1, <1>2, <1>3, <1>4, <1>5 DEF ClaimOf

LEMMA Owners ==
    \A t, u : /\ Held(t) # Given(u) /\ Held(t) # HeapsOwn /\ Given(t) # HeapsOwn
              /\ Held(t) = Held(u) => t = u
              /\ Given(t) = Given(u) => t = u
  BY DEF Held, Given, HeapsOwn

\* How the steps of a call change them: not at all, ...
LEMMA SameClaims ==
    ASSUME NEW st, NEW ho, NEW jo, NEW jn, NEW de, NEW t \in Tasks,
           \A u \in Tasks : u # t => jn[u] = jo[u],
           jn[t].pc \in {"got", "drop"} <=> jo[t].pc \in {"got", "drop"},
           jn[t].pc \in {"got", "drop"} => jn[t].new = jo[t].new /\ Wanted(jn[t]) = Wanted(jo[t]),
           NEW o, NEW p, NEW d, NEW c
    PROVE  <<o, p, d, c>> \in Claims(st, ho, jn, de) <=> <<o, p, d, c>> \in Claims(st, ho, jo, de)
  <1>1. ClaimOf(ho, jn, de, o, p, c) <=> ClaimOf(ho, jo, de, o, p, c)
    BY DEF ClaimOf
  <1> QED
    BY <1>1, InClaims

\* ... a block is given out, ...
IsGiven(st, sn, ho, jo, jn, de, t) ==
    /\ \A u \in Tasks : u # t => jn[u] = jo[u]
    /\ jo[t].pc \notin {"got", "drop"} /\ jn[t].pc = "got"
    /\ \A v, f, b : <<v, jn[t].new, f, b>> \notin Claims(st, ho, jo, de)
    /\ \A r : r # jn[t].new => DramOf(sn, r) = DramOf(st, r)

LEMMA GivenClaim ==
    ASSUME NEW st, NEW sn, NEW ho, NEW jo, NEW jn, NEW de, NEW t \in Tasks,
           IsGiven(st, sn, ho, jo, jn, de, t),
           NEW o, NEW p, NEW d, NEW c
    PROVE  <<o, p, d, c>> \in Claims(sn, ho, jn, de) <=>
             \/ <<o, p, d, c>> \in Claims(st, ho, jo, de)
             \/ o = Given(t) /\ p = jn[t].new /\ d = DramOf(sn, p) /\ c = Wanted(jn[t])
  <1> DEFINE q == jn[t].new
  <1>1. ClaimOf(ho, jn, de, o, p, c) <=>
          ClaimOf(ho, jo, de, o, p, c) \/ (o = Given(t) /\ p = q /\ c = Wanted(jn[t]))
    BY DEF ClaimOf, IsGiven
  <1>2. ClaimOf(ho, jo, de, o, p, c) => p # q
    BY InClaims DEF IsGiven
  <1>3. <<o, p, d, c>> \in Claims(sn, ho, jn, de) <=> d = DramOf(sn, p) /\ ClaimOf(ho, jn, de, o, p, c)
    BY InClaims
  <1>4. <<o, p, d, c>> \in Claims(st, ho, jo, de) <=> d = DramOf(st, p) /\ ClaimOf(ho, jo, de, o, p, c)
    BY InClaims
  <1> QED
    BY <1>1, <1>2, <1>3, <1>4 DEF IsGiven

\* ... the caller has it, ...
IsHeld(ho, hn, jo, jn, t) ==
    /\ \A u \in Tasks : u # t => jn[u] = jo[u] /\ hn[u] = ho[u]
    /\ jo[t].pc \in {"got", "drop"} /\ jn[t].pc \notin {"got", "drop"}
    /\ jo[t].new \notin DOMAIN ho[t]
    /\ hn[t] = With(ho[t], jo[t].new, Wanted(jo[t]))

LEMMA HeldClaim ==
    ASSUME NEW st, NEW ho, NEW hn, NEW jo, NEW jn, NEW de, NEW t \in Tasks,
           IsHeld(ho, hn, jo, jn, t),
           NEW o, NEW p, NEW d, NEW c
    PROVE  LET q == jo[t].new
               w == Wanted(jo[t])
           IN  <<o, p, d, c>> \in Claims(st, hn, jn, de) <=>
                 <<o, p, d, c>> \in (Claims(st, ho, jo, de) \ {<<Given(t), q, DramOf(st, q), w>>})
                                     \cup {<<Held(t), q, DramOf(st, q), w>>}
  <1> DEFINE q == jo[t].new
             w == Wanted(jo[t])
  <1>1. /\ DOMAIN hn[t] = DOMAIN ho[t] \cup {q} /\ hn[t][q] = w
        /\ \A r \in DOMAIN ho[t] : hn[t][r] = ho[t][r]
    BY DEF With, IsHeld
  <1>2. ClaimOf(hn, jn, de, o, p, c) <=>
          \/ ClaimOf(ho, jo, de, o, p, c) /\ o # Given(t)
          \/ o = Held(t) /\ p = q /\ c = w
    BY <1>1, Owners DEF ClaimOf, IsHeld
  <1>3. ClaimOf(ho, jo, de, o, p, c) /\ o = Given(t) => p = q /\ c = w
    BY Owners DEF ClaimOf, IsHeld
  <1>4. <<o, p, d, c>> \in Claims(st, hn, jn, de) <=> d = DramOf(st, p) /\ ClaimOf(hn, jn, de, o, p, c)
    BY InClaims
  <1>5. <<o, p, d, c>> \in Claims(st, ho, jo, de) <=> d = DramOf(st, p) /\ ClaimOf(ho, jo, de, o, p, c)
    BY InClaims
  <1>6. /\ <<o, p, d, c>> = <<Given(t), q, DramOf(st, q), w>> <=>
             o = Given(t) /\ p = q /\ d = DramOf(st, q) /\ c = w
        /\ <<o, p, d, c>> = <<Held(t), q, DramOf(st, q), w>> <=>
             o = Held(t) /\ p = q /\ d = DramOf(st, q) /\ c = w
    OBVIOUS
  <1> QED
    BY <1>2, <1>3, <1>4, <1>5, <1>6, Owners

\* ... and it is given back
IsFreed(st, sn, ho, hn, t, q) ==
    /\ \A u \in Tasks : u # t => hn[u] = ho[u]
    /\ q \in DOMAIN ho[t] /\ hn[t] = Without(ho[t], q)
    /\ \A v, f, b : <<v, q, f, b>> \in Claims(st, ho, job, descriptors) => v = Held(t)
    /\ \A r : r # q => DramOf(sn, r) = DramOf(st, r)

Others(C, x) == C \ {x}

LEMMA FreedClaim ==
    ASSUME NEW st, NEW sn, NEW ho, NEW hn, NEW t \in Tasks, NEW q,
           IsFreed(st, sn, ho, hn, t, q),
           NEW o, NEW p, NEW d, NEW c
    PROVE  <<o, p, d, c>> \in Claims(sn, hn, job, descriptors) <=>
             <<o, p, d, c>> \in Others(Claims(st, ho, job, descriptors),
                                       <<Held(t), q, DramOf(st, q), ho[t][q]>>)
  <1>1. /\ DOMAIN hn[t] = DOMAIN ho[t] \ {q}
        /\ \A r \in DOMAIN hn[t] : hn[t][r] = ho[t][r]
    BY DEF Without, IsFreed
  <1>2. ClaimOf(ho, job, descriptors, o, p, c) /\ p = q => o = Held(t) /\ c = ho[t][q]
    <2> SUFFICES ASSUME ClaimOf(ho, job, descriptors, o, q, c)
                 PROVE  o = Held(t) /\ c = ho[t][q]
      OBVIOUS
    <2>1. <<o, q, DramOf(st, q), c>> \in Claims(st, ho, job, descriptors)
      BY InClaims
    <2>2. o = Held(t)
      BY <2>1, Zenon DEF IsFreed
    <2> QED
      BY <2>2, Owners DEF ClaimOf
  <1>3. ClaimOf(hn, job, descriptors, o, p, c) <=> ClaimOf(ho, job, descriptors, o, p, c) /\ p # q
    <2>1. ClaimOf(hn, job, descriptors, o, p, c) => ClaimOf(ho, job, descriptors, o, p, c)
      BY <1>1 DEF ClaimOf, IsFreed
    <2>2. ClaimOf(hn, job, descriptors, o, p, c) => p # q
      <3> SUFFICES ASSUME ClaimOf(hn, job, descriptors, o, p, c), p = q PROVE FALSE
        OBVIOUS
      <3>1. o = Held(t)
        BY <1>2, <2>1
      <3> QED
        BY <1>1, <3>1, Owners DEF ClaimOf
    <2>3. ClaimOf(ho, job, descriptors, o, p, c) /\ p # q => ClaimOf(hn, job, descriptors, o, p, c)
      BY <1>1 DEF ClaimOf, IsFreed
    <2> QED
      BY <2>1, <2>2, <2>3
  <1>4. <<o, p, d, c>> \in Claims(sn, hn, job, descriptors) <=> d = DramOf(sn, p) /\ ClaimOf(hn, job, descriptors, o, p, c)
    BY InClaims
  <1>5. <<o, p, d, c>> \in Claims(st, ho, job, descriptors) <=> d = DramOf(st, p) /\ ClaimOf(ho, job, descriptors, o, p, c)
    BY InClaims
  <1>6. <<o, p, d, c>> = <<Held(t), q, DramOf(st, q), ho[t][q]>> <=>
             o = Held(t) /\ p = q /\ d = DramOf(st, q) /\ c = ho[t][q]
    OBVIOUS
  <1> QED
    BY <1>2, <1>3, <1>4, <1>5, <1>6 DEF IsFreed, Others

\* Only the claims count, however they are put down
LEMMA Recount ==
    ASSUME NEW S, NEW al, NEW C, Sound(S, al, C), NEW D,
           \A o, p, d, c : <<o, p, d, c>> \in D <=> <<o, p, d, c>> \in C
    PROVE  Sound(S, al, D)
  <1>1. \A o, p, d, c : <<o, p, d, c>> \in D => Backed(S, al, p, d, c)
    BY DEF Sound
  <1>2. \A o, p, d, c, v, q, b : <<o, p, d, c>> \in D /\ <<v, q, d, b>> \in D =>
           o = v /\ p = q /\ c = b
    BY DEF Sound
  <1>3. \A h \in S : \A d \in DOMAIN al[h] :
           \/ \E o, p, c : <<o, p, d, c>> \in D
           \/ \E m \in S \ ToSet(BootList) : d = Region[m].start
    BY DEF Sound
  <1> QED
    BY <1>1, <1>2, <1>3 DEF Sound

\* find_containing_heap finds the innermost region
LEMMA ContainingIs ==
    ASSUME list \in Seq(Heaps), RegionsApart, NEW a \in Nat, NEW h,
           Innermost(ToSet(list), h, a), h \in enabled
    PROVE  Containing(a) = h
  <1> DEFINE S == {i \in DOMAIN list : Covers(list[i], a)}
             First(i) == Covers(list[i], a) /\ \A k \in 1 .. i - 1 : ~Covers(list[k], a)
             f == CHOOSE i \in DOMAIN list : First(i)
  <1>1. /\ DOMAIN list = 1 .. Len(list) /\ Len(list) \in Nat
        /\ \A i \in DOMAIN list : list[i] \in Heaps /\ list[i] \in ToSet(list)
    BY DEF ToSet
  <1>2. PICK k \in DOMAIN list : list[k] = h
    BY DEF Innermost, ToSet
  <1>3. Covers(h, a)
    BY DEF Innermost, InRegion, Covers
  <1>4. S \in SUBSET Nat /\ k \in S
    BY <1>1, <1>2, <1>3
  <1>5. PICK n \in S : \A y \in S : n <= y
    BY <1>4, Least
  <1>6. n \in DOMAIN list /\ First(n)
    BY <1>1, <1>5
  <1>7. f \in DOMAIN list /\ First(f)
    BY <1>6, Zenon
  <1>8. Containing(a) = list[f]
    BY <1>6, Zenon DEF Containing
  <1> HIDE DEF f
  <1>9. f \in Nat /\ k \in Nat /\ f <= k
    BY <1>1, <1>2, <1>3, <1>7
  <1>10. list[f] = h
    <2> SUFFICES ASSUME f < k, list[f] # h PROVE FALSE
      BY <1>2, <1>9
    <2>1. InRegion(list[f], a)
      BY <1>7 DEF Covers, InRegion
    <2>2. Nests(h, list[f])
      BY <1>1, <1>7, <2>1 DEF Innermost
    <2>3. Region[list[f]].end <= Region[h].start \/ Region[h].end <= Region[list[f]].start
          \/ Region[h].start < Region[list[f]].start
      BY <1>2, <1>7 DEF RegionsApart
    <2>4. InRegion(h, a)
      BY DEF Innermost
    <2> QED
      BY <1>1, <1>2, <1>7, <2>1, <2>2, <2>3, <2>4, RegionFacts DEF Nests, InRegion
  <1> QED
    BY <1>8, <1>10

\* Every claim is on a block of the heap that free() finds
LEMMA Found ==
    ASSUME WalkInv, BlocksInv, NEW o, NEW p, NEW d, NEW c,
           <<o, p, d, c>> \in Claims(stored, holds, job, descriptors)
    PROVE  LET h == Containing(Dram(p))
           IN  /\ d = Dram(p) /\ h \in ToSet(list) /\ h # NoHeap /\ d \in Nat
               /\ Innermost(ToSet(list), h, d) /\ d \in DOMAIN alloc[h]
               /\ p \in Pointers /\ PointsTo(p, d, alloc[h][d])
               /\ c \subseteq AllCaps(h)
               /\ Executable(h, c) <=> p \in Mirrored
  <1> DEFINE S == ToSet(list)
  <1>1. Sound(S, alloc, Claims(stored, holds, job, descriptors))
    BY DEF BlocksInv
  <1>2. PICK h \in S :
            /\ Innermost(S, h, d) /\ d \in DOMAIN alloc[h]
            /\ p \in Cells \cup Mirrored /\ PointsTo(p, d, alloc[h][d])
            /\ c \subseteq AllCaps(h)
            /\ Executable(h, c) <=> p \in Mirrored
    BY <1>1 DEF Sound, Backed
  <1>3. h \in Heaps /\ NoHeap \notin Heaps
    BY <1>1, RegionAssumption DEF Sound, Ordered
  <1>4. d \in Nat
    BY <1>1, <1>2, <1>3 DEF Sound, Ordered, BlocksApart
  <1>5. d = Dram(p)
    BY InClaims DEF DramOf, Dram
  <1>6. h \in enabled /\ list \in Seq(Heaps) /\ RegionsApart
    BY <1>2, <1>3 DEF BlocksInv, WalkInv, ListInv
  <1>7. Containing(d) = h
    BY <1>2, <1>4, <1>6, ContainingIs
  <1> QED
    BY <1>2, <1>3, <1>4, <1>5, <1>7 DEF Pointers

\* The offered region stays one, unless its block is given back or a region joins
LEMMA OfferStays ==
    ASSUME NEW S, NEW al, NEW am, NEW held, NEW r, Offer(S, al, held, r),
           \A h \in S : Region[r].start \in held /\ Innermost(S, h, Region[r].start)
                          /\ Region[r].start \in DOMAIN al[h] =>
             Region[r].start \in DOMAIN am[h] /\ am[h][Region[r].start] = al[h][Region[r].start]
    PROVE  Offer(S, am, held, r)
  BY DEF Offer, BlockOfRegion

-----------------------------------------------------------------------------
(* Every step keeps the invariant *)

\* One call goes on, and no block changes hands
LEMMA CallGoesOn ==
    ASSUME WalkInv, BlocksInv, NEW t \in Tasks, NEW j, job' = [job EXCEPT ![t] = j],
           UNCHANGED <<heaps, alloc, stored, holds>>,
           data' \in [Pointers -> Tasks \cup {Junk}], DataKept',
           \A u \in Tasks : job[u].pc = "drop" /\ u # t => data'[job[u].new] = u,
           j.pc \in {"got", "drop"} <=> job[t].pc \in {"got", "drop"},
           j.pc \in {"got", "drop"} => j.new = job[t].new /\ Wanted(j) = Wanted(job[t]),
           CallOK(j, t, ToSet(list), alloc, DOMAIN holds[t], data')
    PROVE  BlocksInv'
  <1> DEFINE C == Claims(stored, holds, job, descriptors)
             D == Claims(stored, holds, job', descriptors)
             S == ToSet(list)
  <1>1. \A u \in Tasks : job'[u] = IF u = t THEN j ELSE job[u]
    BY DEF WalkInv, JobInv
  <1>2. /\ list' = list /\ enabled' = enabled /\ alloc' = alloc /\ stored' = stored
        /\ holds' = holds /\ descriptors' = descriptors
    BY DEF heaps
  <1>3. \A o, p, d, c : <<o, p, d, c>> \in D <=> <<o, p, d, c>> \in C
    <2> DEFINE jn == job'
    <2>1. /\ \A u \in Tasks : u # t => jn[u] = job[u]
          /\ jn[t].pc \in {"got", "drop"} <=> job[t].pc \in {"got", "drop"}
          /\ jn[t].pc \in {"got", "drop"} => jn[t].new = job[t].new /\ Wanted(jn[t]) = Wanted(job[t])
      BY <1>1
    <2> HIDE DEF jn
    <2>2. \A o, p, d, c : <<o, p, d, c>> \in Claims(stored, holds, jn, descriptors)
                            <=> <<o, p, d, c>> \in Claims(stored, holds, job, descriptors)
      BY <2>1, SameClaims
    <2> QED
      BY <2>2 DEF jn
  <1>4. Sound(S, alloc, C)
    BY DEF BlocksInv
  <1> HIDE DEF C, D
  <1>5. Sound(S, alloc, D)
    BY <1>3, <1>4, Recount
  <1>6. \A u \in Tasks : CallOK(job'[u], u, S, alloc, DOMAIN holds[u], data')
    <2> SUFFICES ASSUME NEW u \in Tasks, u # t PROVE CallOK(job[u], u, S, alloc, DOMAIN holds[u], data')
      BY <1>1
    <2>1. CallOK(job[u], u, S, alloc, DOMAIN holds[u], data)
      BY DEF BlocksInv
    <2> QED
      BY <2>1 DEF CallOK
  <1>7. RegionsApart' <=> RegionsApart
    BY <1>2 DEF RegionsApart
  <1> HIDE DEF S
  <1> QED
    BY <1>2, <1>5, <1>6, <1>7 DEF BlocksInv, D, S

LEMMA CallChanges ==
    ASSUME WalkInv, BlocksInv, NEW t \in Tasks, NEW j, job' = [job EXCEPT ![t] = j],
           UNCHANGED <<heaps, alloc, stored, data, holds>>,
           j.pc \in {"got", "drop"} <=> job[t].pc \in {"got", "drop"},
           j.pc \in {"got", "drop"} => j.new = job[t].new /\ Wanted(j) = Wanted(job[t]),
           CallOK(j, t, ToSet(list), alloc, DOMAIN holds[t], data)
    PROVE  BlocksInv'
  <1>1. UNCHANGED <<heaps, alloc, stored, holds>> /\ data' = data
    OBVIOUS
  <1>2. data' \in [Pointers -> Tasks \cup {Junk}] /\ DataKept'
    BY DEF BlocksInv, DataKept
  <1>3. \A u \in Tasks : job[u].pc = "drop" /\ u # t => data'[job[u].new] = u
    BY DEF BlocksInv, CallOK
  <1>4. CallOK(j, t, ToSet(list), alloc, DOMAIN holds[t], data')
    BY <1>1
  <1> QED
    BY <1>1, <1>2, <1>3, <1>4, CallGoesOn

LEMMA HeldPointer ==
    ASSUME WalkInv, BlocksInv, NEW t \in Tasks, NEW p \in DOMAIN holds[t]
    PROVE  <<Held(t), p, Dram(p), holds[t][p]>> \in Claims(stored, holds, job, descriptors)
  <1>1. ClaimOf(holds, job, descriptors, Held(t), p, holds[t][p])
    BY DEF ClaimOf
  <1> QED
    BY <1>1, InClaims DEF DramOf, Dram

LEMMA GivenPointer ==
    ASSUME WalkInv, BlocksInv, NEW t \in Tasks, job[t].pc \in {"got", "drop"}
    PROVE  <<Given(t), job[t].new, Dram(job[t].new), Wanted(job[t])>> \in Claims(stored, holds, job, descriptors)
  <1>1. ClaimOf(holds, job, descriptors, Given(t), job[t].new, Wanted(job[t]))
    BY DEF ClaimOf
  <1> QED
    BY <1>1, InClaims DEF DramOf, Dram

\* What the two tests of heap_caps_add_region_with_caps establish
LEMMA OfferedIs ==
    ASSUME WalkInv, BlocksInv, NEW t \in Tasks, NEW r \in Heaps, Offered(t, r), ~Overlaps(r)
    PROVE  Offer(ToSet(list), alloc, DOMAIN holds[t], r)
  <1> DEFINE S == ToSet(list)
             s == Region[r].start
  <1>1. S \in SUBSET Heaps
    BY DEF WalkInv, ListInv, ToSet
  <1>2. r \notin S
    BY RegionFacts DEF Overlaps
  <1>3. \A h \in S : Apart(r, h) \/ Nests(r, h)
    BY <1>1, RegionFacts DEF Overlaps, Apart, Nests
  <1>4. CASE \A h \in S : Region[r].end <= Region[h].start \/ Region[h].end <= Region[r].start
    BY <1>2, <1>3, <1>4 DEF Offer, Apart
  <1>5. CASE s \in DOMAIN holds[t] /\ alloc[Containing(s)][s] = Region[r].end - s
    <2>1. s \in Cells /\ s \notin Mirrored
      BY CellFacts, RegionFacts DEF InRegion
    <2>2. Dram(s) = s
      BY <2>1 DEF Dram
    <2>3. <<Held(t), s, s, holds[t][s]>> \in Claims(stored, holds, job, descriptors)
      BY <1>5, <2>2, HeldPointer
    <2>4. /\ Containing(s) \in S /\ Innermost(S, Containing(s), s)
          /\ s \in DOMAIN alloc[Containing(s)]
      BY <2>2, <2>3, Found
    <2> HIDE DEF S
    <2>5. BlockOfRegion(alloc, r, Containing(s))
      BY <1>5, <2>4 DEF BlockOfRegion
    <2> QED
      BY <1>2, <1>3, <1>5, <2>4, <2>5 DEF Offer, S
  <1> QED
    BY <1>4, <1>5 DEF Offered

\* A call begins
LEMMA BlocksCall ==
    ASSUME WalkInv, BlocksInv, NEW t \in Tasks, Call(t), \A p \in DOMAIN holds[t] : ~Free(t, p)
    PROVE  BlocksInv'
  <1> DEFINE S == ToSet(list)
  <1>1. ASSUME NEW j, job' = [job EXCEPT ![t] = j], job[t].pc = "idle",
               UNCHANGED <<heaps, alloc, stored, data, holds>>,
               j.pc = "try", j.new = 0, j.size \in Nat \ {0}, j.op \in {"malloc", "realloc", "add"},
               j.op = "realloc" => j.old \in DOMAIN holds[t],
               j.op = "add" => /\ t \in Adders /\ j.tries = <<DescriptorCaps>>
                               /\ j.region \notin ToSet(BootList)
                               /\ Offer(S, alloc, DOMAIN holds[t], j.region)
        PROVE  BlocksInv'
    <2>1. CallOK(j, t, S, alloc, DOMAIN holds[t], data)
      BY <1>1 DEF CallOK, Sized
    <2> QED
      BY <1>1, <2>1, CallChanges
  <1>2. ASSUME NEW n \in Requests, NEW tries \in Attempts, Malloc(t, n, tries) PROVE BlocksInv'
    <2> DEFINE j == [NoJob EXCEPT !.op = "malloc", !.pc = "try", !.size = n, !.tries = tries]
    <2>1. j.pc = "try" /\ j.new = 0 /\ j.size = n /\ j.op = "malloc"
      BY DEF NoJob
    <2>2. /\ job' = [job EXCEPT ![t] = j] /\ job[t].pc = "idle"
          /\ UNCHANGED <<heaps, alloc, stored, data, holds>>
      BY <1>2 DEF Malloc, Idle
    <2>3. n \in Nat \ {0}
      BY RegionAssumption
    <2> HIDE DEF j
    <2> QED
      BY <1>1, <2>1, <2>2, <2>3
  <1>3. ASSUME NEW p \in DOMAIN holds[t], NEW n \in Requests, NEW tries \in Attempts,
               Realloc(t, p, n, tries)
        PROVE  BlocksInv'
    <2> DEFINE j == [NoJob EXCEPT !.op = "realloc", !.pc = "try", !.old = p,
                                  !.size = n, !.tries = tries]
    <2>1. j.pc = "try" /\ j.new = 0 /\ j.size = n /\ j.op = "realloc" /\ j.old = p
      BY DEF NoJob
    <2>2. /\ job' = [job EXCEPT ![t] = j] /\ job[t].pc = "idle"
          /\ UNCHANGED <<heaps, alloc, stored, data, holds>>
      BY <1>3 DEF Realloc, Idle
    <2>3. n \in Nat \ {0}
      BY RegionAssumption
    <2> HIDE DEF j
    <2> QED
      BY <1>1, <2>1, <2>2, <2>3
  <1>4. ASSUME t \in Adders, NEW r \in Heaps \ ToSet(BootList), AddRegion(t, r) PROVE BlocksInv'
    <2> DEFINE j == [NoJob EXCEPT !.op = "add", !.pc = "try", !.size = 1,
                                  !.tries = <<{"internal", "8bit"}>>, !.region = r]
    <2>1. /\ j.pc = "try" /\ j.new = 0 /\ j.size = 1 /\ j.op = "add"
          /\ j.tries = <<DescriptorCaps>> /\ j.region = r
      BY DEF NoJob, DescriptorCaps
    <2>2. /\ job' = [job EXCEPT ![t] = j] /\ job[t].pc = "idle"
          /\ UNCHANGED <<heaps, alloc, stored, data, holds>>
      BY <1>4 DEF AddRegion, Idle
    <2>3. Offer(S, alloc, DOMAIN holds[t], r)
      BY <1>4, OfferedIs DEF AddRegion
    <2> HIDE DEF j, S
    <2>4. /\ t \in Adders /\ j.tries = <<DescriptorCaps>>
          /\ j.region \notin ToSet(BootList)
          /\ Offer(S, alloc, DOMAIN holds[t], j.region)
      BY <1>4, <2>1, <2>3
    <2>5. j.size \in Nat \ {0} /\ j.op # "realloc" /\ j.op \in {"malloc", "realloc", "add"}
      BY <2>1
    <2> QED
      BY <1>1, <2>1, <2>2, <2>4, <2>5
  <1> QED
    BY <1>2, <1>3, <1>4 DEF Call

\* realloc finds the heap of its block
LEMMA BlocksTry ==
    ASSUME WalkInv, BlocksInv, NEW t \in Tasks, Try(t)
    PROVE  BlocksInv'
  <1> DEFINE S == ToSet(list)
  <1>1. /\ IsJob(job[t]) /\ job[t].pc = "try"
        /\ UNCHANGED <<heaps, alloc, stored, data, holds>>
        /\ CallOK(job[t], t, S, alloc, DOMAIN holds[t], data)
    BY DEF WalkInv, JobInv, OnList, Try, BlocksInv
  <1>2. ~(job[t].op = "realloc" /\ Containing(Dram(job[t].old)) = NoHeap)
    <2> SUFFICES ASSUME job[t].op = "realloc" PROVE Containing(Dram(job[t].old)) # NoHeap
      OBVIOUS
    <2>1. job[t].old \in DOMAIN holds[t]
      BY <1>1 DEF CallOK
    <2> DEFINE p == job[t].old
               C == Claims(stored, holds, job, descriptors)
    <2>2. <<Held(t), p, Dram(p), holds[t][p]>> \in C
      BY <2>1, HeldPointer
    <2> HIDE DEF p, C
    <2>3. Containing(Dram(p)) # NoHeap
      BY <2>2, Found DEF C
    <2> QED
      BY <2>3 DEF p
  <1>3. 1 <= Prios
    <2>1. BootList[1] \in Heaps
      BY RegionAssumption
    <2> QED
      BY <2>1, RegionFacts DEF Prios
  <1>4. CASE Goto(t, "null")
    <2> DEFINE j == [job[t] EXCEPT !.pc = "null"]
    <2>1. /\ j.pc = "null" /\ j.op = job[t].op /\ j.size = job[t].size /\ j.new = job[t].new
          /\ j.old = job[t].old /\ j.tries = job[t].tries /\ j.region = job[t].region
      BY <1>1 DEF IsJob
    <2>2. job' = [job EXCEPT ![t] = j]
      BY <1>4 DEF Goto
    <2> HIDE DEF j, S
    <2>3. CallOK(j, t, S, alloc, DOMAIN holds[t], data)
      BY <1>1, <2>1 DEF CallOK, Sized
    <2> QED
      BY <1>1, <2>1, <2>2, <2>3, CallChanges DEF S
  <1>5. CASE job' = [job EXCEPT ![t].pc = "walk", ![t].prio = 1, ![t].rest = Len(list),
                                ![t].known = ToSet(list) \cap enabled, ![t].refused = {}]
    <2> DEFINE j == [job[t] EXCEPT !.pc = "walk", !.prio = 1, !.rest = Len(list),
                                   !.known = ToSet(list) \cap enabled, !.refused = {}]
    <2>1. /\ j.pc = "walk" /\ j.op = job[t].op /\ j.size = job[t].size /\ j.new = job[t].new
          /\ j.old = job[t].old /\ j.tries = job[t].tries /\ j.region = job[t].region /\ j.prio = 1
      BY <1>1 DEF IsJob
    <2>2. job' = [job EXCEPT ![t] = j]
      BY <1>5 DEF WalkInv, JobInv
    <2> HIDE DEF j, S
    <2>3. CallOK(j, t, S, alloc, DOMAIN holds[t], data)
      BY <1>1, <1>3, <2>1 DEF CallOK, Sized
    <2> QED
      BY <1>1, <2>1, <2>2, <2>3, CallChanges DEF S
  <1> QED
    BY <1>2, <1>4, <1>5 DEF Try

\* The walk goes on, and keeps the call it is for
LEMMA BlocksPass ==
    ASSUME WalkInv, BlocksInv, NEW t \in Tasks, Pass(t) \/ Refuse(t)
    PROVE  BlocksInv'
  <1> DEFINE S == ToSet(list)
             k == [job[t] EXCEPT !.refused = @ \cup {Here(job[t])}]
  <1>1. /\ IsJob(job[t]) /\ job[t].pc = "walk" /\ job[t].prio \in Nat /\ job[t].rest \in Nat
        /\ UNCHANGED <<heaps, alloc, stored, data, holds>>
        /\ CallOK(job[t], t, S, alloc, DOMAIN holds[t], data)
    BY DEF WalkInv, JobInv, OnList, Pass, Refuse, BlocksInv
  <1>2. PICK i \in {job[t], k} : job' = [job EXCEPT ![t] = Onward(i)]
    BY DEF Pass, Refuse
  <1>3. /\ IsJob(i) /\ i.pc = "walk" /\ i.op = job[t].op /\ i.size = job[t].size /\ i.new = job[t].new
        /\ i.old = job[t].old /\ i.tries = job[t].tries /\ i.region = job[t].region
        /\ i.prio = job[t].prio /\ i.rest = job[t].rest
    BY <1>1 DEF IsJob
  <1> DEFINE j == Onward(i)
  <1>4. /\ j.pc \in {"walk", "null"} /\ j.op = job[t].op /\ j.size = job[t].size /\ j.new = job[t].new
        /\ j.old = job[t].old /\ j.tries = job[t].tries /\ j.region = job[t].region
    BY <1>3 DEF Onward, IsJob
  <1>5. j.pc = "walk" => j.prio <= Prios
    <2>1. job[t].prio <= Prios /\ Prios \in Nat
      BY <1>1, PriosNat DEF CallOK
    <2>2. \/ j = [i EXCEPT !.rest = @ - 1]
          \/ j = [i EXCEPT !.prio = @ + 1, !.rest = Len(list)] /\ i.prio < Prios
          \/ j = [i EXCEPT !.pc = "null"]
      BY DEF Onward
    <2>3. \/ j.prio = i.prio
          \/ j.prio = i.prio + 1 /\ i.prio < Prios
      BY <1>3, <2>2 DEF IsJob
    <2> QED
      BY <1>1, <1>3, <2>1, <2>3
  <1> HIDE DEF j, k, S
  <1>6. CallOK(j, t, S, alloc, DOMAIN holds[t], data)
    BY <1>1, <1>4, <1>5 DEF CallOK, Sized
  <1> QED
    BY <1>1, <1>2, <1>4, <1>6, CallChanges DEF j, S

\* The next attempt, or the end of the call
LEMMA BlocksNull ==
    ASSUME WalkInv, BlocksInv, NEW t \in Tasks, Null(t)
    PROVE  BlocksInv'
  <1> DEFINE S == ToSet(list)
  <1>1. /\ IsJob(job[t]) /\ job[t].pc = "null" /\ job[t].tries \in Tries
        /\ UNCHANGED <<heaps, alloc, stored, data, holds>>
        /\ CallOK(job[t], t, S, alloc, DOMAIN holds[t], data)
    BY DEF WalkInv, JobInv, OnList, Null, BlocksInv
  <1>2. CASE Len(job[t].tries) > 1 /\ job' = [job EXCEPT ![t].pc = "try", ![t].tries = Tail(@)]
    <2> DEFINE rest == Tail(job[t].tries)
               j == [job[t] EXCEPT !.pc = "try", !.tries = rest]
    <2>1. job[t].op # "add"
      <3> SUFFICES ASSUME job[t].tries = <<DescriptorCaps>> PROVE FALSE
        BY <1>1 DEF CallOK
      <3> QED
        BY <1>2
    <2>2. job' = [job EXCEPT ![t] = j]
      BY <1>2 DEF WalkInv, JobInv
    <2> HIDE DEF rest
    <2>3. /\ j.pc = "try" /\ j.op = job[t].op /\ j.size = job[t].size /\ j.new = job[t].new
          /\ j.old = job[t].old
      BY <1>1 DEF IsJob
    <2> HIDE DEF j, S
    <2>4. CallOK(j, t, S, alloc, DOMAIN holds[t], data)
      BY <1>1, <2>1, <2>3 DEF CallOK, Sized
    <2> QED
      BY <1>1, <2>2, <2>3, <2>4, CallChanges DEF S
  <1>3. CASE Finish(t)
    <2>1. NoJob.pc = "idle" /\ NoJob.op = "none" /\ NoJob.new = 0
      BY DEF NoJob
    <2>2. CallOK(NoJob, t, S, alloc, DOMAIN holds[t], data)
      BY <2>1 DEF CallOK
    <2> QED
      BY <1>1, <1>3, <2>1, <2>2, CallChanges DEF Finish
  <1> QED
    BY <1>2, <1>3 DEF Null

\* A pointer is claimed once
LEMMA OnePointer ==
    ASSUME BlocksInv, NEW p, NEW o, NEW d, NEW c, NEW v, NEW e, NEW b,
           <<o, p, d, c>> \in Claims(stored, holds, job, descriptors),
           <<v, p, e, b>> \in Claims(stored, holds, job, descriptors)
    PROVE  o = v /\ d = e /\ c = b
  <1>1. d = e
    BY InClaims
  <1> QED
    BY <1>1 DEF BlocksInv, Sound

\* The contents are copied to a block that nobody else has
LEMMA BlocksCopy ==
    ASSUME WalkInv, BlocksInv, NEW t \in Tasks, Copy(t)
    PROVE  BlocksInv'
  <1> DEFINE S == ToSet(list)
             j == [job[t] EXCEPT !.pc = "drop"]
             q == job[t].new
  <1>1. /\ IsJob(job[t]) /\ job[t].pc = "got" /\ job[t].op = "realloc"
        /\ UNCHANGED <<heaps, alloc, stored, holds>>
        /\ data' = [data EXCEPT ![q] = data[job[t].old]]
        /\ CallOK(job[t], t, S, alloc, DOMAIN holds[t], data)
        /\ data \in [Pointers -> Tasks \cup {Junk}]
    BY DEF WalkInv, JobInv, OnList, Copy, BlocksInv
  <1>2. job' = [job EXCEPT ![t] = j]
    BY DEF Copy, Goto
  <1>3. /\ j.pc = "drop" /\ j.op = job[t].op /\ j.size = job[t].size /\ j.new = q
        /\ j.old = job[t].old /\ j.tries = job[t].tries
    BY <1>1 DEF IsJob
  <1>4. job[t].old \in DOMAIN holds[t] /\ data[job[t].old] = t
    BY <1>1 DEF CallOK, BlocksInv, DataKept
  <1>5. <<Given(t), q, Dram(q), Wanted(job[t])>> \in Claims(stored, holds, job, descriptors)
    BY <1>1, GivenPointer
  <1>6. q \in Pointers
    BY <1>5, Found
  <1>7. data' \in [Pointers -> Tasks \cup {Junk}] /\ data'[q] = t
        /\ \A p \in Pointers : p # q => data'[p] = data[p]
    BY <1>1, <1>4, <1>6
  <1>8. \A u \in Tasks : \A p \in DOMAIN holds[u] : p # q /\ p \in Pointers
    <2> TAKE u \in Tasks
    <2> TAKE p \in DOMAIN holds[u]
    <2>1. <<Held(u), p, Dram(p), holds[u][p]>> \in Claims(stored, holds, job, descriptors)
      BY HeldPointer
    <2>2. p \in Pointers
      BY <2>1, Found
    <2>3. p # q
      BY <1>5, <2>1, OnePointer, Owners
    <2> QED
      BY <2>2, <2>3
  <1>9. DataKept'
    BY <1>1, <1>7, <1>8 DEF BlocksInv, DataKept
  <1>10. ASSUME NEW u \in Tasks, job[u].pc = "drop", u # t PROVE data'[job[u].new] = u
    <2>1. <<Given(u), job[u].new, Dram(job[u].new), Wanted(job[u])>> \in Claims(stored, holds, job, descriptors)
      BY <1>10, GivenPointer
    <2>2. job[u].new \in Pointers
      BY <2>1, Found
    <2>3. job[u].new # q
      BY <1>5, <1>10, <2>1, OnePointer, Owners
    <2>4. data[job[u].new] = u
      BY <1>10 DEF BlocksInv, CallOK
    <2> QED
      BY <1>7, <2>2, <2>3, <2>4
  <1> HIDE DEF j, q, S
  <1>11. Wanted(j) = Wanted(job[t])
    BY <1>3 DEF Wanted
  <1>12. CallOK(j, t, S, alloc, DOMAIN holds[t], data')
    BY <1>1, <1>3, <1>4, <1>7 DEF CallOK, Sized, q
  <1> QED
    BY <1>1, <1>2, <1>3, <1>7, <1>9, <1>10, <1>11, <1>12, CallGoesOn DEF S, q

\* A heap gives a block
LEMMA BlocksGrant ==
    ASSUME WalkInv, BlocksInv, NEW t \in Tasks, Grant(t)
    PROVE  BlocksInv'
  <1> DEFINE S == ToSet(list)
             h == Here(job[t])
             w == Wanted(job[t])
             iram == Executable(h, w)
             len == IF iram THEN job[t].size + 1 ELSE job[t].size
             C == Claims(stored, holds, job, descriptors)
  <1>1. PICK p \in Region[h].start .. Region[h].end - 1 :
          LET q == IF iram THEN MirrorBase - (p + len - 1) + 1 ELSE p
          IN  /\ Fits(h, p, len)
              /\ alloc' = [alloc EXCEPT ![h] = With(@, p, len)]
              /\ stored' = IF iram THEN [stored EXCEPT ![q] = p] ELSE stored
              /\ job' = [job EXCEPT ![t].pc = "got", ![t].new = q]
    BY DEF Grant
  <1> DEFINE q == IF iram THEN MirrorBase - (p + len - 1) + 1 ELSE p
             j == [job[t] EXCEPT !.pc = "got", !.new = q]
  <1>2. /\ IsJob(job[t]) /\ job[t].pc = "walk" /\ job[t].size \in Nat \ {0}
        /\ list' = list /\ enabled' = enabled /\ descriptors' = descriptors
        /\ data' = data /\ holds' = holds
        /\ CallOK(job[t], t, S, alloc, DOMAIN holds[t], data)
    BY DEF WalkInv, JobInv, OnList, Grant, BlocksInv, CallOK, Sized, heaps
  <1>3. job' = [job EXCEPT ![t] = j] /\ \A u \in Tasks : job'[u] = IF u = t THEN j ELSE job[u]
    BY <1>1 DEF WalkInv, JobInv
  <1>4. /\ j.pc = "got" /\ j.op = job[t].op /\ j.size = job[t].size /\ j.new = q
        /\ j.old = job[t].old /\ j.tries = job[t].tries /\ j.region = job[t].region
    BY <1>2 DEF IsJob
  <1>5. /\ h \in enabled /\ h \in S /\ h \in Heaps /\ w \subseteq AllCaps(h)
        /\ S \in SUBSET Heaps
    BY DEF Grant, Matches, BlocksInv, WalkInv, ListInv, ToSet
  <1>6. /\ p \in Nat \ {0} /\ len \in Nat \ {0} /\ Region[h].start < p /\ p + len <= Region[h].end
        /\ \A x \in DOMAIN alloc[h] : p + len <= x \/ x + alloc[h][x] <= p
        /\ iram => len >= 2
    <2>1. Fits(h, p, len)
      BY <1>1
    <2>2. len \in Nat \ {0} /\ (iram => len >= 2)
      BY <1>2
    <2>3. p \in Nat \ {0}
      <3>1. Region[h].start \in Nat \ {0} /\ Region[h].end \in Nat
        BY <1>5, RegionFacts
      <3> HIDE DEF h
      <3> QED
        BY <3>1
    <2> QED
      BY <2>1, <2>2, <2>3 DEF Fits
  <1>7. /\ q \in Cells \cup Mirrored /\ PointsTo(q, p, len) /\ (iram <=> q \in Mirrored)
        /\ q # 0
    <2>1. p \in Cells /\ p \notin Mirrored
      BY <1>5, <1>6, RegionFacts, CellFacts DEF InRegion
    <2>2. CASE ~iram
      BY <2>1, <2>2, CellFacts DEF PointsTo
    <2>3. CASE iram
      <3> DEFINE x == p + len - 2
      <3>1. x \in Nat /\ InRegion(h, x)
        <4>1. Region[h].start \in Nat /\ Region[h].end \in Nat
          BY <1>5, RegionFacts
        <4>2. p \in Nat /\ len \in Nat /\ len >= 2
          BY <1>6, <2>3
        <4>3. Region[h].start < p /\ p + len <= Region[h].end
          BY <1>6
        <4> HIDE DEF h, len
        <4> QED
          BY ONLY <4>1, <4>2, <4>3 DEF InRegion, x
      <3>2. MirrorBase - x \in Mirrored
        BY <1>5, <3>1, CellFacts
      <3>3. q = MirrorBase - x
        BY <1>6, <2>3, RegionAssumption
      <3> HIDE DEF q
      <3>4. PointsTo(q, p, len)
        BY <3>2, <3>3 DEF PointsTo
      <3> QED
        BY <2>3, <3>2, <3>3, <3>4, CellFacts
    <2> QED
      BY <2>2, <2>3
  <1>8. Sound(S, alloc, C)
    BY DEF BlocksInv
  <1>9. /\ alloc' = [alloc EXCEPT ![h] = With(@, p, len)]
        /\ stored' = IF iram THEN [stored EXCEPT ![q] = p] ELSE stored
    BY <1>1
  <1> HIDE DEF S, h, w, iram, len, C, q, j
  <1>10. /\ Sound(S, alloc', C \cup {<<Given(t), q, p, w>>})
         /\ \A v, e, b : <<v, q, e, b>> \notin C
    BY <1>5, <1>6, <1>7, <1>8, <1>9, GrantSound DEF iram
  <1>11. /\ stored' \in [Mirrored -> Cells \cup {0}]
         /\ DramOf(stored', q) = p
         /\ \A r : r # q => DramOf(stored', r) = DramOf(stored, r)
    <2>1. p \in Cells /\ stored \in [Mirrored -> Cells \cup {0}]
      BY <1>5, <1>6, RegionFacts, CellFacts DEF InRegion, BlocksInv
    <2>2. CASE iram
      BY <1>7, <1>9, <2>1, <2>2 DEF DramOf
    <2>3. CASE ~iram
      BY <1>7, <1>9, <2>1, <2>3 DEF DramOf, PointsTo
    <2> QED
      BY <2>2, <2>3
  <1>12. Sound(S, alloc', Claims(stored', holds, job', descriptors))
    <2> DEFINE jn == job'
               sn == stored'
    <2>1. /\ \A u \in Tasks : u # t => jn[u] = job[u]
          /\ job[t].pc \notin {"got", "drop"} /\ jn[t].pc = "got" /\ q = jn[t].new
          /\ Wanted(jn[t]) = w
      <3>1. jn[t] = j /\ \A u \in Tasks : u # t => jn[u] = job[u]
        BY <1>3
      <3>2. Wanted(j) = w
        BY <1>4 DEF Wanted, w
      <3> QED
        BY <1>2, <1>4, <3>1, <3>2
    <2>2. /\ DramOf(sn, q) = p
          /\ \A r : r # q => DramOf(sn, r) = DramOf(stored, r)
      BY <1>11
    <2> HIDE DEF jn, sn
    <2>3. \A v, f, b : <<v, q, f, b>> \notin Claims(stored, holds, job, descriptors)
      BY <1>10 DEF C
    <2>4. \A o, r, d, c : <<o, r, d, c>> \in Claims(sn, holds, jn, descriptors)
                            <=> <<o, r, d, c>> \in C \cup {<<Given(t), q, p, w>>}
      <3> TAKE o, r, d, c
      <3>1. IsGiven(stored, sn, holds, job, jn, descriptors, t)
        BY <2>1, <2>2, <2>3 DEF IsGiven
      <3>2. <<o, r, d, c>> \in Claims(sn, holds, jn, descriptors) <=>
              \/ <<o, r, d, c>> \in Claims(stored, holds, job, descriptors)
              \/ o = Given(t) /\ r = jn[t].new /\ d = DramOf(sn, r) /\ c = Wanted(jn[t])
        BY <3>1, GivenClaim
      <3> QED
        BY <2>1, <2>2, <3>2 DEF C
    <2> QED
      BY <1>10, <2>4, Recount DEF jn, sn
  <1>13. \A g \in Heaps : \A e \in DOMAIN alloc[g] : e \in DOMAIN alloc'[g] /\ alloc'[g][e] = alloc[g][e]
    BY <1>5, <1>6, <1>8, <1>9, OneMore DEF Sound
  <1>14. \A g \in Heaps : DOMAIN alloc'[g] # {} => g \in enabled
    <2>1. alloc = [g \in Heaps |-> alloc[g]]
      BY <1>8 DEF Sound, Ordered
    <2>2. \A g \in Heaps : g # h => alloc'[g] = alloc[g]
      BY <1>9, <2>1
    <2> QED
      BY <1>5, <2>2 DEF BlocksInv
  <1>15. ASSUME NEW u \in Tasks PROVE CallOK(job'[u], u, S, alloc', DOMAIN holds[u], data)
    <2>1. CallOK(job[u], u, S, alloc, DOMAIN holds[u], data)
      BY DEF BlocksInv, S
    <2>2. \A r : Offer(S, alloc, DOMAIN holds[u], r) => Offer(S, alloc', DOMAIN holds[u], r)
      BY <1>5, <1>13, OfferStays
    <2>3. CASE u # t
      <3>1. job'[u] = job[u]
        BY <1>3, <2>3
      <3> QED
        BY <2>1, <2>2, <3>1 DEF CallOK
    <2>4. CASE u = t
      <3>1. job'[u] = j
        BY <1>3, <2>4
      <3> QED
        BY <1>2, <1>4, <1>7, <2>1, <2>2, <2>4, <3>1 DEF CallOK, Sized
    <2> QED
      BY <2>3, <2>4
  <1>16. RegionsApart' <=> RegionsApart
    BY <1>2 DEF RegionsApart
  <1>17. DataKept' <=> DataKept
    BY <1>2 DEF DataKept
  <1> QED
    BY <1>2, <1>11, <1>12, <1>14, <1>15, <1>16, <1>17 DEF BlocksInv, S

\* The caller has the block, with what it writes there
LEMMA BlocksReturn ==
    ASSUME WalkInv, BlocksInv, NEW t \in Tasks, Return(t)
    PROVE  BlocksInv'
  <1> DEFINE S == ToSet(list)
             q == job[t].new
             w == Wanted(job[t])
             C == Claims(stored, holds, job, descriptors)
             x == <<Given(t), q, DramOf(stored, q), w>>
             y == <<Held(t), q, DramOf(stored, q), w>>
             hn == holds'
             jn == job'
  <1>1. /\ job[t].pc = "got" /\ job[t].op = "malloc"
        /\ list' = list /\ enabled' = enabled /\ descriptors' = descriptors
        /\ alloc' = alloc /\ stored' = stored
        /\ holds' = [holds EXCEPT ![t] = With(@, q, w)]
        /\ data' = [data EXCEPT ![q] = t]
        /\ job' = [job EXCEPT ![t] = NoJob]
    BY DEF Return, Finish, heaps
  <1>2. /\ data \in [Pointers -> Tasks \cup {Junk}] /\ holds = [u \in Tasks |-> holds[u]]
        /\ Sound(S, alloc, C) /\ DataKept
    BY DEF BlocksInv
  <1>3. \A u \in Tasks : jn[u] = IF u = t THEN NoJob ELSE job[u]
    BY <1>1 DEF WalkInv, JobInv
  <1>4. \A u \in Tasks : hn[u] = IF u = t THEN With(holds[t], q, w) ELSE holds[u]
    BY <1>1, <1>2
  <1>5. x \in C
    BY <1>1, GivenPointer DEF Dram, DramOf
  <1>6. q \in Pointers
    BY <1>5, Found
  <1>7. \A u \in Tasks : \A p \in DOMAIN holds[u] : p # q /\ p \in Pointers
    <2> TAKE u \in Tasks
    <2> TAKE p \in DOMAIN holds[u]
    <2>1. <<Held(u), p, Dram(p), holds[u][p]>> \in C
      BY HeldPointer
    <2>2. p \in Pointers
      BY <2>1, Found
    <2>3. p # q
      BY <1>5, <2>1, OnePointer, Owners
    <2> QED
      BY <2>2, <2>3
  <1>8. NoJob.pc = "idle" /\ NoJob.op = "none" /\ NoJob.new = 0
    BY DEF NoJob
  <1> HIDE DEF S, hn, jn, C
  <1>9. Sound(S, alloc, Claims(stored, hn, jn, descriptors))
    <2>1. IsHeld(holds, hn, job, jn, t)
      BY <1>1, <1>3, <1>4, <1>7, <1>8 DEF IsHeld
    <2>2. \A o, p, d, c : <<o, p, d, c>> \in Claims(stored, hn, jn, descriptors)
                            <=> <<o, p, d, c>> \in (C \ {x}) \cup {y}
      <3> TAKE o, p, d, c
      <3> QED
        BY <2>1, HeldClaim DEF C
    <2>3. Sound(S, alloc, (C \ {x}) \cup {y})
      BY <1>2, <1>5, PassSound
    <2> QED
      BY <2>2, <2>3, Recount
  <1>10. data' \in [Pointers -> Tasks \cup {Junk}] /\ data'[q] = t
         /\ \A p \in Pointers : p # q => data'[p] = data[p]
    BY <1>1, <1>2, <1>6
  <1>11. DataKept'
    <2> SUFFICES ASSUME NEW u \in Tasks, NEW p \in DOMAIN hn[u] PROVE data'[p] = u
      BY DEF DataKept, hn
    <2>1. CASE p \in DOMAIN holds[u]
      BY <1>2, <1>7, <1>10, <2>1 DEF DataKept
    <2>2. CASE p \notin DOMAIN holds[u]
      <3>1. u = t /\ p = q
        BY <1>4, <2>2 DEF With
      <3> QED
        BY <1>10, <3>1
    <2> QED
      BY <2>1, <2>2
  <1>12. ASSUME NEW u \in Tasks PROVE CallOK(jn[u], u, S, alloc, DOMAIN hn[u], data')
    <2>1. CASE u = t
      BY <1>3, <1>8, <2>1 DEF CallOK
    <2>2. CASE u # t
      <3>1. jn[u] = job[u] /\ hn[u] = holds[u] /\ CallOK(job[u], u, S, alloc, DOMAIN holds[u], data)
        BY <1>3, <1>4, <2>2 DEF BlocksInv, S
      <3>2. job[u].pc = "drop" => data'[job[u].new] = data[job[u].new]
        <4> SUFFICES ASSUME job[u].pc = "drop" PROVE job[u].new \in Pointers /\ job[u].new # q
          BY <1>10
        <4>1. <<Given(u), job[u].new, Dram(job[u].new), Wanted(job[u])>> \in C
          BY GivenPointer DEF C
        <4> QED
          BY <1>5, <2>2, <4>1, Found, OnePointer, Owners DEF C
      <3> QED
        BY <3>1, <3>2 DEF CallOK
    <2> QED
      BY <2>1, <2>2
  <1>13. RegionsApart' <=> RegionsApart
    BY <1>1 DEF RegionsApart
  <1>14. holds' = [u \in Tasks |-> holds'[u]]
    BY <1>1, <1>2
  <1>15. Sound(ToSet(list'), alloc', Claims(stored', holds', job', descriptors'))
    BY <1>1, <1>9 DEF S, hn, jn
  <1>16. \A u \in Tasks : CallOK(job'[u], u, ToSet(list'), alloc', DOMAIN holds'[u], data')
    BY <1>1, <1>12 DEF S, hn, jn
  <1>17. /\ enabled' \subseteq ToSet(list') /\ stored' \in [Mirrored -> Cells \cup {0}]
         /\ \A h \in Heaps : DOMAIN alloc'[h] # {} => h \in enabled'
         /\ descriptors' \subseteq Cells
    BY <1>1 DEF BlocksInv
  <1> QED
    BY <1>10, <1>11, <1>13, <1>14, <1>15, <1>16, <1>17 DEF BlocksInv

\* What free, and realloc in the end, do to a block: its heap is found and has the
\* block again, and nobody else's block is touched
IsReleased(S, am, sn, dn, hn, t, p) ==
    /\ Sound(S, am, Claims(sn, hn, job, descriptors))
    /\ \A g \in Heaps : DOMAIN am[g] \subseteq DOMAIN alloc[g]
    /\ sn \in [Mirrored -> Cells \cup {0}]
    /\ dn \in [Pointers -> Tasks \cup {Junk}]
    /\ \A u \in Tasks : hn[u] = IF u = t THEN Without(holds[t], p) ELSE holds[u]
    /\ \A u \in Tasks : \A r \in DOMAIN hn[u] : dn[r] = u
    /\ \A u \in Tasks : job[u].pc \in {"got", "drop"} => dn[job[u].new] = data[job[u].new]
    /\ \A u \in Tasks : u # t =>
          \A r : Offer(S, alloc, DOMAIN holds[u], r) => Offer(S, am, DOMAIN holds[u], r)

LEMMA Released ==
    ASSUME WalkInv, BlocksInv, NEW t \in Tasks, NEW p \in DOMAIN holds[t], Release(p), Scribble(p),
           NEW hn, hn = [holds EXCEPT ![t] = Without(@, p)]
    PROVE  IsReleased(ToSet(list), alloc', stored', data', hn, t, p)
  <1> DEFINE S == ToSet(list)
             C == Claims(stored, holds, job, descriptors)
             h == Containing(Dram(p))
             d == Dram(p)
             x == <<Held(t), p, DramOf(stored, p), holds[t][p]>>
             sn == stored'
  <1>1. /\ Sound(S, alloc, C) /\ Ordered(S, alloc) /\ S \in SUBSET Heaps
        /\ data \in [Pointers -> Tasks \cup {Junk}]
        /\ stored \in [Mirrored -> Cells \cup {0}] /\ holds = [u \in Tasks |-> holds[u]]
        /\ DataKept
    BY DEF BlocksInv, Sound, Ordered
  <1>2. x \in C /\ d = DramOf(stored, p)
    BY HeldPointer DEF Dram, DramOf
  <1>3. h \in S /\ Innermost(S, h, d) /\ d \in DOMAIN alloc[h] /\ p \in Pointers
    BY <1>2, Found
  <1>4. /\ alloc' = [alloc EXCEPT ![h] = Without(@, d)]
        /\ data' = [data EXCEPT ![p] = Junk]
        /\ stored' = IF p \in Mirrored THEN [stored EXCEPT ![p] = 0] ELSE stored
    BY DEF Release, Scribble
  <1>5. \A u \in Tasks : hn[u] = IF u = t THEN Without(holds[t], p) ELSE holds[u]
    BY <1>1
  <1> HIDE DEF S, h, d, C, sn
  <1>6. Sound(S, alloc', C \ {x})
    BY <1>1, <1>2, <1>3, <1>4, ReleaseSound
  <1>7. \A r : r # p => DramOf(stored', r) = DramOf(stored, r)
    BY <1>1, <1>4 DEF DramOf
  <1>8. \A v, f, b : <<v, p, f, b>> \in C => v = Held(t)
    BY <1>2, OnePointer DEF C
  <1>9. Sound(S, alloc', Claims(sn, hn, job, descriptors))
    <2>1. IsFreed(stored, sn, holds, hn, t, p)
      BY <1>5, <1>7, <1>8 DEF IsFreed, C, sn
    <2>2. \A o, r, e, c : <<o, r, e, c>> \in Claims(sn, hn, job, descriptors)
                            <=> <<o, r, e, c>> \in C \ {x}
      <3> TAKE o, r, e, c
      <3>1. <<o, r, e, c>> \in Claims(sn, hn, job, descriptors) <=>
              <<o, r, e, c>> \in Others(Claims(stored, holds, job, descriptors),
                                        <<Held(t), p, DramOf(stored, p), holds[t][p]>>)
        BY ONLY <2>1, FreedClaim
      <3> QED
        BY <3>1 DEF C, Others
    <2> DEFINE D == C \ {x}
    <2>3. \A o, r, e, c : <<o, r, e, c>> \in Claims(sn, hn, job, descriptors)
                            <=> <<o, r, e, c>> \in D
      BY <2>2
    <2>4. Sound(S, alloc', D)
      BY <1>6
    <2> HIDE DEF D, x
    <2> QED
      BY <2>3, <2>4, Recount
  <1>10. /\ \A g \in Heaps : DOMAIN alloc'[g] \subseteq DOMAIN alloc[g]
         /\ \A g \in S : \A e \in DOMAIN alloc[g] :
               e # d => e \in DOMAIN alloc'[g] /\ alloc'[g][e] = alloc[g][e]
    <2>1. /\ \A g \in S : DOMAIN alloc'[g] \subseteq DOMAIN alloc[g] \ {d}
          /\ \A g \in Heaps : g # h => alloc'[g] = alloc[g]
          /\ \A g \in S : \A e \in DOMAIN alloc[g] :
               e # d => e \in DOMAIN alloc'[g] /\ alloc'[g][e] = alloc[g][e]
      BY <1>1, <1>3, <1>4, OneLess
    <2> QED
      BY <1>1, <1>3, <2>1
  <1>11. /\ stored' \in [Mirrored -> Cells \cup {0}]
         /\ data' \in [Pointers -> Tasks \cup {Junk}]
         /\ \A r \in Pointers : r # p => data'[r] = data[r]
    BY <1>1, <1>3, <1>4
  <1>12. ASSUME NEW u \in Tasks, NEW r \in DOMAIN hn[u] PROVE data'[r] = u
    <2>1. r \in DOMAIN holds[u] /\ (u = t => r # p)
      <3>1. hn[u] = holds[u] \/ (u = t /\ hn[u] = Without(holds[u], p))
        BY <1>5
      <3>2. DOMAIN Without(holds[u], p) = DOMAIN holds[u] \ {p}
        BY DEF Without
      <3> QED
        BY <1>5, <3>1, <3>2
    <2>2. <<Held(u), r, Dram(r), holds[u][r]>> \in C
      BY <2>1, HeldPointer DEF C
    <2>3. r \in Pointers
      BY <2>2, Found DEF C
    <2>4. r # p
      BY <1>8, <2>1, <2>2, Owners
    <2> QED
      BY <1>1, <1>11, <2>1, <2>3, <2>4 DEF DataKept
  <1>13. ASSUME NEW u \in Tasks, job[u].pc \in {"got", "drop"}
         PROVE  data'[job[u].new] = data[job[u].new]
    <2>1. <<Given(u), job[u].new, Dram(job[u].new), Wanted(job[u])>> \in C
      BY <1>13, GivenPointer DEF C
    <2>2. job[u].new \in Pointers
      BY <2>1, Found DEF C
    <2>3. job[u].new # p
      BY <1>8, <2>1, Owners
    <2> QED
      BY <1>11, <2>2, <2>3
  <1>14. ASSUME NEW u \in Tasks, u # t, NEW r, Offer(S, alloc, DOMAIN holds[u], r)
         PROVE  Offer(S, alloc', DOMAIN holds[u], r)
    <2> DEFINE s == Region[r].start
    <2>1. s \in DOMAIN holds[u] => s # d
      <3> SUFFICES ASSUME s \in DOMAIN holds[u], s = d PROVE FALSE
        OBVIOUS
      <3>1. s \notin Mirrored
        <4>1. r \in Heaps
          BY <1>14 DEF Offer
        <4> QED
          BY <4>1, RegionFacts, CellFacts DEF InRegion
      <3>2. <<Held(u), s, d, holds[u][s]>> \in C
        BY <3>1, HeldPointer DEF Dram, C
      <3>3. x = <<Held(t), p, d, holds[t][p]>>
        BY <1>2
      <3>4. Held(u) = Held(t)
        BY <1>1, <1>2, <3>2, <3>3 DEF Sound
      <3> QED
        BY <1>14, <3>4, Owners
    <2> QED
      BY <1>10, <1>14, <2>1, OfferStays
  <1> QED
    BY <1>5, <1>9, <1>10, <1>11, <1>12, <1>13, <1>14 DEF IsReleased, S, sn

LEMMA BlocksFree ==
    ASSUME WalkInv, BlocksInv, NEW t \in Tasks, NEW p \in DOMAIN holds[t], Free(t, p)
    PROVE  BlocksInv'
  <1> DEFINE S == ToSet(list)
             hn == [holds EXCEPT ![t] = Without(@, p)]
  <1>1. Containing(Dram(p)) # NoHeap
    BY HeldPointer, Found
  <1>2. /\ Release(p) /\ Scribble(p) /\ holds' = hn /\ job' = job /\ job[t].pc = "idle"
        /\ list' = list /\ enabled' = enabled /\ descriptors' = descriptors
    BY <1>1 DEF Free, heaps, Idle
  <1> HIDE DEF hn, S
  <1>3. /\ Sound(S, alloc', Claims(stored', hn, job, descriptors))
        /\ \A g \in Heaps : DOMAIN alloc'[g] \subseteq DOMAIN alloc[g]
        /\ stored' \in [Mirrored -> Cells \cup {0}]
        /\ data' \in [Pointers -> Tasks \cup {Junk}]
        /\ \A u \in Tasks : hn[u] = IF u = t THEN Without(holds[t], p) ELSE holds[u]
        /\ \A u \in Tasks : \A r \in DOMAIN hn[u] : data'[r] = u
        /\ \A u \in Tasks : job[u].pc \in {"got", "drop"} => data'[job[u].new] = data[job[u].new]
        /\ \A u \in Tasks : u # t =>
              \A r : Offer(S, alloc, DOMAIN holds[u], r) => Offer(S, alloc', DOMAIN holds[u], r)
    <2>1. IsReleased(ToSet(list), alloc', stored', data', hn, t, p)
      BY <1>2, Released DEF hn
    <2> QED
      BY <2>1 DEF IsReleased, S
  <1>4. ASSUME NEW u \in Tasks PROVE CallOK(job[u], u, S, alloc', DOMAIN hn[u], data')
    <2>1. CallOK(job[u], u, S, alloc, DOMAIN holds[u], data)
      BY DEF BlocksInv, S
    <2>2. CASE u = t
      BY <1>2, <2>1, <2>2 DEF CallOK
    <2>3. CASE u # t
      BY <1>3, <2>1, <2>3 DEF CallOK
    <2> QED
      BY <2>2, <2>3
  <1>5. \A g \in Heaps : DOMAIN alloc'[g] # {} => g \in enabled
    BY <1>3 DEF BlocksInv
  <1>6. RegionsApart' <=> RegionsApart
    BY <1>2 DEF RegionsApart
  <1>7. DataKept'
    BY <1>2, <1>3 DEF DataKept
  <1>8. hn = [u \in Tasks |-> hn[u]]
    BY DEF BlocksInv, hn
  <1>9. enabled \subseteq S /\ descriptors \subseteq Cells /\ RegionsApart
    BY DEF BlocksInv, S
  <1> QED
    BY <1>2, <1>3, <1>4, <1>5, <1>6, <1>7, <1>8, <1>9 DEF BlocksInv, S

\* realloc has copied: the old block is given back, the caller has the new one
LEMMA BlocksDrop ==
    ASSUME WalkInv, BlocksInv, NEW t \in Tasks, Drop(t)
    PROVE  BlocksInv'
  <1> DEFINE S == ToSet(list)
             p == job[t].old
             q == job[t].new
             w == Wanted(job[t])
             hm == [holds EXCEPT ![t] = Without(@, p)]
             hn == holds'
             jn == job'
             sn == stored'
  <1>1. /\ job[t].pc = "drop" /\ p \in DOMAIN holds[t] /\ data[q] = t
    BY DEF Drop, BlocksInv, CallOK
  <1>2. Containing(Dram(p)) # NoHeap
    <2>1. <<Held(t), p, Dram(p), holds[t][p]>> \in Claims(stored, holds, job, descriptors)
      BY <1>1, HeldPointer
    <2> QED
      BY <2>1, Found
  <1>3. /\ Release(p) /\ Scribble(p)
        /\ holds' = [holds EXCEPT ![t] = With(Without(@, p), q, w)]
        /\ job' = [job EXCEPT ![t] = NoJob]
        /\ list' = list /\ enabled' = enabled /\ descriptors' = descriptors
    BY <1>2 DEF Drop, Finish, heaps
  <1>4. holds = [u \in Tasks |-> holds[u]] /\ enabled \subseteq S /\ descriptors \subseteq Cells /\ RegionsApart
    BY DEF BlocksInv
  <1>5. \A u \in Tasks : jn[u] = IF u = t THEN NoJob ELSE job[u]
    BY <1>3 DEF WalkInv, JobInv
  <1>6. NoJob.pc = "idle" /\ NoJob.op = "none" /\ NoJob.new = 0
    BY DEF NoJob
  <1>7. <<Given(t), q, Dram(q), w>> \in Claims(stored, holds, job, descriptors)
    BY <1>1, GivenPointer
  <1>8. q \notin DOMAIN holds[t]
    <2> SUFFICES ASSUME q \in DOMAIN holds[t] PROVE FALSE
      OBVIOUS
    <2>1. <<Held(t), q, Dram(q), holds[t][q]>> \in Claims(stored, holds, job, descriptors)
      BY HeldPointer
    <2> QED
      BY <1>7, <2>1, OnePointer, Owners
  <1>9. \A u \in Tasks : hn[u] = IF u = t THEN With(Without(holds[t], p), q, w) ELSE holds[u]
    BY <1>3, <1>4
  <1>10. hn = [u \in Tasks |-> hn[u]]
    BY <1>3, <1>4
  <1> HIDE DEF hn, jn, sn, hm, S, p, q, w
  <1>11. /\ Sound(S, alloc', Claims(stored', hm, job, descriptors))
         /\ \A g \in Heaps : DOMAIN alloc'[g] \subseteq DOMAIN alloc[g]
         /\ stored' \in [Mirrored -> Cells \cup {0}]
         /\ data' \in [Pointers -> Tasks \cup {Junk}]
         /\ \A u \in Tasks : hm[u] = IF u = t THEN Without(holds[t], p) ELSE holds[u]
         /\ \A u \in Tasks : \A r \in DOMAIN hm[u] : data'[r] = u
         /\ \A u \in Tasks : job[u].pc \in {"got", "drop"} => data'[job[u].new] = data[job[u].new]
         /\ \A u \in Tasks : u # t =>
               \A r : Offer(S, alloc, DOMAIN holds[u], r) => Offer(S, alloc', DOMAIN holds[u], r)
    <2>1. IsReleased(ToSet(list), alloc', stored', data', hm, t, p)
      BY <1>1, <1>3, Released DEF hm
    <2> QED
      BY <2>1 DEF IsReleased, S
  <1>12. Sound(S, alloc', Claims(sn, hn, jn, descriptors))
    <2> DEFINE D == Claims(sn, hm, job, descriptors)
               x == <<Given(t), q, DramOf(sn, q), w>>
               y == <<Held(t), q, DramOf(sn, q), w>>
    <2>1. IsHeld(hm, hn, job, jn, t)
      <3>1. q \notin DOMAIN hm[t] /\ hn[t] = With(hm[t], q, w)
        <4>1. hm[t] = Without(holds[t], p) /\ hn[t] = With(Without(holds[t], p), q, w)
          BY <1>9, <1>11
        <4>2. DOMAIN Without(holds[t], p) \subseteq DOMAIN holds[t]
          BY DEF Without
        <4> QED
          BY <1>8, <4>1, <4>2
      <3>2. \A u \in Tasks : u # t => jn[u] = job[u] /\ hn[u] = hm[u]
        BY <1>5, <1>9, <1>11
      <3>3. jn[t].pc = "idle"
        BY <1>5, <1>6
      <3> QED
        BY <1>1, <3>1, <3>2, <3>3 DEF IsHeld, q, w
    <2>2. \A o, r, d, c : <<o, r, d, c>> \in Claims(sn, hn, jn, descriptors)
                            <=> <<o, r, d, c>> \in (D \ {x}) \cup {y}
      <3> TAKE o, r, d, c
      <3> QED
        BY <2>1, HeldClaim DEF q, w
    <2>3. x \in D
      <3>1. ClaimOf(hm, job, descriptors, Given(t), q, w)
        BY <1>1 DEF ClaimOf, q, w
      <3> QED
        BY <3>1, InClaims
    <2> HIDE DEF D
    <2>4. Sound(S, alloc', (D \ {x}) \cup {y})
      BY <1>11, <2>3, PassSound DEF D, sn
    <2> QED
      BY <2>2, <2>4, Recount
  <1>13. DataKept'
    <2> SUFFICES ASSUME NEW u \in Tasks, NEW r \in DOMAIN hn[u] PROVE data'[r] = u
      BY DEF DataKept, hn
    <2>1. CASE r \in DOMAIN hm[u]
      BY <1>11, <2>1
    <2>2. CASE r \notin DOMAIN hm[u]
      <3>1. hn[u] = hm[u] \/ (u = t /\ hn[u] = With(hm[u], q, w))
        BY <1>9, <1>11
      <3>2. DOMAIN With(hm[u], q, w) = DOMAIN hm[u] \cup {q}
        BY DEF With
      <3>3. u = t /\ r = q
        BY <2>2, <3>1, <3>2
      <3> QED
        BY <1>1, <1>11, <3>3 DEF q
    <2> QED
      BY <2>1, <2>2
  <1>14. ASSUME NEW u \in Tasks PROVE CallOK(jn[u], u, S, alloc', DOMAIN hn[u], data')
    <2>1. CASE u = t
      BY <1>5, <1>6, <2>1 DEF CallOK
    <2>2. CASE u # t
      <3>1. jn[u] = job[u] /\ hn[u] = holds[u] /\ CallOK(job[u], u, S, alloc, DOMAIN holds[u], data)
        BY <1>5, <1>9, <2>2 DEF BlocksInv, S
      <3> QED
        BY <1>11, <2>2, <3>1 DEF CallOK
    <2> QED
      BY <2>1, <2>2
  <1>15. \A g \in Heaps : DOMAIN alloc'[g] # {} => g \in enabled
    BY <1>11 DEF BlocksInv
  <1>16. RegionsApart' <=> RegionsApart
    BY <1>3 DEF RegionsApart
  <1> QED
    BY <1>3, <1>4, <1>10, <1>11, <1>12, <1>13, <1>14, <1>15, <1>16 DEF BlocksInv, S, hn, jn, sn

\* A region that is added: its descriptor is the heaps' own from now on, and the block
\* that it was, if it was one, is nobody's
IsJoined(hn, jn, dn, t, s) ==
    /\ \A u \in Tasks : u # t => jn[u] = job[u] /\ hn[u] = holds[u]
    /\ job[t].pc = "got" /\ jn[t].pc \notin {"got", "drop"}
    /\ hn[t] = Without(holds[t], s)
    /\ dn = descriptors \cup {job[t].new}
    /\ Wanted(job[t]) = DescriptorCaps
    /\ job[t].new # s
    /\ DramOf(stored, s) = s
    /\ \A v, q, b : <<v, q, s, b>> \in Claims(stored, holds, job, descriptors) => v = Held(t) /\ q = s

Elsewhere(C, s) == {x \in C : x[3] # s}

Passed(t) ==
    LET q == job[t].new
        d == DramOf(stored, q)
        w == Wanted(job[t])
    IN  (Claims(stored, holds, job, descriptors) \ {<<Given(t), q, d, w>>}) \cup {<<HeapsOwn, q, d, w>>}

LEMMA JoinedClaim ==
    ASSUME NEW hn, NEW jn, NEW dn, NEW t \in Tasks, NEW s, IsJoined(hn, jn, dn, t, s),
           NEW o, NEW p, NEW d, NEW c
    PROVE  <<o, p, d, c>> \in Claims(stored, hn, jn, dn) <=> <<o, p, d, c>> \in Elsewhere(Passed(t), s)
  <1> DEFINE q == job[t].new
             w == Wanted(job[t])
             Was == ClaimOf(holds, job, descriptors, o, p, c)
             Own == o = HeapsOwn /\ p = q /\ c = w
  <1>1. /\ DOMAIN hn[t] = DOMAIN holds[t] \ {s}
        /\ \A r \in DOMAIN hn[t] : hn[t][r] = holds[t][r]
    BY DEF Without, IsJoined
  <1>2. Was /\ p = s => o = Held(t)
    <2> SUFFICES ASSUME ClaimOf(holds, job, descriptors, o, s, c) PROVE o = Held(t)
      OBVIOUS
    <2>1. <<o, s, s, c>> \in Claims(stored, holds, job, descriptors)
      BY InClaims DEF IsJoined
    <2> QED
      BY <2>1, Zenon DEF IsJoined
  <1>3. ClaimOf(hn, jn, dn, o, p, c) <=> ((Was /\ o # Given(t)) \/ Own) /\ p # s
    <2>1. ASSUME ClaimOf(hn, jn, dn, o, p, c) PROVE ((Was /\ o # Given(t)) \/ Own) /\ p # s
      <3>1. CASE o = HeapsOwn /\ p \in dn /\ c = DescriptorCaps
        <4>1. CASE p = q
          BY <3>1, <4>1 DEF IsJoined
        <4>2. CASE p \in descriptors
          BY <1>2, <3>1, <4>2, Owners DEF ClaimOf
        <4> QED
          BY <3>1, <4>1, <4>2 DEF IsJoined
      <3>2. ASSUME NEW u \in Tasks, o = Held(u), p \in DOMAIN hn[u], c = hn[u][p]
            PROVE  Was /\ o # Given(t) /\ p # s
        <4>1. p \in DOMAIN holds[u] /\ c = holds[u][p] /\ (u = t => p # s)
          BY <1>1, <3>2 DEF IsJoined
        <4>2. Was
          BY <3>2, <4>1 DEF ClaimOf
        <4> QED
          BY <1>2, <3>2, <4>1, <4>2, Owners
      <3>3. ASSUME NEW u \in Tasks, jn[u].pc \in {"got", "drop"}, o = Given(u), p = jn[u].new,
                   c = Wanted(jn[u])
            PROVE  Was /\ o # Given(t) /\ p # s
        <4>1. u # t /\ jn[u] = job[u]
          BY <3>3 DEF IsJoined
        <4>2. Was
          BY <3>3, <4>1 DEF ClaimOf
        <4> QED
          BY <1>2, <3>3, <4>1, <4>2, Owners
      <3> QED
        BY <2>1, <3>1, <3>2, <3>3 DEF ClaimOf
    <2>2. ASSUME Own, p # s PROVE ClaimOf(hn, jn, dn, o, p, c)
      BY <2>2 DEF ClaimOf, IsJoined
    <2>3. ASSUME Was, o # Given(t), p # s PROVE ClaimOf(hn, jn, dn, o, p, c)
      BY <1>1, <2>3 DEF ClaimOf, IsJoined
    <2> QED
      BY <2>1, <2>2, <2>3 DEF IsJoined
  <1>4. Was /\ o = Given(t) => p = q /\ c = w
    BY Owners DEF ClaimOf, IsJoined
  <1>5. <<o, p, d, c>> \in Claims(stored, hn, jn, dn) <=> d = DramOf(stored, p) /\ ClaimOf(hn, jn, dn, o, p, c)
    BY InClaims
  <1>6. <<o, p, d, c>> \in Claims(stored, holds, job, descriptors) <=> d = DramOf(stored, p) /\ Was
    BY InClaims
  <1>7. /\ <<o, p, d, c>> = <<Given(t), q, DramOf(stored, q), w>> <=>
             o = Given(t) /\ p = q /\ d = DramOf(stored, q) /\ c = w
        /\ <<o, p, d, c>> = <<HeapsOwn, q, DramOf(stored, q), w>> <=>
             o = HeapsOwn /\ p = q /\ d = DramOf(stored, q) /\ c = w
    OBVIOUS
  <1> HIDE DEF Was
  <1>8. <<o, p, d, c>> \in Passed(t) <=> d = DramOf(stored, p) /\ ((Was /\ o # Given(t)) \/ Own)
    BY <1>4, <1>6, <1>7, Owners DEF Passed
  <1>9. Was /\ d = DramOf(stored, p) => (p = s <=> d = s)
    <2>1. p = s => DramOf(stored, p) = s
      BY DEF IsJoined
    <2>2. Was /\ d = DramOf(stored, p) /\ d = s => p = s
      BY <1>6, Zenon DEF IsJoined
    <2> QED
      BY <2>1, <2>2
  <1>10. Own /\ d = DramOf(stored, p) => p # s /\ d # s
    <2> SUFFICES ASSUME DramOf(stored, q) = s PROVE FALSE
      BY DEF IsJoined
    <2>1. ClaimOf(holds, job, descriptors, Given(t), q, w)
      BY DEF ClaimOf, IsJoined
    <2>2. <<Given(t), q, s, w>> \in Claims(stored, holds, job, descriptors)
      BY <2>1, InClaims
    <2>3. Given(t) = Held(t)
      BY <2>2, Zenon DEF IsJoined
    <2> QED
      BY <2>3, Owners
  <1>11. <<o, p, d, c>> \in Elsewhere(Passed(t), s) <=> <<o, p, d, c>> \in Passed(t) /\ d # s
    BY DEF Elsewhere
  <1> HIDE DEF Own
  <1> QED
    BY <1>3, <1>5, <1>8, <1>9, <1>10, <1>11

OneAdder == \A t, u \in Adders : t = u

\* Between the test for overlaps and the insertion nobody else adds a region
LEMMA BlocksInsert ==
    ASSUME OneAdder, WalkInv, BlocksInv, NEW t \in Tasks, Insert(t)
    PROVE  BlocksInv'
  <1> DEFINE S == ToSet(list)
             C == Claims(stored, holds, job, descriptors)
             r == job[t].region
             s == Region[r].start
             q == job[t].new
             w == Wanted(job[t])
             hn == holds'
             jn == job'
             dn == descriptors'
  <1>1. /\ job[t].pc = "got" /\ job[t].op = "add"
        /\ list' = <<r>> \o list /\ enabled' = enabled \cup {r}
        /\ descriptors' = descriptors \cup {q}
        /\ alloc' = [alloc EXCEPT ![r] = Nothing]
        /\ holds' = [holds EXCEPT ![t] = Without(@, s)]
        /\ job' = [job EXCEPT ![t] = NoJob]
        /\ stored' = stored /\ data' = data
    BY DEF Insert, Inserted, Finish
  <1>2. /\ t \in Adders /\ job[t].tries = <<DescriptorCaps>> /\ r \notin ToSet(BootList)
        /\ Offer(S, alloc, DOMAIN holds[t], r)
    BY <1>1 DEF BlocksInv, CallOK
  <1>3. /\ Sound(S, alloc, C) /\ Ordered(S, alloc) /\ S \in SUBSET Heaps /\ r \in Heaps /\ r \notin S
        /\ holds = [u \in Tasks |-> holds[u]] /\ alloc = [h \in Heaps |-> alloc[h]]
        /\ list \in Seq(Heaps) /\ RegionsApart
    BY <1>2 DEF BlocksInv, Sound, Ordered, Offer, WalkInv, ListInv
  <1>4. alloc' = alloc
    <2>1. alloc[r] = [p \in DOMAIN alloc[r] |-> alloc[r][p]] /\ DOMAIN alloc[r] = {}
      BY <1>3 DEF Ordered, BlocksApart
    <2>2. alloc[r] = Nothing
      BY <2>1 DEF Nothing
    <2> QED
      BY <1>1, <1>3, <2>2
  <1>5. \A u \in Tasks : jn[u] = IF u = t THEN NoJob ELSE job[u]
    BY <1>1 DEF WalkInv, JobInv
  <1>6. \A u \in Tasks : hn[u] = IF u = t THEN Without(holds[t], s) ELSE holds[u]
    BY <1>1, <1>3
  <1>7. NoJob.pc = "idle" /\ NoJob.op = "none" /\ NoJob.new = 0
    BY DEF NoJob
  <1>8. w = DescriptorCaps /\ "exec" \notin w
    <2>1. Head(job[t].tries) = DescriptorCaps
      BY <1>2
    <2> QED
      BY <2>1 DEF Wanted, DescriptorCaps
  <1>9. <<Given(t), q, DramOf(stored, q), w>> \in C
    BY <1>1, GivenPointer DEF Dram, DramOf
  <1>10. q \in Cells
    BY <1>8, <1>9, Found DEF Executable, Pointers
  <1>11. s \in Cells /\ s \in Nat /\ s \notin Mirrored /\ InRegion(r, s)
    BY <1>3, RegionFacts, CellFacts DEF InRegion
  <1>12. ASSUME NEW v, NEW p, NEW b, <<v, p, s, b>> \in C PROVE v = Held(t) /\ p = s
    <2>1. PICK h \in S : Innermost(S, h, s)
      BY <1>12, Found
    <2>2. ~Apart(r, h)
      BY <1>3, <1>11, <2>1, RegionFacts DEF Apart, Innermost, InRegion
    <2>3. s \in DOMAIN holds[t]
      BY <1>2, <2>1, <2>2 DEF Offer
    <2>4. <<Held(t), s, s, holds[t][s]>> \in C
      BY <1>11, <2>3, HeldPointer DEF Dram
    <2> QED
      BY <1>3, <1>12, <2>4 DEF Sound
  <1> HIDE DEF S, C, r, s, q, w, hn, jn, dn
  <1>13. ToSet(list') = S \cup {r}
    <2> DEFINE l == <<r>> \o list
    <2>1. /\ DOMAIN l = 1 .. Len(list) + 1 /\ DOMAIN list = 1 .. Len(list) /\ Len(list) \in Nat
          /\ l[1] = r /\ \A i \in DOMAIN list : l[i + 1] = list[i]
      BY <1>3
    <2>2. list' = l
      BY <1>1
    <2> HIDE DEF l
    <2>3. ASSUME NEW x \in ToSet(l) PROVE x \in S \cup {r}
      <3>1. PICK i \in 1 .. Len(list) + 1 : x = l[i]
        BY <2>1 DEF ToSet
      <3>2. CASE i = 1
        BY <2>1, <3>1, <3>2
      <3>3. CASE i # 1
        <4>1. i - 1 \in DOMAIN list /\ l[(i - 1) + 1] = list[i - 1] /\ (i - 1) + 1 = i
          BY <2>1, <3>3
        <4> QED
          BY <3>1, <4>1 DEF ToSet, S
      <3> QED
        BY <3>2, <3>3
    <2>4. S \subseteq ToSet(l)
      <3> SUFFICES ASSUME NEW i \in DOMAIN list PROVE list[i] \in ToSet(l)
        BY DEF ToSet, S
      <3>1. i + 1 \in DOMAIN l /\ l[i + 1] = list[i]
        BY <2>1
      <3> QED
        BY <3>1 DEF ToSet
    <2>5. r \in ToSet(l)
      BY <2>1 DEF ToSet
    <2> QED
      BY <2>2, <2>3, <2>4, <2>5
  <1>14. Sound(S \cup {r}, alloc, Claims(stored, hn, jn, dn))
    <2>1. IsJoined(hn, jn, dn, t, s)
      <3>1. /\ \A u \in Tasks : u # t => jn[u] = job[u] /\ hn[u] = holds[u]
            /\ jn[t].pc = "idle" /\ hn[t] = Without(holds[t], s)
        BY <1>5, <1>6, <1>7
      <3>2. dn = descriptors \cup {job[t].new} /\ Wanted(job[t]) = DescriptorCaps
        BY <1>1, <1>8 DEF dn, q, w
      <3>3. job[t].new # s
        BY <1>9, <1>11, <1>12, Owners DEF DramOf, q
      <3>4. DramOf(stored, s) = s
        BY <1>11 DEF DramOf
      <3>5. \A v, p, b : <<v, p, s, b>> \in Claims(stored, holds, job, descriptors) => v = Held(t) /\ p = s
        BY <1>12 DEF C
      <3> QED
        BY <1>1, <3>1, <3>2, <3>3, <3>4, <3>5 DEF IsJoined
    <2>2. Sound(S, alloc, Passed(t))
      <3>1. Sound(S, alloc, (C \ {<<Given(t), q, DramOf(stored, q), w>>})
                              \cup {<<HeapsOwn, q, DramOf(stored, q), w>>})
        BY <1>3, <1>9, PassSound
      <3> QED
        BY <3>1 DEF Passed, C, q, w
    <2>3. \A o, p, d, c : <<o, p, d, c>> \in Elsewhere(Passed(t), s)
                            <=> <<o, p, d, c>> \in Passed(t) /\ d # s
      BY DEF Elsewhere
    <2>4. Sound(S \cup {r}, alloc, Elsewhere(Passed(t), s))
      BY <1>2, <2>2, <2>3, JoinSound DEF s
    <2>5. \A o, p, d, c : <<o, p, d, c>> \in Claims(stored, hn, jn, dn)
                            <=> <<o, p, d, c>> \in Elsewhere(Passed(t), s)
      <3> TAKE o, p, d, c
      <3> QED
        BY ONLY <2>1, JoinedClaim
    <2> QED
      BY <2>4, <2>5, Recount
  <1>15. RegionsApart'
    <2> DEFINE l == <<r>> \o list
    <2>1. /\ DOMAIN l = 1 .. Len(list) + 1 /\ DOMAIN list = 1 .. Len(list) /\ Len(list) \in Nat
          /\ l[1] = r /\ \A i \in DOMAIN l : i # 1 => i - 1 \in DOMAIN list /\ l[i] = list[i - 1]
      BY <1>3
    <2> HIDE DEF l
    <2>2. ASSUME NEW i \in DOMAIN l, NEW k \in DOMAIN l, i < k
          PROVE  LET new == Region[l[i]]
                     old == Region[l[k]]
                 IN  \/ new.end <= old.start \/ old.end <= new.start
                     \/ old.start < new.start /\ new.end <= old.end
      <3>1. k - 1 \in DOMAIN list /\ l[k] = list[k - 1] /\ list[k - 1] \in S
        BY <2>1, <2>2 DEF ToSet, S
      <3>2. CASE i = 1
        <4>1. l[i] = r /\ (Apart(r, l[k]) \/ Nests(r, l[k]))
          BY <1>2, <2>1, <3>1, <3>2 DEF Offer
        <4> QED
          BY <4>1 DEF Apart, Nests
      <3>3. CASE i # 1
        <4>1. i - 1 \in DOMAIN list /\ l[i] = list[i - 1] /\ i - 1 < k - 1
          BY <2>1, <2>2, <3>3
        <4> QED
          BY <1>3, <3>1, <4>1 DEF RegionsApart
      <3> QED
        BY <3>2, <3>3
    <2>3. list' = l
      BY <1>1 DEF l
    <2> QED
      BY <2>2, <2>3 DEF RegionsApart
  <1>16. ASSUME NEW u \in Tasks PROVE CallOK(jn[u], u, S \cup {r}, alloc, DOMAIN hn[u], data)
    <2>1. CASE u = t
      BY <1>5, <1>7, <2>1 DEF CallOK
    <2>2. CASE u # t
      <3>1. jn[u] = job[u] /\ hn[u] = holds[u] /\ CallOK(job[u], u, S, alloc, DOMAIN holds[u], data)
        BY <1>5, <1>6, <2>2 DEF BlocksInv, S
      <3>2. job[u].op # "add"
        BY <1>2, <2>2, <3>1 DEF CallOK, OneAdder
      <3> QED
        BY <3>1, <3>2 DEF CallOK
    <2> QED
      BY <2>1, <2>2
  <1>17. DataKept'
    <2> SUFFICES ASSUME NEW u \in Tasks, NEW p \in DOMAIN hn[u] PROVE data[p] = u
      BY <1>1 DEF DataKept, hn
    <2>1. p \in DOMAIN holds[u]
      <3>1. DOMAIN Without(holds[t], s) \subseteq DOMAIN holds[t]
        BY DEF Without
      <3> QED
        BY <1>6, <3>1
    <2> QED
      BY <2>1 DEF BlocksInv, DataKept
  <1>18. hn = [u \in Tasks |-> hn[u]]
    BY <1>1, <1>3 DEF hn
  <1>19. /\ enabled \subseteq S /\ descriptors \subseteq Cells
         /\ \A h \in Heaps : DOMAIN alloc[h] # {} => h \in enabled
         /\ stored \in [Mirrored -> Cells \cup {0}]
         /\ data \in [Pointers -> Tasks \cup {Junk}]
    BY DEF BlocksInv, S
  <1> QED
    BY <1>1, <1>4, <1>10, <1>13, <1>14, <1>15, <1>16, <1>17, <1>18, <1>19 DEF BlocksInv, hn, jn, dn

LEMMA BlocksEnable ==
    ASSUME BlocksInv, NEW h \in StackHeaps, EnableStackHeap(h)
    PROVE  BlocksInv'
  <1>1. /\ h \in ToSet(list) /\ enabled' = enabled \cup {h}
        /\ list' = list /\ descriptors' = descriptors /\ alloc' = alloc
        /\ stored' = stored /\ data' = data /\ holds' = holds /\ job' = job
    BY DEF EnableStackHeap
  <1>2. RegionsApart' /\ DataKept'
    BY <1>1 DEF BlocksInv, RegionsApart, DataKept
  <1> QED
    BY <1>1, <1>2 DEF BlocksInv

LEMMA BlocksInit ==
    ASSUME Init
    PROVE  BlocksInv
  <1> DEFINE S == ToSet(list)
             C == Claims(stored, holds, job, descriptors)
  <1>1. /\ list = BootList /\ enabled = ToSet(BootList) \ StackHeaps
        /\ alloc = [h \in Heaps |-> Nothing] /\ stored = [p \in Mirrored |-> 0]
        /\ data = [p \in Pointers |-> Junk] /\ holds = [t \in Tasks |-> Nothing]
        /\ descriptors = {} /\ job = [t \in Tasks |-> NoJob]
    BY DEF Init, Pointers
  <1>2. /\ DOMAIN Nothing = {} /\ Nothing = [p \in DOMAIN Nothing |-> Nothing[p]]
        /\ NoJob.pc = "idle" /\ NoJob.op = "none" /\ NoJob.new = 0
    BY DEF Nothing, NoJob
  <1>3. \A i, k \in DOMAIN list : i # k => Apart(list[i], list[k])
    BY <1>1, RegionAssumption DEF Apart
  <1>4. /\ list \in Seq(Heaps) /\ DOMAIN list = 1 .. Len(list) /\ Len(list) \in Nat
    BY <1>1, RegionAssumption
  <1>5. RegionsApart
    <2> SUFFICES ASSUME NEW i \in DOMAIN list, NEW k \in DOMAIN list, i < k
                 PROVE  Apart(list[i], list[k])
      BY DEF RegionsApart, Apart
    <2> QED
      BY <1>3, <1>4
  <1>6. S \subseteq Heaps /\ \A g, h \in S : g = h \/ Apart(g, h)
    BY <1>3, <1>4 DEF ToSet
  <1>7. \A o, p, d, c : <<o, p, d, c>> \notin C
    <2> SUFFICES ASSUME NEW o, NEW p, NEW d, NEW c PROVE ~ClaimOf(holds, job, descriptors, o, p, c)
      BY InClaims
    <2> QED
      BY <1>1, <1>2 DEF ClaimOf
  <1> HIDE DEF C, S
  <1>8. \A h \in Heaps : DOMAIN alloc[h] = {} /\ alloc[h] = [p \in DOMAIN alloc[h] |-> alloc[h][p]]
    BY <1>1, <1>2
  <1>9. Ordered(S, alloc)
    <2>1. \A h \in Heaps : BlocksApart(alloc[h], h)
      BY <1>8 DEF BlocksApart
    <2>2. \A g, h \in S : ~Nests(g, h)
      BY <1>6, RegionFacts DEF Apart, Nests
    <2>3. alloc = [h \in Heaps |-> alloc[h]]
      BY <1>1
    <2> QED
      BY <1>6, <1>8, <2>1, <2>2, <2>3 DEF Ordered, Laminar
  <1>10. Sound(S, alloc, C)
    BY <1>6, <1>7, <1>8, <1>9 DEF Sound
  <1>11. ASSUME NEW t \in Tasks PROVE CallOK(job[t], t, S, alloc, DOMAIN holds[t], data)
    BY <1>1, <1>2 DEF CallOK
  <1>12. DataKept
    BY <1>1, <1>2 DEF DataKept
  <1>13. stored \in [Mirrored -> Cells \cup {0}] /\ data \in [Pointers -> Tasks \cup {Junk}]
    BY <1>1
  <1>14. enabled \subseteq S /\ descriptors \subseteq Cells /\ holds = [t \in Tasks |-> holds[t]]
    BY <1>1 DEF S
  <1> QED
    BY <1>5, <1>8, <1>10, <1>11, <1>12, <1>13, <1>14 DEF BlocksInv, S, C

LEMMA BlocksStutter ==
    ASSUME BlocksInv, UNCHANGED vars
    PROVE  BlocksInv'
  <1>1. /\ list' = list /\ enabled' = enabled /\ descriptors' = descriptors /\ alloc' = alloc
        /\ stored' = stored /\ data' = data /\ holds' = holds /\ job' = job
    BY DEF vars, heaps
  <1>2. RegionsApart' /\ DataKept'
    BY <1>1 DEF BlocksInv, RegionsApart, DataKept
  <1> QED
    BY <1>1, <1>2 DEF BlocksInv

LEMMA BlocksStep ==
    ASSUME OneAdder, WalkInv, BlocksInv, NEW t \in Tasks, Step(t) \/ Call(t)
    PROVE  BlocksInv'
  <1>1. CASE Step(t)
    BY <1>1, BlocksTry, BlocksPass, BlocksGrant, BlocksReturn, BlocksNull, BlocksCopy, BlocksDrop,
       BlocksInsert DEF Step
  <1>2. CASE Call(t)
    BY <1>2, BlocksFree, BlocksCall
  <1> QED
    BY <1>1, <1>2

-----------------------------------------------------------------------------
(* The theorems about blocks, for any number of tasks of which one adds     *)
(* regions                                                                  *)

\* The inductive invariant of the blocks: who has which block of which heap, by which
\* pointer, whatever the tasks do (heap_caps.c:106-330, heap_caps_init.c:160-225)
THEOREM BlocksInvariant ==
    ASSUME OneAdder
    PROVE  Spec => []BlocksInv
  <1>1. Init => BlocksInv
    BY BlocksInit
  <1>2. WalkInv /\ BlocksInv /\ [Next]_vars => BlocksInv'
    <2> SUFFICES ASSUME WalkInv, BlocksInv, [Next]_vars PROVE BlocksInv'
      OBVIOUS
    <2>1. CASE UNCHANGED vars
      BY <2>1, BlocksStutter
    <2>2. ASSUME NEW t \in Tasks, Step(t) \/ Call(t) PROVE BlocksInv'
      BY <2>2, BlocksStep
    <2>3. ASSUME NEW h \in StackHeaps, EnableStackHeap(h) PROVE BlocksInv'
      BY <2>3, BlocksEnable
    <2> QED
      BY <2>1, <2>2, <2>3 DEF Next
  <1> QED
    BY <1>1, <1>2, WalkInvariant, PTL DEF Spec

\* The variables have their types, every walk is at a heap of the list, and no call
\* gets to abort() (heap_caps.c:106-330)
THEOREM TypesHold ==
    ASSUME OneAdder
    PROVE  Spec => []TypeOK
  <1>1. WalkInv /\ BlocksInv => TypeOK
    <2> SUFFICES ASSUME WalkInv, BlocksInv PROVE TypeOK
      OBVIOUS
    <2>1. ToSet(list) \subseteq Heaps
      BY DEF WalkInv, ListInv, ToSet
    <2>2. ASSUME NEW h \in Heaps, NEW p \in DOMAIN alloc[h] PROVE p \in Cells
      <3>1. BlocksApart(alloc[h], h)
        BY DEF BlocksInv, Sound, Ordered
      <3>2. p \in Nat /\ InRegion(h, p)
        BY <3>1, RegionFacts DEF BlocksApart, InRegion
      <3> QED
        BY <3>2, CellFacts
    <2>3. ASSUME NEW t \in Tasks, NEW p \in DOMAIN holds[t] PROVE p \in Pointers
      BY HeldPointer, Found
    <2>4. ASSUME NEW t \in Tasks
          PROVE  /\ job[t].op \in {"none", "malloc", "realloc", "add"}
                 /\ job[t].pc \in {"idle", "try", "walk", "got", "null", "drop", "abort"}
                 /\ job[t].pc = "walk" => job[t].rest \in DOMAIN list /\ job[t].prio \in 1 .. Prios
                 /\ job[t].new \in Pointers \cup {0}
      <3>1. CallOK(job[t], t, ToSet(list), alloc, DOMAIN holds[t], data) /\ OnList(list, job[t])
        BY DEF BlocksInv, WalkInv, JobInv
      <3>2. DOMAIN list = 1 .. Len(list) /\ Prios \in Nat
        BY PriosNat DEF WalkInv, ListInv
      <3>3. job[t].pc \in {"got", "drop"} => job[t].new \in Pointers
        BY GivenPointer, Found
      <3> QED
        BY <3>1, <3>2, <3>3 DEF CallOK, OnList
    <2> QED
      BY <2>1, <2>2, <2>3, <2>4 DEF TypeOK, BlocksInv
  <1> QED
    BY <1>1, WalkInvariant, BlocksInvariant, PTL

\* Every pointer that somebody has is one of the claims
LEMMA KnownClaimed ==
    ASSUME WalkInv, BlocksInv, NEW p \in Known
    PROVE  \E o, c : <<o, p, Dram(p), c>> \in Claims(stored, holds, job, descriptors)
  <1>1. CASE p \in descriptors
    <2>1. ClaimOf(holds, job, descriptors, HeapsOwn, p, DescriptorCaps)
      BY <1>1 DEF ClaimOf
    <2>2. <<HeapsOwn, p, Dram(p), DescriptorCaps>> \in Claims(stored, holds, job, descriptors)
      BY <2>1, InClaims DEF DramOf, Dram
    <2> QED
      BY <2>2
  <1>2. CASE \E t \in Tasks : p \in DOMAIN holds[t]
    BY <1>2, HeldPointer
  <1>3. CASE \E t \in Tasks : p \in InHand(t)
    <2>1. PICK t \in Tasks : p = job[t].new /\ job[t].new # 0
      BY <1>3 DEF InHand
    <2>2. job[t].pc \in {"got", "drop"}
      BY <2>1 DEF BlocksInv, CallOK
    <2> QED
      BY <2>1, <2>2, GivenPointer
  <1> QED
    BY <1>1, <1>2, <1>3 DEF Known

\* free() finds the heap of every block that malloc gave out and nobody has freed, also
\* where regions nest and where the pointer is an IRAM address, so the assertions of
\* heap_caps.c:271, 301 and 310 hold
THEOREM PointersFindable ==
    ASSUME OneAdder
    PROVE  Spec => []Findable
  <1>1. WalkInv /\ BlocksInv => Findable
    <2> SUFFICES ASSUME WalkInv, BlocksInv PROVE Findable
      OBVIOUS
    <2>1. ASSUME NEW p \in Known
          PROVE  Containing(Dram(p)) # NoHeap /\ Dram(p) \in DOMAIN alloc[Containing(Dram(p))]
      BY KnownClaimed, Found
    <2>2. \A t \in Tasks : job[t].pc # "abort"
      BY DEF BlocksInv, CallOK
    <2> QED
      BY <2>1, <2>2 DEF Findable
  <1> QED
    BY <1>1, WalkInvariant, BlocksInvariant, PTL

\* No block is lost: what a heap has given out somebody has a pointer to, or it has become
\* a region, also when realloc is refused or moves the block (heap_caps.c:106-330)
THEOREM NoBlockLost ==
    ASSUME OneAdder
    PROVE  Spec => []NothingLost
  <1>1. WalkInv /\ BlocksInv => NothingLost
    <2> SUFFICES ASSUME WalkInv, BlocksInv, NEW h \in ToSet(list), NEW d \in DOMAIN alloc[h]
                 PROVE  (\E p \in Known : d = Dram(p)) \/ d \in Nested
      BY DEF NothingLost
    <2> DEFINE C == Claims(stored, holds, job, descriptors)
    <2>1. \/ \E o, p, c : <<o, p, d, c>> \in C
          \/ \E m \in ToSet(list) \ ToSet(BootList) : d = Region[m].start
      BY DEF BlocksInv, Sound
    <2>2. ASSUME NEW o, NEW p, NEW c, <<o, p, d, c>> \in C PROVE p \in Known /\ d = Dram(p)
      <3>1. d = DramOf(stored, p) /\ ClaimOf(holds, job, descriptors, o, p, c)
        BY <2>2, InClaims
      <3>2. \A t \in Tasks : job[t].pc \in {"got", "drop"} => InHand(t) = {job[t].new}
        BY DEF BlocksInv, CallOK, InHand
      <3> QED
        BY <3>1, <3>2 DEF ClaimOf, Known, DramOf, Dram
    <2> HIDE DEF C
    <2> QED
      BY <2>1, <2>2 DEF Nested
  <1> QED
    BY <1>1, WalkInvariant, BlocksInvariant, PTL

\* A block has all the capabilities it was asked for, and its pointer is an IRAM address
\* if and only if code is to run in it (heap_caps.c:106-167)
THEOREM CapabilitiesKept ==
    ASSUME OneAdder
    PROVE  Spec => []CapsKept
  <1>1. WalkInv /\ BlocksInv => CapsKept
    <2> SUFFICES ASSUME WalkInv, BlocksInv, NEW t \in Tasks, NEW p \in DOMAIN holds[t]
                 PROVE  /\ holds[t][p] \subseteq AllCaps(Containing(Dram(p)))
                        /\ Executable(Containing(Dram(p)), holds[t][p]) <=> p \in Mirrored
      BY DEF CapsKept
    <2>1. <<Held(t), p, Dram(p), holds[t][p]>> \in Claims(stored, holds, job, descriptors)
      BY HeldPointer
    <2> QED
      BY <2>1, Found
  <1> QED
    BY <1>1, WalkInvariant, BlocksInvariant, PTL

\* What a task has written into a block is there until the task frees it, also across
\* realloc: no other task is given the same memory (heap_caps.c:106-330)
THEOREM ContentsKept ==
    ASSUME OneAdder
    PROVE  Spec => []DataKept
  <1>1. BlocksInv => DataKept
    BY DEF BlocksInv
  <1> QED
    BY <1>1, BlocksInvariant, PTL

\* "the same region cannot be add twice" (heap_caps_init.c:188): the listed regions are
\* apart or nested, as long as one task adds regions
THEOREM RegionsStayApart ==
    ASSUME OneAdder
    PROVE  Spec => []RegionsApart
  <1>1. BlocksInv => RegionsApart
    BY DEF BlocksInv
  <1> QED
    BY <1>1, BlocksInvariant, PTL

=============================================================================
