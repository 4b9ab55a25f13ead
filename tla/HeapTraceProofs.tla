--------------------------- MODULE HeapTraceProofs ---------------------------
(***************************************************************************)
(* The trace keeps its promises for every number of tasks, addresses and   *)
(* records, whatever the controls do between the steps of the recorders.   *)
(***************************************************************************)
EXTENDS HeapTrace, LeastNumber, TLAPS

Entries == 0 .. count - 1

\* Records of the array in use
Slots == Length[buffer]

\* Between the heap and the record, and between the record and the heap
Recording == {"log", "room", "store"}
Freeing == {"unlog", "search", "mark"}
Busy == Recording \cup Freeing \cup {"heap"}

-----------------------------------------------------------------------------
(* The parts of the inductive invariant *)

\* trace_mux excludes: its holder is the one task behind portENTER_CRITICAL
LockInv == \A t \in Tasks : mux = t <=> pc[t] \in {"store", "mark", "resume"}

\* A block a wrapper deals with is the wrapper's alone
BlockInv ==
    /\ \A t \in Tasks : pc[t] \in Busy => arg[t] \in allocated /\ arg[t] \notin owned
    /\ \A t, u \in Tasks : pc[t] \in Busy /\ pc[u] \in Busy /\ arg[t] = arg[u] => t = u
    /\ logged \subseteq allocated
    /\ \A t \in Tasks : pc[t] \in Recording => arg[t] \notin logged

\* An uninterrupted trace is off only while heap_trace_start holds the lock, with an
\* empty log
StartInv ==
    /\ \A t \in Tasks : pc[t] = "resume" => count = 0
    /\ ~gap /\ ~tracing => \E t \in Tasks : pc[t] = "resume"

\* There is room for the record a task is about to store, as long as the size is the
\* one the trace was started with, and an uninterrupted trace is inside its array
RoomInv ==
    /\ ~resized =>
         /\ count <= total_records
         /\ \A t \in Tasks : pc[t] = "store" => count < total_records
    /\ ~gap => ~resized /\ count <= Slots

\* The record a task is about to mark is the last of its block
MarkInv ==
    \A t \in Tasks : pc[t] = "mark" =>
        /\ slot < count
        /\ ~gap => /\ log[slot].address = arg[t]
                   /\ \A i \in Entries : log[i].address = arg[t] => i <= slot

\* In leak mode a block between its two wrappers' steps has no record
LeakInv ==
    mode = "leaks" /\ ~gap =>
        /\ \A i \in Entries : log[i].address \in allocated
        /\ \A i, j \in Entries : log[i].address = log[j].address => i = j
        /\ \A t \in Tasks : pc[t] \in Recording \cup {"heap"} =>
               \A i \in Entries : log[i].address # arg[t]

KeptInv ==
    mode = "leaks" /\ ~gap /\ ~has_overflowed =>
        \A p \in logged \ refused : p \in owned => \E i \in Entries : log[i].address = p

\* Somebody has yet to free the block
Unfreed(p) == p \in owned \/ \E t \in Tasks : pc[t] \in Freeing /\ arg[t] = p

AllEvents == mode = "all" /\ ~gap

\* Of the records of a block all but the last one are closed
OlderClosed ==
    AllEvents => \A i, j \in Entries :
        i < j /\ log[i].address = log[j].address => log[i].freed

\* An open record is of a block that was logged and not refused
OpenLogged ==
    AllEvents => \A i \in Entries :
        /\ log[i].address \in Addresses
        /\ ~log[i].freed => log[i].address \in logged \ refused

\* The records of a block that goes back to the heap are closed
HeapClosed ==
    AllEvents => \A t \in Tasks : pc[t] = "heap" =>
        \A i \in Entries : log[i].address = arg[t] => log[i].freed

\* A closed record of such a block, while it is not freed, has a later one behind it
UnfreedOpen ==
    AllEvents => \A i \in Entries :
        /\ log[i].address \in logged \ refused
        /\ Unfreed(log[i].address)
        /\ log[i].freed
        => \E j \in Entries : i < j /\ log[j].address = log[i].address

EventInv == OlderClosed /\ OpenLogged /\ HeapClosed /\ UnfreedOpen

\* Every allocation is in the buffer or has pushed one out; a task that is about to
\* store has made the room for its record
TotalInv ==
    mode = "all" /\ ~gap =>
        /\ (\A t \in Tasks : pc[t] # "store") =>
               /\ count = IF total_allocations < total_records THEN total_allocations ELSE total_records
               /\ has_overflowed <=> total_allocations > total_records
        /\ (\E t \in Tasks : pc[t] = "store") =>
               /\ count = IF total_allocations < total_records THEN total_allocations ELSE total_records - 1
               /\ has_overflowed <=> total_allocations >= total_records

IInv ==
    /\ TypeOK /\ LockInv /\ BlockInv /\ StartInv /\ RoomInv /\ MarkInv
    /\ LeakInv /\ KeptInv /\ EventInv /\ TotalInv

-----------------------------------------------------------------------------
(* The search that runs backwards *)

\* Newest is the last record of the address
LEMMA NewestIsLast ==
    ASSUME count \in Nat, NEW p, Found(p) # {}
    PROVE  /\ Newest(p) \in Found(p)
           /\ \A i \in Found(p) : i <= Newest(p)
  <1> DEFINE S == {n \in Nat : \E i \in Found(p) : n = count - 1 - i}
  <1>1. S # {} /\ S \in SUBSET Nat
    <2>1. PICK i \in Found(p) : TRUE
      OBVIOUS
    <2>2. i \in 0 .. count - 1
      BY DEF Found
    <2>3. count - 1 - i \in Nat
      BY <2>2
    <2> QED
      BY <2>1, <2>3
  <1>2. PICK n \in S : \A m \in S : n <= m
    BY <1>1, Least
  <1>3. PICK i \in Found(p) : n = count - 1 - i
    OBVIOUS
  <1>4. \A j \in Found(p) : j \in Int /\ count - 1 - j \in S
    BY DEF Found
  <1>5. \A j \in Found(p) : j <= i
    BY <1>2, <1>3, <1>4
  <1> QED
    BY <1>5, Zenon DEF Newest

-----------------------------------------------------------------------------
(* The array keeps its slots *)

Logs == [0 .. Slots - 1 -> [address : Addresses \cup {Null}, freed : BOOLEAN]]

\* The array in use has a length, the log its type
LEMMA SlotsTyped ==
    ASSUME TypeOK
    PROVE  Slots \in Nat /\ log \in Logs
  BY TraceAssumption DEF TypeOK, Slots, Logs, Arrays

LEMMA ShiftedTyped ==
    ASSUME Slots \in Nat, log \in Logs, total_records \in 1 .. Slots
    PROVE  Shifted \in Logs
  <1>1. ASSUME NEW i \in 0 .. Slots - 1, i < total_records - 1 PROVE i + 1 \in 0 .. Slots - 1
    BY <1>1
  <1>2. DOMAIN log = 0 .. Slots - 1
    BY DEF Logs
  <1> QED
    BY <1>1, <1>2, Zenon DEF Shifted, Logs

LEMMA RecordRemovedTyped ==
    ASSUME Slots \in Nat, log \in Logs, total_records \in Nat, slot \in 0 .. Slots - 1,
           slot < count - 1 => total_records <= Slots
    PROVE  RecordRemoved \in Logs
  <1>1. ASSUME NEW i \in 0 .. Slots - 1, i < total_records - 1, slot < count - 1
        PROVE  i + 1 \in 0 .. Slots - 1
    BY <1>1
  <1>2. DOMAIN log = 0 .. Slots - 1
    BY DEF Logs
  <1>3. Empty \in [address : Addresses \cup {Null}, freed : BOOLEAN]
    BY DEF Empty
  <1>4. [log EXCEPT ![slot] = Empty] \in Logs
    BY <1>3, Zenon DEF Logs
  <1> QED
    BY <1>1, <1>2, <1>4, Zenon DEF RecordRemoved, Logs

LEMMA MarkedTyped ==
    ASSUME log \in Logs, slot \in 0 .. Slots - 1
    PROVE  [log EXCEPT ![slot].freed = TRUE] \in Logs
  BY DEF Logs

\* The records that are left, in their order: the ones behind the removed one move up
LEMMA RecordRemovedAt ==
    ASSUME TypeOK, slot < count, count <= total_records, count <= Slots,
           NEW i \in 0 .. count - 2
    PROVE  RecordRemoved[i] = log[IF i < slot THEN i ELSE i + 1]
  <1>1. /\ slot \in Nat /\ total_records \in Nat /\ i \in Nat /\ count \in Nat
        /\ i < count - 1 /\ Slots \in Nat /\ log \in Logs
    BY SlotsTyped DEF TypeOK
  <1>2. DOMAIN log = 0 .. Slots - 1 /\ i \in DOMAIN log
    BY <1>1 DEF Logs
  <1>3. CASE slot < count - 1
    BY <1>1, <1>2, <1>3 DEF RecordRemoved
  <1>4. CASE ~(slot < count - 1)
    <2>1. RecordRemoved = [log EXCEPT ![slot] = Empty] /\ i < slot
      BY <1>1, <1>4 DEF RecordRemoved
    <2> QED
      BY <1>1, <1>2, <2>1
  <1> QED
    BY <1>3, <1>4

\* Making room moves every record but the first one up
LEMMA ShiftedAt ==
    ASSUME TypeOK, count = total_records, count <= Slots, NEW i \in 0 .. count - 2
    PROVE  Shifted[i] = log[i + 1]
  <1>1. /\ total_records \in Nat /\ i \in Nat /\ i < total_records - 1
        /\ Slots \in Nat /\ log \in Logs
    BY SlotsTyped DEF TypeOK
  <1>2. DOMAIN log = 0 .. Slots - 1 /\ i \in DOMAIN log
    BY <1>1 DEF Logs
  <1> QED
    BY <1>1, <1>2 DEF Shifted

-----------------------------------------------------------------------------
(* Every step keeps the parts of the invariant *)

\* Room is made and a record stored inside the array
LEMMA InsideArray ==
    ASSUME TypeOK, NEW t \in Tasks
    PROVE  /\ MakeRoom(t) /\ tracing /\ count = total_records => count > 0 /\ count <= Slots
           /\ Store(t) => count < Slots /\ count \in DOMAIN log
  <1>1. Slots \in Nat /\ log \in Logs /\ count \in Nat
    BY SlotsTyped DEF TypeOK
  <1>2. MakeRoom(t) /\ tracing /\ count = total_records => count \in 1 .. Slots
    BY DEF MakeRoom, Outside, Slots
  <1>3. Store(t) => ~(count >= Slots)
    BY DEF Store, Outside, Slots
  <1> QED
    BY <1>1, <1>2, <1>3 DEF Logs

\* The entries of a log that is inside its array are slots of it
LEMMA EntriesInLog ==
    ASSUME TypeOK, count <= Slots
    PROVE  \A i \in Entries : i \in DOMAIN log
  <1>1. Slots \in Nat /\ count \in Nat /\ DOMAIN log = 0 .. Slots - 1
    BY SlotsTyped DEF TypeOK, Logs
  <1> QED
    BY <1>1 DEF Entries

\* A stored record comes behind the ones that were there
LEMMA StoredAt ==
    ASSUME TypeOK, NEW t \in Tasks, Store(t)
    PROVE  /\ \A i \in Entries : i \in Entries' /\ i < count /\ log'[i] = log[i]
           /\ count \in Entries'
           /\ log'[count] = [address |-> arg[t], freed |-> FALSE]
           /\ \A i \in Entries' : i \in Entries \/ i = count
  <1> DEFINE record == [address |-> arg[t], freed |-> FALSE]
  <1>1. count \in Nat /\ Slots \in Nat /\ count < Slots /\ count \in DOMAIN log
    BY InsideArray, SlotsTyped DEF TypeOK
  <1>2. log' = [log EXCEPT ![count] = record] /\ count' = count + 1
    BY Zenon DEF Store
  <1>3. \A i \in DOMAIN log : log'[i] = IF i = count THEN record ELSE log[i]
    BY <1>2, Zenon
  <1>4. \A i \in Entries : i \in DOMAIN log
    BY <1>1, EntriesInLog
  <1>5. /\ \A i \in Entries : i # count /\ i < count /\ i \in Entries'
        /\ count \in Entries'
        /\ \A i \in Entries' : i \in Entries \/ i = count
    BY <1>1, <1>2 DEF Entries
  <1> HIDE DEF record
  <1>6. log'[count] = record
    BY <1>1, <1>3, Zenon
  <1>7. \A i \in Entries : log'[i] = log[i]
    BY <1>3, <1>4, <1>5, Zenon
  <1> QED
    BY <1>5, <1>6, <1>7, Zenon DEF record

\* Where room need not be made the task goes on to store, or it finds the trace off,
\* which only an interrupted one is
LEMMA RoomLeft ==
    ASSUME LockInv, StartInv, NEW t \in Tasks, MakeRoom(t),
           ~(tracing /\ count = total_records)
    PROVE  /\ UNCHANGED <<mode, gap, log, count, has_overflowed, allocated, logged, refused>>
           /\ pc[t] = "room"
           /\ \/ pc' = [pc EXCEPT ![t] = "store"] /\ UNCHANGED <<arg, owned>>
              \/ gap
  <1>1. /\ UNCHANGED <<mode, gap, log, count, has_overflowed, allocated, logged, refused>>
        /\ pc[t] = "room"
        /\ \/ pc' = [pc EXCEPT ![t] = "store"] /\ UNCHANGED <<arg, owned>>
           \/ ~tracing /\ mux = Null
    BY Zenon DEF MakeRoom, Goto, Unlocked, settings
  <1>2. ~tracing /\ mux = Null => gap
    BY TraceAssumption DEF LockInv, StartInv
  <1> QED
    BY <1>1, <1>2, Zenon

\* Types; a record removed or pushed out leaves the buffer a buffer
LEMMA TypeStep ==
    ASSUME TypeOK, LockInv, BlockInv, StartInv, MarkInv,
           [Next]_vars
    PROVE  TypeOK'
  <1> USE DEF TypeOK, settings, records, task_state, blocks, Labels, BlockInv, StartInv,
                MarkInv, Busy, Recording, Freeing, Empty
  <1>1. CASE UNCHANGED vars
    BY <1>1 DEF vars
  <1>2. ASSUME NEW t \in Tasks, Malloc(t) PROVE TypeOK'
    BY <1>2 DEF Malloc, Goto
  <1>3. ASSUME NEW t \in Tasks, NEW p \in owned, Free(t, p) \/ Realloc(t, p) PROVE TypeOK'
    BY <1>3 DEF Free, Realloc, Give, Goto
  <1>4. ASSUME NEW t \in Tasks, CheckAllocation(t) PROVE TypeOK'
    BY <1>4 DEF CheckAllocation, Goto, Finish
  <1>5. ASSUME NEW t \in Tasks, MakeRoom(t) PROVE TypeOK'
    <2>1. CASE ~tracing
      BY <1>5, <2>1 DEF MakeRoom, Goto, Finish
    <2>2. CASE tracing /\ count # total_records
      BY <1>5, <2>2 DEF MakeRoom, Goto
    <2>3. CASE tracing /\ count = total_records
      <3>1. count - 1 \in Nat /\ total_records \in 1 .. Slots
        BY <1>5, <2>3, SlotsTyped DEF MakeRoom, Outside, Slots
      <3>2. Shifted \in Logs
        BY <3>1, SlotsTyped, ShiftedTyped
      <3>3. /\ log' = Shifted /\ count' = count - 1 /\ has_overflowed' = TRUE /\ mux' = t
            /\ pc' = [pc EXCEPT ![t] = "store"]
            /\ UNCHANGED <<settings, slot, total_allocations, arg, op, blocks, gap, refused>>
        BY <1>5, <2>3, Zenon DEF MakeRoom, Goto, DropOldest
      <3> QED
        BY <3>1, <3>2, <3>3 DEF Logs, Slots
    <2> QED
      BY <2>1, <2>2, <2>3
  <1>6. ASSUME NEW t \in Tasks, Store(t) PROVE TypeOK'
    <2>1. log' \in Logs /\ count + 1 \in Nat
      <3>1. log' = [log EXCEPT ![count] = [address |-> arg[t], freed |-> FALSE]]
        BY <1>6, Zenon DEF Store
      <3>2. /\ [address |-> arg[t], freed |-> FALSE] \in [address : Addresses \cup {Null}, freed : BOOLEAN]
            /\ count + 1 \in Nat
        BY <1>6 DEF Store
      <3>3. log \in Logs
        BY SlotsTyped
      <3> QED
        BY <3>1, <3>2, <3>3, Zenon DEF Logs
    <2>2. /\ count' = count + 1 /\ total_allocations' = total_allocations + 1 /\ mux' = Null
          /\ logged' = logged \cup {arg[t]} /\ owned' = owned \cup {arg[t]}
          /\ pc' = [pc EXCEPT ![t] = "idle"] /\ arg' = [arg EXCEPT ![t] = Null]
          /\ op' = [op EXCEPT ![t] = "none"] /\ pc[t] = "store"
          /\ UNCHANGED <<settings, slot, has_overflowed, allocated, gap, refused>>
      BY <1>6, Zenon DEF Store, Finish
    <2> QED
      BY <2>1, <2>2 DEF Logs, Slots
  <1>7. ASSUME NEW t \in Tasks, CheckFree(t) PROVE TypeOK'
    BY <1>7 DEF CheckFree, Goto
  <1>8. ASSUME NEW t \in Tasks, Search(t) PROVE TypeOK'
    <2>1. CASE tracing /\ Found(arg[t]) # {}
      <3>1. count \in Nat
        OBVIOUS
      <3>2. Newest(arg[t]) \in Found(arg[t])
        BY <2>1, <3>1, NewestIsLast
      <3>3. Newest(arg[t]) \in Nat
        BY <3>1, <3>2 DEF Found
      <3> QED
        BY <1>8, <2>1, <3>3 DEF Search, Goto, Unlocked
    <2>2. CASE ~(tracing /\ Found(arg[t]) # {})
      BY <1>8, <2>2 DEF Search, Goto
    <2> QED
      BY <2>1, <2>2
  <1>9. ASSUME NEW t \in Tasks, Mark(t) PROVE TypeOK'
    <2>1. count - 1 \in Nat
      BY <1>9 DEF Mark
    <2>2. /\ Slots \in Nat /\ log \in Logs /\ total_records \in Nat /\ slot \in 0 .. Slots - 1
          /\ mode = "leaks" /\ slot < count - 1 => total_records <= Slots
      BY <1>9, SlotsTyped DEF Mark, Outside, Slots
    <2>3. log' \in Logs
      BY <1>9, <2>2, RecordRemovedTyped, MarkedTyped, Zenon DEF Mark
    <2>4. count' \in Nat
      BY <1>9, <2>1 DEF Mark
    <2>5. /\ slot' = 0 /\ mux' = Null /\ pc' = [pc EXCEPT ![t] = "heap"]
          /\ UNCHANGED <<settings, total_allocations, has_overflowed, arg, op, blocks, gap, refused>>
      BY <1>9, Zenon DEF Mark, Goto
    <2> HIDE <1>9
    <2> QED
      BY <2>3, <2>4, <2>5 DEF Logs, Slots
  <1>10. ASSUME NEW t \in Tasks, HeapFree(t) PROVE TypeOK'
    BY <1>10 DEF HeapFree, Finish
  <1>11. ASSUME NEW t \in Tasks, HeapRealloc(t) PROVE TypeOK'
    BY <1>11 DEF HeapRealloc, Goto
  <1>12. ASSUME NEW t \in Tasks, HeapReallocFails(t) PROVE TypeOK'
    BY <1>12 DEF HeapReallocFails, Finish
  <1>13. ASSUME NEW t \in Tasks, NEW m \in {"all", "leaks"}, Start(t, m) PROVE TypeOK'
    <2>1. /\ m \in {"all", "leaks"} /\ FALSE \in BOOLEAN /\ t \in Tasks
          /\ mode' = m /\ tracing' = FALSE /\ mux' = t
          /\ count' = 0 /\ total_allocations' = 0 /\ has_overflowed' = FALSE
          /\ gap' = FALSE /\ logged' = {} /\ refused' = {}
          /\ pc' = [pc EXCEPT ![t] = "resume"]
          /\ resized' = FALSE
          /\ UNCHANGED <<buffer, total_records, record_buffer, log, slot, arg, op, allocated, owned>>
      BY <1>13, Zenon DEF Start, Goto, Reset
    <2> QED
      BY <2>1
  <1>14. ASSUME NEW t \in Tasks, StartResumes(t) PROVE TypeOK'
    BY <1>14 DEF StartResumes, Goto
  <1>15. ASSUME NEW t \in Tasks, Stop(t) PROVE TypeOK'
    BY <1>15 DEF Stop
  <1>16. ASSUME NEW t \in Tasks, Resume(t) PROVE TypeOK'
    BY <1>16 DEF Resume
  <1>17. ASSUME NEW t \in Tasks, InitCheck(t) PROVE TypeOK'
    BY <1>17 DEF InitCheck, Goto
  <1>18. ASSUME NEW t \in Tasks, InitBuffer(t) PROVE TypeOK'
    BY <1>18, TraceAssumption DEF InitBuffer, Goto, Cleared, Arrays
  <1>19. ASSUME NEW t \in Tasks, InitClear(t) PROVE TypeOK'
    <2>1. log' \in Logs
      <3>1. Empty \in [address : Addresses \cup {Null}, freed : BOOLEAN]
        OBVIOUS
      <3>2. log \in Logs /\ DOMAIN log = 0 .. Slots - 1
        BY SlotsTyped DEF Logs
      <3>3. \/ log' = log
            \/ log' = [i \in DOMAIN log |-> IF i < Length[record_buffer[t]] THEN Empty ELSE log[i]]
        BY <1>19, Zenon DEF InitClear
      <3> QED
        BY <3>1, <3>2, <3>3, Zenon DEF Logs
    <2>2. /\ gap' = TRUE /\ record_buffer' = [record_buffer EXCEPT ![t] = Null]
          /\ pc' = [pc EXCEPT ![t] = "idle"]
          /\ UNCHANGED <<tracing, mode, buffer, total_records, resized, count,
                         total_allocations, has_overflowed, slot, mux, arg, op, blocks, refused>>
      BY <1>19, Zenon DEF InitClear, Goto
    <2> QED
      BY <2>1, <2>2 DEF Logs, Slots, Arrays
  <1>20. ASSUME NEW t \in Tasks, InitSize(t) PROVE TypeOK'
    BY <1>20, TraceAssumption DEF InitSize, Goto, Arrays
  <1>21. ASSUME NEW t \in Tasks, StartCheck(t) PROVE TypeOK'
    BY <1>21 DEF StartCheck, Goto
  <1>22. ASSUME NEW t \in Tasks, LeavesBuffer(t) PROVE TypeOK'
    BY <1>1, <1>22 DEF LeavesBuffer
  <1> QED
    BY <1>1, <1>2, <1>3, <1>4, <1>5, <1>6, <1>7, <1>8, <1>9, <1>10, <1>11, <1>12, <1>13,
       <1>14, <1>15, <1>16, <1>17, <1>18, <1>19, <1>20, <1>21, <1>22
    DEF Next, Record, Control

\* The lock: heap_trace_start keeps it from its reset to its resume
LEMMA LockStep ==
    ASSUME TypeOK, LockInv,
           [Next]_vars
    PROVE  LockInv'
  <1> USE DEF LockInv, settings, records, task_state, blocks, TypeOK
  <1>1. CASE UNCHANGED vars
    BY <1>1 DEF vars
  <1>2. ASSUME NEW t \in Tasks, Malloc(t) PROVE LockInv'
    BY <1>2 DEF Malloc, Goto
  <1>3. ASSUME NEW t \in Tasks, NEW p \in owned, Free(t, p) \/ Realloc(t, p) PROVE LockInv'
    BY <1>3 DEF Free, Realloc, Give, Goto
  <1>4. ASSUME NEW t \in Tasks, CheckAllocation(t) PROVE LockInv'
    BY <1>4 DEF CheckAllocation, Goto, Finish
  <1>5. ASSUME NEW t \in Tasks, MakeRoom(t) PROVE LockInv'
    BY <1>5, TraceAssumption DEF MakeRoom, Goto, Finish, Unlocked, DropOldest, Shifted
  <1>6. ASSUME NEW t \in Tasks, Store(t) PROVE LockInv'
    BY <1>6, TraceAssumption DEF Store, Finish
  <1>7. ASSUME NEW t \in Tasks, CheckFree(t) PROVE LockInv'
    BY <1>7 DEF CheckFree, Goto
  <1>8. ASSUME NEW t \in Tasks, Search(t) PROVE LockInv'
    BY <1>8, TraceAssumption DEF Search, Goto, Unlocked
  <1>9. ASSUME NEW t \in Tasks, Mark(t) PROVE LockInv'
    BY <1>9, TraceAssumption DEF Mark, Goto, RecordRemoved, Empty
  <1>10. ASSUME NEW t \in Tasks, HeapFree(t) PROVE LockInv'
    BY <1>10 DEF HeapFree, Finish
  <1>11. ASSUME NEW t \in Tasks, HeapRealloc(t) PROVE LockInv'
    BY <1>11 DEF HeapRealloc, Goto
  <1>12. ASSUME NEW t \in Tasks, HeapReallocFails(t) PROVE LockInv'
    BY <1>12 DEF HeapReallocFails, Finish
  <1>13. ASSUME NEW t \in Tasks, NEW m \in {"all", "leaks"}, Start(t, m) PROVE LockInv'
    BY <1>13, TraceAssumption DEF Start, Goto, Unlocked, Reset
  <1>14. ASSUME NEW t \in Tasks, StartResumes(t) PROVE LockInv'
    BY <1>14, TraceAssumption DEF StartResumes, Goto
  <1>15. ASSUME NEW t \in Tasks, Stop(t) PROVE LockInv'
    BY <1>15 DEF Stop
  <1>16. ASSUME NEW t \in Tasks, Resume(t) PROVE LockInv'
    BY <1>16 DEF Resume
  <1>17. ASSUME NEW t \in Tasks, InitCheck(t) PROVE LockInv'
    BY <1>17 DEF InitCheck, Goto
  <1>18. ASSUME NEW t \in Tasks, InitBuffer(t) PROVE LockInv'
    BY <1>18 DEF InitBuffer, Goto
  <1>19. ASSUME NEW t \in Tasks, InitClear(t) PROVE LockInv'
    BY <1>19 DEF InitClear, Goto
  <1>20. ASSUME NEW t \in Tasks, InitSize(t) PROVE LockInv'
    BY <1>20, TraceAssumption DEF InitSize, Goto
  <1>21. ASSUME NEW t \in Tasks, StartCheck(t) PROVE LockInv'
    BY <1>21 DEF StartCheck, Goto
  <1>22. ASSUME NEW t \in Tasks, LeavesBuffer(t) PROVE LockInv'
    BY <1>1, <1>22 DEF LeavesBuffer
  <1> QED
    BY <1>1, <1>2, <1>3, <1>4, <1>5, <1>6, <1>7, <1>8, <1>9, <1>10, <1>11, <1>12, <1>13,
       <1>14, <1>15, <1>16, <1>17, <1>18, <1>19, <1>20, <1>21, <1>22
    DEF Next, Record, Control

\* The heap gives no block twice, and the application frees what it holds
LEMMA BlockStep ==
    ASSUME TypeOK, BlockInv,
           [Next]_vars
    PROVE  BlockInv'
  <1> USE DEF BlockInv, settings, records, task_state, blocks, TypeOK, Busy, Recording,
                Freeing
  <1>1. CASE UNCHANGED vars
    BY <1>1 DEF vars
  <1>2. ASSUME NEW t \in Tasks, Malloc(t) PROVE BlockInv'
    BY <1>2 DEF Malloc, Goto
  <1>3. ASSUME NEW t \in Tasks, NEW p \in owned, Free(t, p) \/ Realloc(t, p) PROVE BlockInv'
    BY <1>3 DEF Free, Realloc, Give, Goto
  <1>4. ASSUME NEW t \in Tasks, CheckAllocation(t) PROVE BlockInv'
    BY <1>4 DEF CheckAllocation, Goto, Finish
  <1>5. ASSUME NEW t \in Tasks, MakeRoom(t) PROVE BlockInv'
    BY <1>5 DEF MakeRoom, Goto, Finish, Unlocked, DropOldest, Shifted
  <1>6. ASSUME NEW t \in Tasks, Store(t) PROVE BlockInv'
    BY <1>6 DEF Store, Finish
  <1>7. ASSUME NEW t \in Tasks, CheckFree(t) PROVE BlockInv'
    BY <1>7 DEF CheckFree, Goto
  <1>8. ASSUME NEW t \in Tasks, Search(t) PROVE BlockInv'
    BY <1>8 DEF Search, Goto, Unlocked
  <1>9. ASSUME NEW t \in Tasks, Mark(t) PROVE BlockInv'
    BY <1>9 DEF Mark, Goto, RecordRemoved, Empty
  <1>10. ASSUME NEW t \in Tasks, HeapFree(t) PROVE BlockInv'
    BY <1>10 DEF HeapFree, Finish
  <1>11. ASSUME NEW t \in Tasks, HeapRealloc(t) PROVE BlockInv'
    BY <1>11 DEF HeapRealloc, Goto
  <1>12. ASSUME NEW t \in Tasks, HeapReallocFails(t) PROVE BlockInv'
    BY <1>12 DEF HeapReallocFails, Finish
  <1>13. ASSUME NEW t \in Tasks, NEW m \in {"all", "leaks"}, Start(t, m) PROVE BlockInv'
    BY <1>13 DEF Start, Goto, Unlocked, Reset
  <1>14. ASSUME NEW t \in Tasks, StartResumes(t) PROVE BlockInv'
    BY <1>14 DEF StartResumes, Goto
  <1>15. ASSUME NEW t \in Tasks, Stop(t) PROVE BlockInv'
    BY <1>15 DEF Stop
  <1>16. ASSUME NEW t \in Tasks, Resume(t) PROVE BlockInv'
    BY <1>16 DEF Resume
  <1>17. ASSUME NEW t \in Tasks, InitCheck(t) PROVE BlockInv'
    BY <1>17 DEF InitCheck, Goto
  <1>18. ASSUME NEW t \in Tasks, InitBuffer(t) PROVE BlockInv'
    BY <1>18 DEF InitBuffer, Goto
  <1>19. ASSUME NEW t \in Tasks, InitClear(t) PROVE BlockInv'
    BY <1>19 DEF InitClear, Goto
  <1>20. ASSUME NEW t \in Tasks, InitSize(t) PROVE BlockInv'
    BY <1>20, TraceAssumption DEF InitSize, Goto
  <1>21. ASSUME NEW t \in Tasks, StartCheck(t) PROVE BlockInv'
    BY <1>21 DEF StartCheck, Goto
  <1>22. ASSUME NEW t \in Tasks, LeavesBuffer(t) PROVE BlockInv'
    BY <1>1, <1>22 DEF LeavesBuffer
  <1> QED
    BY <1>1, <1>2, <1>3, <1>4, <1>5, <1>6, <1>7, <1>8, <1>9, <1>10, <1>11, <1>12, <1>13,
       <1>14, <1>15, <1>16, <1>17, <1>18, <1>19, <1>20, <1>21, <1>22
    DEF Next, Record, Control

\* stop and init interrupt the trace, start does not before it has resumed
LEMMA StartStep ==
    ASSUME TypeOK, LockInv, StartInv,
           [Next]_vars
    PROVE  StartInv'
  <1> USE DEF StartInv, settings, records, task_state, blocks, TypeOK, LockInv
  <1>1. CASE UNCHANGED vars
    BY <1>1 DEF vars
  <1>2. ASSUME NEW t \in Tasks, Malloc(t) PROVE StartInv'
    BY <1>2 DEF Malloc, Goto
  <1>3. ASSUME NEW t \in Tasks, NEW p \in owned, Free(t, p) \/ Realloc(t, p) PROVE StartInv'
    BY <1>3 DEF Free, Realloc, Give, Goto
  <1>4. ASSUME NEW t \in Tasks, CheckAllocation(t) PROVE StartInv'
    BY <1>4 DEF CheckAllocation, Goto, Finish
  <1>5. ASSUME NEW t \in Tasks, MakeRoom(t) PROVE StartInv'
    BY <1>5, TraceAssumption DEF MakeRoom, Goto, Finish, Unlocked, DropOldest, Shifted
  <1>6. ASSUME NEW t \in Tasks, Store(t) PROVE StartInv'
    BY <1>6 DEF Store, Finish
  <1>7. ASSUME NEW t \in Tasks, CheckFree(t) PROVE StartInv'
    BY <1>7 DEF CheckFree, Goto
  <1>8. ASSUME NEW t \in Tasks, Search(t) PROVE StartInv'
    BY <1>8 DEF Search, Goto, Unlocked
  <1>9. ASSUME NEW t \in Tasks, Mark(t) PROVE StartInv'
    BY <1>9 DEF Mark, Goto, RecordRemoved, Empty
  <1>10. ASSUME NEW t \in Tasks, HeapFree(t) PROVE StartInv'
    BY <1>10 DEF HeapFree, Finish
  <1>11. ASSUME NEW t \in Tasks, HeapRealloc(t) PROVE StartInv'
    BY <1>11 DEF HeapRealloc, Goto
  <1>12. ASSUME NEW t \in Tasks, HeapReallocFails(t) PROVE StartInv'
    BY <1>12 DEF HeapReallocFails, Finish
  <1>13. ASSUME NEW t \in Tasks, NEW m \in {"all", "leaks"}, Start(t, m) PROVE StartInv'
    BY <1>13 DEF Start, Goto, Unlocked, Reset
  <1>14. ASSUME NEW t \in Tasks, StartResumes(t) PROVE StartInv'
    BY <1>14 DEF StartResumes, Goto
  <1>15. ASSUME NEW t \in Tasks, Stop(t) PROVE StartInv'
    BY <1>15 DEF Stop
  <1>16. ASSUME NEW t \in Tasks, Resume(t) PROVE StartInv'
    BY <1>16 DEF Resume
  <1>17. ASSUME NEW t \in Tasks, InitCheck(t) PROVE StartInv'
    BY <1>17 DEF InitCheck, Goto
  <1>18. ASSUME NEW t \in Tasks, InitBuffer(t) PROVE StartInv'
    BY <1>18 DEF InitBuffer, Goto
  <1>19. ASSUME NEW t \in Tasks, InitClear(t) PROVE StartInv'
    BY <1>19 DEF InitClear, Goto
  <1>20. ASSUME NEW t \in Tasks, InitSize(t) PROVE StartInv'
    BY <1>20, TraceAssumption DEF InitSize, Goto
  <1>21. ASSUME NEW t \in Tasks, StartCheck(t) PROVE StartInv'
    BY <1>21 DEF StartCheck, Goto
  <1>22. ASSUME NEW t \in Tasks, LeavesBuffer(t) PROVE StartInv'
    BY <1>1, <1>22 DEF LeavesBuffer
  <1> QED
    BY <1>1, <1>2, <1>3, <1>4, <1>5, <1>6, <1>7, <1>8, <1>9, <1>10, <1>11, <1>12, <1>13,
       <1>14, <1>15, <1>16, <1>17, <1>18, <1>19, <1>20, <1>21, <1>22
    DEF Next, Record, Control

\* MakeRoom holds the lock until the record is stored, so the room is still there
LEMMA RoomStep ==
    ASSUME TypeOK, LockInv, StartInv, RoomInv, MarkInv,
           [Next]_vars
    PROVE  RoomInv'
  <1> USE DEF RoomInv, settings, records, task_state, blocks, TypeOK, LockInv, StartInv,
                MarkInv, Slots
  <1>1. CASE UNCHANGED vars
    BY <1>1 DEF vars
  <1>2. ASSUME NEW t \in Tasks, Malloc(t) PROVE RoomInv'
    BY <1>2 DEF Malloc, Goto
  <1>3. ASSUME NEW t \in Tasks, NEW p \in owned, Free(t, p) \/ Realloc(t, p) PROVE RoomInv'
    BY <1>3 DEF Free, Realloc, Give, Goto
  <1>4. ASSUME NEW t \in Tasks, CheckAllocation(t) PROVE RoomInv'
    BY <1>4 DEF CheckAllocation, Goto, Finish
  <1>5. ASSUME NEW t \in Tasks, MakeRoom(t) PROVE RoomInv'
    <2>1. CASE ~(tracing /\ count = total_records)
      BY <1>5, <2>1 DEF MakeRoom, Goto, Finish
    <2>2. CASE tracing /\ count = total_records
      <3>1. count' = count - 1 /\ UNCHANGED <<settings, gap>>
        BY <1>5, <2>2 DEF MakeRoom, DropOldest
      <3>2. count' \in Nat /\ count' < total_records /\ (count <= Length[buffer] => count' <= Length[buffer])
        BY <1>5, <2>2, <3>1, InsideArray, SlotsTyped
      <3> QED
        BY <3>1, <3>2
    <2> QED
      BY <2>1, <2>2
  <1>6. ASSUME NEW t \in Tasks, Store(t) PROVE RoomInv'
    <2>1. count < Length[buffer] /\ Length[buffer] \in Nat
      BY <1>6, InsideArray, SlotsTyped
    <2> QED
      BY <1>6, <2>1, TraceAssumption DEF Store, Finish
  <1>7. ASSUME NEW t \in Tasks, CheckFree(t) PROVE RoomInv'
    BY <1>7 DEF CheckFree, Goto
  <1>8. ASSUME NEW t \in Tasks, Search(t) PROVE RoomInv'
    BY <1>8 DEF Search, Goto, Unlocked
  <1>9. ASSUME NEW t \in Tasks, Mark(t) PROVE RoomInv'
    BY <1>9, SlotsTyped, TraceAssumption DEF Mark, Goto, RecordRemoved, Empty
  <1>10. ASSUME NEW t \in Tasks, HeapFree(t) PROVE RoomInv'
    BY <1>10 DEF HeapFree, Finish
  <1>11. ASSUME NEW t \in Tasks, HeapRealloc(t) PROVE RoomInv'
    BY <1>11 DEF HeapRealloc, Goto
  <1>12. ASSUME NEW t \in Tasks, HeapReallocFails(t) PROVE RoomInv'
    BY <1>12 DEF HeapReallocFails, Finish
  <1>13. ASSUME NEW t \in Tasks, NEW m \in {"all", "leaks"}, Start(t, m) PROVE RoomInv'
    BY <1>13, SlotsTyped, TraceAssumption DEF Start, Goto, Unlocked, Reset
  <1>14. ASSUME NEW t \in Tasks, StartResumes(t) PROVE RoomInv'
    BY <1>14 DEF StartResumes, Goto
  <1>15. ASSUME NEW t \in Tasks, Stop(t) PROVE RoomInv'
    BY <1>15 DEF Stop
  <1>16. ASSUME NEW t \in Tasks, Resume(t) PROVE RoomInv'
    BY <1>16 DEF Resume
  <1>17. ASSUME NEW t \in Tasks, InitCheck(t) PROVE RoomInv'
    BY <1>17 DEF InitCheck, Goto
  <1>18. ASSUME NEW t \in Tasks, InitBuffer(t) PROVE RoomInv'
    BY <1>18 DEF InitBuffer, Goto
  <1>19. ASSUME NEW t \in Tasks, InitClear(t) PROVE RoomInv'
    BY <1>19 DEF InitClear, Goto
  <1>20. ASSUME NEW t \in Tasks, InitSize(t) PROVE RoomInv'
    BY <1>20, TraceAssumption DEF InitSize, Goto, Arrays
  <1>21. ASSUME NEW t \in Tasks, StartCheck(t) PROVE RoomInv'
    BY <1>21 DEF StartCheck, Goto
  <1>22. ASSUME NEW t \in Tasks, LeavesBuffer(t) PROVE RoomInv'
    BY <1>1, <1>22 DEF LeavesBuffer
  <1> QED
    BY <1>1, <1>2, <1>3, <1>4, <1>5, <1>6, <1>7, <1>8, <1>9, <1>10, <1>11, <1>12, <1>13,
       <1>14, <1>15, <1>16, <1>17, <1>18, <1>19, <1>20, <1>21, <1>22
    DEF Next, Record, Control

\* Search holds the lock until the record is marked, so it is still the last one
LEMMA MarkStep ==
    ASSUME TypeOK, LockInv, StartInv, MarkInv,
           [Next]_vars
    PROVE  MarkInv'
  <1> USE DEF MarkInv, settings, records, task_state, blocks, Entries, TypeOK, LockInv,
                StartInv
  <1>1. CASE UNCHANGED vars
    BY <1>1 DEF vars
  <1>2. ASSUME NEW t \in Tasks, Malloc(t) PROVE MarkInv'
    BY <1>2 DEF Malloc, Goto
  <1>3. ASSUME NEW t \in Tasks, NEW p \in owned, Free(t, p) \/ Realloc(t, p) PROVE MarkInv'
    <2>1. /\ owned' = owned \ {p} /\ arg' = [arg EXCEPT ![t] = p]
          /\ pc' = [pc EXCEPT ![t] = "unlog"]
          /\ UNCHANGED <<mode, gap, has_overflowed, slot, log, count, allocated, logged, refused>>
      BY <1>3, Zenon DEF Free, Realloc, Give, Goto
    <2> QED
      BY <2>1
  <1>4. ASSUME NEW t \in Tasks, CheckAllocation(t) PROVE MarkInv'
    BY <1>4 DEF CheckAllocation, Goto, Finish
  <1>5. ASSUME NEW t \in Tasks, MakeRoom(t) PROVE MarkInv'
    BY <1>5, TraceAssumption DEF MakeRoom, Goto, Finish, Unlocked, DropOldest, Shifted
  <1>6. ASSUME NEW t \in Tasks, Store(t) PROVE MarkInv'
    BY <1>6 DEF Store, Finish
  <1>7. ASSUME NEW t \in Tasks, CheckFree(t) PROVE MarkInv'
    BY <1>7 DEF CheckFree, Goto
  <1>8. ASSUME NEW t \in Tasks, Search(t) PROVE MarkInv'
    <2>1. count \in Nat
      BY TraceAssumption
    <2>2. CASE tracing /\ Found(arg[t]) # {}
      <3>1. /\ Newest(arg[t]) \in Found(arg[t])
            /\ \A i \in Found(arg[t]) : i <= Newest(arg[t])
        BY <2>1, <2>2, NewestIsLast
      <3>2. /\ slot' = Newest(arg[t]) /\ pc' = [pc EXCEPT ![t] = "mark"]
            /\ mux = Null /\ UNCHANGED <<count, log, gap, arg>>
        BY <1>8, <2>2, Zenon DEF Search, Goto, Unlocked
      <3>3. \A u \in Tasks : pc'[u] = "mark" => u = t
        BY <3>2, TraceAssumption
      <3>4. /\ Newest(arg[t]) < count
            /\ log[Newest(arg[t])].address = arg[t]
            /\ \A i \in Entries : log[i].address = arg[t] => i <= Newest(arg[t])
        BY <3>1, <2>1 DEF Found
      <3> QED
        BY <3>2, <3>3, <3>4, Zenon
    <2>3. CASE ~(tracing /\ Found(arg[t]) # {})
      BY <1>8, <2>3 DEF Search, Goto
    <2> QED
      BY <2>2, <2>3
  <1>9. ASSUME NEW t \in Tasks, Mark(t) PROVE MarkInv'
    BY <1>9 DEF Mark, Goto, RecordRemoved, Empty
  <1>10. ASSUME NEW t \in Tasks, HeapFree(t) PROVE MarkInv'
    BY <1>10 DEF HeapFree, Finish
  <1>11. ASSUME NEW t \in Tasks, HeapRealloc(t) PROVE MarkInv'
    BY <1>11 DEF HeapRealloc, Goto
  <1>12. ASSUME NEW t \in Tasks, HeapReallocFails(t) PROVE MarkInv'
    BY <1>12 DEF HeapReallocFails, Finish
  <1>13. ASSUME NEW t \in Tasks, NEW m \in {"all", "leaks"}, Start(t, m) PROVE MarkInv'
    BY <1>13, TraceAssumption DEF Start, Goto, Unlocked, Reset
  <1>14. ASSUME NEW t \in Tasks, StartResumes(t) PROVE MarkInv'
    BY <1>14 DEF StartResumes, Goto
  <1>15. ASSUME NEW t \in Tasks, Stop(t) PROVE MarkInv'
    BY <1>15 DEF Stop
  <1>16. ASSUME NEW t \in Tasks, Resume(t) PROVE MarkInv'
    BY <1>16 DEF Resume
  <1>17. ASSUME NEW t \in Tasks, InitCheck(t) PROVE MarkInv'
    BY <1>17 DEF InitCheck, Goto
  <1>18. ASSUME NEW t \in Tasks, InitBuffer(t) PROVE MarkInv'
    BY <1>18 DEF InitBuffer, Goto
  <1>19. ASSUME NEW t \in Tasks, InitClear(t) PROVE MarkInv'
    BY <1>19 DEF InitClear, Goto
  <1>20. ASSUME NEW t \in Tasks, InitSize(t) PROVE MarkInv'
    BY <1>20, TraceAssumption DEF InitSize, Goto
  <1>21. ASSUME NEW t \in Tasks, StartCheck(t) PROVE MarkInv'
    BY <1>21 DEF StartCheck, Goto
  <1>22. ASSUME NEW t \in Tasks, LeavesBuffer(t) PROVE MarkInv'
    BY <1>1, <1>22 DEF LeavesBuffer
  <1> QED
    BY <1>1, <1>2, <1>3, <1>4, <1>5, <1>6, <1>7, <1>8, <1>9, <1>10, <1>11, <1>12, <1>13,
       <1>14, <1>15, <1>16, <1>17, <1>18, <1>19, <1>20, <1>21, <1>22
    DEF Next, Record, Control

\* A record leaves the buffer before its block goes back to the heap
LEMMA LeakStep ==
    ASSUME TypeOK, LockInv, BlockInv, StartInv, RoomInv, MarkInv, LeakInv,
           [Next]_vars
    PROVE  LeakInv'
  <1> USE DEF LeakInv, settings, records, task_state, blocks, Entries, TypeOK, LockInv,
                BlockInv, StartInv, RoomInv, MarkInv, Busy, Recording, Freeing
  <1>1. CASE UNCHANGED vars
    BY <1>1 DEF vars
  <1>2. ASSUME NEW t \in Tasks, Malloc(t) PROVE LeakInv'
    BY <1>2 DEF Malloc, Goto
  <1>3. ASSUME NEW t \in Tasks, NEW p \in owned, Free(t, p) \/ Realloc(t, p) PROVE LeakInv'
    <2>1. /\ owned' = owned \ {p} /\ arg' = [arg EXCEPT ![t] = p]
          /\ pc' = [pc EXCEPT ![t] = "unlog"]
          /\ UNCHANGED <<mode, gap, has_overflowed, slot, log, count, allocated, logged, refused>>
      BY <1>3, Zenon DEF Free, Realloc, Give, Goto
    <2> QED
      BY <2>1
  <1>4. ASSUME NEW t \in Tasks, CheckAllocation(t) PROVE LeakInv'
    BY <1>4 DEF CheckAllocation, Goto, Finish
  <1>5. ASSUME NEW t \in Tasks, MakeRoom(t) PROVE LeakInv'
    <2>1. CASE ~(tracing /\ count = total_records)
      <3>1. /\ UNCHANGED <<mode, gap, log, count, has_overflowed, allocated, logged, refused>>
            /\ pc[t] = "room"
            /\ gap \/ (pc' = [pc EXCEPT ![t] = "store"] /\ UNCHANGED <<arg, owned>>)
        <4> HIDE DEF LockInv, StartInv, Entries, settings, records, task_state, blocks
        <4> QED
          BY <1>5, <2>1, RoomLeft, Zenon
      <3> QED
        BY <3>1
    <2>2. CASE tracing /\ count = total_records
      <3>1. /\ log' = Shifted /\ count' = count - 1 /\ has_overflowed' = TRUE
            /\ pc' = [pc EXCEPT ![t] = "store"] /\ pc[t] = "room"
            /\ UNCHANGED <<mode, gap, arg, allocated>>
        BY <1>5, <2>2, Zenon DEF MakeRoom, Goto, DropOldest
      <3>2. \A i \in 0 .. count - 2 : Shifted[i] = log[i + 1]
        BY <1>5, <2>2, InsideArray, ShiftedAt
      <3> QED
        BY <3>1, <3>2
    <2> QED
      BY <2>1, <2>2
  <1>6. ASSUME NEW t \in Tasks, Store(t) PROVE LeakInv'
    <2>1. /\ pc' = [pc EXCEPT ![t] = "idle"] /\ arg' = [arg EXCEPT ![t] = Null]
          /\ logged' = logged \cup {arg[t]} /\ owned' = owned \cup {arg[t]} /\ pc[t] = "store"
          /\ UNCHANGED <<mode, gap, has_overflowed, allocated, refused>>
      BY <1>6, Zenon DEF Store, Finish
    <2> DEFINE record == [address |-> arg[t], freed |-> FALSE]
    <2>2. record.address = arg[t]
      OBVIOUS
    <2>3. /\ \A i \in Entries : i \in Entries' /\ log'[i] = log[i]
          /\ count \in Entries' /\ log'[count] = record
          /\ \A i \in Entries' : i \in Entries \/ i = count
      <3> HIDE DEF Entries
      <3> QED
        BY <1>6, StoredAt, Zenon
    <2> HIDE DEF record, Entries
    <2> QED
      BY <2>1, <2>2, <2>3
  <1>7. ASSUME NEW t \in Tasks, CheckFree(t) PROVE LeakInv'
    BY <1>7 DEF CheckFree, Goto
  <1>8. ASSUME NEW t \in Tasks, Search(t) PROVE LeakInv'
    <2>1. CASE tracing
      BY <1>8, <2>1 DEF Search, Goto, Found
    <2>2. CASE ~tracing
      <3>1. gap
        BY <1>8, <2>2, TraceAssumption DEF Search, Unlocked
      <3> QED
        BY <1>8, <3>1 DEF Search
    <2> QED
      BY <2>1, <2>2
  <1>9. ASSUME NEW t \in Tasks, Mark(t) PROVE LeakInv'
    <2> SUFFICES ASSUME mode = "leaks", ~gap PROVE LeakInv'
      BY <1>9 DEF Mark
    <2> DEFINE old(i) == IF i < slot THEN i ELSE i + 1
    <2>1. /\ log' = RecordRemoved /\ count' = count - 1 /\ pc' = [pc EXCEPT ![t] = "heap"]
          /\ UNCHANGED <<arg, allocated>>
      BY <1>9, Zenon DEF Mark, Goto
    <2>2. /\ slot \in Nat /\ count \in Nat /\ slot < count /\ count <= total_records
          /\ log[slot].address = arg[t]
      BY <1>9, TraceAssumption DEF Mark
    <2>3. \A i \in Entries' : /\ old(i) \in Entries /\ old(i) # slot
                              /\ log'[i] = log[old(i)]
      BY <2>1, <2>2, RecordRemovedAt
    <2>4. \A i, j \in Entries' : old(i) = old(j) => i = j
      BY <2>1, <2>2
    <2>5. slot \in Entries
      BY <2>2
    <2>6. /\ \A i \in Entries : log[i].address \in allocated
          /\ \A i, j \in Entries : log[i].address = log[j].address => i = j
          /\ \A u \in Tasks : pc[u] \in Recording \cup {"heap"} =>
                 \A i \in Entries : log[i].address # arg[u]
      BY Zenon
    <2> HIDE DEF old, LeakInv, Entries, TypeOK
    <2>7. \A i \in Entries' : log'[i].address \in allocated'
      BY <2>1, <2>3, <2>6, Zenon
    <2>8. \A i, j \in Entries' : log'[i].address = log'[j].address => i = j
      BY <2>3, <2>4, <2>6
    <2>9. ASSUME NEW i \in Entries' PROVE log'[i].address # arg'[t]
      <3>1. old(i) \in Entries /\ old(i) # slot /\ log'[i] = log[old(i)]
        BY <2>3, Zenon
      <3>2. log[old(i)].address # log[slot].address
        BY <2>5, <2>6, <3>1, Zenon
      <3>3. arg'[t] = log[slot].address
        BY <2>1, <2>2, Zenon
      <3> QED
        BY <3>1, <3>2, <3>3, Zenon
    <2>10. \A u \in Tasks : pc'[u] \in Recording \cup {"heap"} =>
               \A i \in Entries' : log'[i].address # arg'[u]
      BY <2>1, <2>3, <2>6, <2>9 DEF TypeOK
    <2> QED
      BY <2>7, <2>8, <2>10, Zenon DEF LeakInv
  <1>10. ASSUME NEW t \in Tasks, HeapFree(t) PROVE LeakInv'
    BY <1>10 DEF HeapFree, Finish
  <1>11. ASSUME NEW t \in Tasks, HeapRealloc(t) PROVE LeakInv'
    BY <1>11 DEF HeapRealloc, Goto
  <1>12. ASSUME NEW t \in Tasks, HeapReallocFails(t) PROVE LeakInv'
    BY <1>12 DEF HeapReallocFails, Finish
  <1>13. ASSUME NEW t \in Tasks, NEW m \in {"all", "leaks"}, Start(t, m) PROVE LeakInv'
    BY <1>13 DEF Start, Goto, Unlocked, Reset
  <1>14. ASSUME NEW t \in Tasks, StartResumes(t) PROVE LeakInv'
    BY <1>14 DEF StartResumes, Goto
  <1>15. ASSUME NEW t \in Tasks, Stop(t) PROVE LeakInv'
    BY <1>15 DEF Stop
  <1>16. ASSUME NEW t \in Tasks, Resume(t) PROVE LeakInv'
    BY <1>16 DEF Resume
  <1>17. ASSUME NEW t \in Tasks, InitCheck(t) PROVE LeakInv'
    BY <1>17 DEF InitCheck, Goto
  <1>18. ASSUME NEW t \in Tasks, InitBuffer(t) PROVE LeakInv'
    BY <1>18 DEF InitBuffer, Goto
  <1>19. ASSUME NEW t \in Tasks, InitClear(t) PROVE LeakInv'
    BY <1>19 DEF InitClear, Goto
  <1>20. ASSUME NEW t \in Tasks, InitSize(t) PROVE LeakInv'
    BY <1>20, TraceAssumption DEF InitSize, Goto
  <1>21. ASSUME NEW t \in Tasks, StartCheck(t) PROVE LeakInv'
    BY <1>21 DEF StartCheck, Goto
  <1>22. ASSUME NEW t \in Tasks, LeavesBuffer(t) PROVE LeakInv'
    BY <1>1, <1>22 DEF LeavesBuffer
  <1> QED
    BY <1>1, <1>2, <1>3, <1>4, <1>5, <1>6, <1>7, <1>8, <1>9, <1>10, <1>11, <1>12, <1>13,
       <1>14, <1>15, <1>16, <1>17, <1>18, <1>19, <1>20, <1>21, <1>22
    DEF Next, Record, Control

\* No other record leaves it, but for the ones the overflow mark is set for
LEMMA KeptStep ==
    ASSUME TypeOK, LockInv, BlockInv, StartInv, RoomInv, MarkInv, KeptInv,
           [Next]_vars
    PROVE  KeptInv'
  <1> USE DEF KeptInv, settings, records, task_state, blocks, Entries, TypeOK, LockInv,
                BlockInv, StartInv, RoomInv, MarkInv, Busy, Recording, Freeing
  <1>1. CASE UNCHANGED vars
    BY <1>1 DEF vars
  <1>2. ASSUME NEW t \in Tasks, Malloc(t) PROVE KeptInv'
    BY <1>2 DEF Malloc, Goto
  <1>3. ASSUME NEW t \in Tasks, NEW p \in owned, Free(t, p) \/ Realloc(t, p) PROVE KeptInv'
    <2>1. /\ owned' = owned \ {p} /\ arg' = [arg EXCEPT ![t] = p]
          /\ pc' = [pc EXCEPT ![t] = "unlog"]
          /\ UNCHANGED <<mode, gap, has_overflowed, slot, log, count, allocated, logged, refused>>
      BY <1>3, Zenon DEF Free, Realloc, Give, Goto
    <2> QED
      BY <2>1
  <1>4. ASSUME NEW t \in Tasks, CheckAllocation(t) PROVE KeptInv'
    BY <1>4 DEF CheckAllocation, Goto, Finish
  <1>5. ASSUME NEW t \in Tasks, MakeRoom(t) PROVE KeptInv'
    <2>1. CASE ~(tracing /\ count = total_records)
      <3>1. /\ UNCHANGED <<mode, gap, log, count, has_overflowed, allocated, logged, refused>>
            /\ pc[t] = "room"
            /\ gap \/ (pc' = [pc EXCEPT ![t] = "store"] /\ UNCHANGED <<arg, owned>>)
        <4> HIDE DEF LockInv, StartInv, Entries, settings, records, task_state, blocks
        <4> QED
          BY <1>5, <2>1, RoomLeft, Zenon
      <3> QED
        BY <3>1
    <2>2. CASE tracing /\ count = total_records
      <3>1. /\ log' = Shifted /\ count' = count - 1 /\ has_overflowed' = TRUE
            /\ pc' = [pc EXCEPT ![t] = "store"] /\ pc[t] = "room"
            /\ UNCHANGED <<mode, gap, arg, allocated>>
        BY <1>5, <2>2, Zenon DEF MakeRoom, Goto, DropOldest
      <3>2. \A i \in 0 .. count - 2 : Shifted[i] = log[i + 1]
        BY <1>5, <2>2, InsideArray, ShiftedAt
      <3> QED
        BY <3>1, <3>2
    <2> QED
      BY <2>1, <2>2
  <1>6. ASSUME NEW t \in Tasks, Store(t) PROVE KeptInv'
    <2>1. /\ pc' = [pc EXCEPT ![t] = "idle"] /\ arg' = [arg EXCEPT ![t] = Null]
          /\ logged' = logged \cup {arg[t]} /\ owned' = owned \cup {arg[t]} /\ pc[t] = "store"
          /\ UNCHANGED <<mode, gap, has_overflowed, allocated, refused>>
      BY <1>6, Zenon DEF Store, Finish
    <2> DEFINE record == [address |-> arg[t], freed |-> FALSE]
    <2>2. record.address = arg[t]
      OBVIOUS
    <2>3. /\ \A i \in Entries : i \in Entries' /\ log'[i] = log[i]
          /\ count \in Entries' /\ log'[count] = record
          /\ \A i \in Entries' : i \in Entries \/ i = count
      <3> HIDE DEF Entries
      <3> QED
        BY <1>6, StoredAt, Zenon
    <2> HIDE DEF record, Entries
    <2> QED
      BY <2>1, <2>2, <2>3
  <1>7. ASSUME NEW t \in Tasks, CheckFree(t) PROVE KeptInv'
    BY <1>7 DEF CheckFree, Goto
  <1>8. ASSUME NEW t \in Tasks, Search(t) PROVE KeptInv'
    BY <1>8 DEF Search, Goto, Unlocked
  <1>9. ASSUME NEW t \in Tasks, Mark(t) PROVE KeptInv'
    <2> SUFFICES ASSUME mode = "leaks", ~gap, ~has_overflowed,
                        NEW p \in logged \ refused, p \in owned
                 PROVE  \E k \in Entries' : log'[k].address = p
      BY <1>9, Zenon DEF Mark
    <2>1. log' = RecordRemoved /\ count' = count - 1
      BY <1>9, Zenon DEF Mark
    <2>2. /\ slot \in Nat /\ count \in Nat /\ slot < count /\ count <= total_records
          /\ log[slot].address = arg[t] /\ arg[t] # p
      BY <1>9, TraceAssumption DEF Mark
    <2>3. PICK i \in Entries : log[i].address = p
      BY Zenon
    <2> DEFINE k == IF i < slot THEN i ELSE i - 1
    <2>4. /\ k \in 0 .. count - 2
          /\ i = IF k < slot THEN k ELSE k + 1
      BY <2>2, <2>3
    <2> HIDE DEF k, TypeOK
    <2>5. RecordRemoved[k] = log[i]
      BY <2>2, <2>4, RecordRemovedAt
    <2> QED
      BY <2>1, <2>2, <2>3, <2>4, <2>5
  <1>10. ASSUME NEW t \in Tasks, HeapFree(t) PROVE KeptInv'
    BY <1>10 DEF HeapFree, Finish
  <1>11. ASSUME NEW t \in Tasks, HeapRealloc(t) PROVE KeptInv'
    BY <1>11 DEF HeapRealloc, Goto
  <1>12. ASSUME NEW t \in Tasks, HeapReallocFails(t) PROVE KeptInv'
    BY <1>12 DEF HeapReallocFails, Finish
  <1>13. ASSUME NEW t \in Tasks, NEW m \in {"all", "leaks"}, Start(t, m) PROVE KeptInv'
    BY <1>13 DEF Start, Goto, Unlocked, Reset
  <1>14. ASSUME NEW t \in Tasks, StartResumes(t) PROVE KeptInv'
    BY <1>14 DEF StartResumes, Goto
  <1>15. ASSUME NEW t \in Tasks, Stop(t) PROVE KeptInv'
    BY <1>15 DEF Stop
  <1>16. ASSUME NEW t \in Tasks, Resume(t) PROVE KeptInv'
    BY <1>16 DEF Resume
  <1>17. ASSUME NEW t \in Tasks, InitCheck(t) PROVE KeptInv'
    BY <1>17 DEF InitCheck, Goto
  <1>18. ASSUME NEW t \in Tasks, InitBuffer(t) PROVE KeptInv'
    BY <1>18 DEF InitBuffer, Goto
  <1>19. ASSUME NEW t \in Tasks, InitClear(t) PROVE KeptInv'
    BY <1>19 DEF InitClear, Goto
  <1>20. ASSUME NEW t \in Tasks, InitSize(t) PROVE KeptInv'
    BY <1>20, TraceAssumption DEF InitSize, Goto
  <1>21. ASSUME NEW t \in Tasks, StartCheck(t) PROVE KeptInv'
    BY <1>21 DEF StartCheck, Goto
  <1>22. ASSUME NEW t \in Tasks, LeavesBuffer(t) PROVE KeptInv'
    BY <1>1, <1>22 DEF LeavesBuffer
  <1> QED
    BY <1>1, <1>2, <1>3, <1>4, <1>5, <1>6, <1>7, <1>8, <1>9, <1>10, <1>11, <1>12, <1>13,
       <1>14, <1>15, <1>16, <1>17, <1>18, <1>19, <1>20, <1>21, <1>22
    DEF Next, Record, Control

\* A free is noted in the one open record of its block
LEMMA EventStep ==
    ASSUME TypeOK, LockInv, BlockInv, StartInv, RoomInv, MarkInv,
           EventInv,
           [Next]_vars
    PROVE  EventInv'
  <1> USE DEF EventInv, settings, records, task_state, blocks, Entries, TypeOK, LockInv,
                BlockInv, StartInv, RoomInv, MarkInv, OlderClosed, OpenLogged,
                HeapClosed, UnfreedOpen, AllEvents, Unfreed, Busy, Recording, Freeing
  <1>1. CASE UNCHANGED vars
    BY <1>1 DEF vars
  <1>2. ASSUME NEW t \in Tasks, Malloc(t) PROVE EventInv'
    BY <1>2 DEF Malloc, Goto
  <1>3. ASSUME NEW t \in Tasks, NEW p \in owned, Free(t, p) \/ Realloc(t, p) PROVE EventInv'
    <2>1. /\ owned' = owned \ {p} /\ arg' = [arg EXCEPT ![t] = p]
          /\ pc' = [pc EXCEPT ![t] = "unlog"] /\ pc[t] = "idle"
          /\ UNCHANGED <<mode, gap, log, count, logged, refused>>
      BY <1>3, Zenon DEF Free, Realloc, Give, Goto
    <2>2. \A q : Unfreed(q)' => Unfreed(q)
      BY <2>1
    <2>3. OlderClosed' /\ OpenLogged'
      BY <2>1
    <2>4. HeapClosed'
      BY <2>1
    <2>5. UnfreedOpen'
      <3> HIDE DEF Unfreed, TypeOK
      <3> QED
        BY <2>1, <2>2, Zenon
    <2> QED
      BY <2>3, <2>4, <2>5, Zenon
  <1>4. ASSUME NEW t \in Tasks, CheckAllocation(t) PROVE EventInv'
    BY <1>4 DEF CheckAllocation, Goto, Finish
  <1>5. ASSUME NEW t \in Tasks, MakeRoom(t) PROVE EventInv'
    <2>1. CASE ~(tracing /\ count = total_records)
      <3>1. /\ UNCHANGED <<mode, gap, log, count, logged, refused>>
            /\ pc[t] = "room"
            /\ gap \/ (pc' = [pc EXCEPT ![t] = "store"] /\ UNCHANGED <<arg, owned>>)
        <4> HIDE DEF LockInv, StartInv, Entries, settings, records, task_state, blocks
        <4> QED
          BY <1>5, <2>1, RoomLeft, Zenon
      <3>2. CASE pc' = [pc EXCEPT ![t] = "store"] /\ UNCHANGED <<arg, owned>>
        <4>1. \A q : Unfreed(q)' => Unfreed(q)
          BY <3>1, <3>2
        <4>2. \A u \in Tasks : pc'[u] = "heap" => pc[u] = "heap"
          BY <3>1, <3>2
        <4> HIDE DEF Unfreed, TypeOK, LockInv, BlockInv, StartInv, RoomInv, MarkInv
        <4> QED
          BY <3>1, <3>2, <4>1, <4>2, Zenon
      <3>3. CASE gap
        BY <3>1, <3>3, Zenon
      <3> QED
        BY <3>1, <3>2, <3>3, Zenon
    <2>2. CASE tracing /\ count = total_records
      <3>1. /\ log' = Shifted /\ count' = count - 1 /\ pc' = [pc EXCEPT ![t] = "store"]
            /\ pc[t] = "room"
            /\ UNCHANGED <<mode, gap, arg, owned, logged, refused>>
        BY <1>5, <2>2, Zenon DEF MakeRoom, Goto, DropOldest
      <3>2. count \in Nat
        BY TraceAssumption
      <3>3. \A i \in Entries' : i + 1 \in Entries /\ log'[i] = log[i + 1]
        <4> SUFFICES ASSUME NEW i \in Entries'
                     PROVE  i + 1 \in Entries /\ log'[i] = log[i + 1]
          OBVIOUS
        <4>1. i \in 0 .. count - 2 /\ i + 1 \in Entries
          BY <3>1, <3>2
        <4> HIDE DEF Entries, TypeOK
        <4>2. Shifted[i] = log[i + 1]
          BY <1>5, <2>2, <4>1, InsideArray, ShiftedAt, Zenon
        <4> QED
          BY <3>1, <4>1, <4>2
      <3>4. OlderClosed'
        BY <3>1, <3>2, <3>3
      <3>5. OpenLogged' /\ HeapClosed'
        BY <3>1, <3>3
      <3>6. \A q : Unfreed(q)' => Unfreed(q)
        BY <3>1
      <3>7. UnfreedOpen'
        <4> SUFFICES ASSUME AllEvents', NEW i \in Entries',
                            log'[i].address \in logged' \ refused',
                            Unfreed(log[i].address)', log'[i].freed
                     PROVE  \E j \in Entries' : i < j /\ log'[j].address = log'[i].address
          OBVIOUS
        <4> HIDE DEF Unfreed, TypeOK
        <4>1. AllEvents /\ i + 1 \in Entries /\ log'[i] = log[i + 1]
          BY <3>1, <3>3, Zenon
        <4>2. PICK j \in Entries : i + 1 < j /\ log[j].address = log[i + 1].address
          <5>1. Unfreed(log[i + 1].address) /\ log[i + 1].address \in logged \ refused
            BY <3>1, <3>6, <4>1
          <5> QED
            BY <4>1, <5>1
        <4>3. j - 1 \in Entries' /\ i < j - 1 /\ (j - 1) + 1 = j
          BY <3>1, <3>2, <4>2
        <4>4. log'[j - 1] = log[j]
          BY <3>3, <4>3
        <4> QED
          BY <4>1, <4>2, <4>3, <4>4
      <3> QED
        BY <3>4, <3>5, <3>7, Zenon
    <2> QED
      BY <2>1, <2>2
  <1>6. ASSUME NEW t \in Tasks, Store(t) PROVE EventInv'
    <2> DEFINE record == [address |-> arg[t], freed |-> FALSE]
    <2>1. /\ log' = [log EXCEPT ![count] = record] /\ count' = count + 1
          /\ owned' = owned \cup {arg[t]} /\ logged' = logged \cup {arg[t]}
          /\ pc' = [pc EXCEPT ![t] = "idle"] /\ arg' = [arg EXCEPT ![t] = Null]
          /\ pc[t] = "store"
          /\ UNCHANGED <<mode, gap, refused>>
      BY <1>6, Zenon DEF Store, Finish
    <2>2. count \in Nat
      OBVIOUS
    <2>3. /\ \A i \in Entries : i \in Entries' /\ i < count /\ log'[i] = log[i]
          /\ count \in Entries' /\ log'[count] = record
          /\ \A i \in Entries' : i \in Entries \/ i = count
      <3> HIDE DEF Entries
      <3> QED
        BY <1>6, StoredAt, Zenon
    <2>4. record.address = arg[t] /\ ~record.freed
      BY Zenon
    <2>5. /\ arg[t] \in Addresses /\ arg[t] \notin logged /\ refused \subseteq logged
          /\ \A u \in Tasks : pc[u] \in Busy /\ u # t => arg[u] # arg[t]
      BY <2>1
    <2>6. \A u \in Tasks : pc'[u] \in Busy => u # t /\ pc[u] = pc'[u] /\ arg'[u] = arg[u]
      BY <2>1
    <2> HIDE DEF Entries, record, TypeOK, BlockInv, LockInv, StartInv, RoomInv, MarkInv
    <2>7. OlderClosed'
      <3> SUFFICES ASSUME AllEvents, NEW i \in Entries', NEW j \in Entries', i < j,
                          log'[i].address = log'[j].address
                   PROVE  log'[i].freed
        BY <2>1, Zenon
      <3>1. i \in Entries
        BY <2>2, <2>3 DEF Entries
      <3>2. CASE j \in Entries
        BY <2>3, <3>1, <3>2, Zenon
      <3>3. CASE j = count
        BY <2>3, <2>4, <2>5, <3>1, <3>3, Zenon
      <3> QED
        BY <2>3, <3>2, <3>3, Zenon
    <2>8. OpenLogged'
      BY <2>1, <2>3, <2>4, <2>5
    <2>9. HeapClosed'
      BY <2>1, <2>3, <2>4, <2>5, <2>6
    <2>10. UnfreedOpen'
      <3> SUFFICES ASSUME AllEvents, NEW i \in Entries', log'[i].address \in logged' \ refused,
                          Unfreed(log[i].address)', log'[i].freed
                   PROVE  \E j \in Entries' : i < j /\ log'[j].address = log'[i].address
        BY <2>1
      <3>1. i \in Entries /\ i < count /\ log'[i] = log[i]
        BY <2>3, <2>4, Zenon
      <3>2. CASE log[i].address = arg[t]
        BY <2>3, <2>4, <3>1, <3>2, Zenon
      <3>3. CASE log[i].address # arg[t]
        <4>1. Unfreed(log[i].address) /\ log[i].address \in logged \ refused
          BY <2>1, <2>6, <3>1, <3>3
        <4>2. PICK j \in Entries : i < j /\ log[j].address = log[i].address
          BY <3>1, <4>1, Zenon
        <4> QED
          BY <2>3, <3>1, <4>2
      <3> QED
        BY <3>2, <3>3
    <2> QED
      BY <2>7, <2>8, <2>9, <2>10, Zenon
  <1>7. ASSUME NEW t \in Tasks, CheckFree(t) PROVE EventInv'
    BY <1>7 DEF CheckFree, Goto
  <1>8. ASSUME NEW t \in Tasks, Search(t) PROVE EventInv'
    <2>1. CASE ~tracing
      <3>1. gap
        BY <1>8, <2>1, TraceAssumption DEF Search, Unlocked
      <3> QED
        BY <1>8, <3>1, Zenon DEF Search
    <2>2. CASE tracing
      <3>1. /\ pc' = [pc EXCEPT ![t] = IF Found(arg[t]) # {} THEN "mark" ELSE "heap"]
            /\ pc[t] = "search"
            /\ UNCHANGED <<mode, gap, log, count, arg, owned, logged, refused>>
        BY <1>8, <2>2 DEF Search, Goto
      <3>2. OlderClosed' /\ OpenLogged'
        BY <3>1
      <3>3. HeapClosed'
        BY <3>1 DEF Found
      <3>4. \A q : Unfreed(q)' => Unfreed(q)
        BY <3>1
      <3>5. UnfreedOpen'
        <4> HIDE DEF Unfreed, TypeOK
        <4> QED
          BY <3>1, <3>4, Zenon
      <3> QED
        BY <3>2, <3>3, <3>5, Zenon
    <2> QED
      BY <2>1, <2>2
  <1>9. ASSUME NEW t \in Tasks, Mark(t) PROVE EventInv'
    <2> SUFFICES ASSUME mode = "all", ~gap PROVE EventInv'
      BY <1>9, Zenon DEF Mark
    <2>1. /\ log' = [log EXCEPT ![slot].freed = TRUE]
          /\ pc' = [pc EXCEPT ![t] = "heap"] /\ pc[t] = "mark"
          /\ UNCHANGED <<mode, gap, count, arg, owned, logged, refused>>
      BY <1>9, Zenon DEF Mark, Goto
    <2>2. /\ slot \in Entries /\ log[slot].address = arg[t]
          /\ \A i \in Entries : log[i].address = arg[t] => i <= slot
      BY <2>1
    <2>3. \A i \in Entries : /\ log'[i].address = log[i].address
                             /\ log[i].freed => log'[i].freed
                             /\ i # slot => log'[i] = log[i]
      <3>1. \A i \in Entries : i \in DOMAIN log
        <4>1. count <= Slots
          OBVIOUS
        <4> QED
          BY <4>1, EntriesInLog, Zenon
      <3> HIDE DEF Entries
      <3> QED
        BY <2>1, <2>2, <3>1
    <2>4. log'[slot].freed
      <3>1. slot \in DOMAIN log
        <4> HIDE DEF Entries
        <4>1. count <= Slots
          OBVIOUS
        <4> QED
          BY <2>2, <4>1, EntriesInLog, Zenon
      <3> QED
        BY <2>1, <3>1
    <2>5. \A q : Unfreed(q)' => Unfreed(q) /\ q # arg[t]
      BY <2>1
    <2>6. \A i \in Entries : i \in Int
      OBVIOUS
    <2>7. Entries' = Entries
      BY <2>1
    <2>8. \A i \in Entries : log[i].address = arg[t] => log'[i].freed
      <3> SUFFICES ASSUME NEW i \in Entries, log[i].address = arg[t], i # slot
                   PROVE  log[i].freed
        BY <2>3, <2>4, Zenon
      <3>1. i < slot
        BY <2>2, <2>6
      <3> QED
        BY <2>2, <3>1, Zenon
    <2>9. \A u \in Tasks : pc'[u] = "heap" => u = t \/ pc[u] = "heap"
      BY <2>1
    <2> HIDE DEF Entries, Unfreed, TypeOK, BlockInv, LockInv, StartInv, RoomInv, MarkInv
    <2>10. OlderClosed' /\ OpenLogged'
      BY <2>1, <2>3, <2>7
    <2>11. HeapClosed'
      BY <2>1, <2>3, <2>7, <2>8, <2>9
    <2>12. UnfreedOpen'
      <3> SUFFICES ASSUME NEW i \in Entries, log'[i].address \in logged \ refused,
                          Unfreed(log[i].address)', log'[i].freed
                   PROVE  \E j \in Entries : i < j /\ log'[j].address = log'[i].address
        BY <2>1, <2>7
      <3>1. Unfreed(log[i].address) /\ i # slot /\ log'[i] = log[i]
        BY <2>2, <2>3, <2>5
      <3>2. PICK j \in Entries : i < j /\ log[j].address = log[i].address
        BY <3>1, Zenon
      <3> QED
        BY <2>3, <3>2, Zenon
    <2> QED
      BY <2>10, <2>11, <2>12, Zenon
  <1>10. ASSUME NEW t \in Tasks, HeapFree(t) PROVE EventInv'
    <2>1. /\ logged' = logged \ {arg[t]} /\ refused' = refused \ {arg[t]}
          /\ pc' = [pc EXCEPT ![t] = "idle"] /\ arg' = [arg EXCEPT ![t] = Null] /\ pc[t] = "heap"
          /\ UNCHANGED <<mode, gap, log, count, owned>>
      BY <1>10, Zenon DEF HeapFree, Finish
    <2>2. \A u \in Tasks : pc'[u] # "idle" => u # t /\ pc[u] = pc'[u] /\ arg'[u] = arg[u]
      BY <2>1
    <2>3. Entries' = Entries
      BY <2>1
    <2>4. \A q : Unfreed(q)' => Unfreed(q)
      BY <2>1, <2>2
    <2> HIDE DEF Entries, Unfreed, TypeOK, BlockInv, LockInv, StartInv, RoomInv, MarkInv
    <2>5. OlderClosed'
      BY <2>1, <2>3, Zenon
    <2>6. OpenLogged'
      BY <2>1, <2>3, Zenon
    <2>7. HeapClosed'
      BY <2>1, <2>2, <2>3, Zenon
    <2>8. UnfreedOpen'
      BY <2>1, <2>3, <2>4, Zenon
    <2> QED
      BY <2>5, <2>6, <2>7, <2>8, Zenon
  <1>11. ASSUME NEW t \in Tasks, HeapRealloc(t) PROVE EventInv'
    BY <1>11 DEF HeapRealloc, Goto
  <1>12. ASSUME NEW t \in Tasks, HeapReallocFails(t) PROVE EventInv'
    <2>1. /\ owned' = owned \cup {arg[t]} /\ refused' = refused \cup ({arg[t]} \cap logged)
          /\ pc' = [pc EXCEPT ![t] = "idle"] /\ arg' = [arg EXCEPT ![t] = Null] /\ pc[t] = "heap"
          /\ UNCHANGED <<mode, gap, log, count, logged>>
      BY <1>12, Zenon DEF HeapReallocFails, Finish
    <2>2. \A u \in Tasks : pc'[u] # "idle" => u # t /\ pc[u] = pc'[u] /\ arg'[u] = arg[u]
      BY <2>1
    <2>3. Entries' = Entries
      BY <2>1
    <2>4. \A q : Unfreed(q)' => Unfreed(q) \/ q = arg[t]
      BY <2>1, <2>2
    <2> HIDE DEF Entries, Unfreed, TypeOK, BlockInv, LockInv, StartInv, RoomInv, MarkInv
    <2>5. OlderClosed'
      BY <2>1, <2>3, Zenon
    <2>6. OpenLogged'
      BY <2>1, <2>3, Zenon
    <2>7. HeapClosed'
      BY <2>1, <2>2, <2>3, Zenon
    <2>8. UnfreedOpen'
      BY <2>1, <2>3, <2>4, Zenon
    <2> QED
      BY <2>5, <2>6, <2>7, <2>8, Zenon
  <1>13. ASSUME NEW t \in Tasks, NEW m \in {"all", "leaks"}, Start(t, m) PROVE EventInv'
    BY <1>13 DEF Start, Goto, Unlocked, Reset
  <1>14. ASSUME NEW t \in Tasks, StartResumes(t) PROVE EventInv'
    BY <1>14 DEF StartResumes, Goto
  <1>15. ASSUME NEW t \in Tasks, Stop(t) PROVE EventInv'
    BY <1>15 DEF Stop
  <1>16. ASSUME NEW t \in Tasks, Resume(t) PROVE EventInv'
    BY <1>16 DEF Resume
  <1>17. ASSUME NEW t \in Tasks, InitCheck(t) PROVE EventInv'
    BY <1>17 DEF InitCheck, Goto
  <1>18. ASSUME NEW t \in Tasks, InitBuffer(t) PROVE EventInv'
    BY <1>18 DEF InitBuffer, Goto
  <1>19. ASSUME NEW t \in Tasks, InitClear(t) PROVE EventInv'
    BY <1>19 DEF InitClear, Goto
  <1>20. ASSUME NEW t \in Tasks, InitSize(t) PROVE EventInv'
    BY <1>20, TraceAssumption DEF InitSize, Goto
  <1>21. ASSUME NEW t \in Tasks, StartCheck(t) PROVE EventInv'
    BY <1>21 DEF StartCheck, Goto
  <1>22. ASSUME NEW t \in Tasks, LeavesBuffer(t) PROVE EventInv'
    BY <1>1, <1>22 DEF LeavesBuffer
  <1> QED
    BY <1>1, <1>2, <1>3, <1>4, <1>5, <1>6, <1>7, <1>8, <1>9, <1>10, <1>11, <1>12, <1>13,
       <1>14, <1>15, <1>16, <1>17, <1>18, <1>19, <1>20, <1>21, <1>22
    DEF Next, Record, Control

\* Allocations are counted with the records they add
LEMMA TotalStep ==
    ASSUME TypeOK, LockInv, StartInv, RoomInv, TotalInv,
           [Next]_vars
    PROVE  TotalInv'
  <1> USE DEF TotalInv, settings, records, task_state, blocks, TypeOK, LockInv, StartInv,
                RoomInv
  <1>1. CASE UNCHANGED vars
    BY <1>1 DEF vars
  <1>2. ASSUME NEW t \in Tasks, Malloc(t) PROVE TotalInv'
    BY <1>2 DEF Malloc, Goto
  <1>3. ASSUME NEW t \in Tasks, NEW p \in owned, Free(t, p) \/ Realloc(t, p) PROVE TotalInv'
    BY <1>3 DEF Free, Realloc, Give, Goto
  <1>4. ASSUME NEW t \in Tasks, CheckAllocation(t) PROVE TotalInv'
    BY <1>4 DEF CheckAllocation, Goto, Finish
  <1>5. ASSUME NEW t \in Tasks, MakeRoom(t) PROVE TotalInv'
    BY <1>5 DEF MakeRoom, Goto, Finish, Unlocked, DropOldest, Shifted
  <1>6. ASSUME NEW t \in Tasks, Store(t) PROVE TotalInv'
    BY <1>6 DEF Store, Finish
  <1>7. ASSUME NEW t \in Tasks, CheckFree(t) PROVE TotalInv'
    BY <1>7 DEF CheckFree, Goto
  <1>8. ASSUME NEW t \in Tasks, Search(t) PROVE TotalInv'
    BY <1>8 DEF Search, Goto, Unlocked
  <1>9. ASSUME NEW t \in Tasks, Mark(t) PROVE TotalInv'
    BY <1>9 DEF Mark, Goto, RecordRemoved, Empty
  <1>10. ASSUME NEW t \in Tasks, HeapFree(t) PROVE TotalInv'
    BY <1>10 DEF HeapFree, Finish
  <1>11. ASSUME NEW t \in Tasks, HeapRealloc(t) PROVE TotalInv'
    BY <1>11 DEF HeapRealloc, Goto
  <1>12. ASSUME NEW t \in Tasks, HeapReallocFails(t) PROVE TotalInv'
    BY <1>12 DEF HeapReallocFails, Finish
  <1>13. ASSUME NEW t \in Tasks, NEW m \in {"all", "leaks"}, Start(t, m) PROVE TotalInv'
    BY <1>13, TraceAssumption DEF Start, Goto, Unlocked, Reset
  <1>14. ASSUME NEW t \in Tasks, StartResumes(t) PROVE TotalInv'
    BY <1>14 DEF StartResumes, Goto
  <1>15. ASSUME NEW t \in Tasks, Stop(t) PROVE TotalInv'
    BY <1>15 DEF Stop
  <1>16. ASSUME NEW t \in Tasks, Resume(t) PROVE TotalInv'
    BY <1>16 DEF Resume
  <1>17. ASSUME NEW t \in Tasks, InitCheck(t) PROVE TotalInv'
    BY <1>17 DEF InitCheck, Goto
  <1>18. ASSUME NEW t \in Tasks, InitBuffer(t) PROVE TotalInv'
    BY <1>18 DEF InitBuffer, Goto
  <1>19. ASSUME NEW t \in Tasks, InitClear(t) PROVE TotalInv'
    BY <1>19 DEF InitClear, Goto
  <1>20. ASSUME NEW t \in Tasks, InitSize(t) PROVE TotalInv'
    BY <1>20, TraceAssumption DEF InitSize, Goto
  <1>21. ASSUME NEW t \in Tasks, StartCheck(t) PROVE TotalInv'
    BY <1>21 DEF StartCheck, Goto
  <1>22. ASSUME NEW t \in Tasks, LeavesBuffer(t) PROVE TotalInv'
    BY <1>1, <1>22 DEF LeavesBuffer
  <1> QED
    BY <1>1, <1>2, <1>3, <1>4, <1>5, <1>6, <1>7, <1>8, <1>9, <1>10, <1>11, <1>12, <1>13,
       <1>14, <1>15, <1>16, <1>17, <1>18, <1>19, <1>20, <1>21, <1>22
    DEF Next, Record, Control

-----------------------------------------------------------------------------
(* The theorems *)

LEMMA TraceInit == Init => IInv
  <1> SUFFICES ASSUME Init PROVE IInv
    OBVIOUS
  <1> USE TraceAssumption DEF Init, Entries
  <1>1. TypeOK
    <2>1. Empty \in [address : Addresses \cup {Null}, freed : BOOLEAN]
      BY DEF Empty
    <2>2. log \in [0 .. Length[buffer] - 1 -> [address : Addresses \cup {Null}, freed : BOOLEAN]]
      BY <2>1, Zenon DEF Cleared
    <2> QED
      BY <2>2 DEF TypeOK, Labels, Arrays
  <1>2. LockInv /\ BlockInv /\ StartInv /\ RoomInv /\ MarkInv
    BY DEF LockInv, BlockInv, StartInv, RoomInv, MarkInv, Busy, Recording, Freeing
  <1>3. LeakInv /\ KeptInv /\ EventInv /\ TotalInv
    BY DEF LeakInv, KeptInv, EventInv, OlderClosed, OpenLogged, HeapClosed, UnfreedOpen,
           AllEvents, TotalInv
  <1> QED
    BY <1>1, <1>2, <1>3 DEF IInv

\* The trace's inductive invariant, for every number of tasks, addresses and records:
\* the recorders and heap_trace_start under trace_mux, the other controls without it
\* (heap_trace_standalone.c:54-252)
THEOREM TraceInvariant == Spec => []IInv
  <1>1. IInv /\ [Next]_vars => IInv'
    <2> SUFFICES ASSUME IInv, [Next]_vars PROVE IInv'
      OBVIOUS
    <2> USE DEF IInv
    <2>1. TypeOK' /\ LockInv' /\ BlockInv' /\ StartInv'
      BY TypeStep, LockStep, BlockStep, StartStep
    <2>2. RoomInv' /\ MarkInv' /\ LeakInv' /\ KeptInv'
      BY RoomStep, MarkStep, LeakStep, KeptStep
    <2>3. EventInv' /\ TotalInv'
      BY EventStep, TotalStep
    <2> QED
      BY <2>1, <2>2, <2>3
  <1> QED
    BY TraceInit, <1>1, PTL DEF Spec

\* Every variable of the trace keeps its type (heap_trace_standalone.c:25-52)
THEOREM TraceTypes == Spec => []TypeOK
  <1>1. IInv => TypeOK
    BY DEF IInv
  <1> QED
    BY TraceInvariant, <1>1, PTL

\* Stop, resume and initialisations with the size the trace was started with cannot
\* make a recorder use a record that the array does not have, wherever they fall
\* between its steps (heap_trace_standalone.c:54-63, :85-102, :174-251)
THEOREM RecordersStayInside == Spec => []RecordersInside
  <1>1. IInv => RecordersInside
    <2> SUFFICES ASSUME IInv, ~resized PROVE RecordersInside
      BY DEF RecordersInside
    <2>1. count <= total_records
      BY DEF IInv, RoomInv
    <2>2. ASSUME total_records \in 1 .. Length[buffer], NEW t \in Tasks PROVE ~Outside(t)
      BY <2>2, TraceAssumption DEF IInv, TypeOK, Arrays, RoomInv, MarkInv, Outside
    <2> QED
      BY <2>1, <2>2 DEF RecordersInside
  <1> QED
    BY TraceInvariant, <1>1, PTL

\* A leak trace reports no block that the heap has back, and none twice: the record is
\* removed before the block is freed and made after it was allocated (heap_trace.inc)
THEOREM LeaksReportedLive == Spec => []LeaksAreLive
  <1>1. IInv => LeaksAreLive
    BY DEF IInv, LeakInv, LeaksAreLive, Used, Entries
  <1> QED
    BY TraceInvariant, <1>1, PTL

\* A leak trace that has not overflowed misses no block, but for the ones whose realloc
\* was refused (record_allocation and remove_record, heap_trace_standalone.c:174-252)
THEOREM NoLeakMissed == Spec => []LeaksKept
  <1>1. IInv => LeaksKept
    BY DEF IInv, KeptInv, LeaksKept, Found, Entries
  <1> QED
    BY TraceInvariant, <1>1, PTL

\* In the mode for all events a free is noted in the record of the latest allocation
\* (record_free's search runs backwards, heap_trace_standalone.c:218-225)
THEOREM FreesNotedRight == Spec => []FreesMatch
  <1>1. IInv => FreesMatch
    <2> SUFFICES ASSUME IInv, AllEvents, NEW p \in (owned \cap logged) \ refused,
                        NEW i \in Found(p)
                 PROVE  log[i].freed <=> \E j \in Found(p) : i < j
      BY Zenon DEF FreesMatch, AllEvents
    <2>1. \A j \in Found(p) : j \in Entries /\ log[j].address = p
      BY DEF Found, Entries
    <2>2. \A j \in Entries : log[j].address = p => j \in Found(p)
      BY DEF Found, Entries
    <2>3. (\E j \in Found(p) : i < j) => log[i].freed
      BY <2>1, Zenon DEF IInv, EventInv, OlderClosed
    <2>4. log[i].freed => \E j \in Found(p) : i < j
      BY <2>1, <2>2, Zenon DEF IInv, EventInv, UnfreedOpen, Unfreed
    <2> QED
      BY <2>3, <2>4
  <1> QED
    BY TraceInvariant, <1>1, PTL

\* In the mode for all events nothing is dropped without the overflow mark
\* (heap_trace_standalone.c:182-192)
THEOREM OverflowIsTold == Spec => []OverflowTold
  <1>1. IInv => OverflowTold
    BY TraceAssumption DEF IInv, TypeOK, LockInv, TotalInv, OverflowTold
  <1> QED
    BY TraceInvariant, <1>1, PTL

=============================================================================
