------------------------------ MODULE HeapTrace ------------------------------
(***************************************************************************)
(* The standalone heap trace: src/heap_trace_standalone.c and the wrappers *)
(* of src/include/heap_trace.inc around malloc, free and realloc.          *)
(*                                                                         *)
(* Tasks run on two cores.  trace_mux guards the recorder's bodies and     *)
(* heap_trace_start; the first test of tracing in the recorders, and       *)
(* heap_trace_stop, heap_trace_resume and heap_trace_init_standalone take  *)
(* no lock, so they fall between any two steps of the others.              *)
(*                                                                         *)
(* The application has arrays of records; heap_trace_init_standalone makes *)
(* the trace use one of them, or none.  A record is its address and        *)
(* whether freed_by was filled in.  total_frees is only printed and is     *)
(* left out, as are the functions that only read.                          *)
(*                                                                         *)
(* Nothing in the code compares its indexes with the array it is given.    *)
(* Outside tells the steps that would leave the array; what these do to    *)
(* the memory there is not modelled, a behaviour ends where one is due.    *)
(***************************************************************************)
EXTENDS Integers

CONSTANTS
    Tasks,
    Addresses,          \* what the heap can return
    Null,               \* the address of an empty record
    Buffers,            \* arrays of the application
    Length,             \* array -> its number of records; the array Null has none
    MaxAllocations,     \* bound: allocations logged before a new start
    ReallocFails        \* may the heap refuse to resize a block?

ASSUME TraceAssumption ==
    /\ Null \notin Addresses \cup Tasks
    /\ Null \notin Buffers
    /\ Length \in [Buffers \cup {Null} -> Nat]
    /\ Length[Null] = 0
    /\ MaxAllocations \in Nat
    /\ ReallocFails \in BOOLEAN

VARIABLES
    tracing,
    mode,
    buffer,             \* the array in use, or Null
    total_records,
    record_buffer,      \* the array an initialisation was called with
    log,                \* what buffer points to: slot -> record
    count,
    total_allocations,
    has_overflowed,
    slot,               \* the index its search found
    mux,                \* the task in a critical section of trace_mux, or Null
    pc,                 \* where each task is
    arg,                \* the address its call is about
    op,                 \* the wrapper it runs
    allocated,          \* addresses the heap has given out
    owned,              \* of these, the ones an application holds
    logged,             \* history: of these, logged since the last start
    gap,                \* history: stopped or re-initialised since then
    resized,            \* history: told another size since then
    refused             \* history: blocks the heap would not resize since then

settings == <<tracing, mode, buffer, total_records, record_buffer, resized>>
records == <<log, count, total_allocations, has_overflowed>>
task_state == <<pc, arg, op>>
blocks == <<allocated, owned, logged>>
vars == <<settings, records, slot, mux, task_state, blocks, gap, refused>>

Arrays == Buffers \cup {Null}

Empty == [address |-> Null, freed |-> FALSE]

Cleared(b) == [i \in 0 .. Length[b] - 1 |-> Empty]

Init ==
    /\ tracing = FALSE
    /\ mode = "all"
    /\ buffer = Null
    /\ total_records = 0
    /\ record_buffer = [t \in Tasks |-> Null]
    /\ log = Cleared(Null)
    /\ count = 0
    /\ total_allocations = 0
    /\ has_overflowed = FALSE
    /\ slot = 0
    /\ mux = Null
    /\ pc = [t \in Tasks |-> "idle"]
    /\ arg = [t \in Tasks |-> Null]
    /\ op = [t \in Tasks |-> "none"]
    /\ allocated = {}
    /\ owned = {}
    /\ logged = {}
    /\ gap = TRUE
    /\ resized = FALSE
    /\ refused = {}

Goto(t, label) == pc' = [pc EXCEPT ![t] = label]

\* The call returns to the application, which holds the block arg
Finish(t) ==
    /\ pc' = [pc EXCEPT ![t] = "idle"]
    /\ arg' = [arg EXCEPT ![t] = Null]
    /\ op' = [op EXCEPT ![t] = "none"]

-----------------------------------------------------------------------------
(* The wrappers and the heap below them *)

\* trace_malloc: the heap answers first, the record is made afterwards
Malloc(t) ==
    /\ pc[t] = "idle"
    /\ total_allocations < MaxAllocations
    /\ \E p \in Addresses \ allocated :
         /\ allocated' = allocated \cup {p}
         /\ arg' = [arg EXCEPT ![t] = p]
    /\ op' = [op EXCEPT ![t] = "malloc"]
    /\ Goto(t, "log")
    /\ UNCHANGED <<settings, records, slot, mux, owned, logged, gap, refused>>

\* trace_free and trace_realloc: the block is the wrapper's from here on
Give(t, p, wrapper) ==
    /\ pc[t] = "idle"
    /\ owned' = owned \ {p}
    /\ arg' = [arg EXCEPT ![t] = p]
    /\ op' = [op EXCEPT ![t] = wrapper]
    /\ Goto(t, "unlog")
    /\ UNCHANGED <<settings, records, slot, mux, allocated, logged, gap, refused>>

Free(t, p) == Give(t, p, "free")
Realloc(t, p) == total_allocations < MaxAllocations /\ Give(t, p, "realloc")

\* The heap's free, after the record of the block is dealt with
HeapFree(t) ==
    /\ pc[t] = "heap"
    /\ op[t] = "free"
    /\ allocated' = allocated \ {arg[t]}
    /\ logged' = logged \ {arg[t]}
    /\ refused' = refused \ {arg[t]}
    /\ Finish(t)
    /\ UNCHANGED <<settings, records, slot, mux, owned, gap>>

\* The heap's realloc moves the block or leaves it where it is
HeapRealloc(t) ==
    /\ pc[t] = "heap"
    /\ op[t] = "realloc"
    /\ \E r \in (Addresses \ allocated) \cup {arg[t]} :
         /\ allocated' = (allocated \ {arg[t]}) \cup {r}
         /\ arg' = [arg EXCEPT ![t] = r]
    /\ logged' = logged \ {arg[t]}
    /\ refused' = refused \ {arg[t]}
    /\ Goto(t, "log")
    /\ UNCHANGED <<settings, records, slot, mux, owned, op, gap>>

\* Fault: the old block is given up although the caller keeps it
HeapReallocFrees(t) ==
    /\ ReallocFails
    /\ pc[t] = "heap"
    /\ op[t] = "realloc"
    /\ owned' = owned \cup {arg[t]}
    /\ refused' = refused \cup ({arg[t]} \cap logged)
    /\ allocated' = allocated \ {arg[t]}
    /\ Finish(t)
    /\ UNCHANGED <<settings, records, slot, mux, logged, gap>>

\* It refuses: the caller still holds the old block, and NULL is not recorded
HeapReallocFails(t) ==
    /\ ReallocFails
    /\ pc[t] = "heap"
    /\ op[t] = "realloc"
    /\ owned' = owned \cup {arg[t]}
    /\ refused' = refused \cup ({arg[t]} \cap logged)
    /\ Finish(t)
    /\ UNCHANGED <<settings, records, slot, mux, allocated, logged, gap>>

-----------------------------------------------------------------------------
(* record_allocation *)

\* The test without the lock
CheckAllocation(t) ==
    /\ pc[t] = "log"
    /\ IF tracing
         THEN /\ Goto(t, "room")
              /\ UNCHANGED <<arg, op, owned>>
         ELSE /\ owned' = owned \cup {arg[t]}
              /\ Finish(t)
    /\ UNCHANGED <<settings, records, slot, mux, allocated, logged, gap, refused>>

\* memmove of the whole buffer back one slot
Shifted == [i \in DOMAIN log |-> IF i < total_records - 1 THEN log[i + 1] ELSE log[i]]

\* Fault: the full buffer loses a record and nobody is told
DropSilently == log' = Shifted /\ count' = count - 1 /\ UNCHANGED has_overflowed

\* The oldest record makes room
DropOldest == log' = Shifted /\ count' = count - 1 /\ has_overflowed' = TRUE

\* Fault: the lock is not taken
Unguarded == TRUE

\* portENTER_CRITICAL goes on
Unlocked == mux = Null

\* The step t is about to take reads or writes records the array does not have:
\* the move of a full buffer, the store, the search from count - 1, and what
\* is done to the record that was found
Outside(t) ==
    \/ pc[t] = "room" /\ Unlocked /\ tracing /\ count = total_records
         /\ total_records \notin 1 .. Length[buffer]
    \/ pc[t] = "store" /\ count >= Length[buffer]
    \/ pc[t] = "search" /\ Unlocked /\ tracing /\ count > Length[buffer]
    \/ pc[t] = "mark" /\ slot >= Length[buffer]
    \/ pc[t] = "mark" /\ mode = "leaks" /\ slot < count - 1
         /\ total_records \notin slot + 1 .. Length[buffer]

\* The lock is taken, tracing tested again, and room made for one record
MakeRoom(t) ==
    /\ pc[t] = "room"
    /\ Unlocked
    /\ ~Outside(t)
    /\ IF tracing
         THEN /\ mux' = t
              /\ Goto(t, "store")
              /\ IF count = total_records
                   THEN DropOldest
                   ELSE UNCHANGED <<log, count, has_overflowed>>
              /\ UNCHANGED <<arg, op, owned>>
         ELSE /\ owned' = owned \cup {arg[t]}
              /\ Finish(t)
              /\ UNCHANGED <<log, count, has_overflowed, mux>>
    /\ UNCHANGED <<settings, slot, total_allocations, allocated, logged, gap, refused>>

Store(t) ==
    /\ pc[t] = "store"
    /\ ~Outside(t)
    /\ log' = [log EXCEPT ![count] = [address |-> arg[t], freed |-> FALSE]]
    /\ count' = count + 1
    /\ total_allocations' = total_allocations + 1
    /\ logged' = logged \cup {arg[t]}
    /\ owned' = owned \cup {arg[t]}
    /\ mux' = Null
    /\ Finish(t)
    /\ UNCHANGED <<settings, slot, has_overflowed, allocated, gap, refused>>

-----------------------------------------------------------------------------
(* record_free *)

CheckFree(t) ==
    /\ pc[t] = "unlog"
    /\ Goto(t, IF tracing THEN "search" ELSE "heap")
    /\ UNCHANGED <<settings, records, slot, mux, arg, op, blocks, gap, refused>>

\* The slots in use that hold the address
Found(p) == {i \in 0 .. count - 1 : log[i].address = p}

\* Fault: the search runs forwards
Oldest(p) == CHOOSE i \in Found(p) : \A j \in Found(p) : i <= j

\* The search runs backwards
Newest(p) == CHOOSE i \in Found(p) : \A j \in Found(p) : j <= i

Search(t) ==
    /\ pc[t] = "search"
    /\ Unlocked
    /\ ~Outside(t)
    /\ IF tracing /\ Found(arg[t]) # {}
         THEN mux' = t /\ slot' = Newest(arg[t]) /\ Goto(t, "mark")
         ELSE UNCHANGED <<slot, mux>> /\ Goto(t, "heap")
    /\ UNCHANGED <<settings, records, arg, op, blocks, gap, refused>>

\* Fault: a record that is not the last one is left where it is
RecordRemovedLast == IF slot < count - 1 THEN log ELSE [log EXCEPT ![slot] = Empty]

\* remove_record
RecordRemoved ==
    IF slot < count - 1
      THEN [i \in DOMAIN log |->
               IF slot <= i /\ i < total_records - 1 THEN log[i + 1] ELSE log[i]]
      ELSE [log EXCEPT ![slot] = Empty]

\* freed_by is filled in, or the record removed
Mark(t) ==
    /\ pc[t] = "mark"
    /\ ~Outside(t)
    /\ IF mode = "all"
         THEN log' = [log EXCEPT ![slot].freed = TRUE] /\ UNCHANGED count
         ELSE log' = RecordRemoved /\ count' = count - 1
    /\ slot' = 0
    /\ mux' = Null
    /\ Goto(t, "heap")
    /\ UNCHANGED <<settings, total_allocations, has_overflowed, arg, op, blocks, gap, refused>>

-----------------------------------------------------------------------------
(* The controls *)

\* Fault: the records of the last trace are kept
ResetTotals == count' = count /\ total_allocations' = 0 /\ has_overflowed' = FALSE

Reset == count' = 0 /\ total_allocations' = 0 /\ has_overflowed' = FALSE

\* heap_trace_start: its test is made before it has the lock
StartCheck(t) ==
    /\ pc[t] = "idle"
    /\ buffer # Null
    /\ total_records # 0
    /\ Goto(t, "start")
    /\ UNCHANGED <<settings, records, slot, mux, arg, op, blocks, gap, refused>>

\* From the lock up to its call of heap_trace_resume
Start(t, m) ==
    /\ pc[t] = "start"
    /\ Unlocked
    /\ mux' = t
    /\ tracing' = FALSE
    /\ mode' = m
    /\ Reset
    /\ logged' = {}
    /\ gap' = FALSE
    /\ resized' = FALSE
    /\ refused' = {}
    /\ Goto(t, "resume")
    /\ UNCHANGED <<buffer, total_records, record_buffer, log, slot, arg, op, allocated, owned>>

StartResumes(t) ==
    /\ pc[t] = "resume"
    /\ tracing' = TRUE
    /\ mux' = Null
    /\ Goto(t, "idle")
    /\ UNCHANGED <<mode, buffer, total_records, record_buffer, records, slot, arg, op, blocks,
                   gap, resized, refused>>

\* set_tracing, without the lock
Stop(t) ==
    /\ pc[t] = "idle"
    /\ tracing
    /\ tracing' = FALSE
    /\ gap' = TRUE
    /\ UNCHANGED <<mode, buffer, total_records, record_buffer, records, slot, mux, task_state,
                   blocks, resized, refused>>

\* heap_trace_resume
Resume(t) ==
    /\ pc[t] = "idle"
    /\ ~tracing
    /\ tracing' = TRUE
    /\ UNCHANGED <<mode, buffer, total_records, record_buffer, records, slot, mux, task_state,
                   blocks, gap, resized, refused>>

\* heap_trace_init_standalone, of an array or of (NULL, 0): its test of tracing
InitCheck(t) ==
    /\ pc[t] = "idle"
    /\ ~tracing
    /\ \E b \in Arrays : record_buffer' = [record_buffer EXCEPT ![t] = b]
    /\ Goto(t, "buffer")
    /\ UNCHANGED <<tracing, mode, buffer, total_records, resized, records, slot, mux, arg, op,
                   blocks, gap, refused>>

\* ... the pointer (an array that was not in use has no records in it),
InitBuffer(t) ==
    /\ pc[t] = "buffer"
    /\ buffer' = record_buffer[t]
    /\ log' = IF record_buffer[t] = buffer THEN log ELSE Cleared(record_buffer[t])
    /\ gap' = TRUE
    /\ Goto(t, "size")
    /\ UNCHANGED <<tracing, mode, total_records, record_buffer, resized, count, total_allocations,
                   has_overflowed, slot, mux, arg, op, blocks, refused>>

\* ... the size,
InitSize(t) ==
    /\ pc[t] = "size"
    /\ total_records' = Length[record_buffer[t]]
    /\ resized' = (resized \/ total_records \notin {0, total_records'})
    /\ gap' = TRUE
    /\ Goto(t, "clear")
    /\ UNCHANGED <<tracing, mode, buffer, record_buffer, records, slot, mux, arg, op, blocks,
                   refused>>

\* ... and the memset.  buffer is read again, or is the one that was assigned,
\* which is not in use any more if there was another initialisation.
InitClear(t) ==
    /\ pc[t] = "clear"
    /\ \/ /\ Length[record_buffer[t]] <= Length[buffer]
          /\ log' = [i \in DOMAIN log |-> IF i < Length[record_buffer[t]] THEN Empty ELSE log[i]]
       \/ /\ record_buffer[t] # buffer
          /\ log' = log
    /\ gap' = TRUE
    /\ record_buffer' = [record_buffer EXCEPT ![t] = Null]
    /\ Goto(t, "idle")
    /\ UNCHANGED <<tracing, mode, buffer, total_records, resized, count, total_allocations,
                   has_overflowed, slot, mux, arg, op, blocks, refused>>

-----------------------------------------------------------------------------

Record(t) ==
    \/ CheckAllocation(t) \/ MakeRoom(t) \/ Store(t)
    \/ CheckFree(t) \/ Search(t) \/ Mark(t)
    \/ HeapFree(t) \/ HeapRealloc(t) \/ HeapReallocFails(t)

Control(t) ==
    \/ StartCheck(t)
    \/ \E m \in {"all", "leaks"} : Start(t, m)
    \/ StartResumes(t)
    \/ Stop(t)
    \/ Resume(t)
    \/ InitCheck(t) \/ InitBuffer(t) \/ InitSize(t) \/ InitClear(t)

\* An access outside the array: what the program does then is not followed
LeavesBuffer(t) == Outside(t) /\ UNCHANGED vars

Next ==
    \E t \in Tasks :
        \/ Malloc(t)
        \/ \E p \in owned : Free(t, p) \/ Realloc(t, p)
        \/ Record(t)
        \/ Control(t)
        \/ LeavesBuffer(t)

Spec == Init /\ [][Next]_vars

-----------------------------------------------------------------------------
(* Types *)

Labels == {"idle", "log", "room", "store", "unlog", "search", "mark", "heap",
           "start", "resume", "buffer", "size", "clear"}

TypeOK ==
    /\ tracing \in BOOLEAN
    /\ mode \in {"all", "leaks"}
    /\ buffer \in Arrays
    /\ total_records \in Nat
    /\ record_buffer \in [Tasks -> Arrays]
    /\ log \in [0 .. Length[buffer] - 1 -> [address : Addresses \cup {Null}, freed : BOOLEAN]]
    /\ count \in Nat
    /\ total_allocations \in Nat
    /\ has_overflowed \in BOOLEAN
    /\ slot \in Nat
    /\ mux \in Tasks \cup {Null}
    /\ pc \in [Tasks -> Labels]
    /\ arg \in [Tasks -> Addresses \cup {Null}]
    /\ op \in [Tasks -> {"none", "malloc", "free", "realloc"}]
    /\ allocated \subseteq Addresses
    /\ owned \subseteq allocated
    /\ logged \subseteq Addresses
    /\ gap \in BOOLEAN
    /\ resized \in BOOLEAN
    /\ refused \subseteq logged

(* The recorders stay inside the array, whatever stop, resume and further    *)
(* initialisations do between their steps: unless the trace was told another *)
(* size since it was started, count is at most total_records, and no task is *)
(* about to use a record the array in use does not have.                     *)
RecordersInside ==
    ~resized =>
        /\ count <= total_records
        /\ total_records \in 1 .. Length[buffer] => \A t \in Tasks : ~Outside(t)

(* "Count of entries logged in the buffer.  Maximum total_records"           *)
(* (heap_trace_standalone.c:39-41).  The code does not keep this: an         *)
(* initialisation with another array leaves count as it is, and resume goes  *)
(* on with it.                                                               *)
CountInBuffer == tracing /\ total_records # 0 => count <= total_records

Used == {i \in 0 .. count - 1 : log[i] # Empty}

(* In leak mode, while the trace is not interrupted, a record is of a block  *)
(* that somebody still has, and no block has two.  It needs the order of the *)
(* wrappers: the record goes before the heap can give the address to another *)
(* task, and comes after the heap has given it out.                          *)
LeaksAreLive ==
    mode = "leaks" /\ ~gap =>
        /\ \A i \in Used : log[i].address \in allocated
        /\ \A i, j \in Used : log[i].address = log[j].address => i = j

(* In leak mode a block that was logged and is still held has its record,    *)
(* unless the trace was interrupted, says that it has overflowed, or the heap *)
(* has refused to resize the block.                                          *)
LeaksKept ==
    mode = "leaks" /\ ~gap /\ ~has_overflowed =>
        \A p \in (owned \cap logged) \ refused : Found(p) # {}

(* In the mode for all events a free is noted in the record of the block's   *)
(* latest allocation, never in one whose free was noted before: of the       *)
(* records of a held block the newest is open, every other one is closed     *)
(* (a realloc that is refused leaves the newest closed, too).                *)
FreesMatch ==
    mode = "all" /\ ~gap =>
        \A p \in (owned \cap logged) \ refused :
            \A i \in Found(p) : log[i].freed <=> \E j \in Found(p) : i < j

(* In the mode for all events nothing is dropped without the overflow mark:  *)
(* outside the lock the number of records is the number of allocations, cut  *)
(* at the size of the buffer.                                                *)
OverflowTold ==
    mode = "all" /\ ~gap /\ mux = Null =>
        /\ count = IF total_allocations < total_records THEN total_allocations ELSE total_records
        /\ has_overflowed <=> total_allocations > total_records
=============================================================================
