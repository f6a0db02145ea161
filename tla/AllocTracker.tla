---------------------------- MODULE AllocTracker ----------------------------
(***************************************************************************)
(* The allocation tracker of mr_utils (mrd_debug.c), which stands in for   *)
(* malloc, calloc, realloc, free, mmap and munmap in a DEBUG build.  Every *)
(* call takes the one mutex, looks its pointer up in active_allocations,   *)
(* calls the C library, writes the table and unlocks; the steps of a call  *)
(* are separate actions so that what the mutex protects can be seen.       *)
(* Sizes are left out: no decision of the tracker depends on one.  The     *)
(* callers pass a block that is live, or NULL; the block may be one that   *)
(* the tracker was never told of, as the lines are that tools/spacers.c    *)
(* gets from getline and gives to free.                                    *)
(***************************************************************************)
EXTENDS Naturals, FiniteSetsExt

CONSTANTS
    Threads,     \* the threads that allocate
    Addresses,   \* the addresses the C library hands out
    None,        \* NULL: no address, no slot, no thread
    MaxSlots,    \* MAX_ACTIVE_ALLOCATIONS, 1024 in the code
    MaxIds       \* bound of the model: allocations recorded in one run

ASSUME TrackerAssumption == /\ MaxSlots \in Nat \ {0}
                            /\ MaxIds \in Nat
                            /\ None \notin Addresses \cup Threads \cup 1 .. MaxSlots

VARIABLES
    active_allocations,     \* the table: one record per slot
    current_allocation_id,  \* the id of the next entry
    mutex,                  \* the thread that holds it, or None
    call,                   \* per thread: the tracked call it is in
    live,                   \* per address, what the C library holds there
    refused,                \* history: an entry found no slot, and was only logged
    crashed                 \* an entry was used through a NULL pointer

vars == <<active_allocations, current_allocation_id, mutex, call, live, refused, crashed>>

Slots == 1 .. MaxSlots
Kinds == {"heap", "map"}    \* of the blocks that the tracker hands out;
                            \* a block of getline is "foreign"
Allocation == [ptr : Addresses \cup {None}, active : BOOLEAN,
               id : 0 .. MaxIds, reallocated_to : Addresses \cup {None}]
Call == [at : {"idle", "libc", "table"}, op : {"alloc", "realloc", "release"},
         kind : Kinds \cup {"foreign"}, ptr : Addresses \cup {None},
         found : Slots \cup {None}, got : Addresses \cup {None}]

Idle == [at |-> "idle", op |-> "alloc", kind |-> "heap",
         ptr |-> None, found |-> None, got |-> None]

Init == /\ active_allocations = [i \in Slots |-> [ptr |-> None, active |-> FALSE,
                                                  id |-> 0, reallocated_to |-> None]]
        /\ current_allocation_id = 0
        /\ mutex = None
        /\ call = [t \in Threads |-> Idle]
        /\ live = [a \in Addresses |-> "free"]
        /\ refused = FALSE
        /\ crashed = FALSE

-----------------------------------------------------------------------------
First(S) == IF S = {} THEN None ELSE Min(S)

IsSlotOfNoMove(slot) == slot.reallocated_to = None
is_active_allocation_slot_free(slot) == ~slot.active /\ slot.reallocated_to = None

EntryOfFirstSlot(p) ==
    LET i == First({j \in Slots : active_allocations[j].ptr = p})
    IN  IF i # None /\ active_allocations[i].active THEN i ELSE None

\* The first active entry of the address p.
Entry(p) == First({i \in Slots : /\ active_allocations[i].ptr = p
                                 /\ active_allocations[i].active})

\* mrd_free: the first entry that was moved to p keeps its slot no longer.
Forget(table, p) ==
    LET i == First({j \in Slots : table[j].reallocated_to = p})
    IN  IF i = None THEN table ELSE [table EXCEPT ![i].reallocated_to = None]

\* A new entry goes to the first free slot; without one it is only logged.
add_allocation_numberless(table, p) ==
    LET i == First({j \in Slots : is_active_allocation_slot_free(table[j])})
    IN  /\ active_allocations' = IF i = None THEN table
                                 ELSE [table EXCEPT ![i] = [ptr |-> p, active |-> TRUE,
                                         id |-> current_allocation_id, reallocated_to |-> None]]
        /\ refused' = (refused \/ i = None)
        /\ UNCHANGED current_allocation_id
add_allocation(table, p) ==
    LET i == First({j \in Slots : is_active_allocation_slot_free(table[j])})
    IN  /\ active_allocations' = IF i = None THEN table
                                 ELSE [table EXCEPT ![i] = [ptr |-> p, active |-> TRUE,
                                         id |-> current_allocation_id, reallocated_to |-> None]]
        /\ current_allocation_id' = current_allocation_id + (IF i = None THEN 0 ELSE 1)
        /\ refused' = (refused \/ i = None)

\* mrd_realloc: the entry of a block that was moved keeps its slot.
Move(table, i, p, q) ==
    IF i = None THEN table
    ELSE [table EXCEPT ![i].active = FALSE,
                       ![i].reallocated_to = IF q = p THEN @ ELSE q]

TableUnchanged == UNCHANGED <<active_allocations, current_allocation_id, refused>>

-----------------------------------------------------------------------------
(* The three kinds of call, up to the call of the C library.               *)
LockIgnored(t) == ~crashed /\ call[t].at = "idle" /\ mutex' = t
Lock(t) == ~crashed /\ call[t].at = "idle" /\ mutex = None /\ mutex' = t

Blocks(k) == {a \in Addresses : live[a] = k}

Begin(t, op, k, p, found) ==
    call' = [call EXCEPT ![t] = [at |-> "libc", op |-> op, kind |-> k,
                                 ptr |-> p, found |-> found, got |-> None]]

\* mrd_malloc, mrd_calloc and mrd_mmap
Allocate(t) == /\ Lock(t)
               /\ current_allocation_id < MaxIds
               /\ \E k \in Kinds : Begin(t, "alloc", k, None, None)
               /\ TableUnchanged
               /\ UNCHANGED <<live, crashed>>

\* mrd_realloc
Reallocate(t) == /\ Lock(t)
                 /\ current_allocation_id < MaxIds
                 /\ \E p \in Blocks("heap") \cup {None} : Begin(t, "realloc", "heap", p, Entry(p))
                 /\ TableUnchanged
                 /\ UNCHANGED <<live, crashed>>

\* mrd_free; mrd_munmap does the same and forgets nothing.
Release(t) == /\ Lock(t)
              /\ \E k \in Kinds \cup {"foreign"} : \E p \in Blocks(k) \cup {None} :
                   /\ Begin(t, "release", k, p, Entry(p))
                   /\ active_allocations' = IF k # "map" /\ Entry(p) # None
                                            THEN Forget(active_allocations, p)
                                            ELSE active_allocations
              /\ UNCHANGED <<current_allocation_id, refused, live, crashed>>

\* getline: a buffer of the C library's own malloc, behind the tracker's back.
Getline(t) ==
    /\ ~crashed
    /\ call[t].at = "idle"
    /\ \E a \in Blocks("free") : live' = [live EXCEPT ![a] = "foreign"]
    /\ TableUnchanged
    /\ UNCHANGED <<mutex, call, crashed>>

\* Unless MRD_DEBUG_ONLY_CALLED_AND_ERR is defined, a call is logged before
\* that of the C library, with the id of its entry: mrd_log_command reads it
\* through NULL, but for the release of NULL, which is not logged so.  The
\* model has the builds with and without, and may take this step or the next.
LogCommand(t) ==
    /\ call[t].at = "libc"
    /\ call[t].found = None
    /\ call[t].op = "realloc" \/ (call[t].op = "release" /\ call[t].ptr # None)
    /\ crashed' = TRUE
    /\ TableUnchanged
    /\ UNCHANGED <<mutex, call, live>>

(* The C library: an allocation may fail, a realloc may leave the block    *)
(* where it is or move it, and an address given back may be handed out     *)
(* again.                                                                  *)
Answers(c) ==
    CASE c.op = "alloc"   -> Blocks("free") \cup {None}
      [] c.op = "realloc" -> Blocks("free") \cup {None, c.ptr}
      [] c.op = "release" -> {None}

Library(t) ==
    /\ call[t].at = "libc"
    /\ \E q \in Answers(call[t]) :
         LET c == call[t]
             gone == c.ptr # None /\ c.ptr # q /\ (c.op = "release" \/ q # None)
         IN  /\ live' = [a \in Addresses |->
                           IF a = q THEN c.kind
                           ELSE IF gone /\ a = c.ptr THEN "free" ELSE live[a]]
             /\ call' = [call EXCEPT ![t].at = "table", ![t].got = q]
    /\ TableUnchanged
    /\ UNCHANGED <<mutex, crashed>>

-----------------------------------------------------------------------------
(* The table after the call, and the unlock.                               *)
Unlock(t) == mutex' = None /\ call' = [call EXCEPT ![t] = Idle]
Returning(t, op) == call[t].at = "table" /\ call[t].op = op

RecordAllocation(t) ==
    /\ Returning(t, "alloc")
    /\ IF call[t].got = None THEN TableUnchanged
                             ELSE add_allocation(active_allocations, call[t].got)
    /\ Unlock(t)
    /\ UNCHANGED <<live, crashed>>

RecordRealloc(t) ==
    /\ Returning(t, "realloc")
    /\ LET c == call[t]
       IN  IF c.got = None THEN TableUnchanged
           ELSE add_allocation(Move(active_allocations, c.found, c.ptr, c.got), c.got)
    /\ Unlock(t)
    /\ UNCHANGED <<live, crashed>>

\* allocation->active = FALSE, whether the block was found or not.
RecordRelease(t) ==
    /\ Returning(t, "release")
    /\ \/ /\ call[t].found = None
          /\ crashed' = TRUE
          /\ UNCHANGED <<mutex, call, active_allocations>>
       \/ /\ call[t].found # None
          /\ active_allocations' = [active_allocations EXCEPT ![call[t].found].active = FALSE]
          /\ Unlock(t)
          /\ UNCHANGED crashed
    /\ UNCHANGED <<live, current_allocation_id, refused>>

Next == \E t \in Threads : \/ Allocate(t) \/ Reallocate(t) \/ Release(t)
                           \/ Getline(t)
                           \/ (~crashed /\ (LogCommand(t) \/ Library(t)))
                           \/ (~crashed /\ (RecordAllocation(t) \/ RecordRealloc(t)
                                            \/ RecordRelease(t)))

Spec == Init /\ [][Next]_vars

-----------------------------------------------------------------------------
Active == {i \in Slots : active_allocations[i].active}
Live == {a \in Addresses : live[a] \in Kinds}

(* Every variable has its type, a slot is never both an entry and a        *)
(* reminder of a move, and a thread inside a call holds the mutex.         *)
TypeOK ==
    /\ active_allocations \in [Slots -> Allocation]
    /\ \A i \in Active : active_allocations[i].reallocated_to = None
    /\ current_allocation_id \in 0 .. MaxIds
    /\ mutex \in Threads \cup {None}
    /\ call \in [Threads -> Call]
    /\ \A t \in Threads : call[t].at # "idle" => mutex = t
    /\ live \in [Addresses -> Kinds \cup {"free", "foreign"}]
    /\ refused \in BOOLEAN
    /\ crashed \in BOOLEAN

(* Between calls every active entry is a block the tracker handed out and  *)
(* the C library still holds, and no two entries are of the same block: an *)
(* address that was freed, moved away from or handed out again, to another *)
(* thread or to getline, is never counted twice, so                        *)
(* mrd_log_dump_active_allocations never reports a leak that is none.      *)
EntriesAreLive ==
    mutex = None =>
        /\ \A i \in Active : active_allocations[i].ptr \in Live
        /\ \A i, j \in Active : active_allocations[i].ptr = active_allocations[j].ptr => i = j

(* Between calls, as long as no entry has been refused, every live block   *)
(* that the tracker handed out has its entry: main's ASSERT that the dump  *)
(* is 0 then means that none of those leaked.                              *)
NothingIsMissed ==
    mutex = None /\ ~refused => Live \subseteq {active_allocations[i].ptr : i \in Active}

(* mrd_inspect_allocation of the id of an active entry finds that entry,   *)
(* although it returns the first slot with the id and looks at neither     *)
(* active nor the slots never written, whose id is 0 too.                  *)
InspectFindsTheEntry ==
    \A i \in Active :
        i = First({j \in Slots : active_allocations[j].id = active_allocations[i].id})

(* A call crashes over a pointer whose entry it does not find.  As long as *)
(* no entry was refused that is NULL or a block of getline: a block that   *)
(* the tracker handed out is found and marked free, however often it was   *)
(* moved and its address used before.  And it is every release of the two: *)
(* a release that returns was of a block that the tracker handed out, so   *)
(* tools/spacers.c of a DEBUG build does not get past its first line.      *)
OnlyUnknownCrash ==
    [][\A t \in Threads : mutex = t =>
          LET handed_out == call[t].ptr # None /\ call[t].kind \in Kinds
          IN  /\ crashed' /\ ~crashed /\ handed_out => refused
              /\ mutex' = None /\ call[t].op = "release" => handed_out]_vars
=============================================================================
