--------------------------- MODULE MediaTaskQueue ---------------------------
(***************************************************************************)
(* The ring between the event loop and one media worker (struct            *)
(* MediaTaskQueue, src/server/server.cpp).  Each side owns one index and   *)
(* reads the other's; the loads are acquire and the stores release, so a   *)
(* step may be taken as atomic at each access of an index or a slot.       *)
(***************************************************************************)
EXTENDS Naturals, Sequences

CONSTANTS
    Task,       \* media tasks
    Capacity,   \* MEDIA_WORKER_QUEUE_CAPACITY, the number of slots
    Empty       \* a slot never written, or moved from

CapacityAssumption == Capacity \in Nat \ {0, 1}

VARIABLES
    tasks,        \* the slots
    write_index,  \* stored by the event loop only
    read_index,   \* stored by the worker only
    pushing,      \* <<>>, or the task try_push is about to write, and where it is
    popping,      \* where try_pop is: "idle", "take", "advance"
    task,         \* what try_pop has moved out, until read_index is stored
    popped        \* history: the task returned last

vars == <<tasks, write_index, read_index, pushing, popping, task, popped>>

Slot == 0..Capacity-1

\* Mutant: the index is not wrapped.
Succ_unwrapped(i) == i + 1

Succ(i) == (i + 1) % Capacity

TypeOK ==
    /\ tasks \in [Slot -> Task \cup {Empty}]
    /\ write_index \in Slot
    /\ read_index \in Slot
    /\ pushing \in {<<>>} \cup ({"write", "publish"} \X Task)
    /\ popping \in {"idle", "take", "advance"}
    /\ task \in Task \cup {Empty}
    /\ popped \in {<<>>} \cup {<<v>> : v \in Task}

Init ==
    /\ tasks = [i \in Slot |-> Empty]
    /\ write_index = 0
    /\ read_index = 0
    /\ pushing = <<>>
    /\ popping = "idle"
    /\ task = Empty
    /\ popped = <<>>

-----------------------------------------------------------------------------
\* Mutant: the ring is never found full.
try_push_check_overfull(v) ==
    /\ pushing = <<>>
    /\ pushing' = <<"write", v>>
    /\ UNCHANGED <<tasks, write_index, read_index, popping, task, popped>>

\* A full ring refuses the task: no step.
try_push_check(v) ==
    /\ pushing = <<>>
    /\ Succ(write_index) # read_index
    /\ pushing' = <<"write", v>>
    /\ UNCHANGED <<tasks, write_index, read_index, popping, task, popped>>

try_push_write ==
    /\ pushing # <<>>
    /\ pushing[1] = "write"
    /\ tasks' = [tasks EXCEPT ![write_index] = pushing[2]]
    /\ pushing' = <<"publish", pushing[2]>>
    /\ UNCHANGED <<write_index, read_index, popping, task, popped>>

try_push_publish ==
    /\ pushing # <<>>
    /\ pushing[1] = "publish"
    /\ write_index' = Succ(write_index)
    /\ pushing' = <<>>
    /\ UNCHANGED <<tasks, read_index, popping, task, popped>>

\* An empty ring yields nothing: no step.
try_pop_check ==
    /\ popping = "idle"
    /\ read_index # write_index
    /\ popping' = "take"
    /\ UNCHANGED <<tasks, write_index, read_index, pushing, task, popped>>

\* Mutant: the index is incremented before the slot is read.
try_pop_take_next ==
    /\ popping = "take"
    /\ task' = tasks[Succ(read_index)]
    /\ tasks' = [tasks EXCEPT ![Succ(read_index)] = Empty]
    /\ popping' = "advance"
    /\ UNCHANGED <<write_index, read_index, pushing, popped>>

try_pop_take ==
    /\ popping = "take"
    /\ task' = tasks[read_index]
    /\ tasks' = [tasks EXCEPT ![read_index] = Empty]
    /\ popping' = "advance"
    /\ UNCHANGED <<write_index, read_index, pushing, popped>>

try_pop_advance ==
    /\ popping = "advance"
    /\ read_index' = Succ(read_index)
    /\ popped' = <<task>>
    /\ task' = Empty
    /\ popping' = "idle"
    /\ UNCHANGED <<tasks, write_index, pushing>>

Next ==
    \/ \E v \in Task : try_push_check(v)
    \/ try_push_write
    \/ try_push_publish
    \/ try_pop_check
    \/ try_pop_take
    \/ try_pop_advance

Spec == Init /\ [][Next]_vars

-----------------------------------------------------------------------------
Length == (write_index + Capacity - read_index) % Capacity

\* The tasks between the indices; the one being moved out still counts.
Contents ==
    [k \in 1..Length |->
        IF k = 1 /\ popping = "advance"
        THEN task
        ELSE tasks[(read_index + k - 1) % Capacity]]

Abstract == INSTANCE BoundedQueue
    WITH Limit <- Capacity - 1, items <- Contents, taken <- popped

\* The ring is a bounded queue: a task is popped once, in the order pushed,
\* and no push disturbs a task that has not been popped.
RingIsBoundedQueue == Abstract!Spec

\* The event loop never writes the slot the worker is moving a task out of.
NoSlotRace ==
    ~(/\ pushing # <<>>
      /\ popping # "idle"
      /\ write_index = read_index)
=============================================================================
