------------------------ MODULE MediaTaskQueueProofs ------------------------
(***************************************************************************)
(* The lock-free ring implements the bounded queue, for every number of    *)
(* slots and every set of tasks: RingIsBoundedQueue holds of MediaTaskQueue*)
(* and NoSlotRace is an invariant of it.                                   *)
(***************************************************************************)
EXTENDS MediaTaskQueue, SequenceTheorems, TLAPS

----------------------------------------------------------------------------
(* Arithmetic modulo the number of slots, without the modulus.              *)

\* An index below the number of slots is its own remainder.
LEMMA ModSmall ==
    ASSUME NEW c \in Nat \ {0}, NEW a \in Nat, a < c
    PROVE  a % c = a
  BY SMT

\* An index that has run past the end once is taken back by it.
LEMMA ModOnce ==
    ASSUME NEW c \in Nat \ {0}, NEW a \in Nat, c <= a, a < 2 * c
    PROVE  a % c = a - c
  BY SMT

\* The slot after i.
After(i) == IF i = Capacity - 1 THEN 0 ELSE i + 1

\* try_push and try_pop advance an index by one slot, around the ring's end.
LEMMA SuccIsAfter ==
    ASSUME CapacityAssumption, NEW i \in Slot
    PROVE  Succ(i) = After(i) /\ After(i) \in Slot
<1>1. CASE i = Capacity - 1
  BY <1>1, ModOnce DEF CapacityAssumption, Slot, Succ, After
<1>2. CASE i # Capacity - 1
  BY <1>2, ModSmall DEF CapacityAssumption, Slot, Succ, After
<1> QED
  BY <1>1, <1>2

\* The slot k - 1 places after r.
Place(r, k) == IF r + k - 1 < Capacity THEN r + k - 1 ELSE r + k - 1 - Capacity

\* The k-th queued task lies k - 1 slots after the read index, around the end.
LEMMA PlaceIsMod ==
    ASSUME CapacityAssumption, NEW r \in Slot, NEW k \in 1..Capacity
    PROVE  (r + k - 1) % Capacity = Place(r, k) /\ Place(r, k) \in Slot
<1>1. r + k - 1 \in Nat /\ r + k - 1 < 2 * Capacity
  BY DEF CapacityAssumption, Slot
<1>2. CASE r + k - 1 < Capacity
  BY <1>1, <1>2, ModSmall DEF CapacityAssumption, Slot, Place
<1>3. CASE Capacity <= r + k - 1
  BY <1>1, <1>3, ModOnce DEF CapacityAssumption, Slot, Place
<1> QED
  BY <1>1, <1>2, <1>3 DEF CapacityAssumption, Slot

\* How many slots lead from r to w.
Between(r, w) == IF r <= w THEN w - r ELSE w + Capacity - r

\* The ring holds as many tasks as slots lead from the read to the write index,
\* always one less than there are slots.
LEMMA LengthIsBetween ==
    ASSUME CapacityAssumption, write_index \in Slot, read_index \in Slot
    PROVE  Length = Between(read_index, write_index) /\ Length \in 0..Capacity-1
<1>1. CASE read_index <= write_index
  <2> DEFINE a == write_index + Capacity - read_index
  <2>1. a \in Nat /\ Capacity <= a /\ a < 2 * Capacity
    BY <1>1 DEF CapacityAssumption, Slot
  <2>2. a % Capacity = a - Capacity
    <3> HIDE DEF a
    <3> QED
      BY <2>1, ModOnce DEF CapacityAssumption
  <2> QED
    BY <1>1, <2>2 DEF CapacityAssumption, Slot, Length, Between
<1>2. CASE write_index < read_index
  BY <1>2, ModSmall DEF CapacityAssumption, Slot, Length, Between
<1> QED
  BY <1>1, <1>2 DEF CapacityAssumption, Slot

----------------------------------------------------------------------------
(* The inductive invariant.                                                 *)

\* The slots from the read index up to the write index.
Used(i) ==
    IF read_index <= write_index
    THEN read_index <= i /\ i < write_index
    ELSE read_index <= i \/ i < write_index

\* A push under way has room, a pop under way has a task; a slot in use holds
\* a task, unless try_pop has just moved it out; a task that is written but not
\* published is at the write index.
RingInv ==
    /\ TypeOK
    /\ pushing # <<>> => After(write_index) # read_index
    /\ popping # "idle" => read_index # write_index
    /\ popping = "advance" => task \in Task
    /\ \A i \in Slot : Used(i) /\ ~(popping = "advance" /\ i = read_index) => tasks[i] \in Task
    /\ pushing # <<>> /\ pushing[1] = "publish" => tasks[write_index] = pushing[2]

\* An empty ring satisfies the invariant.
LEMMA RingInvInit == ASSUME CapacityAssumption, Init PROVE RingInv
  BY DEF CapacityAssumption, Init, RingInv, TypeOK, Slot, Used

\* Each access of try_push and try_pop keeps the invariant.
LEMMA RingInvNext ==
    ASSUME CapacityAssumption, RingInv, [Next]_vars
    PROVE  RingInv'
<1> USE DEF RingInv, TypeOK
<1>1. ASSUME NEW v \in Task, try_push_check(v) PROVE RingInv'
  BY <1>1, SuccIsAfter DEF try_push_check, Used, After
<1>2. ASSUME try_push_write PROVE RingInv'
  BY <1>2, SuccIsAfter DEF try_push_write, Used, After, Slot, CapacityAssumption
<1>3. ASSUME try_push_publish PROVE RingInv'
  BY <1>3, SuccIsAfter DEF try_push_publish, Used, After, Slot, CapacityAssumption
<1>4. ASSUME try_pop_check PROVE RingInv'
  BY <1>4, SuccIsAfter DEF try_pop_check, Used, After
<1>5. ASSUME try_pop_take PROVE RingInv'
  BY <1>5, SuccIsAfter DEF try_pop_take, Used, After, Slot, CapacityAssumption
<1>6. ASSUME try_pop_advance PROVE RingInv'
  BY <1>6, SuccIsAfter DEF try_pop_advance, Used, After, Slot, CapacityAssumption
<1>7. ASSUME UNCHANGED vars PROVE RingInv'
  BY <1>7 DEF vars, Used, After
<1> QED
  BY <1>1, <1>2, <1>3, <1>4, <1>5, <1>6, <1>7 DEF Next
----------------------------------------------------------------------------
(* The queue the ring stands for.                                           *)

\* Its k-th task is in the slot k - 1 places after the read index.
ContentsInPlace ==
    /\ Contents \in Seq(Task)
    /\ Len(Contents) = Between(read_index, write_index)
    /\ Len(Contents) \in 0..Capacity-1
    /\ \A k \in 1..Len(Contents) :
          Contents[k] = IF k = 1 /\ popping = "advance" THEN task
                        ELSE tasks[Place(read_index, k)]

\* The queue the ring stands for lies in the slots from the read index on; the
\* task a worker is moving out is still its first.
LEMMA ContentsIs == CapacityAssumption /\ RingInv => ContentsInPlace
<1> SUFFICES ASSUME CapacityAssumption, RingInv PROVE ContentsInPlace
  OBVIOUS
<1>1. Length = Between(read_index, write_index) /\ Length \in 0..Capacity-1
  BY LengthIsBetween DEF RingInv, TypeOK
<1>2. \A k \in 1..Length : /\ Place(read_index, k) = (read_index + k - 1) % Capacity
                           /\ Place(read_index, k) \in Slot
  BY <1>1, PlaceIsMod DEF RingInv, TypeOK, CapacityAssumption
<1>3. \A k \in 1..Length : Used(Place(read_index, k))
  BY <1>1 DEF Used, Place, Between, RingInv, TypeOK, Slot, CapacityAssumption
<1>4. \A k \in 1..Length : Place(read_index, k) = read_index => k = 1
  BY <1>1 DEF Place, RingInv, TypeOK, Slot, CapacityAssumption
<1> DEFINE at(k) == IF k = 1 /\ popping = "advance" THEN task
                    ELSE tasks[Place(read_index, k)]
<1>5. \A k \in 1..Length : at(k) \in Task
  BY <1>2, <1>3, <1>4 DEF RingInv
<1>6. Contents = [k \in 1..Length |-> at(k)]
  BY <1>2 DEF Contents
<1> HIDE DEF at
<1>7. Contents \in [1..Length -> Task] /\ Length \in Nat
  BY <1>1, <1>5, <1>6 DEF CapacityAssumption
<1>8. Contents \in Seq(Task) /\ Len(Contents) = Length
  BY <1>7
<1>9. \A k \in 1..Length : Contents[k] = at(k)
  BY <1>6
<1> QED
  BY <1>1, <1>8, <1>9 DEF at, ContentsInPlace

\* An empty ring is an empty queue.
LEMMA RefinementInit ==
    ASSUME CapacityAssumption, Init
    PROVE  Abstract!Init
<1>1. Len(Contents) = 0 /\ Contents \in Seq(Task)
  BY RingInvInit, ContentsIs DEF Init, Between, ContentsInPlace
<1> QED
  BY <1>1, EmptySeq DEF Init, Abstract!Init

\* The same of the state after a step.
LEMMA ContentsNextIs == CapacityAssumption /\ RingInv' => ContentsInPlace'
<1>1. (CapacityAssumption /\ RingInv => ContentsInPlace)'
  BY ContentsIs, PTL
<1> QED
  BY <1>1 DEF CapacityAssumption

\* A step that leaves the indices alone and every queued task where it is
\* changes nothing in the queue.
LEMMA Stutters ==
    ASSUME CapacityAssumption, ContentsInPlace, ContentsInPlace',
           UNCHANGED <<write_index, read_index>>,
           \A k \in 1..Len(Contents) : Contents'[k] = Contents[k]
    PROVE  Contents' = Contents
<1>1. Len(Contents') = Len(Contents)
  BY DEF Between, ContentsInPlace
<1> QED
  BY <1>1, SeqEqual DEF ContentsInPlace

\* The store of the write index is the push, the store of the read index is the
\* pop, and every other access leaves the queue as it is.
LEMMA RefinementNext ==
    ASSUME CapacityAssumption, RingInv, RingInv', [Next]_vars
    PROVE  [Abstract!Next]_<<Contents, popped>>
<1>1. ContentsInPlace /\ ContentsInPlace'
  BY ContentsIs, ContentsNextIs
<1>2. ASSUME NEW v \in Task, try_push_check(v) PROVE UNCHANGED <<Contents, popped>>
  BY <1>2 DEF try_push_check, Contents, Length
<1>3. ASSUME try_push_write PROVE UNCHANGED <<Contents, popped>>
  <2>1. \A k \in 1..Len(Contents) : Place(read_index, k) \in Slot \ {write_index}
    BY <1>1 DEF ContentsInPlace, Place, Between, RingInv, TypeOK, Slot, CapacityAssumption
  <2>2. \A k \in 1..Len(Contents) : tasks'[Place(read_index, k)] = tasks[Place(read_index, k)]
    BY <1>3, <2>1 DEF try_push_write, RingInv, TypeOK
  <2>3. Len(Contents') = Len(Contents)
    BY <1>1, <1>3 DEF try_push_write, ContentsInPlace, Between
  <2>4. \A k \in 1..Len(Contents) : Contents'[k] = Contents[k]
    BY <1>1, <1>3, <2>2, <2>3 DEF try_push_write, ContentsInPlace, Place
  <2> QED
    BY <1>1, <1>3, <2>4, Stutters DEF try_push_write
<1>4. ASSUME try_push_publish PROVE Abstract!Next
  <2> DEFINE v == pushing[2]
  <2>1. v \in Task /\ tasks[write_index] = v
    BY <1>4 DEF try_push_publish, RingInv, TypeOK
  <2>2. write_index' = After(write_index)
    BY <1>4, SuccIsAfter DEF try_push_publish, RingInv, TypeOK
  <2>3. Len(Contents') = Len(Contents) + 1 /\ Len(Contents) < Capacity - 1
    BY <1>1, <1>4, <2>2
    DEF try_push_publish, ContentsInPlace, Between, After, RingInv, TypeOK, Slot, CapacityAssumption
  <2>4. Place(read_index, Len(Contents) + 1) = write_index
    BY <1>1, <2>3 DEF ContentsInPlace, Between, Place, RingInv, TypeOK, Slot, CapacityAssumption
  <2>5. Len(Contents) = 0 => popping # "advance"
    BY <1>1 DEF ContentsInPlace, Between, RingInv, TypeOK, Slot, CapacityAssumption
  <2>6. \A k \in 1..Len(Contents)+1 :
           Contents'[k] = IF k <= Len(Contents) THEN Contents[k] ELSE v
    BY <1>1, <1>4, <2>1, <2>3, <2>4, <2>5 DEF try_push_publish, ContentsInPlace, Place
  <2>7. Contents' = Append(Contents, v)
    <3> HIDE DEF v
    <3>1. /\ Append(Contents, v) \in Seq(Task)
          /\ Len(Append(Contents, v)) = Len(Contents) + 1
          /\ \A k \in 1..Len(Contents)+1 :
                Append(Contents, v)[k] = IF k <= Len(Contents) THEN Contents[k] ELSE v
      BY <1>1, <2>1 DEF ContentsInPlace
    <3> QED
      BY <1>1, <2>3, <2>6, <3>1, SeqEqual DEF ContentsInPlace
  <2> QED
    BY <1>4, <2>1, <2>3, <2>7 DEF try_push_publish, Abstract!Next, Abstract!Push
<1>5. ASSUME try_pop_check PROVE UNCHANGED <<Contents, popped>>
  BY <1>5 DEF try_pop_check, Contents, Length
<1>6. ASSUME try_pop_take PROVE UNCHANGED <<Contents, popped>>
  <2>1. \A k \in 1..Len(Contents) :
           /\ Place(read_index, k) \in Slot
           /\ Place(read_index, k) = read_index <=> k = 1
    BY <1>1 DEF ContentsInPlace, Place, Between, RingInv, TypeOK, Slot, CapacityAssumption
  <2>2. \A k \in 1..Len(Contents) : Contents'[k] = Contents[k]
    BY <1>1, <1>6, <2>1 DEF try_pop_take, ContentsInPlace, Place, Between, RingInv, TypeOK
  <2> QED
    BY <1>1, <1>6, <2>2, Stutters DEF try_pop_take
<1>7. ASSUME try_pop_advance PROVE Abstract!Next
  <2>1. read_index' = After(read_index)
    BY <1>7, SuccIsAfter DEF try_pop_advance, RingInv, TypeOK
  <2>2. Len(Contents) # 0 /\ Len(Contents') = Len(Contents) - 1
    BY <1>1, <1>7, <2>1
    DEF try_pop_advance, ContentsInPlace, Between, After, RingInv, TypeOK, Slot, CapacityAssumption
  <2>3. Contents # <<>> /\ Head(Contents) = task
    BY <1>1, <1>7, <2>2 DEF try_pop_advance, ContentsInPlace
  <2>4. \A k \in 1..Len(Contents') : Place(read_index', k) = Place(read_index, k + 1)
    BY <1>1, <1>7, <2>1, <2>2
    DEF ContentsInPlace, Place, After, RingInv, TypeOK, Slot, CapacityAssumption
  <2>5. ASSUME NEW k \in 1..Len(Contents') PROVE Contents'[k] = Contents[k + 1]
    <3>1. k + 1 \in 1..Len(Contents) /\ k + 1 # 1
      BY <1>1, <2>2 DEF ContentsInPlace
    <3>2. Contents[k + 1] = tasks[Place(read_index, k + 1)]
      BY <1>1, <3>1 DEF ContentsInPlace
    <3>3. popping' # "advance" /\ tasks' = tasks
      BY <1>7 DEF try_pop_advance
    <3>4. Contents'[k] = tasks'[Place(read_index', k)]
      BY <1>1, <3>3 DEF ContentsInPlace
    <3> QED
      BY <2>4, <3>2, <3>3, <3>4
  <2>6. Contents' = Tail(Contents)
    BY <1>1, <2>2, <2>3, <2>5, HeadTailProperties, SeqEqual DEF ContentsInPlace
  <2> QED
    BY <1>7, <2>3, <2>6 DEF try_pop_advance, Abstract!Next, Abstract!Pop
<1>8. ASSUME UNCHANGED vars PROVE UNCHANGED <<Contents, popped>>
  BY <1>8 DEF vars, Contents, Length
<1> QED
  BY <1>2, <1>3, <1>4, <1>5, <1>6, <1>7, <1>8 DEF Next

----------------------------------------------------------------------------
\* The invariant holds in every reachable state.
THEOREM RingIsSafe == ASSUME CapacityAssumption PROVE Spec => []RingInv
<1>1. Init => RingInv
  BY RingInvInit
<1>2. RingInv /\ [Next]_vars => RingInv'
  BY RingInvNext
<1> QED
  BY <1>1, <1>2, PTL DEF Spec

\* The event loop never writes the slot a worker is moving a task out of
\* (try_push against try_pop), for every number of slots.
THEOREM SlotsDoNotRace == ASSUME CapacityAssumption PROVE Spec => []NoSlotRace
<1>1. RingInv => NoSlotRace
  BY DEF RingInv, NoSlotRace
<1> QED
  BY <1>1, RingIsSafe, PTL

\* The ring implements the bounded queue: tasks are popped once each, in the
\* order pushed, whatever the number of slots and however the accesses of
\* try_push and try_pop interleave.
THEOREM RingRefinesQueue == ASSUME CapacityAssumption PROVE Spec => RingIsBoundedQueue
<1>1. Init => Abstract!Init
  BY RefinementInit
<1>2. RingInv /\ RingInv' /\ [Next]_vars => [Abstract!Next]_<<Contents, popped>>
  BY RefinementNext
<1> QED
  BY <1>1, <1>2, RingIsSafe, PTL DEF Spec, RingIsBoundedQueue, Abstract!Spec
=============================================================================
