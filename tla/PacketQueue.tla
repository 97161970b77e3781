----------------------------- MODULE PacketQueue -----------------------------
(***************************************************************************)
(* ParticipantOpusPacketQueue (src/client/participant_info.h): the packets *)
(* of one participant between the network thread, which admits them, and   *)
(* the audio callback, which takes them out in order of their sequence     *)
(* numbers, conceals the missing ones and keeps count of those this client *)
(* dropped itself.                                                         *)
(*                                                                         *)
(* The queue is a record; an operator gives the queue after the call.      *)
(* handle_audio_message marks every sequence number as valid, so the list  *)
(* for packets without one is left out.                                    *)
(***************************************************************************)
EXTENDS Integers, Sequences, FiniteSets, SequencesExt

CONSTANTS
    Modulus,     \* 2^32 in the code
    Capacity,    \* MAX_OPUS_QUEUE_SIZE
    MaxGapPlc,   \* MAX_OPUS_CONSECUTIVE_GAP_PLC_PACKETS
    DropSlots    \* MAX_RECEIVER_DROP_RANGES

Wire == 0..Modulus-1
Slot == 1..DropSlots
Distance(a, b) == (b - a) % Modulus
Following(s) == (s + 1) % Modulus
\* A plausible slip: the numbers are compared as they are, wrapped or not.
sequence_before_plain(a, b) == a < b
sequence_before(a, b) == Distance(a, b) \in 1..(Modulus \div 2)-1

-----------------------------------------------------------------------------
(* ReceiverDroppedRanges: slots [first, count], free when count = 0         *)

Run(first, count) == [first |-> first, count |-> count]
FreeSlot == Run(0, 0)
NoRanges == [k \in Slot |-> FreeSlot]
Holds(range, s) == Distance(range.first, s) < range.count

\* A number joins the first range that holds it or that it extends; else it
\* takes the first free slot, or the slot its value picks.
record(slots, s) ==
    LET used == {k \in Slot : slots[k].count > 0}
        above(k) == Distance(slots[k].first, s) = slots[k].count
        below(k) == Distance(s, slots[k].first) = 1
        fits == {k \in used : Holds(slots[k], s) \/ above(k) \/ below(k)}
        free == Slot \ used
        k0 == IF fits # {} THEN Min(fits)
              ELSE IF free # {} THEN Min(free)
              ELSE (s % DropSlots) + 1
    IN  [slots EXCEPT ![k0] =
            IF fits = {} THEN Run(s, 1)
            ELSE IF Holds(@, s) THEN @
            ELSE IF above(k0) THEN Run(@.first, @.count + 1)
            ELSE Run(s, @.count + 1)]

HoldingSlots(slots, s) == {k \in Slot : Holds(slots[k], s)}

\* Out of the middle of a range a number takes the rest with it.
consume(slots, s) ==
    LET found == HoldingSlots(slots, s)
        k0 == Min(found)
    IN  IF found = {} THEN slots
        ELSE [slots EXCEPT ![k0] =
                 IF @.count = 1 THEN FreeSlot
                 ELSE IF s = @.first THEN Run(Following(s), @.count - 1)
                 ELSE IF Distance(@.first, s) = @.count - 1 THEN Run(@.first, @.count - 1)
                 ELSE FreeSlot]

\* What count numbers from first on share with the ranges that start there.
Overlap(range, first, count) ==
    LET start == Distance(first, range.first)
    IN  IF range.count > 0 /\ start < count THEN Min({range.count, count - start}) ELSE 0
consume_range(slots, first, count) ==
    [k \in Slot |->
        LET shared == Overlap(slots[k], first, count)
        IN  IF shared = slots[k].count THEN FreeSlot
            ELSE Run((slots[k].first + shared) % Modulus, slots[k].count - shared)]

-----------------------------------------------------------------------------
(* The queue                                                                *)

EmptyQueue ==
    [incoming |-> <<>>,      \* admitted, not seen by the callback yet
     sequenced |-> {},       \* sorted by the callback
     buffered |-> 0,         \* buffered_count_
     initialized |-> FALSE,  \* playout_initialized_, and its snapshot
     next |-> 0,             \* next_playout_sequence_, and its snapshot
     wait |-> 0,             \* gap_wait_callbacks_ for gap_wait_sequence_ = next
     run |-> 0,              \* gap_loss_run_packets_; > 0 while the run is active
     slots |-> NoRanges,     \* receiver_dropped_ranges_
     internal |-> {}]        \* internal_receiver_drops_, by number

Earliest(q) == CHOOSE s \in q.sequenced : \A t \in q.sequenced : ~sequence_before(t, s)
Latest(q) == CHOOSE s \in q.sequenced : \A t \in q.sequenced : ~sequence_before(s, t)
already_played(q, s) == q.initialized /\ sequence_before(s, q.next)

\* A plausible slip: a packet that is dropped stays counted.
drain_packet_uncounted(q, s) ==
    IF already_played(q, s) \/ s \in q.sequenced \/ Cardinality(q.sequenced) >= Capacity THEN q
    ELSE [q EXCEPT !.sequenced = @ \cup {s}]

\* A stale or repeated packet is dropped; in a full list the latest makes way
\* for an earlier one, and its number counts as dropped here.
drain_packet(q, s) ==
    LET gone == [q EXCEPT !.buffered = @ - 1]
        latest == Latest(q)
        dropped == IF sequence_before(s, latest) THEN latest ELSE s
    IN  IF already_played(q, s) \/ s \in q.sequenced THEN gone
        ELSE IF Cardinality(q.sequenced) < Capacity
        THEN [q EXCEPT !.sequenced = @ \cup {s}]
        ELSE [gone EXCEPT !.sequenced = (@ \cup {s}) \ {dropped},
                          !.slots = IF already_played(q, dropped) THEN @ ELSE record(@, dropped)]

drain_incoming_for_playout(q) ==
    [FoldLeft(drain_packet, q, q.incoming) EXCEPT !.incoming = <<>>]

\* The oldest packet goes, to catch up.  Its loss is counted now when playout
\* is at its number or has not begun, else when playout gets there.
discard_oldest_drained(q, s, open) ==
    LET ready == ~q.initialized \/ s = q.next
        erased == [q EXCEPT !.sequenced = @ \ {s}, !.buffered = @ - 1,
                            !.slots = IF ready THEN @ ELSE record(@, s)]
    IN  IF ~open \/ q.sequenced = {} THEN [done |-> FALSE, queue |-> q, lost |-> {}]
        ELSE [done |-> TRUE,
              queue |-> IF q.initialized /\ ready
                        THEN [erased EXCEPT !.next = Following(s), !.wait = 0] ELSE erased,
              lost |-> IF ready THEN {s} ELSE {}]
discard_oldest_for_latency_trim(q, open) ==
    LET drained == drain_incoming_for_playout(q)
    IN  discard_oldest_drained(drained, Earliest(drained), open)

\* A muted participant's packets go without being counted, and playout starts
\* over with whatever comes next.
discard_all_for_local_mute(q0, open) ==
    LET q == drain_incoming_for_playout(q0)
    IN  IF open THEN [EmptyQueue EXCEPT !.buffered = q.buffered - Cardinality(q.sequenced)]
                ELSE q

-----------------------------------------------------------------------------
(* dequeue: the next packet, or why there is none                           *)

Packet(s) == [number |-> s, conceal |-> FALSE, pending |-> FALSE, reset |-> FALSE,
              abandoned |-> {}]
Dequeued(status, packet, q) == [status |-> status, packet |-> packet, queue |-> q]
Nothing(status, q) == Dequeued(status, Packet(0), q)

Take(q, s) == [q EXCEPT !.sequenced = @ \ {s}, !.buffered = @ - 1, !.next = Following(s),
                        !.run = 0, !.wait = 0]

\* Playout steps over the numbers this client dropped, up to the earliest
\* packet.
step_over(q, s) ==
    IF q.next # s /\ HoldingSlots(q.slots, q.next) # {}
    THEN [q EXCEPT !.slots = consume(q.slots, q.next), !.internal = @ \cup {q.next},
                   !.next = Following(@), !.wait = 0]
    ELSE q
skip_receiver_drops(q, s) ==
    FoldLeft(LAMBDA r, k : step_over(r, s), q, [k \in 1..Distance(q.next, s) |-> k])

Gap(q, s) == {(q.next + k) % Modulus : k \in 0..Distance(q.next, s)-1}

\* With packets from playout's number on only, the earliest of them s, and the
\* numbers dropped here stepped over: a missing number is waited for, patience
\* callbacks long; then it is concealed, at most MaxGapPlc times in a row;
\* then the rest is given up.
dequeue_earliest(q, s, skipped, patience) ==
    IF q.next = s
    THEN Dequeued("Packet", [Packet(s) EXCEPT !.reset = skipped], Take(q, s))
    ELSE IF q.run = 0 /\ q.wait < patience
    THEN Nothing("WaitingForGap", [q EXCEPT !.wait = @ + 1])
    ELSE IF q.run >= MaxGapPlc
    THEN Dequeued("Packet", [Packet(s) EXCEPT !.reset = TRUE, !.abandoned = Gap(q, s)],
             [Take(q, s) EXCEPT !.slots = consume_range(q.slots, q.next, Distance(q.next, s))])
    ELSE Dequeued("Packet",
             [Packet(q.next) EXCEPT !.conceal = TRUE,
                                    !.pending = HoldingSlots(q.slots, q.next) # {}],
             [q EXCEPT !.slots = consume(@, q.next), !.next = Following(@),
                       !.run = @ + 1, !.wait = 0])

discard_stale(q) ==
    LET current == {s \in q.sequenced : ~sequence_before(s, q.next)}
    IN  [q EXCEPT !.sequenced = current,
                  !.buffered = @ - Cardinality(q.sequenced \ current)]

dequeue_current(q, patience) ==
    IF q.sequenced = {} THEN Nothing("Empty", [q EXCEPT !.wait = 0])
    ELSE dequeue_earliest(skip_receiver_drops(q, Earliest(q)), Earliest(q),
                          q.next # Earliest(q), patience)

dequeue_drained(q, patience, open) ==
    IF q.sequenced = {} THEN Nothing("Empty", [q EXCEPT !.wait = 0])
    ELSE IF ~open THEN Nothing("WaitingForGap", q)
    ELSE IF q.initialized THEN dequeue_current(discard_stale(q), patience)
    ELSE dequeue_current([q EXCEPT !.initialized = TRUE, !.next = Earliest(q)], patience)

dequeue(q, patience, open) ==
    dequeue_drained(drain_incoming_for_playout(q), patience, open)
=============================================================================
