------------------------------- MODULE Playout -------------------------------
(***************************************************************************)
(* The way of one participant's packets from the network to the speakers   *)
(* (src/client/client_runtime.cpp): handle_audio_message on the network    *)
(* thread, audio_callback on the device's thread, the window's mute button *)
(* and the reset of the audio path, over one packet queue.                 *)
(*                                                                         *)
(* Packets 0..Packets-1 carry consecutive sequence numbers from First on,  *)
(* which wrap.  Each reaches the queue at most once (GapsAreReal of module *)
(* RedundantAudio), in any order.  The jitter target is a constant here    *)
(* (JitterTarget models how it moves).  The counters of delivered, dropped *)
(* and lost packets are kept per packet: a counter of the code is the sum. *)
(***************************************************************************)
EXTENDS PacketQueue

CONSTANTS
    Packets, First,
    Target,          \* jitter_buffer_min_packets, at least 1
    BurstHeadroom,   \* 3 packets over the target start a trim
    QueueLimit,      \* max_receive_queue_packets
    PacketFrames,    \* frames of a packet
    Callbacks,       \* a callback: the frames it asks for, the decodes left for it
    PcmFrames,       \* size of opus_pcm_buffer
    EmptyLimit,      \* opus_rebuffer_empty_callback_threshold
    MaxResets        \* how often the window mutes or resets

VARIABLES
    queue,      \* opus_queue
    admitted,   \* admission_tracker_: the first packet admitted, and all
    arrived,    \* packets the network thread has taken
    net,        \* where the network thread is in handle_audio_message
    muted,
    ready,      \* buffer_ready
    flush,      \* delivery_stall_flush_requested
    pcm,        \* decoded chunks in opus_pcm_buffer, with their frames
    empties,    \* opus_consecutive_empty_callbacks
    cb,         \* where the audio callback is
    closed,     \* admission_closed_ and receiver_drop_publications_closed_
    resets,     \* how often the window muted or reset
    outcome     \* per packet: how often counted delivered, how often dropped or lost

vars == <<queue, admitted, arrived, net, muted, ready, flush, pcm, empties, cb, closed, resets,
          outcome>>
Number == 0..Packets-1
Sequence(n) == (First + n) % Modulus
Of(s) == Distance(First, s)
NoneAdmitted == [first |-> 0, all |-> {}]
Quiet == [at |-> "idle", n |-> 0, limit |-> 0]
Asleep == [at |-> "idle", budget |-> 0, frames |-> 0, size |-> 0, goal |-> 0]
Chunk(n, media) == [n |-> n, media |-> media, frames |-> PacketFrames]

Init ==
    /\ queue = EmptyQueue /\ admitted = NoneAdmitted /\ arrived = {} /\ net = Quiet
    /\ muted = FALSE /\ ready = FALSE /\ flush = FALSE
    /\ pcm = <<>> /\ empties = 0 /\ cb = Asleep /\ closed = FALSE /\ resets = 0
    /\ outcome = [n \in Number |-> [good |-> 0, bad |-> 0]]

\* The numbers of sequences S are counted as dropped or lost.
Bad(o, S) == [n \in Number |-> IF Sequence(n) \in S THEN [o[n] EXCEPT !.bad = @ + 1] ELSE o[n]]
Good(o, ns) == [n \in Number |-> IF n \in ns THEN [o[n] EXCEPT !.good = @ + 1] ELSE o[n]]

-----------------------------------------------------------------------------
(* The network thread: handle_audio_message                                 *)

netFrame == <<muted, pcm, empties, cb, closed, resets, outcome>>

\* admission_tracker_.has_unresolved_gap: skipped after the first packet.
has_unresolved_gap(n) ==
    /\ n > admitted.first /\ n \notin admitted.all
    /\ \E k \in admitted.all : k > n

\* One packet more for the one playout waits for, and before playout begins
\* for one that was skipped.
admission_limit(n) ==
    LET limit == Min({QueueLimit, Capacity})
    IN  IF \/ queue.initialized /\ Sequence(n) = queue.next
           \/ ~queue.initialized /\ has_unresolved_gap(n)
        THEN limit + 1 ELSE limit

\* A packet to enqueue arrives.  It may be the one too many of a burst after a
\* stall: more than Target packets since the stall, and one before it.
arrive(n) ==
    /\ net = Quiet /\ n \notin arrived
    /\ arrived' = arrived \cup {n}
    /\ \E burst \in BOOLEAN :
           flush' = (flush \/ (burst /\ Cardinality(arrived) > Max({1, Target})))
    /\ net' = [at |-> IF closed THEN "drop" ELSE "admit", n |-> n, limit |-> admission_limit(n)]
    /\ UNCHANGED <<queue, admitted, ready>> /\ UNCHANGED netFrame

enqueue_bounded ==
    /\ net.at = "admit"
    /\ IF queue.buffered < net.limit
       THEN /\ queue' = [queue EXCEPT !.buffered = @ + 1,
                                      !.incoming = Append(@, Sequence(net.n))]
            /\ admitted' = [first |-> IF admitted.all = {} THEN net.n ELSE admitted.first,
                             all |-> admitted.all \cup {net.n}]
            /\ net' = [net EXCEPT !.at = "mark"]
       ELSE net' = [net EXCEPT !.at = "drop"] /\ UNCHANGED <<queue, admitted>>
    /\ UNCHANGED <<arrived, ready, flush>> /\ UNCHANGED netFrame

mark_ready ==
    /\ net.at = "mark"
    /\ ready' = (ready \/ queue.buffered >= Target)
    /\ empties' = IF ready' # ready THEN 0 ELSE empties
    /\ net' = Quiet
    /\ UNCHANGED <<queue, admitted, arrived, muted, flush, pcm, cb, closed, resets, outcome>>

\* A packet with no room is recorded as dropped here, unless the participant
\* is muted, or a dequeue, a trim or a reset has the record closed.
begin_receiver_drop ==
    /\ net.at = "drop"
    /\ \/ ~muted /\ ~closed /\ net' = [net EXCEPT !.at = "publish"]
       \/ (muted \/ closed \/ cb.at # "idle") /\ net' = Quiet
    /\ UNCHANGED <<queue, admitted, arrived, ready, flush>> /\ UNCHANGED netFrame

record_receiver_drop ==
    /\ net.at = "publish"
    /\ queue' = [queue EXCEPT !.slots =
                    IF closed \/ already_played(queue, Sequence(net.n)) THEN @
                    ELSE record(@, Sequence(net.n))]
    /\ net' = Quiet
    /\ UNCHANGED <<admitted, arrived, ready, flush>> /\ UNCHANGED netFrame

-----------------------------------------------------------------------------
(* The audio callback                                                       *)

cbFrame == <<admitted, arrived, net, muted, closed, resets>>
Open == net.at # "publish"
Frames == FoldLeft(LAMBDA sum, c : sum + c.frames, 0, pcm)
Media(chunks) == {Sequence(c.n) : c \in {d \in Range(chunks) : d.media}}

begin_callback(budget, frames) ==
    /\ cb = Asleep /\ ~closed
    /\ IF muted
       THEN /\ queue' = discard_all_for_local_mute(queue, Open)
            /\ pcm' = <<>> /\ ready' = FALSE /\ empties' = 0
            /\ UNCHANGED <<cb, outcome, flush>>
       ELSE /\ outcome' = Bad(outcome, queue.internal)
            /\ queue' = [queue EXCEPT !.internal = {}]
            /\ flush' = FALSE
            /\ cb' = [at |-> IF flush /\ queue.buffered > Target THEN "flush" ELSE "ready",
                      budget |-> budget, frames |-> frames,
                      size |-> queue.buffered, goal |-> Target]
            /\ UNCHANGED <<pcm, ready, empties>>
    /\ UNCHANGED cbFrame

\* One round of flush_stalled_delivery_backlog or of
\* trim_opus_queue_to_latency_target, from the size read at its start.
discard_oldest(trim, then) ==
    /\ queue' = trim.queue
    /\ outcome' = Bad(outcome, trim.lost)
    /\ cb' = IF trim.done /\ cb.size - 1 > cb.goal THEN [cb EXCEPT !.size = @ - 1]
             ELSE [cb EXCEPT !.at = then, !.size = 0, !.goal = 0]
    /\ UNCHANGED <<pcm, ready, empties, flush>> /\ UNCHANGED cbFrame
flush_stalled_delivery_backlog ==
    cb.at = "flush" /\ discard_oldest(discard_oldest_for_latency_trim(queue, Open), "ready")
trim_opus_queue_to_latency_target ==
    cb.at = "trim" /\ discard_oldest(discard_oldest_for_latency_trim(queue, Open), "play")

check_ready ==
    /\ cb.at = "ready"
    /\ ready' = (ready \/ queue.buffered >= Target)
    /\ empties' = IF ready' # ready THEN 0 ELSE empties
    /\ cb' = IF ~ready' THEN Asleep
             ELSE IF queue.buffered > Min({Capacity, Target + BurstHeadroom})
             THEN [cb EXCEPT !.at = "trim", !.size = queue.buffered, !.goal = Target]
             ELSE [cb EXCEPT !.at = "play", !.size = 0, !.goal = 0]
    /\ UNCHANGED <<queue, pcm, flush, outcome>> /\ UNCHANGED cbFrame

\* A plausible slip: a chunk counts when the first of it is played.
Consumed_early(count) ==
    LET take(state, c) ==
            LET part == Min({c.frames, state.left})
            IN  [left |-> state.left - part,
                 rest |-> IF part = c.frames THEN state.rest
                          ELSE Append(state.rest, [c EXCEPT !.frames = @ - part]),
                 done |-> IF part > 0 /\ c.media THEN state.done \cup {c.n} ELSE state.done]
    IN  FoldLeft(take, [left |-> count, rest |-> <<>>, done |-> {}], pcm)

\* count frames leave the buffer from the front; a chunk played out counts as
\* delivered when it was received.
Consumed(count) ==
    LET take(state, c) ==
            LET part == Min({c.frames, state.left})
            IN  [left |-> state.left - part,
                 rest |-> IF part = c.frames THEN state.rest
                          ELSE Append(state.rest, [c EXCEPT !.frames = @ - part]),
                 done |-> IF part = c.frames /\ c.media THEN state.done \cup {c.n} ELSE state.done]
    IN  FoldLeft(take, [left |-> count, rest |-> <<>>, done |-> {}], pcm)
consume_chunks ==
    /\ pcm' = Consumed(cb.frames).rest
    /\ outcome' = Good(outcome, Consumed(cb.frames).done)
    /\ empties' = 0

\* Enough decoded frames are left over.
play_buffered ==
    /\ cb.at = "play" /\ Frames >= cb.frames
    /\ consume_chunks
    /\ cb' = Asleep
    /\ UNCHANGED <<queue, ready, flush>> /\ UNCHANGED cbFrame

Patience(frames) == (PacketFrames + frames - 1) \div frames
Next_packet == dequeue(queue, Patience(cb.frames), Open)
MayDequeue == cb.at = "play" /\ Frames < cb.frames /\ cb.budget > 0

out_of_budget ==
    /\ cb.at = "play" /\ Frames < cb.frames /\ cb.budget = 0
    /\ cb' = Asleep
    /\ UNCHANGED <<queue, ready, flush, pcm, empties, outcome>> /\ UNCHANGED cbFrame

\* Nothing to decode: what is left is played with a tail.  An empty queue, and
\* no frames either, conceals; after EmptyLimit times the buffer fills anew.
play_without_packet(next) ==
    /\ MayDequeue /\ next.status # "Packet"
    /\ queue' = next.queue
    /\ cb' = Asleep
    /\ LET starved == next.status = "Empty" /\ ready
       IN  IF pcm # <<>> THEN consume_chunks /\ UNCHANGED ready
           ELSE /\ ready' = (ready /\ ~(starved /\ empties + 1 >= EmptyLimit))
                /\ empties' = IF ~starved THEN empties
                              ELSE IF ready' THEN empties + 1 ELSE 0
                /\ UNCHANGED <<pcm, outcome>>
    /\ UNCHANGED flush /\ UNCHANGED cbFrame

\* A packet is decoded into the buffer.  After a gap the decoder is reset and
\* the undelivered rest is lost with it; so is everything if it does not fit.
Decode(p, counted, whenFull, failed) ==
    LET kept == IF p.reset THEN <<>> ELSE pcm
        cut == counted \cup (IF p.reset THEN Media(pcm) ELSE {})
        full == FoldLeft(LAMBDA sum, c : sum + c.frames, PacketFrames, kept) > PcmFrames
        own == {p.number}
        left == [cb EXCEPT !.budget = @ - 1]
    IN  \/ /\ pcm' = kept /\ outcome' = Bad(outcome, cut \cup own)
           /\ cb' = failed
        \/ /\ pcm' = IF full THEN <<>> ELSE Append(kept, Chunk(Of(p.number), ~p.conceal))
           /\ outcome' = Bad(outcome, cut \cup (IF p.conceal \/ full THEN own ELSE {})
                                          \cup (IF full THEN Media(kept) ELSE {}))
           /\ cb' = [left EXCEPT !.at = IF full THEN whenFull ELSE "more"]

\* The first packet of a callback is dropped while it is too old.  The packets
\* given up before a later one of those are not counted.
play_packet(next) ==
    LET p == next.packet
        counted == IF cb.at = "play" THEN p.abandoned ELSE {}
    IN  /\ MayDequeue \/ cb.at = "again"
        /\ next.status = "Packet"
        /\ queue' = next.queue
        /\ \/ /\ ~p.conceal
              /\ outcome' = Bad(outcome, counted \cup {p.number})
              /\ cb' = [cb EXCEPT !.at = "again"]
              /\ UNCHANGED pcm
           \/ Decode(p, counted, "more", Asleep)
        /\ UNCHANGED <<ready, flush, empties>> /\ UNCHANGED cbFrame

none_young_enough(next) ==
    /\ cb.at = "again" /\ next.status # "Packet"
    /\ queue' = next.queue
    /\ cb' = Asleep
    /\ UNCHANGED <<ready, flush, pcm, empties, outcome>> /\ UNCHANGED cbFrame

\* More packets, until there are frames enough.
play_more(next) ==
    LET p == next.packet
    IN  /\ cb.at = "more" /\ Frames < cb.frames /\ cb.budget > 0
        /\ queue' = next.queue
        /\ IF next.status = "Packet"
           THEN Decode(p, p.abandoned, "mix", [cb EXCEPT !.at = "mix", !.budget = @ - 1])
           ELSE cb' = [cb EXCEPT !.at = "mix"] /\ UNCHANGED <<pcm, outcome>>
        /\ UNCHANGED <<ready, flush, empties>> /\ UNCHANGED cbFrame

mix ==
    /\ \/ cb.at = "mix"
       \/ cb.at = "more" /\ (Frames >= cb.frames \/ cb.budget = 0)
    /\ IF pcm = <<>> THEN UNCHANGED <<pcm, outcome, empties>> ELSE consume_chunks
    /\ cb' = Asleep
    /\ UNCHANGED <<queue, ready, flush>> /\ UNCHANGED cbFrame

-----------------------------------------------------------------------------
(* The window                                                               *)

toggle_mute ==
    /\ muted \/ resets < MaxResets
    /\ muted' = ~muted /\ resets' = IF muted THEN resets ELSE resets + 1
    /\ UNCHANGED <<queue, admitted, arrived, net, ready, flush, pcm, empties, cb, closed, outcome>>

\* reset_audio_path, with the device stopped: clear closes the queue, waits
\* for the network thread to be out of it, and empties it.
begin_clear ==
    /\ cb = Asleep /\ ~closed /\ resets < MaxResets
    /\ closed' = TRUE /\ resets' = resets + 1
    /\ UNCHANGED <<queue, admitted, arrived, net, muted, ready, flush, pcm, empties, cb, outcome>>
end_clear ==
    /\ closed /\ net.at \notin {"admit", "publish"}
    /\ queue' = EmptyQueue /\ admitted' = NoneAdmitted /\ closed' = FALSE
    /\ pcm' = <<>> /\ ready' = FALSE /\ empties' = 0
    /\ UNCHANGED <<arrived, net, muted, flush, cb, resets, outcome>>

Next ==
    \/ \E n \in Number : arrive(n)
    \/ enqueue_bounded \/ mark_ready \/ begin_receiver_drop \/ record_receiver_drop
    \/ \E c \in Callbacks : begin_callback(c.budget, c.frames)
    \/ flush_stalled_delivery_backlog \/ check_ready \/ trim_opus_queue_to_latency_target
    \/ play_buffered \/ out_of_budget \/ play_without_packet(Next_packet)
    \/ play_packet(Next_packet) \/ none_young_enough(Next_packet)
    \/ play_more(Next_packet) \/ mix
    \/ toggle_mute \/ begin_clear \/ end_clear
Spec == Init /\ [][Next]_vars

-----------------------------------------------------------------------------
(* Properties                                                               *)

\* The variables have their types; buffered_count_ is the packets in the queue,
\* within the bound of the queue and the one packet admission_limit adds.
TypeOK ==
    /\ queue.buffered \in 0..Capacity+1 /\ queue.sequenced \subseteq Wire
    /\ queue.next \in Wire /\ queue.wait \in 0..PacketFrames /\ queue.run \in 0..MaxGapPlc
    /\ queue.slots \in [Slot -> [first : Wire, count : 0..Modulus-1]]
    /\ net.at \in {"idle", "admit", "mark", "drop", "publish"}
    /\ cb.at \in {"idle", "flush", "ready", "trim", "play", "again", "more", "mix"}
    /\ empties \in 0..EmptyLimit-1 /\ Frames <= PcmFrames
    /\ queue.buffered = Len(queue.incoming) + Cardinality(queue.sequenced)
    /\ queue.buffered <= QueueLimit + 1

\* What a report says of a packet is true: it is delivered at most once, and
\* one that was delivered was not counted as dropped or lost.  (A mute or a
\* reset makes playout start over, among packets it was past.)
DeliveredNotLost ==
    \A n \in Number : /\ outcome[n].good <= 1
                      /\ resets = 0 /\ outcome[n].good = 1 => outcome[n].bad = 0

\* Decoded audio is in the order of capture, and playout is past all of it.
PlayedInOrder ==
    /\ \A i, j \in 1..Len(pcm) : i < j => pcm[i].n < pcm[j].n
    /\ \A c \in Range(pcm) : already_played(queue, Sequence(c.n))
=============================================================================
