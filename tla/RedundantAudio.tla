---------------------------- MODULE RedundantAudio ----------------------------
(***************************************************************************)
(* Redundant audio (src/client/client_runtime.cpp, src/common/             *)
(* audio_packet.h): a datagram carries the newest packet and some of those *)
(* sent before it, so that a packet survives the loss of its own datagram. *)
(* The receiver takes the packets of a datagram apart, oldest first, and   *)
(* numbers them with a SequenceTracker.                                    *)
(*                                                                         *)
(* A packet is its sequence number.  The network loses, repeats and        *)
(* reorders datagrams; one that cannot be opened is as good as lost.       *)
(***************************************************************************)
EXTENDS Integers, Sequences, FiniteSets, SequencesExt

CONSTANTS
    Modulus, MaxRanges, First, Span,  \* of SequenceTracker
    MaxPackets,    \* MAX_AUDIO_REDUNDANT_PACKETS
    Depths,        \* the depths of redundancy in use; 0 is none
    MaxTurns       \* bound: changes of the depth

VARIABLES
    initialized, next_sequence, unresolved_gaps, total_gaps_detected,
    total_gaps_recovered, missing, delta, arrived, newest,
    next,        \* audio_tx_sequence_
    depth,       \* adaptive_redundancy_depth_
    turns,
    reset,       \* recent_opus_audio_packets_reset_requested_
    recent,      \* recent_opus_audio_packets_, newest first
    net,         \* the datagrams sent: sequences of packets, newest first
    inbox,       \* the packets of the datagram in hand that are to be handled
    carried,     \* history: the packets of the datagrams that arrived
    oldest,      \* history: the oldest packet of the first of them
    enqueued     \* history: the packets passed on to the playout queue

trackerVars == <<initialized, next_sequence, unresolved_gaps, total_gaps_detected,
                 total_gaps_recovered, missing, delta, arrived, newest>>
senderVars == <<next, depth, turns, reset, recent, net>>
redundancyVars == <<trackerVars, senderVars, inbox, carried, oldest, enqueued>>

Tracker == INSTANCE SequenceTracker

Init ==
    /\ Tracker!Init
    /\ next = First /\ depth \in Depths /\ turns = 0 /\ reset = FALSE
    /\ recent = <<>> /\ net = {}
    /\ inbox = <<>> /\ carried = {} /\ oldest = First /\ enqueued = {}

-----------------------------------------------------------------------------
(* The sender                                                               *)

opus_redundancy_child_count_for_policy(available) ==
    IF depth = 0 THEN 1 ELSE 1 + (IF available < depth THEN available ELSE depth)

\* The views that fit into a datagram: as many as their sizes allow.
write_redundant_audio_packet(views) == {SubSeq(views, 1, k) : k \in 1..Len(views)}

\* The datagrams that can be made of packet n, given the history.
maybe_wrap_opus_packet_with_redundancy(n, history) ==
    LET count == opus_redundancy_child_count_for_policy(Len(history))
    IN  IF count = 1 THEN {<<n>>}
        ELSE write_redundant_audio_packet(SubSeq(<<n>> \o history, 1, count))

remember_recent_opus_audio_packet(n, history) ==
    SubSeq(<<n>> \o history, 1, IF Len(history) < MaxPackets - 1 THEN Len(history) + 1
                                ELSE MaxPackets - 1)

Consumed == IF reset THEN <<>> ELSE recent

send_packet ==
    /\ next < First + Span
    /\ next' = next + 1
    /\ reset' = FALSE
    /\ LET kept == IF depth = 0 THEN <<>> ELSE Consumed
       IN  /\ \E datagram \in maybe_wrap_opus_packet_with_redundancy(next, kept) :
                net' = net \cup {datagram}
           /\ recent' = remember_recent_opus_audio_packet(next, kept)
    /\ UNCHANGED <<depth, turns, trackerVars, inbox, carried, oldest, enqueued>>

\* A packet that has a number but cannot be built or has no participant yet.
drop_packet ==
    /\ next < First + Span
    /\ next' = next + 1
    /\ reset' = FALSE /\ recent' = Consumed
    /\ UNCHANGED <<depth, turns, net, trackerVars, inbox, carried, oldest, enqueued>>

\* The network thread changes the depth, and lets the history be forgotten.
change_depth(d) ==
    /\ d # depth /\ turns < MaxTurns
    /\ depth' = d /\ turns' = turns + 1 /\ reset' = TRUE
    /\ UNCHANGED <<next, recent, net, trackerVars, inbox, carried, oldest, enqueued>>

-----------------------------------------------------------------------------
(* The receiver                                                             *)

validate_redundant_audio_packet_bytes(datagram) == Len(datagram) \in 1..MaxPackets

\* Mutant: the packets are handled as they come.
children_newest_first(datagram) == datagram
for_each_redundant_audio_child_reverse(datagram) == Reverse(datagram)

\* handle_secure_audio_message opens a datagram; handle_redundant_audio_message
\* takes it apart.
receive_datagram(datagram) ==
    /\ inbox = <<>>
    /\ validate_redundant_audio_packet_bytes(datagram)
    /\ inbox' = for_each_redundant_audio_child_reverse(datagram)
    /\ carried' = carried \cup ToSet(datagram)
    /\ oldest' = IF carried = {} THEN Last(datagram) ELSE oldest
    /\ UNCHANGED <<trackerVars, senderVars, enqueued>>

record(n) ==
    \/ Tracker!record_first(n) \/ Tracker!record_in_order(n)
    \/ Tracker!record_gap(n) \/ Tracker!record_late(n)

\* Mutant: what is late is refused.
sequence_arrival_refuses_late(d) == ~d.late_or_duplicate
sequence_arrival_should_enqueue(d) == ~d.late_or_duplicate \/ d.gaps_recovered > 0

handle_audio_message ==
    /\ inbox # <<>>
    /\ inbox' = Tail(inbox)
    /\ record(Head(inbox))
    /\ enqueued' = IF sequence_arrival_should_enqueue(delta')
                   THEN enqueued \cup {Head(inbox)} ELSE enqueued
    /\ UNCHANGED <<senderVars, carried, oldest>>

Next ==
    \/ send_packet \/ drop_packet
    \/ \E d \in Depths : change_depth(d)
    \/ \E datagram \in net : receive_datagram(datagram)
    \/ handle_audio_message
Spec == Init /\ [][Next]_redundancyVars

-----------------------------------------------------------------------------
(* Properties                                                               *)

TypeOK ==
    /\ Tracker!TypeOK
    /\ next \in First..(First + Span) /\ depth \in Depths
    /\ Len(recent) < MaxPackets
    /\ \A datagram \in net : validate_redundant_audio_packet_bytes(datagram)
    /\ enqueued \subseteq carried /\ arrived \subseteq carried

\* Redundancy does what it is for: whichever datagrams are lost, repeated or
\* late, every packet that some datagram brought is passed on to the playout
\* queue, unless it is older than all the first datagram brought.  (The
\* table of missing ranges is large enough for the packets in play.)
CarriedIsPlayed ==
    inbox = <<>> => \A n \in carried : n \in enqueued \/ n < oldest

\* A packet is counted as a gap, which the delivery reports call a loss, only
\* when no datagram so far has brought it, the one in hand included; and a
\* packet is passed on at most once.
GapsAreReal ==
    [][/\ inbox # <<>> /\ delta'.gaps_detected > 0
            => \A n \in (newest + 1)..(newest' - 1) : n \notin carried
       /\ inbox # <<>> /\ sequence_arrival_should_enqueue(delta')
            => Head(inbox) \notin enqueued]_<<inbox, trackerVars>>
=============================================================================
