----------------------------- MODULE AudioSender -----------------------------
(***************************************************************************)
(* The way of the own audio to the server (src/client/client_runtime.cpp): *)
(* the audio callback cuts what it captures into packets, the sender       *)
(* thread encodes them, adds the recent ones as redundancy and sends them, *)
(* while the network thread ends and begins sessions and the window        *)
(* changes the packet size.                                                *)
(*                                                                         *)
(* Audio is told apart by the session it was captured in.                  *)
(***************************************************************************)
EXTENDS Integers, Sequences, FiniteSets, SequencesExt

CONSTANTS
    PacketSizes,    \* the packet sizes: 120, 240, 480 and 960 frames
    CallbackSize,   \* frames of a callback
    AccumulatorSize,\* size of opus_tx_accumulator_
    SizeT,          \* 2^64, the range of size_t
    MaxQueue,       \* max_send_queue_frames
    MaxHistory,     \* recent packets kept for redundancy
    MaxSessions, MaxChanges
SizesFit == PacketSizes \subseteq 1..AccumulatorSize /\ AccumulatorSize < SizeT

VARIABLES
    target,       \* opus_network_frame_count_
    changing,     \* a change of it has not asked for a reset yet
    changes,
    resetTx,      \* opus_tx_accumulator_reset_requested_
    accumulated,  \* opus_tx_accumulated_frames_
    capture,      \* the callback: "idle", or "cut" once it took resetTx
    frames,       \* opus_send_queue_: sessions of the frames in it
    session,      \* outbound_generation_
    closing,      \* where disconnect_from_server is: "no", "reset", "drain"
    enabled,      \* outbound_enabled_
    confirmed,    \* join_session_.can_send_audio()
    sender,       \* the sender thread: where, with which packet and snapshot
    resetRecent,  \* recent_opus_audio_packets_reset_requested_
    recent,       \* recent_opus_audio_packets_
    sent          \* the last datagram: its session, the sessions of its packets

sendVars == <<target, changing, changes, resetTx, accumulated, capture, frames, session, closing,
              enabled, confirmed, sender, resetRecent, recent, sent>>
Resting == [at |-> "idle", packet |-> 0, snapshot |-> 0, load |-> <<>>]
NothingSent == [session |-> 0, packets |-> <<>>]

Init ==
    /\ target \in PacketSizes /\ changing = FALSE /\ changes = 0 /\ resetTx = FALSE
    /\ accumulated = 0 /\ capture = "idle" /\ frames = <<>>
    /\ session = 1 /\ closing = "no" /\ enabled = TRUE /\ confirmed = FALSE
    /\ sender = Resting /\ resetRecent = FALSE /\ recent = <<>> /\ sent = NothingSent

-----------------------------------------------------------------------------
(* The audio callback: enqueue_opus_send_samples                            *)

captureFrame == <<target, changing, changes, session, closing, enabled, confirmed, sender,
                  resetRecent, recent, sent>>

take_accumulator_reset ==
    /\ capture = "idle"
    /\ capture' = "cut"
    /\ resetTx' = FALSE
    /\ accumulated' = IF resetTx THEN 0 ELSE accumulated
    /\ UNCHANGED frames /\ UNCHANGED captureFrame

\* The oldest frames make room for a new one.
Enqueued(queue, count) ==
    LET all == queue \o [k \in 1..count |-> session]
    IN  SubSeq(all, Len(all) - Min({Len(all), MaxQueue}) + 1, Len(all))

\* Every full packet goes to the queue.  The room left is unsigned: when there
\* is more than a packet already, everything goes to the accumulator.
cut_packets ==
    LET room == (target - accumulated) % SizeT
        total == accumulated + CallbackSize
        complete == IF room <= target THEN total \div target ELSE 0
    IN  /\ capture = "cut"
        /\ capture' = "idle"
        /\ frames' = Enqueued(frames, complete)
        /\ accumulated' = total - complete * target
        /\ UNCHANGED resetTx /\ UNCHANGED captureFrame

-----------------------------------------------------------------------------
(* The packet size: apply_opus_network_frame_count                          *)

changeFrame == <<accumulated, capture, frames, session, closing, enabled, confirmed, sender,
                 resetRecent, recent, sent>>

exchange_frame_count(size) ==
    /\ ~changing /\ size # target /\ changes < MaxChanges
    /\ target' = size /\ changing' = TRUE /\ changes' = changes + 1
    /\ UNCHANGED resetTx /\ UNCHANGED changeFrame
request_accumulator_reset ==
    /\ changing
    /\ changing' = FALSE /\ resetTx' = TRUE
    /\ UNCHANGED <<target, changes>> /\ UNCHANGED changeFrame

-----------------------------------------------------------------------------
(* The network thread: sessions                                             *)

sessionFrame == <<target, changing, changes, accumulated, capture, sender, recent, sent>>

\* disconnect_from_server and start_connection_on_io_context stop sending;
\* clear_room_session_state then clears what is left of the session.
begin_disconnect ==
    /\ closing = "no" /\ session < MaxSessions
    /\ enabled' = FALSE /\ session' = session + 1 /\ closing' = "reset"
    /\ UNCHANGED <<resetTx, frames, confirmed, resetRecent>> /\ UNCHANGED sessionFrame
reset_session ==
    /\ closing = "reset"
    /\ confirmed' = FALSE /\ resetRecent' = TRUE /\ closing' = "drain"
    /\ UNCHANGED <<resetTx, frames, session, enabled>> /\ UNCHANGED sessionFrame
drain_frames ==
    /\ closing = "drain"
    /\ frames' = <<>> /\ resetTx' = TRUE /\ enabled' = TRUE /\ closing' = "no"
    /\ UNCHANGED <<session, confirmed, resetRecent>> /\ UNCHANGED sessionFrame

join_ack ==
    /\ closing = "no" /\ enabled /\ ~confirmed
    /\ confirmed' = TRUE
    /\ UNCHANGED <<resetTx, frames, session, closing, enabled, resetRecent>>
    /\ UNCHANGED sessionFrame
\* JOIN_REQUIRED drops what waits and the redundancy.
join_required ==
    /\ closing = "no" /\ confirmed
    /\ confirmed' = FALSE /\ frames' = <<>> /\ resetRecent' = TRUE
    /\ UNCHANGED <<resetTx, session, closing, enabled>> /\ UNCHANGED sessionFrame

-----------------------------------------------------------------------------
(* The sender thread: audio_sender_loop                                     *)

senderFrame == <<target, changing, changes, resetTx, accumulated, capture, session, closing,
                 enabled, confirmed>>
\* A plausible slip: the request to forget them is not looked at.
Recent_kept == recent
Recent == IF resetRecent THEN <<>> ELSE recent

take_frame ==
    /\ sender = Resting /\ frames # <<>>
    /\ frames' = Tail(frames)
    /\ sender' = IF confirmed THEN [Resting EXCEPT !.at = "encoded", !.packet = Head(frames)]
                 ELSE Resting
    /\ recent' = Recent /\ resetRecent' = FALSE
    /\ UNCHANGED sent /\ UNCHANGED senderFrame

\* The redundant packet carries this one and the recent ones.
wrap_packet ==
    /\ sender.at = "encoded"
    /\ sender' = [sender EXCEPT !.at = "wrapped", !.load = <<sender.packet>> \o Recent]
    /\ recent' = Recent /\ resetRecent' = FALSE
    /\ UNCHANGED <<frames, sent>> /\ UNCHANGED senderFrame

\* send_audio_packet_sync notes the session, seals, and sends if it is still on.
begin_send ==
    /\ sender.at = "wrapped"
    /\ sender' = IF enabled THEN [sender EXCEPT !.at = "sealed", !.snapshot = session]
                 ELSE [sender EXCEPT !.at = "sent"]
    /\ UNCHANGED <<frames, resetRecent, recent, sent>> /\ UNCHANGED senderFrame
end_send ==
    /\ sender.at = "sealed"
    /\ sent' = IF enabled /\ sender.snapshot = session
               THEN [session |-> session, packets |-> sender.load] ELSE sent
    /\ sender' = [sender EXCEPT !.at = "sent"]
    /\ UNCHANGED <<frames, resetRecent, recent>> /\ UNCHANGED senderFrame

remember_recent_opus_audio_packet ==
    /\ sender.at = "sent"
    /\ recent' = SubSeq(<<sender.packet>> \o recent, 1, Min({MaxHistory, Len(recent) + 1}))
    /\ sender' = Resting
    /\ UNCHANGED <<frames, resetRecent, sent>> /\ UNCHANGED senderFrame

Next ==
    \/ take_accumulator_reset \/ cut_packets
    \/ \E size \in PacketSizes : exchange_frame_count(size)
    \/ request_accumulator_reset
    \/ begin_disconnect \/ reset_session \/ drain_frames \/ join_ack \/ join_required
    \/ take_frame \/ wrap_packet \/ begin_send \/ end_send \/ remember_recent_opus_audio_packet
Spec == Init /\ [][Next]_sendVars

-----------------------------------------------------------------------------
(* Properties                                                               *)

TypeOK ==
    /\ target \in PacketSizes /\ changes \in 0..MaxChanges
    /\ accumulated \in 0..AccumulatorSize+CallbackSize
    /\ Len(frames) <= MaxQueue /\ Len(recent) <= MaxHistory
    /\ session \in 1..MaxSessions /\ closing \in {"no", "reset", "drain"}
    /\ sender.at \in {"idle", "encoded", "wrapped", "sealed", "sent"}

\* Audio goes to the session it was sealed for, while that is on.
SendsStayInSession == [][sent' # sent => enabled /\ sent'.session = session]_sendVars

\* Redundancy does not carry the audio of one session over to the next: when
\* the sender thread has seen the reset, at most the packet it had in hand is
\* left of an earlier session.
OldAudioIsForgotten ==
    closing = "no" /\ ~resetRecent =>
        Cardinality({k \in 1..Len(recent) : recent[k] # session}) <= 1
=============================================================================
