--------------------------- MODULE MCAdaptation -----------------------------
(***************************************************************************)
(* What adapts to the network: the packet size and the jitter target, on   *)
(* small instances.  Each is checked by itself under the fairness its      *)
(* module states: part says which one runs, and the other stays as it      *)
(* began.                                                                  *)
(***************************************************************************)
EXTENDS Naturals

VARIABLES
    part,  \* the part that runs
    \* PacketDuration
    packets_duration, packets_frames, net, ui, reports, pending, present,
    recovered, changes,
    \* JitterTarget
    limit, jitter_duration, auto, jitter_frames, person, window, network,
    audio, ops, sizes

Packets == INSTANCE PacketDuration WITH
    Reporters <- {"r1"}, Sizes <- {120}, ImpairedFrames <- 240,
    MaxChanges <- 1, duration <- packets_duration, frames <- packets_frames

Jitter == INSTANCE JitterTarget WITH
    FrameCounts <- {480, 960}, Limits <- {0, 10}, Durations <- {20},
    AutoStart <- 40, MaxPackets <- 6, MaxOps <- 2, MaxSizes <- 1,
    duration <- jitter_duration, frames <- jitter_frames

packetsVars ==
    <<packets_duration, packets_frames, net, ui, reports, pending, present,
      recovered, changes>>
jitterVars ==
    <<limit, jitter_duration, auto, jitter_frames, person, window, network,
      audio, ops, sizes>>

vars == <<part, packetsVars, jitterVars>>

Init ==
    /\ part \in {"packets", "jitter"}
    /\ Packets!Init /\ Jitter!Init
    \* a part that does not run begins in one of its initial states
    /\ part # "jitter" => limit = 0 /\ ~auto /\ jitter_frames = 480

Next ==
    \/ /\ part = "packets" /\ Packets!Next
       /\ UNCHANGED <<part, jitterVars>>
    \/ /\ part = "jitter" /\ Jitter!Next
       /\ UNCHANGED <<part, packetsVars>>

(***************************************************************************)
(* The fairness of the parts, put together, as part never changes:         *)
(* WeakStep(i) is the i-th step of the part that runs which is taken once  *)
(* it stays enabled, StrongStep(i) the i-th which is taken when it is      *)
(* enabled again and again.                                                *)
(***************************************************************************)
partVars ==
    CASE part = "packets" -> packetsVars
      [] part = "jitter" -> jitterVars

JitterStep(i) ==
    \/ i = 1 /\ \/ Jitter!clamp_duration
                \/ Jitter!apply_opus_jitter_buffer_ms
                \/ Jitter!clamp_targets
    \/ i = 2 /\ Jitter!own_size_applied
    \/ i = 3 /\ person.frames > 0 /\ Jitter!packet_arrives(person.frames)
    \/ i = 4 /\ \/ Jitter!end_window
                \/ \E e \in {"none", "few", "many"} : Jitter!begin_window(e)

WeakStep(i) ==
    /\ part' = part
    /\ \/ part = "packets" /\ i = 1 /\ Packets!apply_decided
       \/ part = "packets" /\ i = 2 /\ Packets!apply_configured
       \/ part = "jitter" /\ JitterStep(i)

StrongStep(i) ==
    /\ part' = part /\ part = "packets"
    /\ \/ i = 1 /\ Packets!ping_interval(FALSE)
       \/ i = 2 /\ Packets!path_stats(FALSE)
       \/ i = 3 /\ Packets!report("r1", "healthy")
       \/ i = 4 /\ Packets!apply_downstream_delivery_feedback({}) /\ net' # 0

Spec ==
    /\ Init /\ [][Next]_vars
    /\ \A i \in 1 .. 4 : WF_partVars(WeakStep(i))
    /\ \A i \in 1 .. 4 : SF_partVars(StrongStep(i))

----------------------------------------------------------------------------
\* Every part's variables have their types.
TypeOK ==
    /\ part = "packets" => Packets!TypeOK
    /\ part = "jitter" => Jitter!TypeOK

\* The chosen packet size returns after the network recovers (PacketDuration).
RestoredWhileReported == Packets!RestoredWhileReported

\* The jitter target settles where the age limit allows (JitterTarget).
TargetSettles == part = "jitter" => Jitter!TargetSettles

=============================================================================
