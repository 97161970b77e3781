----------------------------- MODULE JitterTarget -----------------------------
(***************************************************************************)
(* How many packets of a participant are held back before they are played  *)
(* (src/client/client_runtime.cpp, jitter_policy.h).  The window sets a    *)
(* duration for everybody or for one participant and an age limit after    *)
(* which packets are dropped; the network thread follows the packet        *)
(* duration of the sender; in automatic mode the audio callback moves the  *)
(* target with what it hears.                                              *)
(*                                                                         *)
(* One participant.  The window and the network thread change it under the *)
(* lock of the participant table, the audio callback without a lock.       *)
(***************************************************************************)
EXTENDS Integers, FiniteSetsExt

CONSTANTS
    FrameCounts,   \* the packet sizes in use, in frames
    Limits,        \* age limits in ms; 0 is no limit
    Durations,     \* jitter buffer durations in ms
    AutoStart,     \* DEFAULT_OPUS_AUTO_START_JITTER_MS
    MaxPackets,    \* MAX_OPUS_JITTER_PACKETS
    MaxOps,        \* bound: changes in the window
    MaxSizes       \* bound: changes of a packet size

VARIABLES
    limit,       \* jitter_packet_age_limit_ms_
    duration,    \* opus_jitter_buffer_ms_
    auto,        \* opus_auto_jitter_default_
    frames,      \* opus_network_frame_count_, the own packet size
    person,      \* the ParticipantData
    window,      \* where the window's thread is in a change
    network,     \* where the network thread is in a change of the own size
    audio,       \* what the audio callback has read
    ops, sizes

settings == <<limit, duration, auto, frames>>
jitterVars == <<settings, person, window, network, audio, ops, sizes>>

Idle == [at |-> "idle"]
NewPerson == [manual |-> FALSE, override |-> 0, auto |-> FALSE, autoFloor |-> 0,
              floor |-> 0, target |-> 0, frames |-> 0, ready |-> FALSE]

Init ==
    /\ limit \in Limits /\ duration \in Durations /\ (limit > 0 => duration <= limit)
    /\ auto \in BOOLEAN /\ frames \in FrameCounts
    /\ person = NewPerson
    /\ window = Idle /\ network = Idle /\ audio = Idle /\ ops = 0 /\ sizes = 0

-----------------------------------------------------------------------------
(* jitter_policy.h: packets of a size in a duration; a millisecond is 48    *)
(* frames.                                                                  *)

clamp_opus_jitter_packets(packets) == Min({packets, MaxPackets})
opus_jitter_packets_for_ms(ms, size) ==
    clamp_opus_jitter_packets((ms * 48 + size - 1) \div size)
opus_jitter_packets_within_ms(ms, size) == clamp_opus_jitter_packets((ms * 48) \div size)

\* What a limit of lim ms allows.
Allowed(lim, size) == IF lim > 0 THEN opus_jitter_packets_within_ms(lim, size) ELSE MaxPackets

jitter_floor_for_packet(ms, size) ==
    Min({opus_jitter_packets_for_ms(ms, size), Allowed(limit, size)})
opus_auto_start_jitter_packets_for_audio(floor, size) ==
    Max({floor, opus_jitter_packets_for_ms(AutoStart, size)})

opus_frame_count_for_participant == IF person.frames > 0 THEN person.frames ELSE frames
\* opus_jitter_packets_for_participant_ms.
FloorNow(ms) == jitter_floor_for_packet(ms, opus_frame_count_for_participant)

jitter_target_should_snap_to_floor(p, floor) ==
    \/ p.target < floor
    \/ ~p.auto /\ ~p.ready /\ p.target > floor

\* The buffer has to fill again when there is less in it than the target.
Refilled(p) == {p, [p EXCEPT !.ready = FALSE]}

apply_opus_jitter_policy_to_participant(p, floor, size, enabled, reset) ==
    LET start == opus_auto_start_jitter_packets_for_audio(floor, size)
        target == IF enabled THEN start ELSE floor
        set == [p EXCEPT !.auto = enabled, !.autoFloor = floor, !.floor = floor]
    IN  IF reset \/ p.target < target
        THEN Refilled([set EXCEPT !.target = target]) ELSE {set}

-----------------------------------------------------------------------------
(* The window                                                               *)

\* A callback is short: one change, by the user or by the sender, may fall
\* into it, not two.
Meets ==
    /\ audio # Idle => ~audio.raced
    /\ audio' = IF audio = Idle THEN audio ELSE [audio EXCEPT !.raced = TRUE]

Operate ==
    /\ window = Idle /\ ops < MaxOps
    /\ Meets
    /\ ops' = ops + 1
    /\ UNCHANGED <<network, sizes>>

\* The second half of apply_opus_jitter_buffer_ms.
Everybody(ms) ==
    IF person.manual THEN {person}
    ELSE apply_opus_jitter_policy_to_participant(person, FloorNow(ms),
             opus_frame_count_for_participant, person.auto, TRUE)

clamp_opus_jitter_ms_for_age_limit(ms) == IF limit > 0 THEN Min({ms, limit}) ELSE ms

set_opus_jitter_buffer_ms(ms) ==
    /\ Operate
    /\ duration' = clamp_opus_jitter_ms_for_age_limit(ms)
    /\ window' = [at |-> "everybody", ms |-> duration', limit |-> 0]
    /\ UNCHANGED <<limit, auto, frames, person>>
set_jitter_packet_age_limit_ms(ms) ==
    /\ Operate
    /\ limit' = ms
    /\ window' = IF ms = 0 THEN Idle ELSE [at |-> "limit", limit |-> ms]
    /\ UNCHANGED <<duration, auto, frames, person>>
clamp_duration ==
    /\ window.at = "limit"
    /\ duration' = Min({duration, window.limit})
    /\ window' = IF duration > window.limit
                 THEN [at |-> "everybody", ms |-> window.limit, limit |-> window.limit]
                 ELSE [at |-> "persons", limit |-> window.limit]
    /\ UNCHANGED <<limit, auto, frames, person, network, audio, ops, sizes>>
apply_opus_jitter_buffer_ms ==
    /\ window.at = "everybody"
    /\ person' \in Everybody(window.ms)
    /\ window' = IF window.limit = 0 THEN Idle ELSE [at |-> "persons", limit |-> window.limit]
    /\ UNCHANGED <<settings, network, audio, ops, sizes>>
clamp_targets ==
    LET most == opus_jitter_packets_within_ms(window.limit, opus_frame_count_for_participant)
    IN  /\ window.at = "persons"
        /\ person' = IF person.target <= most THEN person
                     ELSE [person EXCEPT !.target = most, !.floor = Min({@, most}),
                                         !.autoFloor = Min({@, most})]
        /\ window' = Idle
        /\ UNCHANGED <<settings, network, audio, ops, sizes>>

set_opus_auto_jitter_default(enabled) ==
    /\ Operate
    /\ auto' = enabled
    /\ person' \in IF person.manual THEN {person}
                   ELSE apply_opus_jitter_policy_to_participant(person, FloorNow(duration),
                            opus_frame_count_for_participant, enabled, ~enabled)
    /\ UNCHANGED <<limit, duration, frames, window>>
set_participant_opus_jitter_buffer_ms(ms) ==
    LET packets == FloorNow(clamp_opus_jitter_ms_for_age_limit(ms))
    IN  /\ Operate /\ person.frames > 0
        /\ person' \in Refilled([person EXCEPT
              !.manual = TRUE, !.override = clamp_opus_jitter_ms_for_age_limit(ms),
              !.auto = FALSE, !.floor = packets, !.target = packets])
        /\ UNCHANGED <<settings, window>>
\* set_participant_opus_auto_jitter, and with reset
\* reset_participant_opus_jitter_buffer_packets.
set_participant_opus_auto_jitter(enabled) ==
    /\ Operate /\ person.frames > 0
    /\ person' \in apply_opus_jitter_policy_to_participant(
                       [person EXCEPT !.manual = FALSE, !.override = 0],
                       FloorNow(duration), opus_frame_count_for_participant, enabled, ~enabled)
    /\ UNCHANGED <<settings, window>>

-----------------------------------------------------------------------------
(* The network thread                                                       *)

netFrame == <<limit, duration, auto, window, ops>>

\* apply_default_opus_jitter_policy, for a participant heard for the first time.
Registered ==
    IF person.frames > 0 \/ person.manual THEN {person}
    ELSE apply_opus_jitter_policy_to_participant(person, FloorNow(duration), frames, auto, TRUE)

update_jitter_floor(p, size) ==
    LET floor == jitter_floor_for_packet(IF p.manual THEN p.override ELSE duration, size)
        followed == [p EXCEPT !.autoFloor = floor]
        floored == [followed EXCEPT !.floor = floor]
    IN  IF p.manual
        THEN Refilled([p EXCEPT !.floor = floor, !.target = floor])
        ELSE IF p.frames # size
        THEN apply_opus_jitter_policy_to_participant(followed, floor, size, p.auto, TRUE)
        ELSE IF jitter_target_should_snap_to_floor(p, floor)
        THEN {[floored EXCEPT !.target = floor]} ELSE {floored}

\* A packet arrives; with it the buffer may be full enough to be played.
packet_arrives(size) ==
    /\ network = Idle
    /\ \/ size = person.frames /\ UNCHANGED <<sizes, audio>>
       \/ size # person.frames /\ sizes < MaxSizes /\ sizes' = sizes + 1 /\ Meets
    /\ \E p \in Registered : \E q \in update_jitter_floor(p, size) : \E full \in BOOLEAN :
          person' = [q EXCEPT !.frames = size, !.ready = @ \/ full]
    /\ UNCHANGED <<frames, network>> /\ UNCHANGED netFrame

\* apply_opus_network_frame_count, when the own packets change.
own_size_changes(size) ==
    /\ network = Idle /\ size # frames /\ sizes < MaxSizes
    /\ Meets
    /\ sizes' = sizes + 1 /\ frames' = size
    /\ network' = [at |-> "everybody", ms |-> duration]
    /\ UNCHANGED person /\ UNCHANGED netFrame
own_size_applied ==
    /\ network.at = "everybody"
    /\ duration' = network.ms
    /\ person' \in Everybody(network.ms)
    /\ network' = Idle
    /\ UNCHANGED <<limit, auto, frames, window, audio, ops, sizes>>

-----------------------------------------------------------------------------
(* The audio callback: complete_auto_jitter_control_window                  *)

auto_jitter_is_active == person.auto /\ ~person.manual

\* It reads the target and the limits ...
begin_window(events) ==
    /\ audio = Idle /\ person.frames > 0 /\ auto_jitter_is_active
    /\ audio' = [at |-> "read", events |-> events, target |-> person.target,
                 floor |-> person.autoFloor, most |-> Allowed(limit, person.frames),
                 raced |-> FALSE]
    /\ UNCHANGED <<settings, person, window, network, ops, sizes>>

\* Mutant: only the way up is limited.
controlled_without_clamp(read) ==
    IF read.events = "many"
    THEN IF read.target < read.most THEN Min({read.most, Max({3, read.target + 1})})
         ELSE read.target
    ELSE IF read.events = "none" /\ read.target > read.floor THEN read.target - 1
    ELSE read.target
\* ... decides: up when there were many disturbances, down when there were
\* none, never above what the limit allows ...
controlled(read) ==
    LET target == Min({read.target, read.most})
    IN  IF read.events = "many"
        THEN IF target < read.most THEN Min({read.most, Max({3, target + 1})}) ELSE target
        ELSE IF read.events = "none" /\ target > read.floor THEN target - 1
        ELSE target

\* ... and stores what it decided, if it differs from what it read.
end_window ==
    /\ audio.at = "read"
    /\ person' = IF controlled(audio) = audio.target THEN person
                 ELSE [person EXCEPT !.target = controlled(audio), !.floor = controlled(audio)]
    /\ audio' = Idle
    /\ UNCHANGED <<settings, window, network, ops, sizes>>

\* The buffer ran empty and has to fill again.
rebuffer ==
    /\ person.ready
    /\ person' = [person EXCEPT !.ready = FALSE]
    /\ UNCHANGED <<settings, window, network, audio, ops, sizes>>

Next ==
    \/ \E ms \in Durations : set_opus_jitter_buffer_ms(ms)
                             \/ set_participant_opus_jitter_buffer_ms(ms)
    \/ \E ms \in Limits : set_jitter_packet_age_limit_ms(ms)
    \/ \E enabled \in BOOLEAN : set_opus_auto_jitter_default(enabled)
                                \/ set_participant_opus_auto_jitter(enabled)
    \/ clamp_duration \/ apply_opus_jitter_buffer_ms \/ clamp_targets
    \/ \E size \in FrameCounts : packet_arrives(size) \/ own_size_changes(size)
    \/ own_size_applied
    \/ \E events \in {"none", "few", "many"} : begin_window(events)
    \/ end_window \/ rebuffer
Spec == Init /\ [][Next]_jitterVars

\* Changes are carried through; the sender keeps sending and the audio device
\* keeps calling.
FairSpec ==
    /\ Spec
    /\ WF_jitterVars(clamp_duration \/ apply_opus_jitter_buffer_ms \/ clamp_targets)
    /\ WF_jitterVars(own_size_applied)
    /\ WF_jitterVars(person.frames > 0 /\ packet_arrives(person.frames))
    /\ WF_jitterVars(end_window \/ \E events \in {"none", "few", "many"} : begin_window(events))

-----------------------------------------------------------------------------
(* Properties                                                               *)

TypeOK ==
    /\ limit \in Limits /\ duration \in Nat /\ frames \in FrameCounts
    /\ person.target \in 0..MaxPackets /\ person.floor \in 0..MaxPackets
    /\ person.manual => ~person.auto

\* The buffer can fill: no more packets are waited for than the age limit
\* leaves in it.
Satisfiable == person.frames > 0 => person.target <= Allowed(limit, person.frames)

\* "never leave an unsatisfiable target in place": whatever the window, the
\* sender's packet size and the callback do at the same time, once they leave
\* off the target is and stays one that can be reached.
TargetSettles == <>[]Satisfiable
=============================================================================
