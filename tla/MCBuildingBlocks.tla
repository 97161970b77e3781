-------------------------- MODULE MCBuildingBlocks --------------------------
(***************************************************************************)
(* The data structures that threads of the server and of the client share, *)
(* or that numbers on the network pass through, on small instances.  Each  *)
(* is checked by itself: part says which one runs, and the others stay as  *)
(* they began.                                                             *)
(***************************************************************************)
EXTENDS Naturals

CONSTANTS
    Empty, None, NoEntry,                    \* model values
    Endpoint, Member, Stranger, Rate, Burst  \* of RateLimiter

\* Every bucket but audio's holds one token, and gains one a second.
Buckets == {"strict", "unknown", "secure_control", "unknown_global", "secure_control_global"}
Rates == [b \in Buckets |-> 1]

VARIABLES
    part,  \* the part that runs
    \* MediaTaskQueue
    tasks, write_index, read_index, pushing, popping, task, popped,
    \* RateLimiter
    now, endpoints, recency, global, unknownEndpoints, granted, since,
    required,
    \* ReplayWindow
    replay_initialized, highest_sequence, seen, accepted, replay_newest,
    \* SequenceTracker
    tracker_initialized, tracker_next_sequence, tracker_unresolved_gaps,
    tracker_total_gaps_detected, tracker_total_gaps_recovered,
    tracker_missing, tracker_delta, tracker_arrived, tracker_newest,
    \* RedundantAudio
    redundancy_initialized, redundancy_next_sequence,
    redundancy_unresolved_gaps, redundancy_total_gaps_detected,
    redundancy_total_gaps_recovered, redundancy_missing, redundancy_delta,
    redundancy_arrived, redundancy_newest, next, depth, turns, reset,
    redundancy_recent, redundancy_net, inbox, carried, oldest, enqueued,
    \* DeliveryReports
    generated, resolved, outcomes, account, epoch, sequence, reports_net,
    reporter, resting, applied,
    \* ParticipantTable
    participants, table_pending, named, created, graveyard, published,
    table_retired, info, names, callback, window, freed,
    \* WavPlayback
    loaded, wav_retired, freedBy, playing, position, ui, held, from, ops,
    \* AudioSender
    target, changing, changes, resetTx, accumulated, capture, frames, session,
    closing, enabled, confirmed, sender, resetRecent, sender_recent, sent,
    \* StatusRefresh
    probe, updates, status_pending, flying, rooms, changed, faults

Queue == INSTANCE MediaTaskQueue WITH
    Task <- {1, 2, 3}, Capacity <- 4

Limiter == INSTANCE RateLimiter WITH
    Endpoint <- Endpoint, Member <- Member, Stranger <- Stranger,
    MAX_TRACKED_ENDPOINTS <- 2, MAX_UNKNOWN_ENDPOINTS <- 1,
    UNKNOWN_ENDPOINT_TTL <- 2, JOIN_REQUIRED_INTERVAL <- 2,
    PlainBucket <- {"strict"}, Rate <- Rate, Burst <- Burst, AudioRate <- {1},
    Counted <- {"audio", "unknown_global"}, MaxTime <- 3

Replay == INSTANCE ReplayWindow WITH
    Modulus <- 24, WINDOW_BITS <- 4, First <- 18, Span <- 11,
    initialized <- replay_initialized, newest <- replay_newest

Tracker == INSTANCE SequenceTracker WITH
    Modulus <- 20, MaxRanges <- 2, First <- 15, Span <- 9,
    initialized <- tracker_initialized,
    next_sequence <- tracker_next_sequence,
    unresolved_gaps <- tracker_unresolved_gaps,
    total_gaps_detected <- tracker_total_gaps_detected,
    total_gaps_recovered <- tracker_total_gaps_recovered,
    missing <- tracker_missing, delta <- tracker_delta,
    arrived <- tracker_arrived, newest <- tracker_newest

Redundancy == INSTANCE RedundantAudio WITH
    Modulus <- 16, MaxRanges <- 4, First <- 13, Span <- 5, MaxPackets <- 4,
    Depths <- {0, 2}, MaxTurns <- 1, initialized <- redundancy_initialized,
    next_sequence <- redundancy_next_sequence,
    unresolved_gaps <- redundancy_unresolved_gaps,
    total_gaps_detected <- redundancy_total_gaps_detected,
    total_gaps_recovered <- redundancy_total_gaps_recovered,
    missing <- redundancy_missing, delta <- redundancy_delta,
    arrived <- redundancy_arrived, newest <- redundancy_newest,
    recent <- redundancy_recent, net <- redundancy_net

Reports == INSTANCE DeliveryReports WITH
    MaxInterval <- 2, MaxGenerated <- 3, MaxReports <- 3, MaxEpochs <- 2,
    net <- reports_net

Table == INSTANCE ParticipantTable WITH
    Ids <- {1, 2}, MaxRegister <- 2, pending <- table_pending,
    retired <- table_retired

Wav == INSTANCE WavPlayback WITH
    Files <- {1, 2}, MaxLength <- 3, Resampled <- {2}, Frames <- 2,
    MaxOps <- 6, retired <- wav_retired

Sender == INSTANCE AudioSender WITH
    PacketSizes <- {2, 4}, CallbackSize <- 2, AccumulatorSize <- 4,
    SizeT <- 16, MaxQueue <- 1, MaxHistory <- 2, MaxSessions <- 2,
    MaxChanges <- 1, recent <- sender_recent

Status == INSTANCE StatusRefresh WITH
    Servers <- {"s1", "s2"}, Selected <- "s1", Rooms <- {1, 2, 3},
    PageSize <- 1, PageLimit <- 2, MaxFaults <- 1, MaxChanges <- 1,
    pending <- status_pending

queueVars ==
    <<tasks, write_index, read_index, pushing, popping, task, popped>>
limiterVars ==
    <<now, endpoints, recency, global, unknownEndpoints, granted, since,
      required>>
replayVars ==
    <<replay_initialized, highest_sequence, seen, accepted, replay_newest>>
trackerVars ==
    <<tracker_initialized, tracker_next_sequence, tracker_unresolved_gaps,
      tracker_total_gaps_detected, tracker_total_gaps_recovered,
      tracker_missing, tracker_delta, tracker_arrived, tracker_newest>>
redundancyVars ==
    <<redundancy_initialized, redundancy_next_sequence,
      redundancy_unresolved_gaps, redundancy_total_gaps_detected,
      redundancy_total_gaps_recovered, redundancy_missing, redundancy_delta,
      redundancy_arrived, redundancy_newest, next, depth, turns, reset,
      redundancy_recent, redundancy_net, inbox, carried, oldest, enqueued>>
reportsVars ==
    <<generated, resolved, outcomes, account, epoch, sequence, reports_net,
      reporter, resting, applied>>
tableVars ==
    <<participants, table_pending, named, created, graveyard, published,
      table_retired, info, names, callback, window, freed>>
wavVars ==
    <<loaded, wav_retired, freedBy, playing, position, ui, held, from, ops>>
senderVars ==
    <<target, changing, changes, resetTx, accumulated, capture, frames,
      session, closing, enabled, confirmed, sender, resetRecent,
      sender_recent, sent>>
statusVars ==
    <<probe, updates, status_pending, flying, rooms, changed, faults>>

ASSUME InstancesFit ==
    /\ Queue!CapacityAssumption /\ Limiter!LimiterAssumption
    /\ Replay!WindowAssumption /\ Tracker!TrackerAssumption
    /\ Redundancy!Tracker!TrackerAssumption /\ Table!NoneIsNoObject
    /\ Sender!SizesFit

vars ==
    <<part, queueVars, limiterVars, replayVars, trackerVars, redundancyVars,
      reportsVars, tableVars, wavVars, senderVars, statusVars>>

Init ==
    /\ part \in
          {"queue", "limiter", "replay", "tracker", "redundancy", "reports",
           "table", "wav", "sender", "status"}
    /\ Queue!Init /\ Limiter!Init /\ Replay!Init /\ Tracker!Init
    /\ Redundancy!Init /\ Reports!Init /\ Table!Init /\ Wav!Init
    /\ Sender!Init /\ Status!Init
    \* a part that does not run begins in one of its initial states
    /\ part # "redundancy" => depth = 0
    /\ part # "sender" => target = 2
    /\ part # "status" => rooms = {}

Next ==
    \/ /\ part = "queue" /\ Queue!Next
       /\ UNCHANGED <<part, limiterVars, replayVars, trackerVars,
                       redundancyVars, reportsVars, tableVars, wavVars,
                       senderVars, statusVars>>
    \/ /\ part = "limiter" /\ Limiter!Next
       /\ UNCHANGED <<part, queueVars, replayVars, trackerVars,
                       redundancyVars, reportsVars, tableVars, wavVars,
                       senderVars, statusVars>>
    \/ /\ part = "replay" /\ Replay!Next
       /\ UNCHANGED <<part, queueVars, limiterVars, trackerVars,
                       redundancyVars, reportsVars, tableVars, wavVars,
                       senderVars, statusVars>>
    \/ /\ part = "tracker" /\ Tracker!Next
       /\ UNCHANGED <<part, queueVars, limiterVars, replayVars,
                       redundancyVars, reportsVars, tableVars, wavVars,
                       senderVars, statusVars>>
    \/ /\ part = "redundancy" /\ Redundancy!Next
       /\ UNCHANGED <<part, queueVars, limiterVars, replayVars, trackerVars,
                       reportsVars, tableVars, wavVars, senderVars, statusVars>>
    \/ /\ part = "reports" /\ Reports!Next
       /\ UNCHANGED <<part, queueVars, limiterVars, replayVars, trackerVars,
                       redundancyVars, tableVars, wavVars, senderVars,
                       statusVars>>
    \/ /\ part = "table" /\ Table!Next
       /\ UNCHANGED <<part, queueVars, limiterVars, replayVars, trackerVars,
                       redundancyVars, reportsVars, wavVars, senderVars,
                       statusVars>>
    \/ /\ part = "wav" /\ Wav!Next
       /\ UNCHANGED <<part, queueVars, limiterVars, replayVars, trackerVars,
                       redundancyVars, reportsVars, tableVars, senderVars,
                       statusVars>>
    \/ /\ part = "sender" /\ Sender!Next
       /\ UNCHANGED <<part, queueVars, limiterVars, replayVars, trackerVars,
                       redundancyVars, reportsVars, tableVars, wavVars,
                       statusVars>>
    \/ /\ part = "status" /\ Status!Next
       /\ UNCHANGED <<part, queueVars, limiterVars, replayVars, trackerVars,
                       redundancyVars, reportsVars, tableVars, wavVars,
                       senderVars>>

Spec == Init /\ [][Next]_vars

-----------------------------------------------------------------------------
(* Properties                                                               *)

\* The variables of every part have their types.
TypeOK ==
    /\ part = "queue" => Queue!TypeOK
    /\ part = "limiter" => Limiter!TypeOK
    /\ part = "replay" => Replay!TypeOK
    /\ part = "tracker" => Tracker!TypeOK
    /\ part = "redundancy" => Redundancy!TypeOK
    /\ part = "reports" => Reports!TypeOK
    /\ part = "table" => Table!TypeOK
    /\ part = "wav" => Wav!TypeOK
    /\ part = "sender" => Sender!TypeOK
    /\ part = "status" => Status!TypeOK

\* The lock-free ring between the event loop and a worker implements a bounded
\* queue: a task is popped once, in the order pushed.
RingIsBoundedQueue == Queue!RingIsBoundedQueue

\* No bucket grants more than its burst and its rate allow, and no endpoint is
\* told to join more than once an interval, through refills, evictions and
\* erasures of endpoints; and the list by which endpoints are evicted stays in
\* step with their table.
GrantsWithinBudget ==
    part = "limiter" =>
        /\ Limiter!GrantsWithinBudget /\ Limiter!JoinRequiredSpaced
        /\ Limiter!RecencyOrdersTable

\* What a receiver remembers of the numbers it saw is exact, across the wrap
\* and at the limits of its memory: the replay bitmap says which of the last
\* numbers were accepted, the tracker which ones are missing.
WindowIsExact ==
    /\ part = "replay" => Replay!WindowIsExact /\ Replay!AcceptedOnce
    /\ part = "tracker" => Tracker!TrackedAreMissing /\ Tracker!UnresolvedIsTracked

\* Every packet that some datagram brought, by itself or as a redundant copy,
\* is passed on to playout.
CarriedIsPlayed == part = "redundancy" => Redundancy!CarriedIsPlayed

\* A packet counts as lost only if no datagram so far has brought it, and is
\* passed on at most once (RedundantAudio); the sender's packets go out in the
\* session they were sealed for (AudioSender).
GapsAreReal == Redundancy!GapsAreReal /\ Sender!SendsStayInSession

\* A sender adapts to each outcome of its packets at most once, and only to
\* what happened.
AppliedHappened == part = "reports" => Reports!AppliedHappened

\* The audio callback reads nothing that was freed and never frees what it
\* read, neither a participant nor the WAV file: both are retired first and
\* reaped by another thread once nobody holds them.  And no slot of the ring
\* is written while a worker moves a task out of it.
ReadersHoldLiveData ==
    /\ part = "queue" => Queue!NoSlotRace
    /\ part = "table" => Table!ReadersHoldLiveData
    /\ part = "wav" => Wav!CallbackNeverFrees

\* Redundancy carries at most one packet of a session into the next.
OldAudioIsForgotten == part = "sender" => Sender!OldAudioIsForgotten

\* A refresh updates every server once, with the rooms the server lists.
RefreshIsExact == part = "status" => Status!RefreshIsExact
=============================================================================
