--------------------------- MODULE PacketDuration ---------------------------
(***************************************************************************)
(* How the sending client lengthens its packets on a bad path and goes     *)
(* back to the duration the user chose (PacketDurationState of             *)
(* congestion_policy.h; apply_congestion_feedback and its callers in       *)
(* client_runtime.cpp).                                                    *)
(*                                                                         *)
(* Feedback comes from three paths: reports of the other participants      *)
(* (downstream), the server's count of what it received (sender_ingress),  *)
(* and ping replies.  It is all handled on the network thread.  The        *)
(* window's thread changes the duration; the lock covers                   *)
(* packet_duration_state_, not the applying of what it decides.            *)
(*                                                                         *)
(* An interval is impaired or not: the worse of its loss and of the round  *)
(* trip at the time.                                                       *)
(***************************************************************************)
EXTENDS Integers, FiniteSetsExt

CONSTANTS Reporters,      \* the other participants
          Sizes,          \* packet durations the user may choose, in frames
          ImpairedFrames, \* FAST_FRAME_COUNT
          MaxChanges      \* bound: changes by the window

VARIABLES duration,       \* packet_duration_state_
          frames,         \* opus_network_frame_count_
          net,            \* what the network thread is about to apply, or 0
          ui,             \* what the window's thread is about to apply, or 0
          reports,        \* downstream_feedback_by_reporter_
          pending,        \* downstream_feedback_pending_
          present,        \* the reporters in the room
          recovered,      \* what is measured from now on is healthy
          changes

durationVars == <<duration, frames, net, ui, reports, pending, present, recovered, changes>>

Paths == {"downstream", "sender_ingress", "ping"}
Clean == [impaired |-> 0, healthy |-> 0, larger |-> FALSE]

\* PACKET_DURATION_IMPAIRED_INTERVALS, PACKET_DURATION_HEALTHY_INTERVALS.
ImpairedIntervals == 2
HealthyIntervals == 3

\* configure_packet_duration.
Configured(size) == [configured |-> size, current |-> size, paths |-> [p \in Paths |-> Clean]]

Init ==
    /\ \E size \in Sizes : duration = Configured(size) /\ frames = size
    /\ net = 0 /\ ui = 0
    /\ reports = [r \in Reporters |-> "none"] /\ pending = FALSE
    /\ present = Reporters /\ recovered = FALSE /\ changes = 0

(***************************************************************************)
(* update_packet_duration                                                  *)
(***************************************************************************)

\* A plausible slip: one interval more before the path is clean again.
Asked_longer(p, impaired) ==
    IF impaired
    THEN LET count == Min({p.impaired + 1, ImpairedIntervals})
         IN  [impaired |-> count, healthy |-> 0,
              larger |-> p.larger \/ count >= ImpairedIntervals]
    ELSE IF p.larger /\ p.healthy + 1 <= HealthyIntervals
    THEN [p EXCEPT !.impaired = 0, !.healthy = @ + 1]
    ELSE Clean

\* What one path asks for after an interval.  (Bound: a count of impaired
\* intervals at its limit stays there.)
Asked(p, impaired) ==
    IF impaired
    THEN LET count == Min({p.impaired + 1, ImpairedIntervals})
         IN  [impaired |-> count, healthy |-> 0,
              larger |-> p.larger \/ count >= ImpairedIntervals]
    ELSE IF p.larger /\ p.healthy + 1 < HealthyIntervals
    THEN [p EXCEPT !.impaired = 0, !.healthy = @ + 1]
    ELSE Clean

Decided(s, paths) ==
    IF \E p \in Paths : paths[p].larger THEN Max({s.configured, ImpairedFrames})
    ELSE s.configured

\* A plausible slip: the duration is decided anew only when it may grow.
update_when_impaired(s, path, impaired) ==
    LET paths == [s.paths EXCEPT ![path] = Asked(@, impaired)]
    IN  [s EXCEPT !.paths = paths,
                  !.current = IF impaired THEN Decided(s, paths) ELSE @]

update_packet_duration(s, path, impaired) ==
    LET paths == [s.paths EXCEPT ![path] = Asked(@, impaired)]
    IN  [s EXCEPT !.paths = paths, !.current = Decided(s, paths)]

(***************************************************************************)
(* apply_congestion_feedback, on the network thread: the duration is       *)
(* decided under the lock, and applied after it.                           *)
(***************************************************************************)
Feedback(path, impaired) ==
    /\ net = 0
    /\ duration' = update_packet_duration(duration, path, impaired)
    /\ net' = duration'.current
    /\ UNCHANGED <<frames, ui, present, recovered, changes>>

apply_decided ==
    /\ net # 0
    /\ frames' = net /\ net' = 0
    /\ UNCHANGED <<duration, ui, reports, pending, present, recovered, changes>>

\* observe_ping_path_feedback, when an interval's replies are counted.
ping_interval(impaired) ==
    /\ recovered => ~impaired
    /\ Feedback("ping", impaired) /\ UNCHANGED <<reports, pending>>

\* handle_audio_path_stats_message.
path_stats(impaired) ==
    /\ recovered => ~impaired
    /\ Feedback("sender_ingress", impaired) /\ UNCHANGED <<reports, pending>>

\* A delivery report is applied (module DeliveryReports): its interval is
\* healthy, impaired, or has too few outcomes to count.
report(r, interval) ==
    /\ net = 0 /\ r \in present
    /\ recovered => interval # "impaired"
    /\ reports' = [reports EXCEPT ![r] = interval] /\ pending' = TRUE
    /\ UNCHANGED <<duration, frames, net, ui, present, recovered, changes>>

\* apply_downstream_delivery_feedback: entries past their retention are dropped;
\* robust_loss_rate, the lower median, is impaired if more than half are.
Count(kept, interval) == Quantify(kept, LAMBDA r : reports[r] = interval)
apply_downstream_delivery_feedback(expired) ==
    LET kept == Reporters \ expired
        healthy == Count(kept, "healthy")
        impaired == Count(kept, "impaired")
    IN  /\ net = 0 /\ pending
        /\ pending' = FALSE
        /\ reports' = [r \in Reporters |-> IF r \in expired THEN "none" ELSE reports[r]]
        /\ IF healthy + impaired = 0
           THEN UNCHANGED <<duration, frames, net, ui, present, recovered, changes>>
           ELSE Feedback("downstream", impaired > healthy)

\* remove_participant.
remove_participant(r) ==
    /\ net = 0 /\ r \in present
    /\ present' = present \ {r}
    /\ reports' = [reports EXCEPT ![r] = "none"]
    /\ UNCHANGED <<duration, frames, net, ui, pending, recovered, changes>>

paths_recover ==
    /\ ~recovered /\ recovered' = TRUE
    /\ UNCHANGED <<duration, frames, net, ui, reports, pending, present, changes>>

(***************************************************************************)
(* The window: set_opus_network_frame_count, and                           *)
(* reset_packet_duration_adaptation when a session is left.                *)
(***************************************************************************)
set_opus_network_frame_count(size) ==
    /\ ui = 0 /\ changes < MaxChanges
    /\ changes' = changes + 1
    /\ duration' = Configured(size) /\ ui' = size
    /\ UNCHANGED <<frames, net, reports, pending, present, recovered>>

apply_configured ==
    /\ ui # 0
    /\ frames' = ui /\ ui' = 0
    /\ UNCHANGED <<duration, net, reports, pending, present, recovered, changes>>

Next ==
    \/ apply_decided \/ apply_configured \/ paths_recover
    \/ \E impaired \in BOOLEAN : path_stats(impaired) \/ ping_interval(impaired)
    \/ \E r \in Reporters : \/ \E i \in {"healthy", "impaired", "few"} : report(r, i)
                            \/ remove_participant(r)
    \/ \E expired \in SUBSET Reporters : apply_downstream_delivery_feedback(expired)
    \/ \E size \in Sizes : set_opus_network_frame_count(size)

Spec == Init /\ [][Next]_durationVars

(***************************************************************************)
(* The threads run; ping replies, the server's statistics and the reports  *)
(* of those who are there go on coming, and are applied before they are    *)
(* past their retention.                                                   *)
(***************************************************************************)
Fairness ==
    /\ WF_durationVars(apply_decided) /\ WF_durationVars(apply_configured)
    /\ SF_durationVars(ping_interval(FALSE)) /\ SF_durationVars(path_stats(FALSE))
    /\ \A r \in Reporters : SF_durationVars(report(r, "healthy"))
    /\ SF_durationVars(apply_downstream_delivery_feedback({}) /\ net' # 0)
FairSpec == Spec /\ Fairness

----------------------------------------------------------------------------
\* The variables have their types.
TypeOK ==
    /\ {frames, duration.current} \subseteq Sizes \cup {ImpairedFrames}
    /\ \A p \in Paths : /\ duration.paths[p].impaired \in 0 .. ImpairedIntervals
                        /\ duration.paths[p].healthy \in 0 .. HealthyIntervals - 1
    /\ {net, ui} \subseteq Sizes \cup {0, ImpairedFrames}
    /\ reports \in [Reporters -> {"none", "few", "healthy", "impaired"}]
    /\ present \subseteq Reporters /\ pending \in BOOLEAN

\* After the paths have recovered the packet duration the user chose comes to be
\* used again, whatever feedback crossed a change of it, unless the reporters
\* that asked for larger packets have all left.
RestoredWhileReported ==
    recovered ~> \/ frames = duration.configured
                 \/ duration.paths["downstream"].larger /\ present = {}

=============================================================================
