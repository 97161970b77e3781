--------------------------- MODULE DeliveryReports ---------------------------
(***************************************************************************)
(* The delivery reports (src/client/client_runtime.cpp,                    *)
(* delivery_report_feedback.h): a receiver tells each sender, once a       *)
(* second, how many of its packets were delivered and how many were lost   *)
(* since the beginning; the sender takes the difference of two reports for *)
(* the outcome of the packets in between and adapts to it.                 *)
(*                                                                         *)
(* One sender and one receiver, in one session.  The receiver may take the *)
(* sender for gone and meet it again; either forgets the other's reports   *)
(* in time.  The network loses, repeats and reorders reports.              *)
(***************************************************************************)
EXTENDS Integers, Sequences, FiniteSets

CONSTANTS
    NoEntry,       \* there is no entry in a table
    MaxInterval,   \* MAX_INTERVAL_PACKETS
    MaxGenerated,  \* bound: packets the sender makes
    MaxReports,    \* bound: reports
    MaxEpochs      \* bound: lives of the receiver's account

VARIABLES
    generated,   \* audio_packets_generated_ since the baseline
    resolved,    \* history: what became of them at the receiver
    outcomes,    \* the counters of the participant there; NoEntry if it is gone
    account,     \* delivery_report_accumulators_[sender]
    epoch,       \* next_delivery_report_epoch_
    sequence,    \* secure_control_sequence_
    net,         \* reports on their way
    reporter,    \* downstream_delivery_by_reporter_[receiver]
    resting,     \* it is in downstream_delivery_tombstone_since_
    applied      \* history: the sum of what the sender adapted to

receiverVars == <<resolved, outcomes, account, epoch, sequence>>
reportVars == <<generated, receiverVars, net, reporter, resting, applied>>

Zero == [delivered |-> 0, lost |-> 0]
NewAccount == [epoch |-> epoch, inactive |-> FALSE, sent |-> Zero, total |-> Zero, seen |-> Zero]

Init ==
    /\ generated = 0 /\ resolved = Zero
    /\ outcomes = NoEntry /\ account = NoEntry /\ epoch = 1 /\ sequence = 1
    /\ net = {} /\ reporter = NoEntry /\ resting = FALSE /\ applied = Zero

generate ==
    /\ generated < MaxGenerated
    /\ generated' = generated + 1
    /\ UNCHANGED <<receiverVars, net, reporter, resting, applied>>

-----------------------------------------------------------------------------
(* The receiver                                                             *)

\* handle_audio_message registers the participant and opens its account.
packet_arrives ==
    /\ generated > 0
    /\ outcomes' = IF outcomes = NoEntry THEN Zero ELSE outcomes
    /\ account' = IF account = NoEntry THEN NewAccount ELSE [account EXCEPT !.inactive = FALSE]
    /\ epoch' = IF account = NoEntry THEN epoch + 1 ELSE epoch
    /\ epoch' <= MaxEpochs + 1
    /\ UNCHANGED <<generated, resolved, sequence, net, reporter, resting, applied>>

\* The audio callback plays a packet or gives it up.
packet_resolved(as) ==
    /\ outcomes # NoEntry
    /\ resolved.delivered + resolved.lost < generated
    /\ outcomes' = [outcomes EXCEPT ![as] = @ + 1]
    /\ resolved' = [resolved EXCEPT ![as] = @ + 1]
    /\ UNCHANGED <<generated, account, epoch, sequence, net, reporter, resting, applied>>

\* Mutant: all that the participant counts is added each time.
observe_counter_anew(total, seen, current) == total + current
\* LifetimeCounter::observe: a counter that went back has begun anew.
observe_counter(total, seen, current) ==
    total + (IF current >= seen THEN current - seen ELSE current)

snapshot_delivery_outcomes ==
    IF account = NoEntry \/ outcomes = NoEntry THEN account
    ELSE [account EXCEPT
            !.total = [k \in DOMAIN Zero |->
                          observe_counter(account.total[k], account.seen[k], outcomes[k])],
            !.seen = outcomes]

end_media_lifetime(a) ==
    IF a = NoEntry THEN a ELSE [a EXCEPT !.seen = Zero, !.inactive = TRUE]

\* A report goes out when there is something new to tell of a participant.
send_audio_delivery_reports(a) ==
    IF a # NoEntry /\ outcomes' # NoEntry /\ a.total # a.sent
    THEN /\ sequence < MaxReports + 1
         /\ net' = net \cup {[epoch |-> a.epoch, sequence |-> sequence, total |-> a.total]}
         /\ sequence' = sequence + 1
         /\ account' = [a EXCEPT !.sent = a.total]
    ELSE account' = a /\ UNCHANGED <<net, sequence>>

\* cleanup_timer_callback: the participant may have been silent for 20 s, its
\* account unused for 5 minutes.
cleanup_timer_callback(silent, unused) ==
    /\ silent => outcomes # NoEntry
    /\ unused => account # NoEntry /\ account.inactive
    /\ outcomes' = IF silent THEN NoEntry ELSE outcomes
    /\ LET a == snapshot_delivery_outcomes
           kept == IF silent THEN end_media_lifetime(a) ELSE a
       IN  send_audio_delivery_reports(IF unused THEN NoEntry ELSE kept)
    /\ UNCHANGED <<generated, resolved, epoch, reporter, resting, applied>>

lose_report(report) ==
    /\ net' = net \ {report}
    /\ UNCHANGED <<generated, receiverVars, reporter, resting, applied>>

-----------------------------------------------------------------------------
(* The sender                                                               *)

Sum(total) == total.delivered + total.lost
Less(a, b) == [k \in DOMAIN Zero |-> a[k] - b[k]]

\* Mutant: a report is taken in whatever order it comes.
observe_in_any_order(old, report) ==
    IF old = NoEntry \/ old.epoch # report.epoch THEN "Rebaseline"
    ELSE IF Sum(Less(report.total, old.total)) > MaxInterval THEN "Rebaseline"
    ELSE "Applied"
\* What a report is to the one before it.
observe(old, report) ==
    IF old = NoEntry THEN "Rebaseline"
    ELSE IF report.sequence <= old.sequence \/ report.epoch < old.epoch THEN "Stale"
    ELSE IF report.epoch # old.epoch THEN "Rebaseline"
    ELSE IF \E k \in DOMAIN Zero : report.total[k] < old.total[k] THEN "Implausible"
    ELSE IF Sum(Less(report.total, old.total)) > MaxInterval THEN "Rebaseline"
    ELSE "Applied"

claimed_outcomes_plausible(already, newly) == newly <= generated - already

\* The case of handle_secure_control_message for a report.
receive_report(report, again) ==
    LET status == observe(reporter, report)
        anew == reporter = NoEntry \/ reporter.epoch # report.epoch
        delta == IF anew THEN report.total ELSE Less(report.total, reporter.total)
        claimed == IF reporter # NoEntry THEN reporter.claimed
                   ELSE IF generated > MaxInterval THEN generated - MaxInterval ELSE 0
        plausible == claimed_outcomes_plausible(claimed, Sum(delta))
        taken == \/ status = "Rebaseline"
                 \/ status = "Applied" /\ plausible
    IN  /\ net' = IF again THEN net ELSE net \ {report}
        /\ reporter' = IF ~taken THEN reporter
                       ELSE [epoch |-> report.epoch, sequence |-> report.sequence,
                             total |-> report.total,
                             claimed |-> IF plausible THEN claimed + Sum(delta) ELSE generated]
        /\ resting' = (resting /\ ~taken)
        /\ applied' = IF taken /\ status = "Applied"
                      THEN [k \in DOMAIN Zero |-> applied[k] + delta[k]] ELSE applied
        /\ UNCHANGED <<generated, receiverVars>>

\* After 5 minutes without a report it is put to rest, after another 5 it is
\* forgotten; nothing is on its way for that long.
expire_reporter ==
    /\ reporter # NoEntry /\ net = {}
    /\ resting' = ~resting
    /\ reporter' = IF resting THEN NoEntry ELSE reporter
    /\ UNCHANGED <<generated, receiverVars, net, applied>>

Next ==
    \/ generate \/ packet_arrives
    \/ \E as \in DOMAIN Zero : packet_resolved(as)
    \/ \E silent, unused \in BOOLEAN : cleanup_timer_callback(silent, unused)
    \/ \E report \in net : lose_report(report) \/ \E again \in BOOLEAN : receive_report(report, again)
    \/ expire_reporter
Spec == Init /\ [][Next]_reportVars

-----------------------------------------------------------------------------
(* Properties                                                               *)

TypeOK ==
    /\ generated \in 0..MaxGenerated /\ Sum(resolved) <= generated
    /\ outcomes # NoEntry => account # NoEntry
    /\ account # NoEntry => account.epoch < epoch
    /\ reporter # NoEntry => reporter.claimed \in 0..generated /\ reporter.sequence < sequence
    /\ resting => reporter # NoEntry

\* The sender never adapts to an outcome twice, nor to one that did not
\* happen: whatever is lost, repeated or overtaken on the way, and however
\* often the two forget and meet each other again, what it applied is within
\* what became of its packets.
AppliedHappened ==
    /\ applied.delivered <= resolved.delivered
    /\ applied.lost <= resolved.lost
=============================================================================
