-------------------------- MODULE RecordingWriter --------------------------
(***************************************************************************)
(* Recording (recording_writer.h): the audio callback offers blocks to a   *)
(* queue, a writer thread takes them out and writes them, and start and    *)
(* stop on the window's thread begin and end a recording.  The number of   *)
(* queued blocks is a counter beside the queue: it is raised after a block *)
(* went in and lowered after one came out, so the two can disagree while a *)
(* thread is between the two steps.                                        *)
(*                                                                         *)
(* A block is a number: 1, 2, ... in the order offered.                    *)
(***************************************************************************)
EXTENDS Integers, Sequences

CONSTANTS MaxQueued,      \* MAX_QUEUED_BLOCKS
          MaxBlocks,      \* bound: blocks offered
          MaxStarts       \* bound: recordings

VARIABLES active, stopRequested,
          queue, queued,  \* the queue and the counter beside it
          dropped,        \* dropped_blocks_
          writer,         \* the writer thread: "none", "running" or "done"
          taken,          \* the block it has taken out and not counted, or 0
          written,        \* the blocks written to the files of this recording
          producer,       \* the callback: where it is in enqueue
          offered,        \* blocks offered so far
          ui,             \* the window's thread: where it is in start or stop
          first,          \* the first block of this recording
          complete,       \* its blocks whose enqueue was over when stop was called
          starts

recVars == <<active, stopRequested, queue, queued, dropped, writer, taken, written,
             producer, offered, ui, first, complete, starts>>

Idle == [step |-> "idle"]

Init ==
    /\ active = FALSE /\ stopRequested = TRUE
    /\ queue = <<>> /\ queued = 0 /\ dropped = 0
    /\ writer = "none" /\ taken = 0 /\ written = {}
    /\ producer = "idle" /\ offered = 0
    /\ ui = Idle /\ first = 1 /\ complete = {} /\ starts = 0

(***************************************************************************)
(* enqueue, on the audio thread.                                           *)
(***************************************************************************)

\* The checks: an inactive recorder takes nothing, a full one counts a drop.
begin_enqueue ==
    /\ producer = "idle" /\ active /\ offered < MaxBlocks
    /\ offered' = offered + 1
    /\ IF queued >= MaxQueued \/ queued < 0
       THEN dropped' = dropped + 1 /\ UNCHANGED producer
       ELSE producer' = "copying" /\ UNCHANGED dropped
    /\ UNCHANGED <<active, stopRequested, queue, queued, writer, taken, written, ui,
                   first, complete, starts>>

try_enqueue ==
    /\ producer = "copying"
    /\ queue' = Append(queue, offered)
    /\ producer' = "counting"
    /\ UNCHANGED <<active, stopRequested, queued, dropped, writer, taken, written,
                   offered, ui, first, complete, starts>>

count_enqueued ==
    /\ producer = "counting"
    /\ queued' = queued + 1
    /\ producer' = "idle"
    /\ complete' = IF active /\ offered >= first THEN complete \cup {offered} ELSE complete
    /\ UNCHANGED <<active, stopRequested, queue, dropped, writer, taken, written,
                   offered, ui, first, starts>>

(***************************************************************************)
(* writer_loop.                                                            *)
(***************************************************************************)

take_block ==
    /\ writer = "running" /\ taken = 0
    /\ ~stopRequested \/ queued # 0
    /\ queue # <<>>
    /\ taken' = Head(queue) /\ queue' = Tail(queue)
    /\ UNCHANGED <<active, stopRequested, queued, dropped, writer, written, producer,
                   offered, ui, first, complete, starts>>

\* The counter lowered, the block written to its track.
write_block ==
    /\ writer = "running" /\ taken # 0
    /\ queued' = queued - 1
    /\ written' = written \cup {taken} /\ taken' = 0
    /\ UNCHANGED <<active, stopRequested, queue, dropped, writer, producer, offered,
                   ui, first, complete, starts>>

\* A plausible slip: the loop ends as soon as a stop is requested.
finish_at_once ==
    /\ writer = "running" /\ taken = 0 /\ stopRequested
    /\ writer' = "done"
    /\ UNCHANGED <<active, stopRequested, queue, queued, dropped, taken, written,
                   producer, offered, ui, first, complete, starts>>

\* The loop ends: the headers and the manifest are written.  (The counter is
\* unsigned: below 0 it is a large number.)
finish_tracks ==
    /\ writer = "running" /\ taken = 0
    /\ stopRequested /\ queued = 0
    /\ writer' = "done"
    /\ UNCHANGED <<active, stopRequested, queue, queued, dropped, taken, written,
                   producer, offered, ui, first, complete, starts>>

(***************************************************************************)
(* start and stop, on the window's thread.  start stops first.             *)
(***************************************************************************)

\* Stop is called, or start, which calls it.
begin_stop(then) ==
    /\ ui = Idle
    /\ then = "start" => starts < MaxStarts
    /\ active' = FALSE
    /\ ui' = [step |-> "flagging", then |-> then]
    /\ UNCHANGED <<stopRequested, queue, queued, dropped, writer, taken, written,
                   producer, offered, first, complete, starts>>

request_stop ==
    /\ ui.step = "flagging"
    /\ stopRequested' = TRUE
    /\ ui' = [ui EXCEPT !.step = "joining"]
    /\ UNCHANGED <<active, queue, queued, dropped, writer, taken, written, producer,
                   offered, first, complete, starts>>

\* The writer is joined; what is still in the queue is discarded.
discard ==
    /\ ui.step = "joining" /\ writer # "running"
    /\ queued' = queued - Len(queue) /\ queue' = <<>>
    /\ writer' = "none"
    /\ ui' = IF ui.then = "start" THEN [ui EXCEPT !.step = "starting"] ELSE Idle
    /\ UNCHANGED <<active, stopRequested, dropped, taken, written, producer, offered,
                   first, complete, starts>>

\* The counters cleared, the flags set, the writer started; or the folder
\* cannot be made.
begin_recording(made) ==
    /\ ui.step = "starting"
    /\ ui' = Idle
    /\ starts' = starts + 1
    /\ IF made
       THEN /\ queued' = 0 /\ dropped' = 0
            /\ stopRequested' = FALSE /\ active' = TRUE
            /\ writer' = "running" /\ written' = {}
            /\ first' = offered + 1 /\ complete' = {}
       ELSE UNCHANGED <<queued, dropped, stopRequested, active, writer, written, first, complete>>
    /\ UNCHANGED <<queue, taken, producer, offered>>

Next ==
    \/ begin_enqueue \/ try_enqueue \/ count_enqueued
    \/ take_block \/ write_block \/ finish_tracks
    \/ \E then \in {"return", "start"} : begin_stop(then)
    \/ request_stop \/ discard \/ \E made \in BOOLEAN : begin_recording(made)

Spec == Init /\ [][Next]_recVars

\* The threads run: a callback ends, the writer writes, a stop proceeds.
FairSpec ==
    /\ Spec
    /\ WF_recVars(try_enqueue) /\ WF_recVars(count_enqueued)
    /\ WF_recVars(take_block \/ write_block \/ finish_tracks)
    /\ WF_recVars(request_stop \/ discard \/ \E made \in BOOLEAN : begin_recording(made))

----------------------------------------------------------------------------
\* The variables have their types.
TypeOK ==
    /\ {active, stopRequested} \subseteq BOOLEAN
    /\ queue \in Seq(1 .. MaxBlocks)
    /\ queued \in -MaxBlocks .. MaxBlocks
    /\ writer \in {"none", "running", "done"} /\ producer \in {"idle", "copying", "counting"}
    /\ dropped \in 0 .. MaxBlocks /\ offered \in 0 .. MaxBlocks /\ starts \in 0 .. MaxStarts

\* The counter does not match the queue.  This happens when a callback is held up
\* inside enqueue while the recorder is stopped and started again: start clears
\* the counter between the two steps of a block that is gone, or after both
\* steps of one that is not.
Skewed ==
    queued # Len(queue) + (IF taken = 0 THEN 0 ELSE 1) - (IF producer = "counting" THEN 1 ELSE 0)

\* A finished recording holds every block that was fully queued while it was
\* active, whatever the callback was doing when stop was called (the writer
\* leaves its loop only when the counter says the queue is empty).
RecordedIsComplete == writer # "running" => complete \subseteq written

\* A stop returns, and the recording it ends is complete: the window does not
\* hang joining the writer, unless the counter is skewed.
StopReturns == ui # Idle ~> Skewed \/ (ui = Idle /\ RecordedIsComplete)

=============================================================================
