-------------------------- MODULE MCAudioProgress ---------------------------
(***************************************************************************)
(* What has to come right in the end while audio plays: the device, the    *)
(* metronome and the recording, on small instances.  Each is checked by    *)
(* itself under the fairness its module states: part says which one runs,  *)
(* and the others stay as they began.                                      *)
(***************************************************************************)
EXTENDS Naturals

VARIABLES
    part,  \* the part that runs
    \* AudioDevice
    plugged, selected, device, running, device_active, inCallback, encoder,
    sender, requested, generation, inFlight, attempts, backoff, jobs,
    completions, holder, phase, opening, calls, alive, losses, stopped,
    \* Metronome
    metronome, toServer, toClients, sequence, now, sent, best,
    \* RecordingWriter
    recorder_active, stopRequested, queue, queued, dropped, writer, taken,
    written, producer, offered, ui, first, complete, starts

Device == INSTANCE AudioDevice WITH
    Devices <- {"d1", "d2"}, MaxGeneration <- 3, MaxLosses <- 1,
    active <- device_active

Click == INSTANCE Metronome WITH
    Clients <- {"c1"}, Tempos <- {1, 2}, MaxSyncs <- 2

Recorder == INSTANCE RecordingWriter WITH
    MaxQueued <- 2, MaxBlocks <- 4, MaxStarts <- 2, active <- recorder_active

deviceVars ==
    <<plugged, selected, device, running, device_active, inCallback, encoder,
      sender, requested, generation, inFlight, attempts, backoff, jobs,
      completions, holder, phase, opening, calls, alive, losses, stopped>>
clickVars == <<metronome, toServer, toClients, sequence, now, sent, best>>
recorderVars ==
    <<recorder_active, stopRequested, queue, queued, dropped, writer, taken,
      written, producer, offered, ui, first, complete, starts>>

vars == <<part, deviceVars, clickVars, recorderVars>>

Init ==
    /\ part \in {"device", "click", "recorder"}
    /\ Device!Init /\ Click!Init /\ Recorder!Init

Next ==
    \/ /\ part = "device" /\ Device!Next
       /\ UNCHANGED <<part, clickVars, recorderVars>>
    \/ /\ part = "click" /\ Click!Next
       /\ UNCHANGED <<part, deviceVars, recorderVars>>
    \/ /\ part = "recorder" /\ Recorder!Next
       /\ UNCHANGED <<part, deviceVars, clickVars>>

(***************************************************************************)
(* The fairness of the parts, put together, as part never changes:         *)
(* WeakStep(i) is the i-th step of the part that runs which is taken once  *)
(* it stays enabled.                                                       *)
(***************************************************************************)
partVars ==
    CASE part = "device" -> deviceVars
      [] part = "click" -> clickVars
      [] part = "recorder" -> recorderVars

DeviceStep(i) ==
    \/ i = 1 /\ Device!Start
    \/ i = 2 /\ Device!Halt
    \/ i = 3 /\ Device!Serve
    \/ i = 4 /\ Device!run_recovery
    \/ i = 5 /\ Device!complete_recovery
    \/ i = 6 /\ Device!recover_audio_device_if_needed
    \/ i = 7 /\ Device!end_callback
    \/ i = 8 /\ Device!return_device("d1")
    \/ i = 9 /\ Device!return_device("d2")

ClickStep(i) ==
    \/ i = 1 /\ \E m \in toServer : Click!handle_metronome_sync(m)
    \/ i = 2 /\ Click!tick
    \/ i = 3 /\ Click!store_field("c1")
    \/ i = 4 /\ \E m \in toClients : Click!schedule_sync(m)
    \/ i = 5 /\ \/ Click!prepare_schedule("c1")
                \/ Click!apply_due_schedule("c1")
                \/ Click!end_mix_click("c1")

RecorderStep(i) ==
    \/ i = 1 /\ Recorder!try_enqueue
    \/ i = 2 /\ Recorder!count_enqueued
    \/ i = 3 /\ (Recorder!take_block \/ Recorder!write_block \/ Recorder!finish_tracks)
    \/ i = 4 /\ \/ Recorder!request_stop
                \/ Recorder!discard
                \/ \E made \in BOOLEAN : Recorder!begin_recording(made)

WeakStep(i) ==
    /\ part' = part
    /\ \/ part = "device" /\ DeviceStep(i)
       \/ part = "click" /\ ClickStep(i)
       \/ part = "recorder" /\ RecorderStep(i)

Spec ==
    /\ Init /\ [][Next]_vars
    /\ \A i \in 1 .. 9 : WF_partVars(WeakStep(i))

----------------------------------------------------------------------------
TypeOK ==
    /\ part = "device" => Device!TypeOK
    /\ part = "click" => Click!TypeOK
    /\ part = "recorder" => Recorder!TypeOK

\* A device the user stopped stays closed (AudioDevice), and every part's
\* variables have their types.
StoppedStaysStopped ==
    /\ TypeOK
    /\ part = "device" => Device!StoppedStaysStopped

\* A stream that lost its device runs again, or is given up (AudioDevice).
LostDeviceReopens == Device!LostDeviceReopens

\* The latest sync a client handles is what it plays in the end (Metronome).
LatestSyncIsPlayed == Click!LatestSyncIsPlayed

\* A stop of the recording returns, with every block written (RecordingWriter).
StopReturns == Recorder!StopReturns

=============================================================================
