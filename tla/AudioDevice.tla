----------------------------- MODULE AudioDevice -----------------------------
(***************************************************************************)
(* The life of the client's audio device (src/client/client_runtime.cpp    *)
(* and src/client/juce_audio_backend.cpp): the calls the windows make, the *)
(* real-time callback, the loss of the device, and its automatic           *)
(* reopening by a timer of the network thread and a worker thread.         *)
(*                                                                         *)
(* The windows' calls come one at a time: the device controls are disabled *)
(* while a background scan runs.  Each start or stop takes                 *)
(* audio_lifecycle_mutex_; what is decided from is_stream_active() is      *)
(* decided outside it.                                                     *)
(***************************************************************************)
EXTENDS Naturals, Sequences

CONSTANTS
    Devices,        \* duplex device pairs
    MaxGeneration,  \* bound: starts and stops
    MaxLosses       \* bound: how often a device is lost

None == "none"
Caller == "caller"
Worker == "worker"

\* backoff_seconds never exceeds this.
MaxBackoff == 4

VARIABLES
    plugged,     \* device pairs the system offers
    selected,    \* ClientAudioState::selected_input/output_device_
    device,      \* the pair the backend's callback is registered with
    running,     \* that device invokes the callback
    active,      \* JuceAudioBackend::stream_active_
    inCallback,  \* the audio thread is inside audio_callback
    encoder,     \* audio_encoder_ is initialised
    sender,      \* the sender thread runs
    requested,   \* audio_stream_requested_
    generation,  \* audio_device_generation_
    inFlight,    \* audio_recovery_in_flight_
    attempts,    \* audio_recovery_attempts_, counted up to 3
    backoff,     \* seconds to next_audio_recovery_ns_
    jobs,        \* posted to audio_device_worker_
    completions, \* posted back to io_context_
    holder,      \* who holds audio_lifecycle_mutex_
    phase,       \* where the holder is in the start or stop it makes
    opening,     \* the pair the holder opens
    calls,       \* the calls the windows still have to make
    alive,       \* lifetime_token_ is held
    losses,      \* devices lost so far
    stopped      \* history: the last call that ended was a stop

deviceVars == <<plugged, device, running, active, inCallback>>
recoveryVars == <<requested, generation, inFlight, attempts, backoff, jobs, completions>>
threadVars == <<encoder, sender>>
lockVars == <<holder, phase, opening>>
vars == <<deviceVars, recoveryVars, threadVars, lockVars, selected, calls, alive, losses, stopped>>

Job == [device : Devices, generation : 0..MaxGeneration, attempt : 1..3]
Completion == [success : BOOLEAN, generation : 0..MaxGeneration, attempt : 1..3]
Step == {"stop", "select", "start", "clear", "clearing", "close"}

TypeOK ==
    /\ plugged \subseteq Devices
    /\ {selected, device, opening} \subseteq Devices \cup {None}
    /\ {running, active, inCallback, encoder, sender} \subseteq BOOLEAN
    /\ {requested, inFlight, alive, stopped} \subseteq BOOLEAN
    /\ generation \in 0..MaxGeneration
    /\ attempts \in 0..3
    /\ backoff \in 0..MaxBackoff
    /\ jobs \in Seq(Job)
    /\ completions \in Seq(Completion)
    /\ holder \in {Caller, Worker, None}
    /\ phase \in {"free", "start", "publish", "stop"}
    /\ calls \in Seq([do : Step, device : Devices \cup {None}])
    /\ losses \in 0..MaxLosses

Init ==
    /\ plugged = Devices
    /\ selected = None /\ device = None /\ opening = None
    /\ running = FALSE /\ active = FALSE /\ inCallback = FALSE
    /\ encoder = FALSE /\ sender = FALSE
    /\ requested = FALSE /\ generation = 0 /\ inFlight = FALSE
    /\ attempts = 0 /\ backoff = 0
    /\ jobs = <<>> /\ completions = <<>>
    /\ holder = None /\ phase = "free"
    /\ calls = <<>>
    /\ alive = TRUE /\ losses = 0 /\ stopped = TRUE

-----------------------------------------------------------------------------
(* What the windows ask for *)

Do(step, d) == [do |-> step, device |-> d]
Stop == <<Do("stop", None)>>
Idle == calls = <<>> /\ alive
Ask(steps) ==
    /\ Idle
    /\ calls' = steps
    /\ UNCHANGED <<deviceVars, recoveryVars, threadVars, lockVars, selected, alive, losses, stopped>>

Doing(step) == calls # <<>> /\ Head(calls).do = step
Return == calls' = Tail(calls)

\* The audio button of the mixer, or of the room browser's monitor.
start_or_stop_audio(d) ==
    Ask(IF active THEN Stop ELSE <<Do("select", d), Do("start", d)>>)

\* Leaving the monitor: a stream that is being recovered is not active, and
\* then nothing is stopped.
stop_monitor == active /\ Ask(Stop)

\* "Apply" with other devices than those in use.
swap_audio_devices(d) ==
    Ask(IF active THEN Stop \o <<Do("select", d), Do("start", d)>>
                ELSE <<Do("select", d)>>)

reset_audio_path ==
    Ask(
        IF active
        THEN Stop \o <<Do("clear", None), Do("start", selected)>>
        ELSE <<Do("clear", None)>>)

\* The background scan of the mixer, which starts the stream on its own.
refresh_audio_devices(d) == Ask(<<Do("select", d), Do("start", d)>>)

\* set_input_device and set_output_device refuse a device that is gone; the
\* call they belong to then ends.
select_device ==
    /\ Doing("select")
    /\ LET d == Head(calls).device IN
       \/ d \in plugged /\ selected' = d /\ Return
       \/ d \notin plugged /\ UNCHANGED selected /\ calls' = <<>>
    /\ UNCHANGED <<deviceVars, recoveryVars, threadVars, lockVars, alive, losses, stopped>>

-----------------------------------------------------------------------------
(* Starting: start_audio_stream_locked and the backend's part of it *)

Acquire(t, p, d) ==
    /\ holder = None
    /\ holder' = t /\ phase' = p /\ opening' = d
Release == holder' = None /\ phase' = "free" /\ opening' = None

begin_start ==
    /\ Doing("start")
    /\ generation < MaxGeneration
    /\ Acquire(Caller, "start", Head(calls).device)
    /\ generation' = generation + 1
    /\ requested' = FALSE
    /\ sender' = FALSE
    /\ stopped' = FALSE
    /\ UNCHANGED <<deviceVars, inFlight, attempts, backoff, jobs, completions, encoder,
                   selected, calls, alive, losses>>

\* A finished call of a caller leaves its list; a finished job of the worker
\* is posted back to the network thread.
Finish(success) ==
    /\ Release
    /\ \/ /\ holder = Caller
          /\ Return
          /\ IF success THEN requested' = TRUE /\ attempts' = 0 /\ backoff' = 0
                        ELSE UNCHANGED <<requested, attempts, backoff>>
          /\ UNCHANGED <<jobs, completions>>
       \/ /\ holder = Worker
          /\ completions' = Append(completions, [success |-> success,
                 generation |-> Head(jobs).generation, attempt |-> Head(jobs).attempt])
          /\ jobs' = Tail(jobs)
          /\ UNCHANGED <<requested, attempts, backoff, calls>>
    /\ UNCHANGED <<generation, inFlight>>

\* A device that is gone is refused before the open stream is touched: by
\* the client, or by the backend after the encoder was made.
refuse_device ==
    /\ phase = "start"
    /\ opening \notin plugged
    /\ encoder' \in {encoder, FALSE}
    /\ Finish(FALSE)
    /\ UNCHANGED <<deviceVars, sender, selected, alive, losses, stopped>>

\* The open stream is closed first, which waits for a callback in progress.
fail_to_open ==
    /\ phase = "start"
    /\ opening \notin plugged
    /\ ~inCallback
    /\ device' = None /\ running' = FALSE /\ active' = FALSE
    /\ encoder' = FALSE
    /\ Finish(FALSE)
    /\ UNCHANGED <<plugged, inCallback, sender, selected, alive, losses, stopped>>

\* addAudioCallback: from here on the device calls audio_callback.
open_device ==
    /\ phase = "start"
    /\ opening \in plugged
    /\ ~inCallback
    /\ encoder' = TRUE
    /\ device' = opening /\ running' = TRUE /\ active' = FALSE
    /\ phase' = "publish"
    /\ UNCHANGED <<plugged, inCallback, recoveryVars, sender, holder, opening, selected,
                   calls, alive, losses, stopped>>

\* stream_active_.store(true), then the sender thread.
publish_stream ==
    /\ phase = "publish"
    /\ active' = TRUE
    /\ sender' = TRUE
    /\ Finish(TRUE)
    /\ UNCHANGED <<plugged, device, running, inCallback, encoder, selected, alive, losses, stopped>>

-----------------------------------------------------------------------------
(* Stopping *)

begin_stop ==
    /\ Doing("stop")
    /\ generation < MaxGeneration
    /\ Acquire(Caller, "stop", None)
    /\ generation' = generation + 1
    /\ requested' = FALSE
    /\ inFlight' = FALSE
    /\ active' = FALSE
    /\ UNCHANGED <<plugged, device, running, inCallback, attempts, backoff, jobs, completions,
                   threadVars, selected, calls, alive, losses, stopped>>

\* removeAudioCallback returns when no callback is in progress.
end_stop ==
    /\ phase = "stop"
    /\ ~inCallback
    /\ device' = None /\ running' = FALSE
    /\ sender' = FALSE
    /\ stopped' = TRUE
    /\ Return
    /\ Release
    /\ UNCHANGED <<plugged, active, inCallback, recoveryVars, encoder, selected, alive, losses>>

\* ~Client, when the windows are gone: the worker is stopped and joined before
\* the lock is taken.
destroy_client ==
    /\ generation < MaxGeneration
    /\ Idle
    /\ holder # Worker
    /\ alive' = FALSE
    /\ requested' = FALSE
    /\ generation' = generation + 1
    /\ jobs' = <<>>
    /\ calls' = <<Do("close", None)>>
    /\ UNCHANGED <<deviceVars, inFlight, attempts, backoff, completions, threadVars, lockVars,
                   selected, losses, stopped>>

close_stream ==
    /\ Doing("close")
    /\ holder = None
    /\ ~inCallback
    /\ device' = None /\ running' = FALSE /\ active' = FALSE
    /\ sender' = FALSE
    /\ stopped' = TRUE
    /\ Return
    /\ UNCHANGED <<plugged, inCallback, recoveryVars, encoder, lockVars, selected, alive, losses>>

\* clear_audio_path_queues takes no lock; it resets what the callback uses.
\* Its assertion that the stream is stopped is not part of a release build.
begin_clear ==
    /\ Doing("clear")
    /\ calls' = <<Do("clearing", None)>> \o Tail(calls)
    /\ UNCHANGED <<deviceVars, recoveryVars, threadVars, lockVars, selected, alive, losses, stopped>>

end_clear ==
    /\ Doing("clearing")
    /\ Return
    /\ UNCHANGED <<deviceVars, recoveryVars, threadVars, lockVars, selected, alive, losses, stopped>>

-----------------------------------------------------------------------------
(* The device and its callback *)

begin_callback ==
    /\ running /\ ~inCallback
    /\ inCallback' = TRUE
    /\ UNCHANGED <<plugged, device, running, active, recoveryVars, threadVars, lockVars,
                   selected, calls, alive, losses, stopped>>

end_callback ==
    /\ inCallback
    /\ inCallback' = FALSE
    /\ UNCHANGED <<plugged, device, running, active, recoveryVars, threadVars, lockVars,
                   selected, calls, alive, losses, stopped>>

\* A device disappears; if it is the open one, audioDeviceStopped follows the
\* last callback.
lose_device(d) ==
    /\ losses < MaxLosses
    /\ d \in plugged
    /\ d = device => ~inCallback
    /\ plugged' = plugged \ {d}
    /\ IF d = device THEN running' = FALSE /\ active' = FALSE
                     ELSE UNCHANGED <<running, active>>
    /\ losses' = losses + 1
    /\ UNCHANGED <<device, inCallback, recoveryVars, threadVars, lockVars, selected, calls, alive, stopped>>

return_device(d) ==
    /\ d \notin plugged
    /\ plugged' = plugged \cup {d}
    /\ UNCHANGED <<device, running, active, inCallback, recoveryVars, threadVars, lockVars,
                   selected, calls, alive, losses, stopped>>

-----------------------------------------------------------------------------
(* Recovery *)

\* Each second.  A stream that was started has a device selected: no call
\* takes the selection back.
recover_audio_device_if_needed ==
    /\ alive
    /\ requested /\ ~active /\ ~inFlight
    /\ \/ /\ backoff > 0
          /\ backoff' = backoff - 1
          /\ UNCHANGED <<inFlight, attempts, jobs>>
       \/ /\ backoff = 0
          /\ inFlight' = TRUE
          /\ attempts' = IF attempts < 3 THEN attempts + 1 ELSE 3
          /\ jobs' = Append(jobs, [device |-> selected, generation |-> generation,
                                   attempt |-> attempts'])
          /\ UNCHANGED backoff
    /\ UNCHANGED <<deviceVars, requested, generation, completions, threadVars, lockVars, selected, calls,
                   alive, losses, stopped>>

\* Mutant: the worker opens the device whatever happened since.
run_recovery_regardless ==
    /\ jobs # <<>>
    /\ Acquire(Worker, "start", Head(jobs).device)
    /\ sender' = FALSE
    /\ UNCHANGED <<jobs, completions, deviceVars, requested, generation, inFlight, attempts,
                   backoff, encoder, selected, calls, alive, losses, stopped>>

\* The worker's job, under the lock: another start or stop since it was
\* posted makes it void.
run_recovery ==
    /\ jobs # <<>>
    /\ \/ /\ requested /\ generation = Head(jobs).generation
          /\ Acquire(Worker, "start", Head(jobs).device)
          /\ sender' = FALSE
          /\ UNCHANGED <<jobs, completions>>
       \/ /\ ~requested \/ generation # Head(jobs).generation
          /\ holder = None
          /\ completions' = Append(completions, [success |-> FALSE,
                 generation |-> Head(jobs).generation, attempt |-> Head(jobs).attempt])
          /\ jobs' = Tail(jobs)
          /\ UNCHANGED <<lockVars, sender>>
    /\ UNCHANGED <<deviceVars, requested, generation, inFlight, attempts, backoff, encoder,
                   selected, calls, alive, losses, stopped>>

\* Mutant: only a reopening that succeeded ends.
complete_recovery_if_good ==
    /\ completions # <<>>
    /\ inFlight' = (inFlight /\ ~Head(completions).success)
    /\ completions' = Tail(completions)
    /\ UNCHANGED <<deviceVars, requested, generation, attempts, backoff, jobs, threadVars,
                   lockVars, selected, calls, alive, losses, stopped>>

\* The network thread learns how the attempt went: 1, 2, 4 seconds.
complete_recovery ==
    /\ completions # <<>>
    /\ LET done == Head(completions)
           current == generation = done.generation /\ requested IN
       /\ inFlight' = IF alive THEN FALSE ELSE inFlight
       /\ IF alive /\ current
          THEN /\ attempts' = IF done.success THEN 0 ELSE attempts
               /\ backoff' = IF done.success THEN 0 ELSE 2 ^ (done.attempt - 1)
          ELSE UNCHANGED <<attempts, backoff>>
    /\ completions' = Tail(completions)
    /\ UNCHANGED <<deviceVars, requested, generation, jobs, threadVars, lockVars, selected,
                   calls, alive, losses, stopped>>

-----------------------------------------------------------------------------

Start == begin_start \/ refuse_device \/ fail_to_open \/ open_device \/ publish_stream
Halt == begin_stop \/ close_stream \/ end_stop
Serve == select_device \/ begin_clear \/ end_clear
Recover == run_recovery \/ complete_recovery \/ recover_audio_device_if_needed

Next ==
    \/ \E d \in Devices : start_or_stop_audio(d) \/ swap_audio_devices(d) \/ refresh_audio_devices(d)
                          \/ lose_device(d) \/ return_device(d)
    \/ stop_monitor \/ reset_audio_path \/ destroy_client
    \/ Start \/ Halt \/ Serve \/ Recover
    \/ begin_callback \/ end_callback

Spec == Init /\ [][Next]_vars

\* Threads that have something to do are scheduled, callbacks return, and a
\* device that was lost comes back.
Fairness ==
    /\ WF_vars(Start) /\ WF_vars(Halt) /\ WF_vars(Serve)
    /\ WF_vars(run_recovery) /\ WF_vars(complete_recovery)
    /\ WF_vars(recover_audio_device_if_needed)
    /\ WF_vars(end_callback)
    /\ \A d \in Devices : WF_vars(return_device(d))
FairSpec == Spec /\ Fairness

-----------------------------------------------------------------------------

\* Once stop_audio_stream has returned, the device stays closed until someone
\* starts it: a reopening that was queued, or that waited for the lock, never
\* brings the microphone back.
StoppedStaysStopped == stopped => device = None

\* A stream that was started and is not running is reopened, or given up by a
\* later call; no lost completion or back-off leaves it down.
LostDeviceReopens == requested /\ ~active ~> active \/ ~requested
=============================================================================
