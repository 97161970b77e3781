-------------------------- MODULE AudioDeviceProofs --------------------------
(***************************************************************************)
(* Once the audio stream was stopped it stays closed: proved for every set *)
(* of devices and every bound on starts and losses.                        *)
(*                                                                         *)
(* The property alone is not inductive.  A stopped stream must also not be *)
(* requested, which voids every reopening the worker finds posted, and     *)
(* nobody may be in the middle of a start; the lock keeps a stop from      *)
(* ending while a start is under way, and the destructor's close relies on *)
(* nothing being posted any more once the client is destroyed.             *)
(***************************************************************************)
EXTENDS AudioDevice, SequenceTheorems, TLAPS

\* The calls the windows make while the client lives: none of them is the
\* destructor's.
LiveCall == [do : Step \ {"close"}, device : Devices \cup {None}]
Closing == <<Do("close", None)>>
Starting == phase \in {"start", "publish"}

\* Who holds audio_lifecycle_mutex_ is in the call it was taken for.
LockInv ==
    /\ holder \in {Caller, Worker, None}
    /\ phase \in {"free", "start", "publish", "stop"}
    /\ holder = None <=> phase = "free"
    /\ holder = Worker => Starting
    /\ holder = Caller => Doing(IF Starting THEN "start" ELSE "stop")

CallsInv ==
    IF alive THEN calls \in Seq(LiveCall)
    ELSE /\ calls \in {<<>>, Closing}
         /\ phase = "free" /\ jobs = <<>> /\ requested = FALSE

StopInv ==
    /\ stopped => device = None /\ requested = FALSE
    /\ Starting => stopped = FALSE
    /\ phase = "stop" => requested = FALSE

AudioInv ==
    /\ {alive, requested, stopped} \subseteq BOOLEAN
    /\ selected \in Devices \cup {None}
    /\ LockInv /\ CallsInv /\ StopInv

----------------------------------------------------------------------------
\* A new client has stopped audio and holds no lock.
LEMMA AudioInvInit == Init => AudioInv
<1> SUFFICES ASSUME Init PROVE AudioInv
  OBVIOUS
<1>1. LockInv /\ StopInv
  BY DEF Init, LockInv, StopInv, Starting, None, Caller, Worker
<1>2. calls \in Seq(LiveCall)
  BY EmptySeq DEF Init
<1> QED
  BY <1>1, <1>2 DEF Init, AudioInv, CallsInv

\* What is left of the windows' calls when one has ended.
LEMMA CallsLeft ==
    ASSUME NEW s \in Seq(LiveCall), s # <<>>
    PROVE  Tail(s) \in Seq(LiveCall) /\ Head(s) \in LiveCall
  OBVIOUS

\* A call is put in place, or one ends, while no lock is held for it; the
\* stream is not touched (Ask, select_device, clear_audio_path_queues).
LEMMA CallStep ==
    ASSUME AudioInv, alive, holder # Caller, calls' \in Seq(LiveCall),
           selected' \in Devices \cup {None},
           UNCHANGED <<lockVars, jobs, requested, alive, device, stopped>>
    PROVE  AudioInv'
  BY DEF AudioInv, LockInv, CallsInv, StopInv, Starting, lockVars, Doing

\* A step of the device, its callback or the timer that touches neither the
\* lock, the calls nor what was asked of the stream.
LEMMA QuietStep ==
    ASSUME AudioInv, alive \/ jobs' = jobs,
           UNCHANGED <<lockVars, calls, requested, alive, device, stopped, selected>>
    PROVE  AudioInv'
  BY DEF AudioInv, LockInv, CallsInv, StopInv, Starting, lockVars, Doing

\* A start ends (Finish): by the caller, whose call is done, or by the worker.
LEMMA FinishStep ==
    ASSUME AudioInv, Starting, NEW success \in BOOLEAN, Finish(success),
           UNCHANGED <<alive, stopped, selected>>
    PROVE  AudioInv'
<1>1. alive = TRUE /\ stopped = FALSE /\ calls \in Seq(LiveCall)
  BY DEF AudioInv, CallsInv, StopInv, Starting
<1>2. holder' = None /\ phase' = "free"
  BY DEF Finish, Release
<1>3. calls' \in Seq(LiveCall)
  BY <1>1, CallsLeft DEF Finish, Return, AudioInv, LockInv, Doing, Caller, Worker
<1>4. requested' \in BOOLEAN
  BY DEF Finish, AudioInv
<1> QED
  BY <1>1, <1>2, <1>3, <1>4
  DEF AudioInv, LockInv, CallsInv, StopInv, Starting, None, Caller, Worker

----------------------------------------------------------------------------
\* Each step keeps the invariant.
LEMMA AudioInvNext == AudioInv /\ [Next]_vars => AudioInv'
<1> SUFFICES ASSUME AudioInv, [Next]_vars PROVE AudioInv'
  OBVIOUS
<1>t. /\ {alive, requested, stopped} \subseteq BOOLEAN
      /\ selected \in Devices \cup {None}
      /\ LockInv /\ CallsInv /\ StopInv
  BY DEF AudioInv
<1>1. ASSUME NEW steps \in Seq(LiveCall), Ask(steps) PROVE AudioInv'
  <2>1. alive /\ calls = <<>> /\ calls' = steps
        /\ UNCHANGED <<lockVars, jobs, requested, alive, device, stopped, selected>>
    BY <1>1 DEF Ask, Idle, deviceVars, recoveryVars
  <2>2. holder # Caller
    BY <1>t, <2>1 DEF LockInv, Doing
  <2> QED
    BY <2>1, <2>2, CallStep DEF AudioInv
<1>2. ASSUME NEW d \in Devices,
             start_or_stop_audio(d) \/ swap_audio_devices(d) \/ refresh_audio_devices(d)
      PROVE  AudioInv'
  <2> DEFINE pick == Do("select", d)
             begin == Do("start", d)
  <2>1. pick \in LiveCall /\ begin \in LiveCall /\ Do("stop", None) \in LiveCall
    BY DEF Do, LiveCall, Step
  <2> HIDE DEF pick, begin
  <2>2. /\ Stop \in Seq(LiveCall) /\ <<pick>> \in Seq(LiveCall)
        /\ <<pick, begin>> \in Seq(LiveCall)
    BY <2>1 DEF Stop
  <2>3. Stop \o <<pick, begin>> \in Seq(LiveCall)
    BY <2>2
  <2>4. \E steps \in Seq(LiveCall) : Ask(steps)
    BY <1>2, <2>2, <2>3
    DEF start_or_stop_audio, swap_audio_devices, refresh_audio_devices, pick, begin
  <2> QED
    BY <1>1, <2>4
<1>3. ASSUME stop_monitor \/ reset_audio_path PROVE AudioInv'
  <2> DEFINE clear == Do("clear", None)
             again == Do("start", selected)
  <2>1. clear \in LiveCall /\ Do("stop", None) \in LiveCall
    BY DEF Do, LiveCall, Step
  <2>2. again \in LiveCall
    BY <1>t DEF Do, LiveCall, Step
  <2> HIDE DEF clear, again
  <2>3. /\ Stop \in Seq(LiveCall) /\ <<clear>> \in Seq(LiveCall)
        /\ <<clear, again>> \in Seq(LiveCall)
    BY <2>1, <2>2 DEF Stop
  <2>4. Stop \o <<clear, again>> \in Seq(LiveCall)
    BY <2>3
  <2>5. \E steps \in Seq(LiveCall) : Ask(steps)
    BY <1>3, <2>3, <2>4 DEF stop_monitor, reset_audio_path, clear, again
  <2> QED
    BY <1>1, <2>5
<1>4. ASSUME Serve PROVE AudioInv'
  <2>1. /\ Doing("select") \/ Doing("clear") \/ Doing("clearing")
        /\ UNCHANGED <<lockVars, jobs, requested, alive, device, stopped>>
    BY <1>4 DEF Serve, select_device, begin_clear, end_clear, deviceVars, recoveryVars
  <2>2. alive = TRUE /\ calls \in Seq(LiveCall) /\ calls # <<>>
    BY <1>t, <2>1 DEF CallsInv, Doing, Closing, Do
  <2>3. holder # Caller
    BY <1>t, <2>1 DEF LockInv, Doing
  <2>4. Head(calls) \in LiveCall /\ Tail(calls) \in Seq(LiveCall)
    BY <2>2, CallsLeft
  <2>5. Head(calls).device \in Devices \cup {None}
    BY <2>4 DEF LiveCall
  <2>6. selected' \in Devices \cup {None}
    BY <1>4, <1>t, <2>5 DEF Serve, select_device, begin_clear, end_clear
  <2>7. calls' \in Seq(LiveCall)
    <3> DEFINE c == Do("clearing", None)
    <3>1. c \in LiveCall
      BY DEF Do, LiveCall, Step
    <3>2. calls' \in {<<>>, Tail(calls), <<c>> \o Tail(calls)}
      BY <1>4 DEF Serve, select_device, begin_clear, end_clear, Return
    <3> HIDE DEF c
    <3>3. <<>> \in Seq(LiveCall) /\ <<c>> \o Tail(calls) \in Seq(LiveCall)
      BY <2>4, <3>1
    <3> QED
      BY <2>4, <3>2, <3>3
  <2> QED
    BY <2>1, <2>2, <2>3, <2>6, <2>7, CallStep
<1>5. ASSUME begin_start PROVE AudioInv'
  <2>1. /\ holder' = Caller /\ phase' = "start" /\ Doing("start")
        /\ requested' = FALSE /\ stopped' = FALSE
        /\ UNCHANGED <<calls, alive, selected, jobs>>
    BY <1>5 DEF begin_start, Acquire
  <2>2. alive = TRUE /\ calls \in Seq(LiveCall)
    BY <1>t, <2>1 DEF CallsInv, Doing, Closing, Do
  <2>3. LockInv'
    BY <2>1 DEF LockInv, Starting, Doing, None, Caller, Worker
  <2>4. StopInv' /\ CallsInv'
    BY <2>1, <2>2 DEF StopInv, CallsInv
  <2> QED
    BY <1>t, <2>1, <2>2, <2>3, <2>4 DEF AudioInv
<1>6. ASSUME refuse_device \/ fail_to_open \/ publish_stream PROVE AudioInv'
  <2>1. Starting /\ UNCHANGED <<alive, stopped, selected>>
        /\ \E success \in BOOLEAN : Finish(success)
    BY <1>6 DEF refuse_device, fail_to_open, publish_stream, Starting
  <2> QED
    BY <2>1, FinishStep
<1>7. ASSUME open_device PROVE AudioInv'
  <2>1. /\ phase = "start" /\ phase' = "publish"
        /\ UNCHANGED <<holder, calls, alive, stopped, selected, requested, jobs>>
    BY <1>7 DEF open_device, recoveryVars
  <2>2. alive = TRUE /\ stopped = FALSE
    BY <1>t, <2>1 DEF CallsInv, StopInv, Starting
  <2>3. LockInv' /\ CallsInv' /\ StopInv'
    BY <1>t, <2>1, <2>2 DEF LockInv, CallsInv, StopInv, Starting, Doing
  <2> QED
    BY <1>t, <2>1, <2>3 DEF AudioInv
<1>8. ASSUME begin_stop PROVE AudioInv'
  <2>1. /\ holder' = Caller /\ phase' = "stop" /\ Doing("stop")
        /\ requested' = FALSE
        /\ UNCHANGED <<calls, alive, selected, jobs, stopped, device>>
    BY <1>8 DEF begin_stop, Acquire
  <2>2. alive = TRUE /\ calls \in Seq(LiveCall)
    BY <1>t, <2>1 DEF CallsInv, Doing, Closing, Do
  <2>3. LockInv'
    BY <2>1 DEF LockInv, Starting, Doing, None, Caller, Worker
  <2>4. StopInv' /\ CallsInv'
    BY <1>t, <2>1, <2>2 DEF StopInv, CallsInv, Starting
  <2> QED
    BY <1>t, <2>1, <2>2, <2>3, <2>4 DEF AudioInv
<1>9. ASSUME end_stop PROVE AudioInv'
  <2>1. /\ phase = "stop" /\ holder' = None /\ phase' = "free" /\ calls' = Tail(calls)
        /\ device' = None /\ stopped' = TRUE
        /\ UNCHANGED <<alive, selected, requested, jobs>>
    BY <1>9 DEF end_stop, Return, Release, recoveryVars
  <2>2. holder = Caller /\ Doing("stop") /\ requested = FALSE
    BY <1>t, <2>1 DEF LockInv, StopInv, Starting
  <2>3. alive = TRUE /\ calls \in Seq(LiveCall) /\ calls # <<>>
    BY <1>t, <2>1, <2>2 DEF CallsInv, Doing
  <2>4. calls' \in Seq(LiveCall)
    BY <2>1, <2>3, CallsLeft
  <2>5. LockInv' /\ CallsInv' /\ StopInv'
    BY <2>1, <2>2, <2>3, <2>4
    DEF LockInv, CallsInv, StopInv, Starting, None, Caller, Worker
  <2> QED
    BY <1>t, <2>1, <2>5 DEF AudioInv
<1>10. ASSUME destroy_client PROVE AudioInv'
  <2>1. /\ calls = <<>> /\ holder # Worker
        /\ alive' = FALSE /\ requested' = FALSE /\ jobs' = <<>> /\ calls' = Closing
        /\ UNCHANGED <<holder, phase, selected, stopped, device>>
    BY <1>10 DEF destroy_client, Idle, Closing, lockVars, deviceVars
  <2>2. holder = None /\ phase = "free"
    BY <1>t, <2>1 DEF LockInv, Doing
  <2>3. LockInv' /\ CallsInv' /\ StopInv'
    BY <1>t, <2>1, <2>2 DEF LockInv, CallsInv, StopInv, Starting, None, Caller, Worker
  <2> QED
    BY <1>t, <2>1, <2>3 DEF AudioInv
<1>11. ASSUME close_stream PROVE AudioInv'
  <2>1. /\ Doing("close") /\ holder = None /\ calls' = Tail(calls)
        /\ device' = None /\ stopped' = TRUE
        /\ UNCHANGED <<holder, phase, alive, selected, requested, jobs>>
    BY <1>11 DEF close_stream, Return, recoveryVars, lockVars
  <2>2. alive = FALSE
    <3>1. SUFFICES ASSUME alive PROVE FALSE
      BY <1>t
    <3>2. Head(calls) \in LiveCall
      BY <1>t, <2>1, <3>1, CallsLeft DEF CallsInv, Doing
    <3> QED
      BY <2>1, <3>2 DEF LiveCall, Doing
  <2>3. calls = Closing /\ requested = FALSE /\ phase = "free" /\ jobs = <<>>
    BY <1>t, <2>1, <2>2 DEF CallsInv, Doing
  <2>4. calls' = <<>>
    BY <2>1, <2>3 DEF Closing
  <2>5. LockInv' /\ CallsInv' /\ StopInv'
    BY <2>1, <2>2, <2>3, <2>4 DEF LockInv, CallsInv, StopInv, Starting, None, Caller, Worker
  <2> QED
    BY <1>t, <2>1, <2>5 DEF AudioInv
<1>12. ASSUME run_recovery PROVE AudioInv'
  <2>1. jobs # <<>> /\ UNCHANGED <<calls, alive, requested, selected, stopped, device>>
    BY <1>12 DEF run_recovery, deviceVars
  <2>2. alive = TRUE
    BY <1>t, <2>1 DEF CallsInv
  <2>3. CASE UNCHANGED lockVars
    BY <2>1, <2>2, <2>3, QuietStep
  <2>4. CASE requested /\ holder' = Worker /\ phase' = "start"
    <3>1. stopped = FALSE /\ LockInv'
      BY <1>t, <2>4 DEF StopInv, LockInv, Starting, None, Caller, Worker
    <3>2. CallsInv' /\ StopInv'
      BY <1>t, <2>1, <2>2, <2>4, <3>1 DEF CallsInv, StopInv, Starting
    <3> QED
      BY <1>t, <2>1, <3>1, <3>2 DEF AudioInv
  <2> QED
    BY <1>12, <2>3, <2>4 DEF run_recovery, Acquire
<1>13. ASSUME recover_audio_device_if_needed PROVE AudioInv'
  <2>1. alive /\ UNCHANGED <<lockVars, calls, requested, alive, device, stopped, selected>>
    BY <1>13 DEF recover_audio_device_if_needed, deviceVars
  <2> QED
    BY <2>1, QuietStep
<1>14. ASSUME complete_recovery \/ begin_callback \/ end_callback PROVE AudioInv'
  <2>1. UNCHANGED <<lockVars, calls, requested, alive, device, stopped, selected, jobs>>
    BY <1>14 DEF complete_recovery, begin_callback, end_callback, deviceVars, recoveryVars
  <2> QED
    BY <2>1, QuietStep
<1>15. ASSUME NEW d \in Devices, lose_device(d) \/ return_device(d) PROVE AudioInv'
  <2>1. UNCHANGED <<lockVars, calls, requested, alive, device, stopped, selected, jobs>>
    BY <1>15 DEF lose_device, return_device, recoveryVars
  <2> QED
    BY <2>1, QuietStep
<1>16. ASSUME UNCHANGED vars PROVE AudioInv'
  <2>1. UNCHANGED <<lockVars, calls, requested, alive, device, stopped, selected, jobs>>
    BY <1>16 DEF vars, deviceVars, recoveryVars
  <2> QED
    BY <2>1, QuietStep
<1> QED
  BY <1>2, <1>3, <1>4, <1>5, <1>6, <1>7, <1>8, <1>9, <1>10, <1>11, <1>12, <1>13, <1>14, <1>15,
     <1>16 DEF Next, Start, Halt, Recover

----------------------------------------------------------------------------
\* Once stop_audio_stream or the destructor has closed the device, no reopening
\* that was posted or that waited for the lock opens it again, in any order of
\* stops, starts, losses of devices and recoveries.
THEOREM StoppedAudioStaysStopped == Spec => []StoppedStaysStopped
<1>1. AudioInv => StoppedStaysStopped
  BY DEF AudioInv, StopInv, StoppedStaysStopped
<1> QED
  BY <1>1, AudioInvInit, AudioInvNext, PTL DEF Spec
=============================================================================
