----------------------------- MODULE MediaRelay -----------------------------
(***************************************************************************)
(* The media path of the relay server (src/server/server.cpp): the event   *)
(* loop copies an audio datagram into a free fan-out buffer and hands it   *)
(* to every media worker; each worker sends it to its share of the room's  *)
(* endpoints; whoever is last to finish frees the buffer.                  *)
(*                                                                         *)
(* The event loop and the workers are threads: an action is one access to  *)
(* shared state.  A compare-exchange loop is one atomic step (a failed     *)
(* exchange reloads and retries).  The queues are those of BoundedQueue,   *)
(* which MediaTaskQueue implements; each has a counting semaphore.         *)
(***************************************************************************)
EXTENDS Naturals, Sequences, FiniteSets

CONSTANTS
    Workers,        \* MEDIA_WORKER_COUNT
    Buffers,        \* MAX_FAN_OUT_BUFFERS
    QueueCapacity,  \* MEDIA_WORKER_QUEUE_CAPACITY; one slot stays unused
    Endpoints,      \* length of the room's endpoint list
    MaxPackets      \* bound: datagrams received

ASSUME RelayAssumption ==
    /\ Workers \in Nat \ {0}
    /\ Buffers \in Nat \ {0}
    /\ QueueCapacity \in Nat \ {0, 1}
    /\ Endpoints \in Nat
    /\ MaxPackets \in Nat

Worker == 1..Workers
Buffer == 1..Buffers
Packet == 1..MaxPackets

\* pending_workers = numeric_limits<uint32_t>::max(): one thread owns the
\* buffer alone, to fill it or to take it out of use.
Claimed == Workers + 1

VARIABLES
    loop,      \* where the event loop is: [at, buffer, worker]
    received,  \* number of datagrams received
    pending,   \* FanOutBuffer::pending_workers
    bytes,     \* the packet in a buffer; 0 when size = 0
    queue,     \* MediaTaskQueue of each worker: [buffer, packet] tasks
    ready,     \* MediaWorker::ready
    running,   \* MediaWorker::running
    at,        \* where each worker is
    task,      \* the task each worker popped last
    sent       \* history: how often each packet was sent to each endpoint

vars == <<loop, received, pending, bytes, queue, ready, running, at, task, sent>>

Task == [buffer : Buffer, packet : Packet]
NoTask == [buffer |-> 0, packet |-> 0]

\* Steps of forward_audio_to_others for one worker and of the shutdown.
LoopPlace == {"idle", "acquire", "fill", "push", "release", "complete", "clear",
              "stop", "wake", "join", "stopped"}
WorkerPlace == {"acquire", "pop", "check", "send", "complete", "clear", "done"}

TypeOK ==
    /\ loop \in [at : LoopPlace, buffer : 0..Buffers, worker : 0..Workers]
    /\ received \in 0..MaxPackets
    /\ pending \in [Buffer -> 0..Claimed]
    /\ bytes \in [Buffer -> 0..MaxPackets]
    /\ queue \in [Worker -> Seq(Task)]
    /\ ready \in [Worker -> Nat]
    /\ running \in [Worker -> BOOLEAN]
    /\ at \in [Worker -> WorkerPlace]
    /\ task \in [Worker -> Task \cup {NoTask}]
    /\ sent \in [0..MaxPackets -> [0..Endpoints-1 -> Nat]]

Init ==
    /\ loop = [at |-> "idle", buffer |-> 0, worker |-> 0]
    /\ received = 0
    /\ pending = [b \in Buffer |-> 0]
    /\ bytes = [b \in Buffer |-> 0]
    /\ queue = [w \in Worker |-> <<>>]
    /\ ready = [w \in Worker |-> 0]
    /\ running = [w \in Worker |-> TRUE]
    /\ at = [w \in Worker |-> "acquire"]
    /\ task = [w \in Worker |-> NoTask]
    /\ sent = [p \in 0..MaxPackets |-> [i \in 0..Endpoints-1 |-> 0]]

-----------------------------------------------------------------------------
(* The event loop: handle_secure_audio_message from acquire_fan_out_buffer on *)

GoTo(place) == loop' = [loop EXCEPT !.at = place]

receive_audio ==
    /\ loop.at = "idle"
    /\ received < MaxPackets
    /\ received' = received + 1
    /\ loop' = [at |-> "acquire", buffer |-> 1, worker |-> 0]
    /\ UNCHANGED <<pending, bytes, queue, ready, running, at, task, sent>>

\* Mutant: a buffer on its last worker is taken for free.
acquire_fan_out_buffer_early ==
    /\ loop.at = "acquire"
    /\ \/ /\ pending[loop.buffer] <= 1
          /\ pending' = [pending EXCEPT ![loop.buffer] = Claimed]
          /\ GoTo("fill")
       \/ /\ pending[loop.buffer] > 1
          /\ loop' = IF loop.buffer = Buffers
                     THEN [loop EXCEPT !.at = "idle", !.buffer = 0]
                     ELSE [loop EXCEPT !.buffer = @ + 1]
          /\ UNCHANGED pending
    /\ UNCHANGED <<received, bytes, queue, ready, running, at, task, sent>>

\* The pool is scanned in order; when no buffer is free the packet is shed.
acquire_fan_out_buffer ==
    /\ loop.at = "acquire"
    /\ \/ /\ pending[loop.buffer] = 0
          /\ pending' = [pending EXCEPT ![loop.buffer] = Claimed]
          /\ GoTo("fill")
       \/ /\ pending[loop.buffer] # 0
          /\ loop' = IF loop.buffer = Buffers
                     THEN [loop EXCEPT !.at = "idle", !.buffer = 0]
                     ELSE [loop EXCEPT !.buffer = @ + 1]
          /\ UNCHANGED pending
    /\ UNCHANGED <<received, bytes, queue, ready, running, at, task, sent>>

\* Mutant: the event loop counts one worker too few.
fill_fan_out_buffer_miscounted ==
    /\ loop.at = "fill"
    /\ bytes' = [bytes EXCEPT ![loop.buffer] = received]
    /\ pending' = [pending EXCEPT ![loop.buffer] = Workers - 1]
    /\ loop' = [loop EXCEPT !.at = "push", !.worker = 1]
    /\ UNCHANGED <<received, queue, ready, running, at, task, sent>>

\* The copy, and pending_workers.store(MEDIA_WORKER_COUNT): until that store
\* the event loop has the buffer to itself.
fill_fan_out_buffer ==
    /\ loop.at = "fill"
    /\ bytes' = [bytes EXCEPT ![loop.buffer] = received]
    /\ pending' = [pending EXCEPT ![loop.buffer] = Workers]
    /\ loop' = [loop EXCEPT !.at = "push", !.worker = 1]
    /\ UNCHANGED <<received, queue, ready, running, at, task, sent>>

\* Mutant: the loop over the workers runs once too often.
NextWorker_once_more ==
    IF loop.worker > Workers
    THEN [at |-> "idle", buffer |-> 0, worker |-> 0]
    ELSE [loop EXCEPT !.at = "push", !.worker = @ + 1]

NextWorker ==
    IF loop.worker = Workers
    THEN [at |-> "idle", buffer |-> 0, worker |-> 0]
    ELSE [loop EXCEPT !.at = "push", !.worker = @ + 1]

\* Mutant: a full queue is skipped without completing its share.
push_media_task_or_skip ==
    LET w == loop.worker
        full == Len(queue[w]) >= QueueCapacity - 1
    IN  /\ loop.at = "push"
        /\ \/ /\ ~full
              /\ queue' = [queue EXCEPT ![w] =
                     Append(@, [buffer |-> loop.buffer,
                                packet |-> bytes[loop.buffer]])]
              /\ GoTo("release")
           \/ /\ full
              /\ loop' = NextWorker
              /\ UNCHANGED queue
        /\ UNCHANGED <<received, pending, bytes, ready, running, at, task, sent>>

\* forward_audio_to_others, for one worker.
push_media_task ==
    LET w == loop.worker
        full == Len(queue[w]) >= QueueCapacity - 1
    IN  /\ loop.at = "push"
        /\ \/ /\ ~full
              /\ queue' = [queue EXCEPT ![w] =
                     Append(@, [buffer |-> loop.buffer,
                                packet |-> bytes[loop.buffer]])]
              /\ GoTo("release")
           \/ /\ full
              /\ GoTo("complete")
              /\ UNCHANGED queue
        /\ UNCHANGED <<received, pending, bytes, ready, running, at, task, sent>>

release_worker ==
    /\ loop.at = "release"
    /\ ready' = [ready EXCEPT ![loop.worker] = @ + 1]
    /\ loop' = NextWorker
    /\ UNCHANGED <<received, pending, bytes, queue, running, at, task, sent>>

-----------------------------------------------------------------------------
(* complete_media_task, run by a worker after its share of the sends and by *)
(* the event loop on behalf of a worker whose queue is full.  With 0 or      *)
(* Claimed pending the code's loop would spin: no step.                      *)

MoreWorkersPending(b) == pending[b] > 1 /\ pending[b] # Claimed

LastWorkerPending(b) == pending[b] = 1

FreeBuffer(b) ==
    /\ bytes' = [bytes EXCEPT ![b] = 0]
    /\ pending' = [pending EXCEPT ![b] = 0]

loop_complete_media_task ==
    /\ loop.at = "complete"
    /\ \/ /\ MoreWorkersPending(loop.buffer)
          /\ pending' = [pending EXCEPT ![loop.buffer] = @ - 1]
          /\ loop' = NextWorker
       \/ /\ LastWorkerPending(loop.buffer)
          /\ pending' = [pending EXCEPT ![loop.buffer] = Claimed]
          /\ GoTo("clear")
    /\ UNCHANGED <<received, bytes, queue, ready, running, at, task, sent>>

loop_clear_buffer ==
    /\ loop.at = "clear"
    /\ FreeBuffer(loop.buffer)
    /\ loop' = NextWorker
    /\ UNCHANGED <<received, queue, ready, running, at, task, sent>>

-----------------------------------------------------------------------------
(* media_worker_loop                                                        *)

WorkerGoTo(w, place) == at' = [at EXCEPT ![w] = place]

worker_acquire(w) ==
    /\ at[w] = "acquire"
    /\ ready[w] > 0
    /\ ready' = [ready EXCEPT ![w] = @ - 1]
    /\ WorkerGoTo(w, "pop")
    /\ UNCHANGED <<loop, received, pending, bytes, queue, running, task, sent>>

\* Mutant: a worker that wakes up during the shutdown quits at once.
worker_pop_quits(w) ==
    /\ at[w] = "pop"
    /\ \/ /\ running[w]
          /\ queue[w] # <<>>
          /\ task' = [task EXCEPT ![w] = Head(queue[w])]
          /\ queue' = [queue EXCEPT ![w] = Tail(@)]
          /\ WorkerGoTo(w, "send")
       \/ /\ ~running[w] \/ queue[w] = <<>>
          /\ WorkerGoTo(w, "check")
          /\ UNCHANGED <<task, queue>>
    /\ UNCHANGED <<loop, received, pending, bytes, ready, running, sent>>

worker_pop(w) ==
    /\ at[w] = "pop"
    /\ \/ /\ queue[w] # <<>>
          /\ task' = [task EXCEPT ![w] = Head(queue[w])]
          /\ queue' = [queue EXCEPT ![w] = Tail(@)]
          /\ WorkerGoTo(w, "send")
       \/ /\ queue[w] = <<>>
          /\ WorkerGoTo(w, "check")
          /\ UNCHANGED <<task, queue>>
    /\ UNCHANGED <<loop, received, pending, bytes, ready, running, sent>>

worker_check_running(w) ==
    /\ at[w] = "check"
    /\ WorkerGoTo(w, IF running[w] THEN "acquire" ELSE "done")
    /\ UNCHANGED <<loop, received, pending, bytes, queue, ready, running, task, sent>>

\* Mutant: the shares of the workers overlap.
Share_overlapping(w) == {i \in 1..Endpoints-1 : i % Workers <= w - 1}

\* Endpoint 0 of the list is the sender.  An endpoint misses the packet when
\* the deadline has passed or sendto fails.
Share(w) == {i \in 1..Endpoints-1 : i % Workers = w - 1}

send_media_from_worker(w) ==
    /\ at[w] = "send"
    /\ \E S \in SUBSET Share(w) :
          sent' = [sent EXCEPT ![bytes[task[w].buffer]] =
                      [i \in 0..Endpoints-1 |-> IF i \in S THEN @[i] + 1 ELSE @[i]]]
    /\ WorkerGoTo(w, "complete")
    /\ UNCHANGED <<loop, received, pending, bytes, queue, ready, running, task>>

worker_complete_media_task(w) ==
    LET b == task[w].buffer
    IN  /\ at[w] = "complete"
        /\ \/ /\ MoreWorkersPending(b)
              /\ pending' = [pending EXCEPT ![b] = @ - 1]
              /\ WorkerGoTo(w, "acquire")
           \/ /\ LastWorkerPending(b)
              /\ pending' = [pending EXCEPT ![b] = Claimed]
              /\ WorkerGoTo(w, "clear")
        /\ UNCHANGED <<loop, received, bytes, queue, ready, running, task, sent>>

worker_clear_buffer(w) ==
    /\ at[w] = "clear"
    /\ FreeBuffer(task[w].buffer)
    /\ WorkerGoTo(w, "acquire")
    /\ UNCHANGED <<loop, received, queue, ready, running, task, sent>>

-----------------------------------------------------------------------------
(* begin_shutdown, on the event loop: stop_media_workers clears a worker's  *)
(* running flag, then wakes it, worker by worker, and joins them all.       *)

begin_shutdown ==
    /\ loop.at = "idle"
    /\ loop' = [at |-> "stop", buffer |-> 0, worker |-> 1]
    /\ UNCHANGED <<received, pending, bytes, queue, ready, running, at, task, sent>>

stop_worker ==
    /\ loop.at = "stop"
    /\ running' = [running EXCEPT ![loop.worker] = FALSE]
    /\ GoTo("wake")
    /\ UNCHANGED <<received, pending, bytes, queue, ready, at, task, sent>>

\* Mutant: a stopped worker is left asleep.
wake_worker_forgotten ==
    /\ loop.at = "wake"
    /\ loop' = IF loop.worker = Workers
               THEN [loop EXCEPT !.at = "join", !.worker = 0]
               ELSE [loop EXCEPT !.at = "stop", !.worker = @ + 1]
    /\ UNCHANGED <<received, pending, bytes, queue, ready, running, at, task, sent>>

wake_worker ==
    /\ loop.at = "wake"
    /\ ready' = [ready EXCEPT ![loop.worker] = @ + 1]
    /\ loop' = IF loop.worker = Workers
               THEN [loop EXCEPT !.at = "join", !.worker = 0]
               ELSE [loop EXCEPT !.at = "stop", !.worker = @ + 1]
    /\ UNCHANGED <<received, pending, bytes, queue, running, at, task, sent>>

join_workers ==
    /\ loop.at = "join"
    /\ \A w \in Worker : at[w] = "done"
    /\ GoTo("stopped")
    /\ UNCHANGED <<received, pending, bytes, queue, ready, running, at, task, sent>>

-----------------------------------------------------------------------------
LoopStep ==
    \/ acquire_fan_out_buffer
    \/ fill_fan_out_buffer
    \/ push_media_task
    \/ release_worker
    \/ loop_complete_media_task
    \/ loop_clear_buffer
    \/ stop_worker
    \/ wake_worker
    \/ join_workers

WorkerStep(w) ==
    \/ worker_acquire(w)
    \/ worker_pop(w)
    \/ worker_check_running(w)
    \/ send_media_from_worker(w)
    \/ worker_complete_media_task(w)
    \/ worker_clear_buffer(w)

\* The process has exited.
Stopped == loop.at = "stopped" /\ UNCHANGED vars

Next ==
    \/ receive_audio
    \/ begin_shutdown
    \/ LoopStep
    \/ \E w \in Worker : WorkerStep(w)
    \/ Stopped

Spec == Init /\ [][Next]_vars

\* The operating system runs every thread that can run; datagrams and the
\* shutdown signal may never come.
FairSpec ==
    /\ Spec
    /\ WF_vars(LoopStep)
    /\ \A w \in Worker : WF_vars(WorkerStep(w))

-----------------------------------------------------------------------------
(* Properties                                                               *)

\* A worker that has a share of buffer b still to complete: its task is
\* queued, or popped and not completed, or not handed to it yet.
Owes(w, b) ==
    \/ \E k \in 1..Len(queue[w]) : queue[w][k].buffer = b
    \/ at[w] \in {"send", "complete"} /\ task[w].buffer = b
    \/ loop.at = "push" /\ loop.buffer = b /\ w >= loop.worker
    \/ loop.at \in {"release", "complete"} /\ loop.buffer = b /\ w > loop.worker
    \/ loop.at = "complete" /\ loop.buffer = b /\ w = loop.worker

\* A shared buffer's count is the number of workers that still owe it a
\* completion; a free or claimed buffer is owed none.  A count too low would
\* recycle a buffer under a worker, one too high would leak it, and a
\* completion that finds 0 or the claim mark would spin for ever.
PendingCountsOwers ==
    \A b \in Buffer :
        LET owers == {w \in Worker : Owes(w, b)}
        IN  IF pending[b] = Claimed THEN owers = {}
            ELSE pending[b] = Cardinality(owers)

\* The bytes of a buffer do not change between a packet's admission and the
\* last worker's send: what a worker sends is the packet it was handed.
BufferHoldsTask ==
    \A w \in Worker :
        /\ at[w] \in {"send", "complete"} => bytes[task[w].buffer] = task[w].packet
        /\ \A k \in 1..Len(queue[w]) :
              bytes[queue[w][k].buffer] = queue[w][k].packet

\* Every endpoint is sent a packet at most once, whichever worker's share it
\* falls into, and never its own.
SentAtMostOnce ==
    \A p \in 0..MaxPackets, i \in 0..Endpoints-1 :
        /\ sent[p][i] <= 1
        /\ p = 0 \/ i = 0 => sent[p][i] = 0

\* The semaphore stays within its template bound (beyond it, release() is
\* undefined), and a worker leaves no task behind when it quits.
WorkersWindDown ==
    \A w \in Worker :
        /\ ready[w] <= QueueCapacity + 1
        /\ at[w] = "done" => queue[w] = <<>>

\* What is sent is exact: each worker sends what it was handed, to each endpoint
\* once, and counts its share off once.
SharesAreExact ==
    /\ TypeOK /\ PendingCountsOwers /\ WorkersWindDown
    /\ BufferHoldsTask /\ SentAtMostOnce

\* A buffer in use is freed again, also while the server shuts down.
BuffersReturn == \A b \in Buffer : pending[b] # 0 ~> pending[b] = 0

\* The shutdown never hangs in thread.join().
ShutdownCompletes == loop.at = "stop" ~> loop.at = "stopped"
=============================================================================
