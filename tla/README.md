# A TLA+ model of sesivo

sesivo is a low-latency audio application: musicians' clients send Opus
packets over UDP to a relay server, which forwards them to the other
participants of a room. This directory holds TLA+ modules for the parts of it
whose correctness depends on the order of events, TLC configurations that
check them on small instances, and TLAPS proofs about the room server.
`PROJECT.json` maps every definition to the lines it models, and lists the
runs, the mutants that show each property can fail, the hazards and the
theorems.

Paths below are relative to the repository (`src/server/...`).

## 1. The system and its parts

| part | source | module | status |
|---|---|---|---|
| room registry: rooms, access modes, epochs, admin tokens | `src/server/room_registry.h` | `RoomRegistry` | modelled |
| client manager: registered endpoints, room endpoint cache | `src/server/client_manager.h` | `ClientManager` | modelled |
| server control plane: tickets, joins, admin requests, timeouts | `src/server/server.cpp` | `RoomServer` | modelled |
| media relay: fan-out buffers, workers, shutdown | `src/server/server.cpp` | `MediaRelay` | modelled |
| single-producer single-consumer task ring | `src/server/server.cpp` | `MediaTaskQueue`, `BoundedQueue` | modelled |
| rate limits, table of unknown endpoints | `src/server/server_rate_limiter.h`, `server.cpp` | `RateLimiter` | modelled |
| sequence tracking of received audio | `src/common/sequence_tracker.h` | `SequenceTracker` | modelled |
| replay window | `src/common/replay_window.h` | `ReplayWindow` | modelled |
| room chat, server and client side | `room_registry.h`, `server.cpp`, `src/client/client_runtime.cpp` | `RoomChat` | partly |
| join tokens | `src/common/performer_join_token.h` | claims and expiry in `RoomServer` | partly |
| periodic timer | `src/common/periodic_timer.h` | fairness in `RoomServer` | partly |
| client session, UDP path, rebinding | `src/client/client_runtime.cpp` | | planned |
| key handoff and session keys | `src/client/client_runtime.cpp` | | planned |
| participants and packet queues | `src/client/participant_info.h`, `participant_manager.h` | | planned |
| delivery feedback, congestion policy | `src/client/congestion_policy.h` and others | | planned |
| metronome | `src/client/client_metronome.cpp` | | planned |
| recording, playback | `src/client/recording_writer.h` | | planned |
| devices, codecs, user interface, configuration, cryptography, packet layout, sockets, logging | `src/client`, `src/common` | | left out |

How the parts interact. One event-loop thread of the server receives every
datagram and runs every timer. Control datagrams change the room registry, the
client manager and the nonce table. Audio datagrams are authenticated, looked
up in the endpoint cache and handed to media worker threads through one ring
per worker. Clients keep their own view of the room: who is in it, the chat,
the media key, and for each participant a sequence tracker and a replay window.

## 2. Modules

### RoomRegistry, ClientManager, RoomServer

`RoomRegistry` and `ClientManager` are the two tables. Their methods are
operators on the table: a predicate for the checks (`can_create_room`,
`rejected_room_full`), and the table that results (`create_room`,
`register_client`). They are not state machines of their own because a handler
chains several of them without giving up the event loop.

`RoomServer` holds the state (`rooms`, `clients`, `nonces`, `cache`, and the
tickets in circulation) and has one action per handler and timer. The server
runs all of them on one thread, so a handler is atomic; a refused request that
changes nothing is a stuttering step, and one that changes something on the
way (a nonce reserved before the room turns out to be full, empty rooms cleaned
up before a kick fails) is a disjunct of its action.

Abstractions: times are kept as the answers the code asks for (`silent`,
`pendingExpired`, `expired`); random instance ids, admin tokens and nonces are
fresh values; signatures are valid. Two history variables record what
participants were told (`told`) and whose tickets an admin revoked (`revoked`).

### MediaRelay, MediaTaskQueue, BoundedQueue

Here threads matter, and an action is one access to shared memory. The event
loop claims a buffer, fills it, pushes a task to each worker and releases its
semaphore; a full queue makes the event loop complete that share itself.
Workers acquire, pop, send and complete; the last to complete clears the buffer.
`begin_shutdown` stops, wakes and joins the workers.
`MediaTaskQueue` is the ring at the grain of its loads, stores and slot
accesses. `BoundedQueue` is what it promises, and the ring is shown to
implement it; `MediaRelay` uses queues with the promised behaviour.

### SequenceTracker, ReplayWindow

Both are sequential and their difficulty is arithmetic: sequence numbers wrap,
packets come in any order. Arithmetic is modulo `Modulus`, which stands for
2^32, and the streams start just before the wrap. History variables hold what
was really received.

### RateLimiter

Token buckets, the bounded endpoint table with its recency list, and the table
of endpoints that send audio without having joined. Tokens are whole numbers
per tick where the code has doubles per second. `Counted` names the buckets
whose grants the history counts.

### RoomChat

One room, its server-side ring and each participant's view. The network is the
set of all datagrams ever sent, so each may be lost, repeated, delayed or
overtaken. The access epoch of the room moves, and each participant follows when
the new key reaches it.

## 3. Runs

`tlc -config X.cfg M` reproduces a run. Mutants are the definitions marked
"Mutant" in the modules; each replaces one definition and must make TLC report
the property named for it in `PROJECT.json`.

| run | instance | distinct states | shows |
|---|---|---|---|
| `room_moves` | 2 rooms, 2 endpoints, 2 profiles, 3 tickets | 92 thousand | `NonceRecorded`, `RelayReachesRoom`, `RosterExact` while endpoints move, leave, time out and see rooms closed |
| `room_access` | 1 room, all access modes, 2 epochs | 88 thousand | `SessionMatchesRoom`, `RemovedStayOut`, `RelayReachesRoom`, `RosterExact` with passwords, kicks and rotations |
| `room_open` | 1 room, tickets with and without an instance | 121 thousand | `SessionMatchesRoom`, `TicketNotTakenOver` when a join may open the room |
| `room_seats` | 2 rooms of one seat | 63 thousand | `SeatsAreExclusive`; `SilentClientsDropped`, `AbandonedRoomsRemoved` under fairness |
| `room_rejoin` | 1 room of one seat | | a violation, see section 6 |
| `media_task_queue` | 4 slots, 3 tasks | 4 thousand | `NoSlotRace`, and the ring implements `BoundedQueue` |
| `media_relay` | 2 workers, 2 buffers, 1 usable queue slot, 3 packets | 110 thousand | counts, buffer contents, single delivery, buffers return, shutdown completes |
| `sequence_tracker` | 9 packets across the wrap, 2 ranges | 10 thousand | gap accounting is exact, each packet enqueued once |
| `replay_window` | 11 packets across the wrap, window of 4 | 1 thousand | each packet accepted once, bitmap exact |
| `rate_limiter` | 3 endpoints in a table of 2, 3 ticks | 115 thousand | list and table agree, budgets kept, `JOIN_REQUIRED` spaced |
| `room_chat` | 2 participants, 2 nonces, 2 epochs, ring of 1 | 557 thousand | views agree, holes are asked for, the ring is the end of the log |
| `room_chat_given_up` | 1 participant, 1 message | | a violation, see section 6 |

### Bounds, and why they are enough

* `room_moves` needs a third ticket: an endpoint changes room while another
  stays behind only if three tickets are issued. It keeps `MaxEpoch` at 1,
  which rules out kicks and rotations; those are in `room_access`.
* `room_access` and `room_open` need a third client id: a kicked participant can try to come
  back to a room that still has somebody in it only if a third id can be given
  out. They also need two profiles, or the two participants would displace each
  other. Each has one room and two tickets.
* Two endpoints cover a participant and the one that disturbs it. A property
  that relates three participants of one room (a displaced duplicate seen by a
  third) is beyond these runs.
* `media_relay` has a queue with one usable slot, so that full queues happen,
  and one packet more than it has buffers, so that buffers are reused.
* `rate_limiter` runs one tick longer than the time to live of an entry and
  the interval between answers, both of two ticks.
* `sequence_tracker` and `replay_window` have more packets than the table of
  ranges or the window holds.
* `MaxEpoch`, `MaxClientId`, `MaxPackets`, `MaxTime`, `MaxRequests` and
  `MaxStored` bound counters that the program leaves unbounded (or to 32 bits).

Symmetry is used only in runs without liveness properties. `replay_window`
switches the deadlock check off because its finite stream ends.

### Fairness

* `RoomServer!FairSpec`: weak fairness of `alive_check_timer_callback`. The
  periodic timer re-arms itself after every tick. Nothing is assumed of
  clients.
* `MediaRelay!FairSpec`: weak fairness of the event loop's steps inside a
  handler, and of each worker. The operating system runs threads that can run.
  Neither datagrams nor the shutdown signal are assumed to come.

## 4. Proofs

Four modules, one on top of the other, prove for all rooms, endpoints,
profiles, tickets, limits and bounds:

| module | obligations | theorem | statement |
|---|---|---|---|
| `RoomTableProofs` | 142 | | lemmas on the operators of the two tables |
| `RoomTypeProofs` | 375 | `TypeCorrect` | `Spec => []TypeOK` |
| `RoomSessionProofs` | 274 | `SessionsMatchRooms` | `Spec => []SessionMatchesRoom` |
| `RoomTicketProofs` | 311 | `NoncesRecorded` | `Spec => []NonceRecorded` |
| | | `TicketsNotTakenOver` | `Spec => TicketNotTakenOver` |

They are separate files because tlapm slows down with the number of
obligations in a module, until leaves that are proved in a second alone run
out of time.

Assumptions: the named `ASSUME`s of `RoomRegistry`, `ClientManager` and
`RoomServer`. `Nil` is none of the values it stands beside, "open" is an
access mode, the room limit is positive, the bounds are natural numbers. The
constants `MaxEpoch` and `MaxClientId` remain in the guards, so the theorems
hold for every value of them and not for a counter that wraps.

Argument. Each registry or client-manager operator has a lemma saying which
table it returns and what it preserves (`CreateRoom`, `RotateAccessEpoch`,
`RemoveClients`, `CleanupEmptyRooms`, `SetRoomAccessEpoch`...), and the step
lemmas have one case per action.

* `TypeOK` is inductive.
* `SessionMatchesRoom` is inductive together with `TypeOK`. The delicate steps
  are the kick, which cleans up rooms between removing a client and rotating
  the epoch, and a join that moves an endpoint out of another room.
* `NonceRecorded` is not inductive: if two clients shared a ticket, the one
  that leaves would release the other's nonce. `Held` adds `TicketsDistinct`,
  no two clients hold the same ticket. Joins preserve it because a nonce
  recorded for another endpoint is refused (`ReservedIsFree`, `JoinHolds`) and
  an expired ticket is not accepted; every other step keeps the tickets and
  nonces of those who stay (`KeepsTickets`, `ReleaseKeeps`).
* `TicketNotTakenOver` comes out of the same case analysis: a step that admits
  nobody keeps tickets where they are, and a join takes a ticket nobody else
  holds.

Only model-checked: everything else in section 3. Liveness under fairness is
outside what the prover handles; the other safety properties are candidates
(section 7).

## 5. Hazards

`PROJECT.json` lists what is hard to test in this code, at the line where it
bites, with the properties that would notice. Those without a property carry
the reason: most wait for the client session module.

## 6. Where the code and its documents differ

* `room_rejoin`. `docs/archive/plans/v1/V1_ROADMAP.md:149` says that a rejoin of
  the same profile from a new endpoint removes the stale endpoint immediately.
  `register_client` (`src/server/client_manager.h:62`) counts the stale
  endpoint and refuses the join of a full room before it would be displaced.
* `room_chat_given_up`. `docs/archive/specs/room-chat-design-notes.md:286` says
  that a message is given up once the history requested for it is complete.
  The client (`src/client/client_runtime.cpp:2107`) does not compare request
  ids, so the late end of an earlier history gives it up too soon.

## 7. Not modelled, and the plan

Left out for good: device drivers and codecs (numerical, or outside the
program), layout and drawing, command lines and files, byte layouts and
cryptographic primitives (pure functions whose verdicts the models take as
given), sockets, logging and metrics.

Planned, in this order:

1. `ClientSession`: join retries, receive slots and their generations,
   rebinding the socket and rejoining, late answers of an earlier session;
   composed with the server's nonce table.
2. `KeyHandoff`: envelope, acknowledgement and retry with rotations between
   them.
3. `PacketQueue`: the queue between receive thread and audio callback,
   composed with `SequenceTracker` and `ReplayWindow` into one receive path,
   and the reclaiming of participants.
4. Congestion policy and delivery reports; metronome revisions; the recording
   writer.
5. An abstract admission specification that `RoomServer` implements.
6. Proofs: `RelayReachesRoom`, `SeatsAreExclusive`, `RosterExact`,
   `RemovedStayOut`; the ring's refinement of `BoundedQueue`; the buffer counts
   of `MediaRelay`; `ReplayWindow`.
