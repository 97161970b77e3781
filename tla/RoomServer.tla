----------------------------- MODULE RoomServer -----------------------------
(***************************************************************************)
(* The control plane of the relay server (class Server, src/server/        *)
(* server.cpp): rooms, join tickets, registered endpoints, the table of    *)
(* used ticket nonces, and what the server announces to whom.              *)
(*                                                                         *)
(* One io_context thread runs every handler to completion, so a handler is *)
(* one action, with everything it calls.  Datagrams may be lost, repeated, *)
(* delayed and reordered: a request the server has any way of receiving is *)
(* an action that may happen at any time, any number of times, from any    *)
(* endpoint.  A request that a check or a rate limit refuses without       *)
(* touching the tables is a stuttering step and is not written down.       *)
(***************************************************************************)
EXTENDS ClientManager

CONSTANTS
    DevRoom,      \* rooms for which tickets are signed outside the server
    MaxEpoch,     \* bound on access epochs
    MaxClientId   \* bound on client ids

VARIABLES
    rooms,        \* room_registry_
    instances,    \* the instance ids drawn so far
    tickets,      \* claims of the tickets signed so far
    expired,      \* the tickets whose expires_at_ms has passed
    nonces,       \* used_token_nonces_: which endpoint holds a ticket
    clients,      \* client_manager_
    nextId,       \* next_client_id_
    cache,        \* room_endpoint_cache_
    told,         \* the ids announced to an endpoint and not yet withdrawn
    revoked       \* history: tickets whose holder an admin has removed

vars == <<rooms, instances, tickets, expired, nonces, clients, nextId, cache,
          told, revoked>>

\* instance = Nil: signed outside the server, for whatever room is open.
Claims == [room       : RoomId,
           profile    : Profile,
           instance   : Instance \cup {Nil},
           epoch      : Nat \ {0},
           commitment : Commitment]

ASSUME NilClaimsAssumption == Nil \notin Claims

ASSUME DevRoomAssumption == DevRoom \subseteq RoomId

ASSUME BoundsAssumption == MaxEpoch \in Nat /\ MaxClientId \in Nat

TypeOK ==
    /\ rooms \in [RoomId -> Room \cup {Nil}]
    /\ instances \in SUBSET Instance
    /\ tickets \in [Ticket -> Claims \cup {Nil}]
    /\ expired \in SUBSET Ticket
    /\ nonces \in [Ticket -> Endpoint \cup {Nil}]
    /\ clients \in [Endpoint -> Client \cup {Nil}]
    /\ nextId \in Nat \ {0}
    /\ cache \in [RoomId -> {Nil} \cup SUBSET Endpoint]
    /\ told \in [Endpoint -> SUBSET Nat]
    /\ revoked \in SUBSET Ticket

Init ==
    /\ rooms = [r \in RoomId |-> Nil]
    /\ instances = {}
    /\ tickets = [t \in Ticket |-> Nil]
    /\ expired = {}
    /\ nonces = [t \in Ticket |-> Nil]
    /\ clients = [e \in Endpoint |-> Nil]
    /\ nextId = 1
    /\ cache = [r \in RoomId |-> Nil]
    /\ told = [e \in Endpoint |-> {}]
    /\ revoked = {}

-----------------------------------------------------------------------------
(* Helpers the handlers share                                               *)

create_udp_room_join_ticket(t, room, r, p) ==
    [tickets EXCEPT ![t] =
        [room |-> r, profile |-> p, instance |-> room.instance,
         epoch |-> room.epoch, commitment |-> room.commitment]]

cleanup_empty_rooms(rs, cs) == remove_empty_rooms(rs, OccupiedRooms(cs))

\* Mutant: PARTICIPANT_LEAVE is not sent.
broadcast_participant_leave_unsent(cs, ids) ==
    [e \in Endpoint |-> IF cs[e] = Nil THEN {} ELSE told[e]]

\* PARTICIPANT_LEAVE goes to every endpoint that is still registered.
broadcast_participant_leave(cs, ids) ==
    [e \in Endpoint |-> IF cs[e] = Nil THEN {} ELSE told[e] \ ids]

\* Mutant: the comparison with the clock is the wrong way round.
cleanup_used_token_nonces_inverted ==
    [t \in Ticket |-> IF t \notin expired THEN Nil ELSE nonces[t]]

cleanup_used_token_nonces ==
    [t \in Ticket |-> IF t \in expired THEN Nil ELSE nonces[t]]

can_reserve_token_nonce(t, e) ==
    LET holder == cleanup_used_token_nonces[t]
    IN  holder # Nil /\ holder # e => ~exists(clients, holder)

\* Mutant: emplace instead of assignment keeps a record of an old holder.
reserve_token_nonce_emplace(t, e) ==
    IF cleanup_used_token_nonces[t] # Nil
    THEN cleanup_used_token_nonces
    ELSE [cleanup_used_token_nonces EXCEPT ![t] = e]

reserve_token_nonce(t, e) == [cleanup_used_token_nonces EXCEPT ![t] = e]

release_token_nonces(E) ==
    [t \in Ticket |->
        IF \E e \in E : clients[e].ticket = t THEN Nil ELSE nonces[t]]

-----------------------------------------------------------------------------
(* Rooms and tickets                                                        *)

\* Signing may fail after the room was made: the room then stays.
handle_room_create_request(r, p, i, t, mode, pw, c) ==
    /\ i \notin instances
    /\ tickets[t] = Nil
    /\ can_create_room(rooms, r, mode, pw)
    /\ rooms' = create_room(rooms, r, i, mode, pw, c)
    /\ instances' = instances \cup {i}
    /\ \/ tickets' = create_udp_room_join_ticket(t, rooms'[r], r, p)
       \/ tickets' = tickets
    /\ UNCHANGED <<expired, nonces, clients, nextId, cache, told, revoked>>

handle_room_join_token_request(r, p, t, pw) ==
    /\ tickets[t] = Nil
    /\ authorize_join(rooms, r, pw)
    /\ tickets' = create_udp_room_join_ticket(t, rooms[r], r, p)
    /\ UNCHANGED <<rooms, instances, expired, nonces, clients, nextId, cache,
                   told, revoked>>

\* tools/dev-join-token.mjs signs tickets with the shared join secret and,
\* by default, no room instance.
dev_join_token(r, p, t, c) ==
    /\ tickets[t] = Nil
    /\ tickets' = [tickets EXCEPT ![t] =
                      [room |-> r, profile |-> p, instance |-> Nil,
                       epoch |-> 1, commitment |-> c]]
    /\ UNCHANGED <<rooms, instances, expired, nonces, clients, nextId, cache,
                   told, revoked>>

handle_server_status_request ==
    /\ rooms' = cleanup_empty_rooms(rooms, clients)
    /\ UNCHANGED <<instances, tickets, expired, nonces, clients, nextId, cache,
                   told, revoked>>

-----------------------------------------------------------------------------
(* JOIN                                                                     *)

validate_with_claims(t) == tickets[t] # Nil /\ t \notin expired

\* handle_join after the room check, which left the registry as rs.
Refuse_nonce_replay(e, t, rs) ==
    /\ ~can_reserve_token_nonce(t, e)
    /\ rooms' = rs
    /\ nonces' = cleanup_used_token_nonces
    /\ UNCHANGED <<clients, nextId, cache, told>>

Refuse_room_full(e, t, rs) ==
    LET r == tickets[t].room
    IN  /\ can_reserve_token_nonce(t, e)
        /\ rejected_room_full(clients, e, r, rs[r].instance, tickets[t].profile)
        /\ rooms' = rs
        /\ nonces' = reserve_token_nonce(t, e)
        /\ UNCHANGED <<clients, nextId, cache, told>>

Admit(e, t, rs) ==
    LET r == tickets[t].room
        p == tickets[t].profile
        i == rs[r].instance
        reuse == can_reuse_existing(clients, e, r, i, p)
        removed == removed_clients(clients, e, r, i, p)
        cs == register_client(clients, e, r, i, rs[r].epoch, p, t, nextId)
        stale == invalidate_room_endpoint_cache(
                     cache, RoomsOf(clients, {e}) \cup {r})
        left == broadcast_participant_leave(cs, IdsOf(clients, removed))
        informed == get_cached_room_endpoints(stale, cs, e)
        others == get_room_clients(cs, r) \ {e}
    IN  /\ can_reserve_token_nonce(t, e)
        /\ ~rejected_room_full(clients, e, r, i, p)
        /\ reuse \/ nextId <= MaxClientId
        /\ nonces' = reserve_token_nonce(t, e)
        /\ clients' = cs
        /\ nextId' = IF reuse THEN nextId ELSE nextId + 1
        /\ rooms' = mark_joined(rs, r)
        /\ cache' = fill_room_endpoint_cache(stale, cs, e)
        \* broadcast_participant_info, then send_existing_participant_info_to;
        \* a new id starts a session to which nothing was announced yet.
        /\ told' = [x \in Endpoint |->
               (IF x = e /\ ~reuse THEN {} ELSE left[x])
               \cup (IF x \in informed THEN {cs[e].id} ELSE {})
               \cup (IF x = e THEN IdsOf(cs, others) ELSE {})]

handle_join_with_instance(e, t) ==
    /\ validate_with_claims(t)
    /\ tickets[t].instance # Nil
    /\ validate_claims(rooms, tickets[t].room, tickets[t].instance,
                       tickets[t].epoch, tickets[t].commitment)
    /\ \/ Refuse_nonce_replay(e, t, rooms)
       \/ Refuse_room_full(e, t, rooms)
       \/ Admit(e, t, rooms)
    /\ UNCHANGED <<instances, tickets, expired, revoked>>

\* i: the instance id drawn if the room has to be made.
handle_join_open(e, t, i) ==
    LET r == tickets[t].room
        rs == ensure_open_room(rooms, r, i, tickets[t].commitment)
    IN  /\ validate_with_claims(t)
        /\ tickets[t].instance = Nil
        /\ can_ensure_open_room(rooms, r, tickets[t].commitment)
        /\ IF rooms[r] = Nil
           THEN i \notin instances /\ instances' = instances \cup {i}
           ELSE instances' = instances
        /\ \/ Refuse_nonce_replay(e, t, rs)
           \/ Refuse_room_full(e, t, rs)
           \/ Admit(e, t, rs)
        /\ UNCHANGED <<tickets, expired, revoked>>

-----------------------------------------------------------------------------
(* Room administration                                                      *)

\* The answer to an admin request that went through carries the room's new
\* epoch to its clients' records.
Commit_admin_request(r, rs, cs) ==
    /\ rooms' = rs
    /\ clients' = set_room_access_epoch(cs, r, rs[r].instance, rs[r].epoch)

admin_change_password(r, token, pw, c) ==
    /\ can_change_access_mode(rooms, r, token,
                              IF pw = Nil THEN "open" ELSE "password", pw)
    /\ rooms[r].epoch < MaxEpoch
    /\ Commit_admin_request(r, change_password(rooms, r, pw, c), clients)
    /\ UNCHANGED <<instances, tickets, expired, nonces, nextId, cache, told,
                   revoked>>

admin_change_access(r, token, mode, pw, c) ==
    /\ can_change_access_mode(rooms, r, token, mode, pw)
    /\ rooms[r].epoch < MaxEpoch
    /\ Commit_admin_request(r, change_access_mode(rooms, r, mode, pw, c), clients)
    /\ UNCHANGED <<instances, tickets, expired, nonces, nextId, cache, told,
                   revoked>>

admin_rotate_media_key(r, token, c) ==
    /\ authorize_admin(rooms, r, token)
    /\ rooms[r].epoch < MaxEpoch
    /\ Commit_admin_request(r, rotate_access_epoch(rooms, r, c), clients)
    /\ UNCHANGED <<instances, tickets, expired, nonces, nextId, cache, told,
                   revoked>>

\* What removing the clients at endpoints E changes besides the rooms:
\* kick_room_participant and remove_all_room_participants.
Expel(E) ==
    /\ nonces' = release_token_nonces(E)
    /\ cache' = invalidate_room_endpoint_cache(cache, RoomsOf(clients, E))
    /\ told' = broadcast_participant_leave(remove_clients(clients, E),
                                           IdsOf(clients, E))
    /\ revoked' = revoked \cup {clients[e].ticket : e \in E}

\* The kick empties the room before the epoch is rotated: when the last
\* participant is kicked, cleanup_empty_rooms has taken the room away and
\* the request ends with "room not found".
admin_kick_participant(r, token, id, c) ==
    LET E == {e \in get_room_clients(clients, r) : clients[e].id = id}
        cs == remove_clients(clients, E)
        rs == cleanup_empty_rooms(rooms, cs)
    IN  /\ authorize_admin(rooms, r, token)
        /\ rooms[r].epoch < MaxEpoch
        /\ E # {}
        /\ Expel(E)
        /\ IF authorize_admin(rs, r, token)
           THEN Commit_admin_request(r, rotate_access_epoch(rs, r, c), cs)
           ELSE rooms' = rs /\ clients' = cs
        /\ UNCHANGED <<instances, tickets, expired, nextId>>

admin_close_room(r, token) ==
    LET E == get_room_clients(clients, r)
        cs == remove_clients(clients, E)
    IN  /\ authorize_admin(rooms, r, token)
        /\ Expel(E)
        /\ clients' = cs
        /\ rooms' = cleanup_empty_rooms(close_room(rooms, r), cs)
        /\ UNCHANGED <<instances, tickets, expired, nextId>>

-----------------------------------------------------------------------------
(* Departures                                                               *)

handle_leave(e) ==
    LET cs == remove_clients(clients, {e})
    IN  /\ exists(clients, e)
        /\ clients' = cs
        /\ cache' = invalidate_room_endpoint_cache(cache, RoomsOf(clients, {e}))
        /\ nonces' = release_token_nonces({e})
        /\ told' = broadcast_participant_leave(cs, IdsOf(clients, {e}))
        /\ rooms' = cleanup_empty_rooms(rooms, cs)
        /\ UNCHANGED <<instances, tickets, expired, nextId, revoked>>

\* A client that times out keeps its nonce reserved.
alive_check_timer_callback ==
    LET E == timed_out_clients(clients)
        cs == remove_clients(clients, E)
    IN  /\ clients' = cs
        /\ cache' = invalidate_room_endpoint_cache(cache, RoomsOf(clients, E))
        /\ told' = broadcast_participant_leave(cs, IdsOf(clients, E))
        /\ rooms' = cleanup_empty_rooms(rooms, cs)
        /\ UNCHANGED <<instances, tickets, expired, nonces, nextId, revoked>>

-----------------------------------------------------------------------------
(* Traffic of registered clients                                            *)

Heard(e) ==
    /\ exists(clients, e)
    /\ clients' = update_alive(clients, e)
    /\ UNCHANGED <<rooms, instances, tickets, expired, nonces, nextId, told,
                   revoked>>

handle_ping_message(e) == Heard(e) /\ UNCHANGED cache

handle_alive(e) == Heard(e) /\ UNCHANGED cache

\* The chat itself is module RoomChat; here, a chat request that names its
\* sender's room, instance and epoch keeps the sender alive.
handle_room_chat_send(e, epoch) ==
    /\ Heard(e)
    /\ clients[e].epoch = epoch
    /\ UNCHANGED cache

handle_room_chat_history_request(e, epoch) ==
    /\ Heard(e)
    /\ clients[e].epoch = epoch
    /\ UNCHANGED cache

\* Key envelopes and their acknowledgements name the epoch and commitment of
\* the key they carry and go to one participant of the sender's room.
CanAddress(e, target, epoch, c) ==
    /\ exists(clients, e)
    /\ clients[e].epoch = epoch
    /\ authorizes_media_key(rooms, clients[e].room, clients[e].instance, epoch, c)
    /\ target \in get_room_clients(clients, clients[e].room)

handle_e2e_key_envelope(e, target, epoch, c) ==
    /\ CanAddress(e, target, epoch, c)
    /\ Heard(e)
    /\ UNCHANGED cache

handle_room_key_handoff_ack(e, target, epoch, c) ==
    /\ CanAddress(e, target, epoch, c)
    /\ target # e
    /\ Heard(e)
    /\ UNCHANGED cache

\* target = Nil: to everyone else in the room, through the endpoint cache.
\* A target outside the room gets nothing, but its sender has been heard.
handle_secure_control_message(e, target, epoch, c) ==
    /\ exists(clients, e)
    /\ clients[e].epoch = epoch
    /\ authorizes_media_key(rooms, clients[e].room, clients[e].instance, epoch, c)
    /\ Heard(e)
    /\ IF target = Nil
       THEN cache' = fill_room_endpoint_cache(cache, clients, e)
       ELSE cache' = cache

\* Audio carries no epoch the server could check.  When no relay buffer is
\* free the packet is dropped before the endpoints are looked up.
handle_secure_audio_message(e) ==
    /\ Heard(e)
    /\ \/ cache' = fill_room_endpoint_cache(cache, clients, e)
       \/ cache' = cache

handle_metronome_sync(e) ==
    /\ Heard(e)
    /\ cache' = fill_room_endpoint_cache(cache, clients, e)

-----------------------------------------------------------------------------
(* Clocks: each comparison the code makes may turn true at any moment.      *)

client_timeout_passes(e) ==
    /\ exists(clients, e)
    /\ ~clients[e].silent
    /\ clients' = [clients EXCEPT ![e] = [@ EXCEPT !.silent = TRUE]]
    /\ UNCHANGED <<rooms, instances, tickets, expired, nonces, nextId, cache,
                   told, revoked>>

pending_room_ttl_passes(r) ==
    /\ rooms[r] # Nil
    /\ ~rooms[r].pendingExpired
    /\ ~rooms[r].everJoined
    /\ rooms' = [rooms EXCEPT ![r] = [@ EXCEPT !.pendingExpired = TRUE]]
    /\ UNCHANGED <<instances, tickets, expired, nonces, clients, nextId, cache,
                   told, revoked>>

ticket_expires(t) ==
    /\ tickets[t] # Nil
    /\ expired' = expired \cup {t}
    /\ UNCHANGED <<rooms, instances, tickets, nonces, clients, nextId, cache,
                   told, revoked>>

-----------------------------------------------------------------------------
RoomStep ==
    \/ \E r \in RoomId, p \in Profile, i \in Instance, t \in Ticket,
          mode \in AccessMode, pw \in Password \cup {Nil}, c \in Commitment :
          handle_room_create_request(r, p, i, t, mode, pw, c)
    \/ \E r \in RoomId, p \in Profile, t \in Ticket, pw \in Password \cup {Nil} :
          handle_room_join_token_request(r, p, t, pw)
    \/ \E r \in DevRoom, p \in Profile, t \in Ticket, c \in Commitment :
          dev_join_token(r, p, t, c)
    \/ handle_server_status_request

JoinStep ==
    \/ \E e \in Endpoint, t \in Ticket : handle_join_with_instance(e, t)
    \/ \E e \in Endpoint, t \in Ticket, i \in Instance : handle_join_open(e, t, i)

AdminStep ==
    \E r \in RoomId, token \in Instance :
        \/ \E pw \in Password \cup {Nil}, c \in Commitment :
              admin_change_password(r, token, pw, c)
        \/ \E mode \in AccessMode, pw \in Password \cup {Nil}, c \in Commitment :
              admin_change_access(r, token, mode, pw, c)
        \/ \E c \in Commitment : admin_rotate_media_key(r, token, c)
        \/ \E id \in 1..MaxClientId, c \in Commitment :
              admin_kick_participant(r, token, id, c)
        \/ admin_close_room(r, token)

TrafficStep ==
    \E e \in Endpoint :
        \/ handle_ping_message(e)
        \/ handle_alive(e)
        \/ handle_secure_audio_message(e)
        \/ handle_metronome_sync(e)
        \/ \E epoch \in 1..MaxEpoch :
              \/ handle_room_chat_send(e, epoch)
              \/ handle_room_chat_history_request(e, epoch)
              \/ \E target \in Endpoint, c \in Commitment :
                    \/ handle_e2e_key_envelope(e, target, epoch, c)
                    \/ handle_room_key_handoff_ack(e, target, epoch, c)
              \/ \E target \in Endpoint \cup {Nil}, c \in Commitment :
                    handle_secure_control_message(e, target, epoch, c)

ClockStep ==
    \/ \E e \in Endpoint : client_timeout_passes(e)
    \/ \E r \in RoomId : pending_room_ttl_passes(r)
    \/ \E t \in Ticket : ticket_expires(t)

Next ==
    \/ RoomStep
    \/ JoinStep
    \/ AdminStep
    \/ \E e \in Endpoint : handle_leave(e)
    \/ alive_check_timer_callback
    \/ TrafficStep
    \/ ClockStep

Spec == Init /\ [][Next]_vars

\* The alive check is a periodic timer that re-arms itself whatever its
\* callback does (common/periodic_timer.h), so it keeps firing.
FairSpec == Spec /\ WF_vars(alive_check_timer_callback)

-----------------------------------------------------------------------------
(* Properties                                                               *)

\* A registered client's room is in the registry, is the very instance the
\* client was admitted to, and stands at the client's access epoch.  Chat,
\* key envelopes and secure control are authorised by comparing the two
\* records, so a drift between them would silence a participant.
SessionMatchesRoom ==
    \A e \in Endpoint : clients[e] # Nil =>
        /\ rooms[clients[e].room] # Nil
        /\ rooms[clients[e].room].instance = clients[e].instance
        /\ rooms[clients[e].room].epoch = clients[e].epoch

\* The endpoint a ticket is in use at: the nonce table and the client table
\* agree on it until the ticket expires.
NonceRecorded ==
    \A e \in Endpoint :
        clients[e] # Nil /\ clients[e].ticket \notin expired =>
            nonces[clients[e].ticket] = e

\* A ticket in use at one registered endpoint never puts another endpoint in
\* its place, although nonces are forgotten when tickets expire and when
\* clients leave, and outlive clients that time out or are displaced.
TicketNotTakenOver ==
    [][\A e, f \in Endpoint :
          e # f /\ clients[e] # Nil /\ clients'[f] # Nil =>
              clients'[f].ticket # clients[e].ticket]_vars

\* A room never holds more participants than the relay is provisioned for,
\* nor two endpoints of one profile, and no two clients share an id.
SeatsAreExclusive ==
    /\ \A r \in RoomId :
          Cardinality(get_room_clients(clients, r)) <= MaxRoomParticipants
    /\ \A e, f \in Endpoint :
          clients[e] # Nil /\ clients[f] # Nil /\ e # f =>
              /\ clients[e].id # clients[f].id
              /\ clients[e].room = clients[f].room =>
                    clients[e].profile # clients[f].profile

\* What the relay would send a packet of e to, in any state, is exactly the
\* membership of e's room: a stale endpoint cache would leak media out of a
\* room or starve a participant of it.
RelayReachesRoom ==
    \A e \in Endpoint : clients[e] # Nil =>
        get_cached_room_endpoints(cache, clients, e) =
            get_room_clients(clients, clients[e].room)

\* The ids announced to a participant and not withdrawn are those of its
\* room: joins, moves between rooms, displaced duplicates, kicks, timeouts
\* and closed rooms leave no phantom and hide nobody.
RosterExact ==
    \A e \in Endpoint : clients[e] # Nil =>
        told[e] = IdsOf(clients, get_room_clients(clients, clients[e].room))

\* A participant an admin has removed does not come back with the ticket it
\* held, whatever happens to the room afterwards.  (Tickets that name no
\* instance are outside this promise: they open any room.)
RemovedStayOut ==
    \A e \in Endpoint :
        clients[e] # Nil /\ clients[e].ticket \in revoked =>
            tickets[clients[e].ticket].instance = Nil

\* A client that stays silent is dropped: without this its seat in a full
\* room, and the nonce of its ticket, would be taken for good.
SilentClientsDropped ==
    \A e \in Endpoint : []<>(clients[e] = Nil \/ ~clients[e].silent)

\* A room that nobody is in, and that was joined before or waited too long,
\* goes away, including one an endpoint left by joining another room, which
\* is the one way out of a room that runs no cleanup of its own.
AbandonedRoomsRemoved ==
    \A r \in RoomId :
        []<>~(/\ rooms[r] # Nil
              /\ get_room_clients(clients, r) = {}
              /\ rooms[r].everJoined \/ rooms[r].pendingExpired)

\* "Rejoining the same profile in the same room from a new UDP endpoint
\* removes the stale endpoint immediately": a JOIN from a new endpoint with a
\* usable ticket nobody holds, for a profile whose old endpoint is still
\* registered, is not refused for want of room, because it brings nobody in.
RejoinReplacesStaleEndpoint ==
    \A e, f \in Endpoint, t \in Ticket :
        /\ validate_with_claims(t)
        /\ validate_claims(rooms, tickets[t].room, tickets[t].instance,
                           tickets[t].epoch, tickets[t].commitment)
        /\ can_reserve_token_nonce(t, e)
        /\ e # f
        /\ clients[f] # Nil
        /\ clients[f].room = tickets[t].room
        /\ clients[f].profile = tickets[t].profile
        => ~rejected_room_full(clients, e, tickets[t].room,
                               tickets[t].instance, tickets[t].profile)
=============================================================================
