---------------------------- MODULE ClientManager ----------------------------
(***************************************************************************)
(* The table of registered UDP endpoints (src/server/client_manager.h) and *)
(* its cache of each room's endpoints, as operators on the two tables.     *)
(***************************************************************************)
EXTENDS Naturals, FiniteSets, RoomRegistry

CONSTANTS
    Endpoint,             \* UDP endpoints (address and port)
    Profile,              \* profile ids
    Ticket,               \* join tickets, named by their claims with the nonce
    MaxRoomParticipants   \* MAX_ROOM_PARTICIPANTS

ASSUME MaxRoomParticipantsAssumption == MaxRoomParticipants \in Nat \ {0}

(***************************************************************************)
(* A registered client.  Of last_alive only the answer to "silent for      *)
(* longer than CLIENT_TIMEOUT?" is kept; ticket is token_nonce_key.        *)
(***************************************************************************)
Client == [id       : Nat \ {0},
           room     : RoomId,
           instance : Instance,
           epoch    : Nat \ {0},
           profile  : Profile,
           ticket   : Ticket,
           silent   : BOOLEAN]

ASSUME NilClientAssumption ==
    /\ Nil \notin Client \cup Endpoint
    /\ \A E \in SUBSET Endpoint : Nil # E

exists(clients, e) == clients[e] # Nil

get_room_clients(clients, r) ==
    {e \in Endpoint : clients[e] # Nil /\ clients[e].room = r}

OccupiedRooms(clients) ==
    {r \in RoomId : get_room_clients(clients, r) # {}}

IdsOf(clients, E) == {clients[e].id : e \in E}

-----------------------------------------------------------------------------
(* register_client, for endpoint e joining room r, instance i, as profile p *)

can_reuse_existing(clients, e, r, i, p) ==
    /\ clients[e] # Nil
    /\ clients[e].room = r
    /\ clients[e].instance = i
    /\ clients[e].profile = p

\* Mutant: off by one at the room limit.
rejected_room_full_late(clients, e, r, i, p) ==
    /\ ~can_reuse_existing(clients, e, r, i, p)
    /\ Cardinality(get_room_clients(clients, r)) > MaxRoomParticipants
    /\ e \notin get_room_clients(clients, r)

rejected_room_full(clients, e, r, i, p) ==
    /\ ~can_reuse_existing(clients, e, r, i, p)
    /\ Cardinality(get_room_clients(clients, r)) >= MaxRoomParticipants
    /\ e \notin get_room_clients(clients, r)

\* Other endpoints of the same profile in the same room lose their place.
Displaced(clients, e, r, p) ==
    {x \in get_room_clients(clients, r) : x # e /\ clients[x].profile = p}

register_client(clients, e, r, i, epoch, p, t, nextId) ==
    [x \in Endpoint |->
        IF x = e
        THEN [id |-> IF can_reuse_existing(clients, e, r, i, p)
                     THEN clients[e].id ELSE nextId,
              room |-> r, instance |-> i, epoch |-> epoch, profile |-> p,
              ticket |-> t, silent |-> FALSE]
        ELSE IF x \in Displaced(clients, e, r, p) THEN Nil ELSE clients[x]]

\* Mutant: an endpoint that changes room does not report its old id.
removed_clients_displaced_only(clients, e, r, i, p) ==
    Displaced(clients, e, r, p)

\* The endpoints whose client id the registration retires.
removed_clients(clients, e, r, i, p) ==
    Displaced(clients, e, r, p) \cup
    {x \in {e} : clients[x] # Nil /\ ~can_reuse_existing(clients, e, r, i, p)}

-----------------------------------------------------------------------------
update_alive(clients, e) ==
    IF clients[e] = Nil
    THEN clients
    ELSE [clients EXCEPT ![e] = [@ EXCEPT !.silent = FALSE]]

remove_clients(clients, E) ==
    [x \in Endpoint |-> IF x \in E THEN Nil ELSE clients[x]]

\* Mutant: the timeout comparison is the wrong way round.
timed_out_clients_inverted(clients) ==
    {e \in Endpoint : clients[e] # Nil /\ ~clients[e].silent}

timed_out_clients(clients) ==
    {e \in Endpoint : clients[e] # Nil /\ clients[e].silent}

\* Mutant: the new epoch never reaches the clients' records.
set_room_access_epoch_forgotten(clients, r, i, epoch) == clients

set_room_access_epoch(clients, r, i, epoch) ==
    [x \in Endpoint |->
        IF x \in get_room_clients(clients, r) /\ clients[x].instance = i
        THEN [clients[x] EXCEPT !.epoch = epoch]
        ELSE clients[x]]

-----------------------------------------------------------------------------
(* The cache of room endpoints: Nil where nothing is cached.                *)

invalidate_room_endpoint_cache(cache, R) ==
    [r \in RoomId |-> IF r \in R THEN Nil ELSE cache[r]]

\* Mutant: the room a client was in keeps its cached endpoints.
RoomsOf_forgotten(clients, E) == {}

\* The rooms the clients at endpoints E are in.
RoomsOf(clients, E) == {clients[e].room : e \in {x \in E : clients[x] # Nil}}

get_cached_room_endpoints(cache, clients, e) ==
    IF clients[e] = Nil THEN {}
    ELSE IF cache[clients[e].room] # Nil THEN cache[clients[e].room]
    ELSE get_room_clients(clients, clients[e].room)

\* The cache after a lookup on behalf of e.
fill_room_endpoint_cache(cache, clients, e) ==
    IF clients[e] = Nil
    THEN cache
    ELSE [cache EXCEPT ![clients[e].room] =
             get_cached_room_endpoints(cache, clients, e)]
=============================================================================
