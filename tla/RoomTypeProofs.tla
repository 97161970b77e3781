--------------------------- MODULE RoomTypeProofs ---------------------------
(***************************************************************************)
(* TypeOK is an invariant of RoomServer, for any number of rooms,          *)
(* endpoints, profiles and tickets; and what the operators of RoomRegistry *)
(* and ClientManager do to the type of a table and to the agreement of the *)
(* two tables, which the proofs of RoomServer's other invariants share.    *)
(***************************************************************************)
EXTENDS RoomServer, TLAPS

RoomTable == [RoomId -> Room \cup {Nil}]
ClientTable == [Endpoint -> Client \cup {Nil}]

\* SessionMatchesRoom, for a pair of tables.
Matches(rs, cs) ==
    \A e \in Endpoint : cs[e] # Nil =>
        /\ rs[cs[e].room] # Nil
        /\ rs[cs[e].room].instance = cs[e].instance
        /\ rs[cs[e].room].epoch = cs[e].epoch

-----------------------------------------------------------------------------
(* Records                                                                  *)

\* The absent value is none of the records, ids or sets it stands for.
LEMMA NilIsNone ==
    /\ Nil \notin Room
    /\ Nil \notin Client
    /\ Nil \notin Claims
    /\ Nil \notin Endpoint
    /\ Nil \notin Instance
BY NilRoomAssumption, NilClientAssumption, NilClaimsAssumption

\* The fields of a room have the types that handlers rely on.
LEMMA RoomFields ==
    ASSUME NEW room \in Room
    PROVE  /\ room.instance \in Instance
           /\ room.epoch \in Nat \ {0}
           /\ room.commitment \in Commitment
BY DEF Room

\* The fields of a client have the types that handlers rely on.
LEMMA ClientFields ==
    ASSUME NEW client \in Client
    PROVE  /\ client.id \in Nat \ {0}
           /\ client.room \in RoomId
           /\ client.instance \in Instance
           /\ client.epoch \in Nat \ {0}
           /\ client.profile \in Profile
           /\ client.ticket \in Ticket
           /\ client.silent \in BOOLEAN
BY DEF Client

\* A table entry that is not absent is a room.
LEMMA EntryIsRoom ==
    ASSUME NEW rs \in RoomTable, NEW r \in RoomId, rs[r] # Nil
    PROVE  rs[r] \in Room
BY DEF RoomTable

\* A table entry that is not absent is a client.
LEMMA EntryIsClient ==
    ASSUME NEW cs \in ClientTable, NEW e \in Endpoint, cs[e] # Nil
    PROVE  cs[e] \in Client
BY DEF ClientTable

\* Setting a flag of a room changes neither its instance nor its epoch.
LEMMA RoomFlagged ==
    ASSUME NEW room \in Room
    PROVE  /\ [room EXCEPT !.everJoined = TRUE] \in Room
           /\ [room EXCEPT !.everJoined = TRUE].instance = room.instance
           /\ [room EXCEPT !.everJoined = TRUE].epoch = room.epoch
           /\ [room EXCEPT !.pendingExpired = TRUE] \in Room
           /\ [room EXCEPT !.pendingExpired = TRUE].instance = room.instance
           /\ [room EXCEPT !.pendingExpired = TRUE].epoch = room.epoch
BY DEF Room

\* Changing the silence of a client changes nothing else.
LEMMA ClientSilenced ==
    ASSUME NEW client \in Client
    PROVE  /\ [client EXCEPT !.silent = TRUE] \in Client
           /\ [client EXCEPT !.silent = TRUE].room = client.room
           /\ [client EXCEPT !.silent = TRUE].instance = client.instance
           /\ [client EXCEPT !.silent = TRUE].epoch = client.epoch
           /\ [client EXCEPT !.silent = TRUE].ticket = client.ticket
BY DEF Client

\* Changing the epoch of a client changes nothing else.
LEMMA ClientEpochSet ==
    ASSUME NEW client \in Client, NEW n \in Nat \ {0}
    PROVE  /\ [client EXCEPT !.epoch = n] \in Client
           /\ [client EXCEPT !.epoch = n].room = client.room
           /\ [client EXCEPT !.epoch = n].instance = client.instance
           /\ [client EXCEPT !.epoch = n].epoch = n
           /\ [client EXCEPT !.epoch = n].ticket = client.ticket
BY DEF Client

-----------------------------------------------------------------------------
(* Operators of RoomRegistry                                                *)

\* create_room makes a room at its first epoch and touches no other.
LEMMA CreateRoom ==
    ASSUME NEW rs \in RoomTable, NEW r \in RoomId, NEW i \in Instance,
           NEW mode \in AccessMode, NEW pw \in Password \cup {Nil},
           NEW c \in Commitment
    PROVE  /\ create_room(rs, r, i, mode, pw, c) \in RoomTable
           /\ create_room(rs, r, i, mode, pw, c)[r] \in Room
           /\ create_room(rs, r, i, mode, pw, c)[r].instance = i
           /\ \A s \in RoomId : s # r =>
                 create_room(rs, r, i, mode, pw, c)[s] = rs[s]
<1> DEFINE new == [instance |-> i, admin |-> i, mode |-> mode,
                   password |-> IF mode = "password" THEN pw ELSE Nil,
                   commitment |-> c, epoch |-> 1,
                   everJoined |-> FALSE, pendingExpired |-> FALSE]
<1>1. new \in Room /\ new.instance = i
  BY DEF Room
<1>2. create_room(rs, r, i, mode, pw, c) = [rs EXCEPT ![r] = new]
  BY DEF create_room
<1> HIDE DEF new
<1> QED
  BY <1>1, <1>2 DEF RoomTable

\* ensure_open_room leaves a room there with the instance and the epoch of
\* the one it found, or else the instance it drew, and touches no other.
LEMMA EnsureOpenRoom ==
    ASSUME NEW rs \in RoomTable, NEW r \in RoomId, NEW i \in Instance,
           NEW c \in Commitment
    PROVE  LET open == ensure_open_room(rs, r, i, c)
           IN  /\ open \in RoomTable
               /\ open[r] \in Room
               /\ rs[r] # Nil => /\ open[r].instance = rs[r].instance
                                 /\ open[r].epoch = rs[r].epoch
               /\ rs[r] = Nil => open[r].instance = i
               /\ \A s \in RoomId : s # r => open[s] = rs[s]
<1> DEFINE new == [instance |-> i, admin |-> Nil, mode |-> "open",
                   password |-> Nil, commitment |-> c, epoch |-> 1,
                   everJoined |-> TRUE, pendingExpired |-> FALSE]
           entry == IF rs[r] # Nil THEN [rs[r] EXCEPT !.everJoined = TRUE] ELSE new
<1>1. new \in Room /\ new.instance = i
  BY AccessModeAssumption DEF Room
<1>2. ensure_open_room(rs, r, i, c) = [rs EXCEPT ![r] = entry]
  BY DEF ensure_open_room
<1> HIDE DEF new
<1>3. /\ entry \in Room
      /\ rs[r] # Nil => entry.instance = rs[r].instance /\ entry.epoch = rs[r].epoch
      /\ rs[r] = Nil => entry.instance = i
  <2>1. CASE rs[r] = Nil
    BY <1>1, <2>1
  <2>2. CASE rs[r] # Nil
    BY <2>2, EntryIsRoom, RoomFlagged
  <2> QED
    BY <2>1, <2>2
<1> HIDE DEF entry
<1> QED
  BY <1>2, <1>3 DEF RoomTable

\* mark_joined changes no room's instance or epoch.
LEMMA MarkJoined ==
    ASSUME NEW rs \in RoomTable, NEW r \in RoomId
    PROVE  /\ mark_joined(rs, r) \in RoomTable
           /\ \A s \in RoomId :
                 /\ mark_joined(rs, r)[s] = Nil <=> rs[s] = Nil
                 /\ rs[s] # Nil =>
                       /\ mark_joined(rs, r)[s].instance = rs[s].instance
                       /\ mark_joined(rs, r)[s].epoch = rs[s].epoch
<1>1. CASE rs[r] = Nil
  BY <1>1 DEF mark_joined
<1>2. CASE rs[r] # Nil
  <2> DEFINE entry == [rs[r] EXCEPT !.everJoined = TRUE]
  <2>1. entry \in Room /\ entry.instance = rs[r].instance /\ entry.epoch = rs[r].epoch
    BY <1>2, EntryIsRoom, RoomFlagged
  <2>2. mark_joined(rs, r) = [rs EXCEPT ![r] = entry]
    BY <1>2 DEF mark_joined
  <2> HIDE DEF entry
  <2> QED
    BY <1>2, <2>1, <2>2, NilIsNone DEF RoomTable
<1> QED
  BY <1>1, <1>2

\* A room keeps its instance and moves to the next epoch; no other room is
\* touched.
EpochMoved(old, new, r) ==
    /\ new \in RoomTable
    /\ new[r] \in Room
    /\ new[r].instance = old[r].instance
    /\ new[r].epoch = old[r].epoch + 1
    /\ \A s \in RoomId : s # r => new[s] = old[s]

\* So it does when an admin rotates the key,
LEMMA RotateAccessEpoch ==
    ASSUME NEW rs \in RoomTable, NEW r \in RoomId, rs[r] # Nil, NEW c \in Commitment
    PROVE  EpochMoved(rs, rotate_access_epoch(rs, r, c), r)
<1> DEFINE n == rs[r].epoch + 1
           entry == [rs[r] EXCEPT !.commitment = c, !.epoch = n]
<1>1. rs[r] \in Room
  BY EntryIsRoom
<1>2. n \in Nat \ {0}
  BY <1>1, RoomFields
<1>3. rotate_access_epoch(rs, r, c) = [rs EXCEPT ![r] = entry]
  BY DEF rotate_access_epoch
<1> HIDE DEF n
<1>4. entry \in Room /\ entry.instance = rs[r].instance /\ entry.epoch = n
  BY <1>1, <1>2 DEF Room
<1> HIDE DEF entry
<1> QED
  BY <1>3, <1>4 DEF RoomTable, EpochMoved, n

\* and when an admin changes the access mode.
LEMMA ChangeAccessMode ==
    ASSUME NEW rs \in RoomTable, NEW r \in RoomId, rs[r] # Nil,
           NEW mode \in AccessMode, NEW pw \in Password \cup {Nil},
           NEW c \in Commitment
    PROVE  EpochMoved(rs, change_access_mode(rs, r, mode, pw, c), r)
<1> DEFINE n == rs[r].epoch + 1
           q == IF mode = "password" THEN pw ELSE Nil
           entry == [rs[r] EXCEPT !.mode = mode, !.password = q,
                                  !.commitment = c, !.epoch = n]
<1>1. rs[r] \in Room
  BY EntryIsRoom
<1>2. n \in Nat \ {0} /\ q \in Password \cup {Nil}
  BY <1>1, RoomFields
<1>3. change_access_mode(rs, r, mode, pw, c) = [rs EXCEPT ![r] = entry]
  BY DEF change_access_mode
<1> HIDE DEF n, q
<1>4. entry \in Room /\ entry.instance = rs[r].instance /\ entry.epoch = n
  BY <1>1, <1>2 DEF Room
<1> HIDE DEF entry
<1> QED
  BY <1>3, <1>4 DEF RoomTable, EpochMoved, n

-----------------------------------------------------------------------------
(* Operators of ClientManager                                               *)

\* The sessions of new are sessions of old: the same endpoints, in the same
\* rooms, with the same tickets, or fewer.
Survive(old, new) ==
    \A e \in Endpoint : new[e] # Nil =>
        /\ old[e] # Nil
        /\ new[e].room = old[e].room
        /\ new[e].instance = old[e].instance
        /\ new[e].epoch = old[e].epoch
        /\ new[e].ticket = old[e].ticket

\* remove_clients takes out the clients it is told to and no others.
LEMMA RemoveClients ==
    ASSUME NEW cs \in ClientTable, NEW E
    PROVE  /\ remove_clients(cs, E) \in ClientTable
           /\ Survive(cs, remove_clients(cs, E))
           /\ \A e \in Endpoint : e \in E => remove_clients(cs, E)[e] = Nil
BY DEF remove_clients, ClientTable, Survive

\* A packet from a client changes nothing of its session.
LEMMA UpdateAlive ==
    ASSUME NEW cs \in ClientTable, NEW e \in Endpoint
    PROVE  /\ update_alive(cs, e) \in ClientTable
           /\ Survive(cs, update_alive(cs, e))
<1>1. CASE cs[e] = Nil
  BY <1>1 DEF update_alive, Survive
<1>2. CASE cs[e] # Nil
  <2> DEFINE entry == [cs[e] EXCEPT !.silent = FALSE]
  <2>1. cs[e] \in Client
    BY <1>2, EntryIsClient
  <2>2. /\ entry \in Client
        /\ entry.room = cs[e].room
        /\ entry.instance = cs[e].instance
        /\ entry.epoch = cs[e].epoch
        /\ entry.ticket = cs[e].ticket
    BY <2>1 DEF Client
  <2>3. update_alive(cs, e) = [cs EXCEPT ![e] = entry]
    BY <1>2 DEF update_alive
  <2> HIDE DEF entry
  <2> QED
    BY <1>2, <2>2, <2>3 DEF ClientTable, Survive
<1> QED
  BY <1>1, <1>2

\* A registered client is there with the room, the instance, the epoch and
\* the ticket it was registered with; the others stay as they are or go.
Registered(old, new, e, r, i, epoch, t) ==
    /\ new \in ClientTable
    /\ new[e] \in Client
    /\ new[e].room = r
    /\ new[e].instance = i
    /\ new[e].epoch = epoch
    /\ new[e].ticket = t
    /\ \A x \in Endpoint : x # e /\ new[x] # Nil => new[x] = old[x]

\* That is what register_client does.
LEMMA RegisterClient ==
    ASSUME NEW cs \in ClientTable, NEW e \in Endpoint, NEW r \in RoomId,
           NEW i \in Instance, NEW epoch \in Nat \ {0}, NEW p \in Profile,
           NEW t \in Ticket, NEW id \in Nat \ {0}
    PROVE  Registered(cs, register_client(cs, e, r, i, epoch, p, t, id),
                      e, r, i, epoch, t)
<1> DEFINE own == IF can_reuse_existing(cs, e, r, i, p) THEN cs[e].id ELSE id
           entry == [id |-> own, room |-> r, instance |-> i, epoch |-> epoch,
                     profile |-> p, ticket |-> t, silent |-> FALSE]
           D == Displaced(cs, e, r, p)
<1>1. own \in Nat \ {0}
  BY EntryIsClient, ClientFields DEF can_reuse_existing
<1>2. register_client(cs, e, r, i, epoch, p, t, id) =
         [x \in Endpoint |-> IF x = e THEN entry ELSE IF x \in D THEN Nil ELSE cs[x]]
  BY DEF register_client
<1> HIDE DEF own, D
<1>3. /\ entry \in Client
      /\ entry.room = r
      /\ entry.instance = i
      /\ entry.epoch = epoch
      /\ entry.ticket = t
  BY <1>1 DEF Client
<1> HIDE DEF entry
<1> QED
  BY <1>2, <1>3 DEF ClientTable, Registered

\* The clients of instance i of room r are at epoch n; nothing else changes.
EpochSet(old, new, r, i, n) ==
    /\ new \in ClientTable
    /\ \A e \in Endpoint :
          /\ new[e] = Nil <=> old[e] = Nil
          /\ old[e] # Nil =>
                /\ new[e].room = old[e].room
                /\ new[e].instance = old[e].instance
                /\ new[e].ticket = old[e].ticket
                /\ new[e].epoch = IF old[e].room = r /\ old[e].instance = i
                                  THEN n ELSE old[e].epoch

\* That is what set_room_access_epoch does.
LEMMA SetRoomAccessEpoch ==
    ASSUME NEW cs \in ClientTable, NEW r \in RoomId, NEW i \in Instance,
           NEW n \in Nat \ {0}
    PROVE  EpochSet(cs, set_room_access_epoch(cs, r, i, n), r, i, n)
<1> DEFINE new == set_room_access_epoch(cs, r, i, n)
<1>1. ASSUME NEW e \in Endpoint
      PROVE  /\ new[e] \in Client \cup {Nil}
             /\ new[e] = Nil <=> cs[e] = Nil
             /\ cs[e] # Nil =>
                   /\ new[e].room = cs[e].room
                   /\ new[e].instance = cs[e].instance
                   /\ new[e].ticket = cs[e].ticket
                   /\ new[e].epoch = IF cs[e].room = r /\ cs[e].instance = i
                                     THEN n ELSE cs[e].epoch
  <2>1. CASE e \in get_room_clients(cs, r) /\ cs[e].instance = i
    <3>1. cs[e] \in Client /\ cs[e].room = r /\ cs[e].instance = i /\ cs[e] # Nil
      BY <2>1, EntryIsClient DEF get_room_clients
    <3>2. new[e] = [cs[e] EXCEPT !.epoch = n]
      BY <2>1 DEF set_room_access_epoch
    <3> HIDE DEF new
    <3> QED
      BY <3>1, <3>2, ClientEpochSet, NilIsNone
  <2>2. CASE ~(e \in get_room_clients(cs, r) /\ cs[e].instance = i)
    <3>1. new[e] = cs[e]
      BY <2>2 DEF set_room_access_epoch
    <3> HIDE DEF new
    <3> QED
      BY <2>2, <3>1 DEF get_room_clients, ClientTable
  <2> QED
    BY <2>1, <2>2
<1>2. new = [e \in Endpoint |-> new[e]]
  BY DEF set_room_access_epoch
<1> HIDE DEF new
<1>3. new \in ClientTable
  BY <1>1, <1>2 DEF ClientTable
<1>4. EpochSet(cs, new, r, i, n)
  BY <1>1, <1>3 DEF EpochSet
<1> QED
  BY <1>4 DEF new

-----------------------------------------------------------------------------
(* The two tables together                                                  *)

\* cleanup_empty_rooms takes no room away from a client.
LEMMA CleanupEmptyRooms ==
    ASSUME NEW rs \in RoomTable, NEW cs \in ClientTable
    PROVE  /\ cleanup_empty_rooms(rs, cs) \in RoomTable
           /\ \A r \in RoomId : cleanup_empty_rooms(rs, cs)[r] \in {Nil, rs[r]}
           /\ Matches(rs, cs) => Matches(cleanup_empty_rooms(rs, cs), cs)
<1> DEFINE kept == cleanup_empty_rooms(rs, cs)
<1>1. kept \in RoomTable /\ \A r \in RoomId : kept[r] \in {Nil, rs[r]}
  BY DEF cleanup_empty_rooms, remove_empty_rooms, RoomTable
<1>2. ASSUME NEW e \in Endpoint, cs[e] # Nil
      PROVE  cs[e].room \in RoomId /\ kept[cs[e].room] = rs[cs[e].room]
  <2>1. cs[e].room \in RoomId
    BY <1>2, EntryIsClient, ClientFields
  <2>2. cs[e].room \in OccupiedRooms(cs)
    BY <1>2, <2>1 DEF OccupiedRooms, get_room_clients
  <2> QED
    BY <2>1, <2>2 DEF cleanup_empty_rooms, remove_empty_rooms
<1> HIDE DEF kept
<1>3. Matches(rs, cs) => Matches(kept, cs)
  BY <1>2 DEF Matches
<1> QED
  BY <1>1, <1>3 DEF kept

\* Sessions that survive still match their rooms.
LEMMA SurvivorsMatch ==
    ASSUME NEW rs, NEW cs, NEW new, Matches(rs, cs), Survive(cs, new)
    PROVE  Matches(rs, new)
BY DEF Matches, Survive

-----------------------------------------------------------------------------
(* Types of the tables                                                      *)

NonceTable == [Ticket -> Endpoint \cup {Nil}]
CacheTable == [RoomId -> {Nil} \cup SUBSET Endpoint]
ToldTable == [Endpoint -> SUBSET Nat]

\* TypeOK, in terms of the tables.
LEMMA TypeTables ==
    TypeOK <=> /\ rooms \in RoomTable
               /\ instances \in SUBSET Instance
               /\ tickets \in [Ticket -> Claims \cup {Nil}]
               /\ expired \in SUBSET Ticket
               /\ nonces \in NonceTable
               /\ clients \in ClientTable
               /\ nextId \in Nat \ {0}
               /\ cache \in CacheTable
               /\ told \in ToldTable
               /\ revoked \in SUBSET Ticket
BY DEF TypeOK, RoomTable, ClientTable, NonceTable, CacheTable, ToldTable

\* The operators on nonces keep the type of the table.
LEMMA NonceTypes ==
    ASSUME nonces \in NonceTable, NEW t \in Ticket, NEW e \in Endpoint, NEW E
    PROVE  /\ cleanup_used_token_nonces \in NonceTable
           /\ reserve_token_nonce(t, e) \in NonceTable
           /\ release_token_nonces(E) \in NonceTable
BY DEF NonceTable, cleanup_used_token_nonces, reserve_token_nonce,
       release_token_nonces

\* The operators on the endpoint cache keep its type.
LEMMA CacheTypes ==
    ASSUME NEW ca \in CacheTable, NEW cs \in ClientTable, NEW e \in Endpoint, NEW R
    PROVE  /\ invalidate_room_endpoint_cache(ca, R) \in CacheTable
           /\ get_cached_room_endpoints(ca, cs, e) \in SUBSET Endpoint
           /\ fill_room_endpoint_cache(ca, cs, e) \in CacheTable
<1>1. invalidate_room_endpoint_cache(ca, R) \in CacheTable
  BY DEF CacheTable, invalidate_room_endpoint_cache
<1>2. cs[e] # Nil => cs[e].room \in RoomId
  BY EntryIsClient, ClientFields
<1>3. get_cached_room_endpoints(ca, cs, e) \in SUBSET Endpoint
  BY <1>2 DEF CacheTable, get_cached_room_endpoints, get_room_clients
<1>4. fill_room_endpoint_cache(ca, cs, e) \in CacheTable
  BY <1>2, <1>3 DEF CacheTable, fill_room_endpoint_cache
<1> QED
  BY <1>1, <1>3, <1>4

\* The ids of registered clients are numbers.
LEMMA IdTypes ==
    ASSUME NEW cs \in ClientTable, NEW E \in SUBSET Endpoint,
           \A e \in E : cs[e] # Nil
    PROVE  IdsOf(cs, E) \in SUBSET Nat
BY EntryIsClient, ClientFields DEF IdsOf

\* Withdrawing ids keeps the type of what was announced.
LEMMA LeaveTypes ==
    ASSUME told \in ToldTable, NEW cs, NEW ids
    PROVE  broadcast_participant_leave(cs, ids) \in ToldTable
BY DEF ToldTable, broadcast_participant_leave

\* A signed ticket has the type of its claims.
LEMMA TicketTypes ==
    ASSUME tickets \in [Ticket -> Claims \cup {Nil}], NEW t \in Ticket,
           NEW room \in Room, NEW r \in RoomId, NEW p \in Profile
    PROVE  create_udp_room_join_ticket(t, room, r, p)
              \in [Ticket -> Claims \cup {Nil}]
<1> DEFINE claims == [room |-> r, profile |-> p, instance |-> room.instance,
                      epoch |-> room.epoch, commitment |-> room.commitment]
<1>1. claims \in Claims
  BY RoomFields DEF Claims
<1> HIDE DEF claims
<1> QED
  BY <1>1 DEF create_udp_room_join_ticket, claims

\* The claims of a ticket that was signed.
LEMMA ClaimTypes ==
    ASSUME tickets \in [Ticket -> Claims \cup {Nil}], NEW t \in Ticket,
           tickets[t] # Nil
    PROVE  /\ tickets[t].room \in RoomId
           /\ tickets[t].profile \in Profile
           /\ tickets[t].commitment \in Commitment
BY DEF Claims

\* What handle_join does after the room check, which left the registry as rs.
Join(e, t, rs) ==
    \/ Refuse_nonce_replay(e, t, rs)
    \/ Refuse_room_full(e, t, rs)
    \/ Admit(e, t, rs)

\* A JOIN keeps the types of the tables it writes.
LEMMA JoinTypes ==
    ASSUME TypeOK, NEW e \in Endpoint, NEW t \in Ticket, tickets[t] # Nil,
           NEW rs \in RoomTable, rs[tickets[t].room] \in Room, Join(e, t, rs)
    PROVE  /\ rooms' \in RoomTable
           /\ nonces' \in NonceTable
           /\ clients' \in ClientTable
           /\ nextId' \in Nat \ {0}
           /\ cache' \in CacheTable
           /\ told' \in ToldTable
<1> USE TypeTables
<1>1. CASE Refuse_nonce_replay(e, t, rs)
  BY <1>1, NonceTypes DEF Refuse_nonce_replay
<1>2. CASE Refuse_room_full(e, t, rs)
  BY <1>2, NonceTypes DEF Refuse_room_full
<1>3. CASE Admit(e, t, rs)
  <2> DEFINE r == tickets[t].room
             p == tickets[t].profile
             i == rs[r].instance
             removed == removed_clients(clients, e, r, i, p)
             cs == register_client(clients, e, r, i, rs[r].epoch, p, t, nextId)
             stale == invalidate_room_endpoint_cache(
                          cache, RoomsOf(clients, {e}) \cup {r})
             left == broadcast_participant_leave(cs, IdsOf(clients, removed))
             informed == get_cached_room_endpoints(stale, cs, e)
             others == get_room_clients(cs, r) \ {e}
  <2>1. r \in RoomId /\ p \in Profile /\ i \in Instance /\ rs[r].epoch \in Nat \ {0}
    BY ClaimTypes, RoomFields
  <2>2. cs \in ClientTable /\ cs[e] \in Client
    <3>1. Registered(clients, cs, e, r, i, rs[r].epoch, t)
      BY <2>1, RegisterClient
    <3> QED
      BY <3>1 DEF Registered
  <2>3. clients' \in ClientTable
    BY <1>3, <2>2 DEF Admit
  <2>4. rooms' \in RoomTable
    BY <1>3, <2>1, MarkJoined DEF Admit
  <2>5. nonces' \in NonceTable
    BY <1>3, NonceTypes DEF Admit
  <2>6. nextId' \in Nat \ {0}
    <3>1. nextId' = nextId \/ nextId' = nextId + 1
      BY <1>3, Zenon DEF Admit
    <3> QED
      BY <3>1
  <2>7. stale \in CacheTable
    BY CacheTypes
  <2>8. cache' = fill_room_endpoint_cache(stale, cs, e)
    BY <1>3 DEF Admit
  <2>9. /\ {cs[e].id} \in SUBSET Nat
        /\ IdsOf(cs, others) \in SUBSET Nat
        /\ left \in ToldTable
    <3>1. others \in SUBSET Endpoint /\ \A x \in others : cs[x] # Nil
      BY DEF get_room_clients
    <3> HIDE DEF cs, others
    <3> QED
      BY <2>2, <3>1, ClientFields, IdTypes, LeaveTypes
  <2>10. \E news \in [Endpoint -> SUBSET Nat] : told' = news
    <3>1. told' = [x \in Endpoint |->
               (IF x = e /\ ~can_reuse_existing(clients, e, r, i, p)
                THEN {} ELSE left[x])
               \cup (IF x \in informed THEN {cs[e].id} ELSE {})
               \cup (IF x = e THEN IdsOf(cs, others) ELSE {})]
      BY <1>3 DEF Admit
    <3> HIDE DEF cs, left, informed, others, removed, stale
    <3> QED
      BY <2>9, <3>1 DEF ToldTable
  <2> HIDE DEF cs, stale
  <2> QED
    BY <2>2, <2>3, <2>4, <2>5, <2>6, <2>7, <2>8, <2>10, CacheTypes DEF ToldTable
<1> QED
  BY <1>1, <1>2, <1>3 DEF Join

\* The removal of clients by an admin keeps the types of what Expel writes.
LEMMA ExpelTypes ==
    ASSUME TypeOK, NEW E \in SUBSET Endpoint, \A e \in E : clients[e] # Nil, Expel(E)
    PROVE  /\ nonces' \in NonceTable
           /\ cache' \in CacheTable
           /\ told' \in ToldTable
           /\ revoked' \in SUBSET Ticket
<1>1. nonces' \in NonceTable
  BY TypeTables DEF Expel, NonceTable, release_token_nonces
<1>2. cache' \in CacheTable
  BY TypeTables DEF Expel, CacheTable, invalidate_room_endpoint_cache
<1>3. told' \in ToldTable
  BY TypeTables, LeaveTypes DEF Expel
<1>4. revoked' \in SUBSET Ticket
  BY TypeTables, EntryIsClient, ClientFields DEF Expel
<1> QED
  BY <1>1, <1>2, <1>3, <1>4

\* An admin request that went through keeps the types of the two tables.
LEMMA CommitTypes ==
    ASSUME NEW old, NEW rs, NEW r \in RoomId, NEW cs \in ClientTable,
           EpochMoved(old, rs, r), Commit_admin_request(r, rs, cs)
    PROVE  rooms' \in RoomTable /\ clients' \in ClientTable
<1>1. rs \in RoomTable /\ rs[r].instance \in Instance /\ rs[r].epoch \in Nat \ {0}
  BY RoomFields DEF EpochMoved
<1>2. EpochSet(cs, set_room_access_epoch(cs, r, rs[r].instance, rs[r].epoch),
               r, rs[r].instance, rs[r].epoch)
  BY <1>1, SetRoomAccessEpoch
<1> QED
  BY <1>1, <1>2 DEF EpochSet, Commit_admin_request

\* Every step keeps the types of the state.
LEMMA TypeStep == TypeOK /\ [Next]_vars => TypeOK'
<1> SUFFICES ASSUME TypeOK, [Next]_vars
             PROVE  TypeOK'
  OBVIOUS
<1> USE TypeTables
<1>0. ASSUME /\ rooms' \in RoomTable
             /\ instances' \in SUBSET Instance
             /\ tickets' \in [Ticket -> Claims \cup {Nil}]
             /\ expired' \in SUBSET Ticket
             /\ nonces' \in NonceTable
             /\ clients' \in ClientTable
             /\ nextId' \in Nat \ {0}
             /\ cache' \in CacheTable
             /\ told' \in ToldTable
             /\ revoked' \in SUBSET Ticket
      PROVE  TypeOK'
  BY <1>0 DEF TypeOK, RoomTable, ClientTable, NonceTable, CacheTable, ToldTable
<1>1. ASSUME NEW r \in RoomId, NEW p \in Profile, NEW i \in Instance,
             NEW t \in Ticket, NEW mode \in AccessMode,
             NEW pw \in Password \cup {Nil}, NEW c \in Commitment,
             handle_room_create_request(r, p, i, t, mode, pw, c)
      PROVE  TypeOK'
  <2>1. rooms' \in RoomTable /\ rooms'[r] \in Room
    BY <1>1, CreateRoom DEF handle_room_create_request
  <2>2. tickets' \in [Ticket -> Claims \cup {Nil}]
    BY <1>1, <2>1, TicketTypes DEF handle_room_create_request
  <2> QED
    BY <1>0, <1>1, <2>1, <2>2 DEF handle_room_create_request
<1>2. ASSUME NEW r \in RoomId, NEW p \in Profile, NEW t \in Ticket,
             NEW pw \in Password \cup {Nil},
             handle_room_join_token_request(r, p, t, pw)
      PROVE  TypeOK'
  <2>1. rooms[r] \in Room
    BY <1>2, EntryIsRoom DEF handle_room_join_token_request, authorize_join
  <2>2. tickets' \in [Ticket -> Claims \cup {Nil}]
    BY <1>2, <2>1, TicketTypes DEF handle_room_join_token_request
  <2> QED
    BY <1>0, <1>2, <2>2 DEF handle_room_join_token_request
<1>3. ASSUME NEW r \in DevRoom, NEW p \in Profile, NEW t \in Ticket,
             NEW c \in Commitment, dev_join_token(r, p, t, c)
      PROVE  TypeOK'
  <2>1. [room |-> r, profile |-> p, instance |-> Nil, epoch |-> 1,
         commitment |-> c] \in Claims
    BY DevRoomAssumption DEF Claims
  <2>2. tickets' \in [Ticket -> Claims \cup {Nil}]
    BY <1>3, <2>1 DEF dev_join_token
  <2> QED
    BY <1>0, <1>3, <2>2 DEF dev_join_token
<1>4. CASE handle_server_status_request
  BY <1>0, <1>4, CleanupEmptyRooms DEF handle_server_status_request
<1>5. ASSUME NEW e \in Endpoint, NEW t \in Ticket, handle_join_with_instance(e, t)
      PROVE  TypeOK'
  <2>1. /\ tickets[t] # Nil
        /\ rooms[tickets[t].room] # Nil
        /\ Join(e, t, rooms)
    BY <1>5 DEF handle_join_with_instance, validate_with_claims, validate_claims, Join
  <2>2. rooms[tickets[t].room] \in Room
    BY <2>1, ClaimTypes, EntryIsRoom
  <2> QED
    BY <1>0, <1>5, <2>1, <2>2, JoinTypes DEF handle_join_with_instance
<1>6. ASSUME NEW e \in Endpoint, NEW t \in Ticket, NEW i \in Instance,
             handle_join_open(e, t, i)
      PROVE  TypeOK'
  <2> DEFINE rs == ensure_open_room(rooms, tickets[t].room, i, tickets[t].commitment)
  <2>1. tickets[t] # Nil /\ Join(e, t, rs)
    BY <1>6 DEF handle_join_open, validate_with_claims, Join
  <2>2. rs \in RoomTable /\ rs[tickets[t].room] \in Room
    BY <2>1, ClaimTypes, EnsureOpenRoom
  <2>3. instances' \in SUBSET Instance
    BY <1>6 DEF handle_join_open
  <2> HIDE DEF rs
  <2> QED
    BY <1>0, <1>6, <2>1, <2>2, <2>3, JoinTypes DEF handle_join_open
<1>7. ASSUME NEW r \in RoomId, NEW token \in Instance, NEW mode \in AccessMode,
             NEW pw \in Password \cup {Nil}, NEW c \in Commitment,
             admin_change_access(r, token, mode, pw, c)
      PROVE  TypeOK'
  <2>1. rooms[r] # Nil
    BY <1>7 DEF admin_change_access, can_change_access_mode, authorize_admin
  <2>2. rooms' \in RoomTable /\ clients' \in ClientTable
    <3>1. EpochMoved(rooms, change_access_mode(rooms, r, mode, pw, c), r)
      BY <2>1, ChangeAccessMode
    <3> QED
      BY <1>7, <3>1, CommitTypes DEF admin_change_access
  <2> QED
    BY <1>0, <1>7, <2>2 DEF admin_change_access
<1>8. ASSUME NEW r \in RoomId, NEW token \in Instance,
             NEW pw \in Password \cup {Nil}, NEW c \in Commitment,
             admin_change_password(r, token, pw, c)
      PROVE  TypeOK'
  <2> DEFINE mode == IF pw = Nil THEN "open" ELSE "password"
  <2>1. mode \in AccessMode
    BY AccessModeAssumption
  <2>2. rooms[r] # Nil
    BY <1>8 DEF admin_change_password, can_change_access_mode, authorize_admin
  <2>3. Commit_admin_request(r, change_access_mode(rooms, r, mode, pw, c), clients)
    BY <1>8 DEF admin_change_password, change_password
  <2> HIDE DEF mode
  <2>4. rooms' \in RoomTable /\ clients' \in ClientTable
    <3>1. EpochMoved(rooms, change_access_mode(rooms, r, mode, pw, c), r)
      BY <2>1, <2>2, ChangeAccessMode
    <3> QED
      BY <2>3, <3>1, CommitTypes
  <2> QED
    BY <1>0, <1>8, <2>4 DEF admin_change_password
<1>9. ASSUME NEW r \in RoomId, NEW token \in Instance, NEW c \in Commitment,
             admin_rotate_media_key(r, token, c)
      PROVE  TypeOK'
  <2>1. rooms[r] # Nil
    BY <1>9 DEF admin_rotate_media_key, authorize_admin
  <2>2. EpochMoved(rooms, rotate_access_epoch(rooms, r, c), r)
    BY <2>1, RotateAccessEpoch
  <2>3. rooms' \in RoomTable /\ clients' \in ClientTable
    BY <1>9, <2>2, CommitTypes DEF admin_rotate_media_key
  <2> QED
    BY <1>0, <1>9, <2>3 DEF admin_rotate_media_key
<1>10. ASSUME NEW r \in RoomId, NEW token \in Instance, NEW id \in 1..MaxClientId,
              NEW c \in Commitment, admin_kick_participant(r, token, id, c)
       PROVE  TypeOK'
  <2> DEFINE E == {e \in get_room_clients(clients, r) : clients[e].id = id}
             cs == remove_clients(clients, E)
             rs == cleanup_empty_rooms(rooms, cs)
  <2>1. E \in SUBSET Endpoint /\ \A e \in E : clients[e] # Nil
    BY DEF get_room_clients
  <2>2. cs \in ClientTable
    BY RemoveClients
  <2>3. rs \in RoomTable
    BY <2>2, CleanupEmptyRooms
  <2>4. /\ Expel(E)
        /\ IF authorize_admin(rs, r, token)
           THEN Commit_admin_request(r, rotate_access_epoch(rs, r, c), cs)
           ELSE rooms' = rs /\ clients' = cs
    BY <1>10 DEF admin_kick_participant
  <2> HIDE DEF E, cs, rs
  <2>5. rooms' \in RoomTable /\ clients' \in ClientTable
    <3>1. CASE authorize_admin(rs, r, token)
      <4>1. rs[r] # Nil
        BY <3>1 DEF authorize_admin
      <4>2. EpochMoved(rs, rotate_access_epoch(rs, r, c), r)
        BY <2>3, <4>1, RotateAccessEpoch
      <4> QED
        BY <2>2, <2>4, <3>1, <4>2, CommitTypes
    <3>2. CASE ~authorize_admin(rs, r, token)
      BY <2>2, <2>3, <2>4, <3>2
    <3> QED
      BY <3>1, <3>2
  <2> QED
    BY <1>0, <1>10, <2>1, <2>4, <2>5, ExpelTypes DEF admin_kick_participant
<1>11. ASSUME NEW r \in RoomId, NEW token \in Instance, admin_close_room(r, token)
       PROVE  TypeOK'
  <2> DEFINE E == get_room_clients(clients, r)
             cs == remove_clients(clients, E)
  <2>1. E \in SUBSET Endpoint /\ \A e \in E : clients[e] # Nil
    BY DEF get_room_clients
  <2>2. cs \in ClientTable
    BY RemoveClients
  <2>3. close_room(rooms, r) \in RoomTable
    BY DEF close_room, RoomTable
  <2>4. /\ Expel(E)
        /\ clients' = cs
        /\ rooms' = cleanup_empty_rooms(close_room(rooms, r), cs)
    BY <1>11 DEF admin_close_room
  <2> HIDE DEF E, cs
  <2> QED
    BY <1>0, <1>11, <2>1, <2>2, <2>3, <2>4, ExpelTypes, CleanupEmptyRooms
       DEF admin_close_room
<1>12. ASSUME NEW e \in Endpoint, handle_leave(e)
       PROVE  TypeOK'
  <2>1. clients' \in ClientTable
    BY <1>12, RemoveClients DEF handle_leave
  <2>2. rooms' \in RoomTable
    BY <1>12, RemoveClients, CleanupEmptyRooms DEF handle_leave
  <2>3. nonces' \in NonceTable
    BY <1>12 DEF handle_leave, NonceTable, release_token_nonces
  <2>4. cache' \in CacheTable
    BY <1>12 DEF handle_leave, CacheTable, invalidate_room_endpoint_cache
  <2>5. told' \in ToldTable
    BY <1>12, LeaveTypes DEF handle_leave
  <2> QED
    BY <1>0, <1>12, <2>1, <2>2, <2>3, <2>4, <2>5 DEF handle_leave
<1>13. CASE alive_check_timer_callback
  <2>1. clients' \in ClientTable
    BY <1>13, RemoveClients DEF alive_check_timer_callback
  <2>2. rooms' \in RoomTable
    BY <1>13, RemoveClients, CleanupEmptyRooms DEF alive_check_timer_callback
  <2>3. cache' \in CacheTable
    BY <1>13 DEF alive_check_timer_callback, CacheTable, invalidate_room_endpoint_cache
  <2>4. told' \in ToldTable
    BY <1>13, LeaveTypes DEF alive_check_timer_callback
  <2> QED
    BY <1>0, <1>13, <2>1, <2>2, <2>3, <2>4 DEF alive_check_timer_callback
<1>14. CASE TrafficStep
  <2>1. PICK e \in Endpoint : /\ Heard(e)
                              /\ \/ cache' = cache
                                 \/ cache' = fill_room_endpoint_cache(cache, clients, e)
    BY <1>14 DEF TrafficStep, handle_ping_message, handle_alive,
                 handle_secure_audio_message, handle_metronome_sync,
                 handle_room_chat_send, handle_room_chat_history_request,
                 handle_e2e_key_envelope, handle_room_key_handoff_ack,
                 handle_secure_control_message
  <2>2. clients' \in ClientTable
    BY <2>1, UpdateAlive DEF Heard
  <2>3. cache' \in CacheTable
    BY <2>1, CacheTypes
  <2> QED
    BY <1>0, <2>1, <2>2, <2>3 DEF Heard
<1>15. ASSUME NEW e \in Endpoint, client_timeout_passes(e)
       PROVE  TypeOK'
  <2>1. clients[e] \in Client
    BY <1>15, EntryIsClient DEF client_timeout_passes, exists
  <2>2. clients' \in ClientTable
    BY <1>15, <2>1, ClientSilenced DEF client_timeout_passes, ClientTable
  <2> QED
    BY <1>0, <1>15, <2>2 DEF client_timeout_passes
<1>16. ASSUME NEW r \in RoomId, pending_room_ttl_passes(r)
       PROVE  TypeOK'
  <2>1. rooms[r] \in Room
    BY <1>16, EntryIsRoom DEF pending_room_ttl_passes
  <2>2. rooms' \in RoomTable
    BY <1>16, <2>1, RoomFlagged DEF pending_room_ttl_passes, RoomTable
  <2> QED
    BY <1>0, <1>16, <2>2 DEF pending_room_ttl_passes
<1>17. ASSUME NEW t \in Ticket, ticket_expires(t)
       PROVE  TypeOK'
  BY <1>0, <1>17 DEF ticket_expires
<1>18. CASE UNCHANGED vars
  BY <1>0, <1>18 DEF vars
<1> QED
  BY <1>1, <1>2, <1>3, <1>4, <1>5, <1>6, <1>7, <1>8, <1>9, <1>10, <1>11, <1>12,
     <1>13, <1>14, <1>15, <1>16, <1>17, <1>18
     DEF Next, RoomStep, JoinStep, AdminStep, ClockStep

\* The type invariant of the server's tables holds in every behaviour.
THEOREM TypeCorrect == Spec => []TypeOK
<1>1. Init => TypeOK
  BY DEF Init, TypeOK
<1> QED
  BY <1>1, TypeStep, PTL DEF Spec
=============================================================================
