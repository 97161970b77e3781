-------------------------- MODULE RoomRosterProofs --------------------------
(***************************************************************************)
(* Who is in a room: its seats, the endpoints the relay has cached for it  *)
(* and the ids its participants were told of, for any number of rooms and  *)
(* endpoints.                                                              *)
(*                                                                         *)
(* A step of the server leaves every session in place (Quiet), ends some   *)
(* (Departs), or admits one and ends those it displaces (Arrives).  Each   *)
(* property is shown of the three kinds of step, with one strengthening:   *)
(* ids are distinct and below nextId, without which withdrawing the id of  *)
(* a client that goes could take another one off the lists.                *)
(***************************************************************************)
EXTENDS RoomTypeProofs, FiniteSetTheorems

Members(r) == get_room_clients(clients, r)

\* The same endpoints are registered, in the same rooms, as the same ids and
\* profiles.
SameSessions(old, new) ==
    \A e \in Endpoint :
        /\ new[e] = Nil <=> old[e] = Nil
        /\ old[e] # Nil => /\ new[e].id = old[e].id
                           /\ new[e].room = old[e].room
                           /\ new[e].profile = old[e].profile

\* A step after which everybody is still there; the endpoint cache may have
\* been filled.
Quiet ==
    /\ SameSessions(clients, clients')
    /\ UNCHANGED <<nextId, told>>
    /\ \/ cache' = cache
       \/ \E e \in Endpoint : cache' = fill_room_endpoint_cache(cache, clients, e)

\* The clients at endpoints E go, and nobody else.
Departs(E) ==
    /\ E \subseteq Endpoint /\ \A e \in E : clients[e] # Nil
    /\ SameSessions(remove_clients(clients, E), clients')
    /\ nextId' = nextId
    /\ cache' = invalidate_room_endpoint_cache(cache, RoomsOf(clients, E))
    /\ told' = broadcast_participant_leave(remove_clients(clients, E), IdsOf(clients, E))

\* Endpoint e is admitted with ticket t to a room that is there.
Arrives(e, t, rs) ==
    /\ tickets[t] # Nil /\ rs[tickets[t].room] \in Room
    /\ Admit(e, t, rs)

-----------------------------------------------------------------------------
(* What the operators on the client table leave in place                    *)

\* A packet from a client ends no session.
LEMMA UpdateAliveKeeps ==
    ASSUME NEW cs \in ClientTable, NEW e \in Endpoint
    PROVE  SameSessions(cs, update_alive(cs, e))
<1>1. CASE cs[e] = Nil
  BY <1>1 DEF update_alive, SameSessions
<1>2. CASE cs[e] # Nil
  <2> DEFINE entry == [cs[e] EXCEPT !.silent = FALSE]
  <2>1. cs[e] \in Client
    BY <1>2, EntryIsClient
  <2>2. /\ entry \in Client /\ entry.id = cs[e].id
        /\ entry.room = cs[e].room /\ entry.profile = cs[e].profile
    BY <2>1 DEF Client
  <2>3. update_alive(cs, e) = [cs EXCEPT ![e] = entry]
    BY <1>2 DEF update_alive
  <2> HIDE DEF entry
  <2> QED
    BY <1>2, <2>2, <2>3, NilIsNone DEF ClientTable, SameSessions
<1> QED
  BY <1>1, <1>2

\* Nor does time that passes without one.
LEMMA SilenceKeeps ==
    ASSUME NEW cs \in ClientTable, NEW e \in Endpoint, cs[e] # Nil
    PROVE  SameSessions(cs, [cs EXCEPT ![e] = [@ EXCEPT !.silent = TRUE]])
<1> DEFINE entry == [cs[e] EXCEPT !.silent = TRUE]
<1>1. cs[e] \in Client
  BY EntryIsClient
<1>2. /\ entry \in Client /\ entry.id = cs[e].id
      /\ entry.room = cs[e].room /\ entry.profile = cs[e].profile
  BY <1>1 DEF Client
<1>3. [cs EXCEPT ![e] = [@ EXCEPT !.silent = TRUE]] = [cs EXCEPT ![e] = entry]
  OBVIOUS
<1> HIDE DEF entry
<1> QED
  BY <1>2, <1>3, NilIsNone DEF ClientTable, SameSessions

\* Nor does set_room_access_epoch.
LEMMA EpochKeeps ==
    ASSUME NEW cs \in ClientTable, NEW r, NEW i, NEW n \in Nat \ {0}
    PROVE  SameSessions(cs, set_room_access_epoch(cs, r, i, n))
<1> DEFINE new == set_room_access_epoch(cs, r, i, n)
<1>1. ASSUME NEW e \in Endpoint
      PROVE  /\ new[e] = Nil <=> cs[e] = Nil
             /\ cs[e] # Nil => /\ new[e].id = cs[e].id
                               /\ new[e].room = cs[e].room
                               /\ new[e].profile = cs[e].profile
  <2> DEFINE entry == [cs[e] EXCEPT !.epoch = n]
  <2>1. (new[e] = entry /\ cs[e] # Nil) \/ new[e] = cs[e]
    BY DEF set_room_access_epoch, get_room_clients
  <2>2. CASE new[e] = entry /\ cs[e] # Nil
    <3>1. cs[e] \in Client
      BY <2>2, EntryIsClient
    <3>2. /\ entry \in Client /\ entry.id = cs[e].id
          /\ entry.room = cs[e].room /\ entry.profile = cs[e].profile
      BY <3>1 DEF Client
    <3> HIDE DEF entry, new
    <3> QED
      BY <2>2, <3>2, NilIsNone
  <2>3. CASE new[e] = cs[e]
    BY <2>3
  <2> HIDE DEF new, entry
  <2> QED
    BY <2>1, <2>2, <2>3
<1> QED
  BY <1>1 DEF SameSessions

\* Sessions that stay through two steps stay.
LEMMA SameSessionsTrans ==
    ASSUME NEW a, NEW b, NEW c, SameSessions(a, b), SameSessions(b, c)
    PROVE  SameSessions(a, c)
  BY DEF SameSessions

\* Of the sessions, an admin request that goes through changes the epochs.
LEMMA CommitKeeps ==
    ASSUME NEW old, NEW rs, NEW r \in RoomId, NEW cs \in ClientTable,
           EpochMoved(old, rs, r), Commit_admin_request(r, rs, cs)
    PROVE  SameSessions(cs, clients')
<1>1. rs[r].epoch \in Nat \ {0}
  BY RoomFields DEF EpochMoved
<1>2. SameSessions(cs, set_room_access_epoch(cs, r, rs[r].instance, rs[r].epoch))
  BY <1>1, EpochKeeps
<1> QED
  BY <1>2 DEF Commit_admin_request

-----------------------------------------------------------------------------
(* Every step is of one of the three kinds                                  *)

\* An admin request that changes the room and removes nobody.
LEMMA CommitIsQuiet ==
    ASSUME TypeOK, NEW r \in RoomId, NEW next, EpochMoved(rooms, next, r),
           Commit_admin_request(r, next, clients), UNCHANGED <<nextId, told, cache>>
    PROVE  Quiet
  BY CommitKeeps, TypeTables DEF Quiet

\* Taking clients out as the code does is a departure.
LEMMA RemovalDeparts ==
    ASSUME TypeOK, NEW E \in SUBSET Endpoint, \A e \in E : clients[e] # Nil,
           clients' = remove_clients(clients, E), nextId' = nextId,
           cache' = invalidate_room_endpoint_cache(cache, RoomsOf(clients, E)),
           told' = broadcast_participant_leave(remove_clients(clients, E), IdsOf(clients, E))
    PROVE  Departs(E)
  BY DEF Departs, SameSessions

\* The three outcomes of a JOIN.
LEMMA JoinKinds ==
    ASSUME NEW e \in Endpoint, NEW t \in Ticket, NEW rs \in RoomTable,
           tickets[t] # Nil, rs[tickets[t].room] \in Room, Join(e, t, rs)
    PROVE  Quiet \/ Arrives(e, t, rs)
<1>1. CASE Refuse_nonce_replay(e, t, rs)
  BY <1>1 DEF Refuse_nonce_replay, Quiet, SameSessions
<1>2. CASE Refuse_room_full(e, t, rs)
  BY <1>2 DEF Refuse_room_full, Quiet, SameSessions
<1>3. CASE Admit(e, t, rs)
  BY <1>3 DEF Arrives
<1> QED
  BY <1>1, <1>2, <1>3 DEF Join

\* Every step is of one of the three kinds.
LEMMA StepKinds ==
    ASSUME TypeOK, [Next]_vars
    PROVE  \/ Quiet
           \/ \E E \in SUBSET Endpoint : Departs(E)
           \/ \E e \in Endpoint, t \in Ticket, rs \in RoomTable : Arrives(e, t, rs)
<1> USE TypeTables
<1>1. ASSUME UNCHANGED <<clients, nextId, told, cache>> PROVE Quiet
  BY <1>1 DEF Quiet, SameSessions
<1>2. CASE RoomStep
  BY <1>1, <1>2 DEF RoomStep, handle_room_create_request, handle_room_join_token_request,
                    dev_join_token, handle_server_status_request
<1>3. ASSUME NEW e \in Endpoint, NEW t \in Ticket, handle_join_with_instance(e, t)
      PROVE  Quiet \/ Arrives(e, t, rooms)
  <2>1. tickets[t] # Nil /\ rooms[tickets[t].room] # Nil /\ Join(e, t, rooms)
    BY <1>3 DEF handle_join_with_instance, validate_with_claims, validate_claims, Join
  <2>2. rooms[tickets[t].room] \in Room
    BY <2>1, ClaimTypes, EntryIsRoom
  <2> QED
    BY <2>1, <2>2, JoinKinds
<1>4. ASSUME NEW e \in Endpoint, NEW t \in Ticket, NEW i \in Instance,
             handle_join_open(e, t, i)
      PROVE  Quiet \/ \E rs \in RoomTable : Arrives(e, t, rs)
  <2> DEFINE rs == ensure_open_room(rooms, tickets[t].room, i, tickets[t].commitment)
  <2>1. tickets[t] # Nil /\ Join(e, t, rs)
    BY <1>4 DEF handle_join_open, validate_with_claims, Join
  <2>2. rs \in RoomTable /\ rs[tickets[t].room] \in Room
    BY <2>1, ClaimTypes, EnsureOpenRoom
  <2> HIDE DEF rs
  <2> QED
    BY <2>1, <2>2, JoinKinds
<1>5. ASSUME NEW r \in RoomId, NEW token \in Instance, NEW mode \in AccessMode,
             NEW pw \in Password \cup {Nil}, NEW c \in Commitment,
             admin_change_access(r, token, mode, pw, c)
      PROVE  Quiet
  <2>1. /\ rooms[r] # Nil /\ UNCHANGED <<nextId, told, cache>>
        /\ Commit_admin_request(r, change_access_mode(rooms, r, mode, pw, c), clients)
    BY <1>5 DEF admin_change_access, can_change_access_mode, authorize_admin
  <2> QED
    BY <2>1, ChangeAccessMode, CommitIsQuiet
<1>6. ASSUME NEW r \in RoomId, NEW token \in Instance,
             NEW pw \in Password \cup {Nil}, NEW c \in Commitment,
             admin_change_password(r, token, pw, c)
      PROVE  Quiet
  <2> DEFINE mode == IF pw = Nil THEN "open" ELSE "password"
  <2>1. mode \in AccessMode
    BY AccessModeAssumption
  <2>2. /\ rooms[r] # Nil /\ UNCHANGED <<nextId, told, cache>>
        /\ Commit_admin_request(r, change_access_mode(rooms, r, mode, pw, c), clients)
    BY <1>6 DEF admin_change_password, can_change_access_mode, authorize_admin,
                change_password
  <2> HIDE DEF mode
  <2> QED
    BY <2>1, <2>2, ChangeAccessMode, CommitIsQuiet
<1>7. ASSUME NEW r \in RoomId, NEW token \in Instance, NEW c \in Commitment,
             admin_rotate_media_key(r, token, c)
      PROVE  Quiet
  <2>1. /\ rooms[r] # Nil /\ UNCHANGED <<nextId, told, cache>>
        /\ Commit_admin_request(r, rotate_access_epoch(rooms, r, c), clients)
    BY <1>7 DEF admin_rotate_media_key, authorize_admin
  <2> QED
    BY <2>1, RotateAccessEpoch, CommitIsQuiet
<1>8. ASSUME NEW r \in RoomId, NEW token \in Instance, NEW id \in 1..MaxClientId,
             NEW c \in Commitment, admin_kick_participant(r, token, id, c)
      PROVE  \E E \in SUBSET Endpoint : Departs(E)
  <2> DEFINE E == {e \in get_room_clients(clients, r) : clients[e].id = id}
             cs == remove_clients(clients, E)
             rs == cleanup_empty_rooms(rooms, cs)
  <2>1. E \in SUBSET Endpoint /\ \A e \in E : clients[e] # Nil
    BY DEF get_room_clients
  <2>2. cs \in ClientTable
    BY RemoveClients
  <2>3. rs \in RoomTable
    BY <2>2, CleanupEmptyRooms
  <2>4. /\ cache' = invalidate_room_endpoint_cache(cache, RoomsOf(clients, E))
        /\ told' = broadcast_participant_leave(cs, IdsOf(clients, E))
        /\ nextId' = nextId
        /\ IF authorize_admin(rs, r, token)
           THEN Commit_admin_request(r, rotate_access_epoch(rs, r, c), cs)
           ELSE rooms' = rs /\ clients' = cs
    BY <1>8 DEF admin_kick_participant, Expel
  <2> HIDE DEF E, rs
  <2>5. SameSessions(cs, clients')
    <3>1. CASE authorize_admin(rs, r, token)
      <4>1. EpochMoved(rs, rotate_access_epoch(rs, r, c), r)
        BY <2>3, <3>1, RotateAccessEpoch DEF authorize_admin
      <4> HIDE DEF cs
      <4> QED
        BY <2>2, <2>4, <3>1, <4>1, CommitKeeps
    <3>2. CASE ~authorize_admin(rs, r, token)
      BY <2>4, <3>2 DEF SameSessions
    <3> QED
      BY <3>1, <3>2
  <2> QED
    BY <2>1, <2>4, <2>5 DEF Departs
<1>9. ASSUME NEW r \in RoomId, NEW token \in Instance, admin_close_room(r, token)
      PROVE  \E E \in SUBSET Endpoint : Departs(E)
  <2> DEFINE E == get_room_clients(clients, r)
  <2>1. E \in SUBSET Endpoint /\ \A e \in E : clients[e] # Nil
    BY DEF get_room_clients
  <2>2. /\ clients' = remove_clients(clients, E) /\ nextId' = nextId
        /\ cache' = invalidate_room_endpoint_cache(cache, RoomsOf(clients, E))
        /\ told' = broadcast_participant_leave(remove_clients(clients, E), IdsOf(clients, E))
    BY <1>9 DEF admin_close_room, Expel
  <2> HIDE DEF E
  <2> QED
    BY <2>1, <2>2, RemovalDeparts
<1>10. ASSUME NEW e \in Endpoint, handle_leave(e)
       PROVE  \E E \in SUBSET Endpoint : Departs(E)
  <2>1. {e} \in SUBSET Endpoint /\ \A x \in {e} : clients[x] # Nil
    BY <1>10 DEF handle_leave, exists
  <2>2. /\ clients' = remove_clients(clients, {e}) /\ nextId' = nextId
        /\ cache' = invalidate_room_endpoint_cache(cache, RoomsOf(clients, {e}))
        /\ told' = broadcast_participant_leave(remove_clients(clients, {e}), IdsOf(clients, {e}))
    BY <1>10 DEF handle_leave
  <2> QED
    BY <2>1, <2>2, RemovalDeparts
<1>11. CASE alive_check_timer_callback
  <2> DEFINE E == timed_out_clients(clients)
  <2>1. E \in SUBSET Endpoint /\ \A e \in E : clients[e] # Nil
    BY DEF timed_out_clients
  <2>2. /\ clients' = remove_clients(clients, E) /\ nextId' = nextId
        /\ cache' = invalidate_room_endpoint_cache(cache, RoomsOf(clients, E))
        /\ told' = broadcast_participant_leave(remove_clients(clients, E), IdsOf(clients, E))
    BY <1>11 DEF alive_check_timer_callback
  <2> HIDE DEF E
  <2> QED
    BY <2>1, <2>2, RemovalDeparts
<1>12. CASE TrafficStep
  <2>1. PICK e \in Endpoint : /\ Heard(e)
                              /\ \/ cache' = cache
                                 \/ cache' = fill_room_endpoint_cache(cache, clients, e)
    BY <1>12 DEF TrafficStep, handle_ping_message, handle_alive,
                 handle_secure_audio_message, handle_metronome_sync,
                 handle_room_chat_send, handle_room_chat_history_request,
                 handle_e2e_key_envelope, handle_room_key_handoff_ack,
                 handle_secure_control_message
  <2> QED
    BY <2>1, UpdateAliveKeeps DEF Heard, Quiet
<1>13. ASSUME NEW e \in Endpoint, client_timeout_passes(e) PROVE Quiet
  BY <1>13, SilenceKeeps DEF client_timeout_passes, exists, Quiet
<1>14. CASE ClockStep
  BY <1>1, <1>13, <1>14 DEF ClockStep, pending_room_ttl_passes, ticket_expires
<1>15. CASE UNCHANGED vars
  BY <1>1, <1>15 DEF vars
<1>16. CASE JoinStep
  BY <1>3, <1>4, <1>16 DEF JoinStep
<1>17. CASE AdminStep
  BY <1>5, <1>6, <1>7, <1>8, <1>9, <1>17 DEF AdminStep
<1> QED
  BY <1>2, <1>10, <1>11, <1>12, <1>14, <1>15, <1>16, <1>17 DEF Next

-----------------------------------------------------------------------------
(* Who is in a room after each kind of step                                 *)

Reuses(e, t, rs) ==
    can_reuse_existing(clients, e, tickets[t].room, rs[tickets[t].room].instance,
                       tickets[t].profile)
NewId(e, t, rs) == IF Reuses(e, t, rs) THEN clients[e].id ELSE nextId
Rivals(e, t) == Displaced(clients, e, tickets[t].room, tickets[t].profile)

\* Nobody comes or goes in a quiet step.
LEMMA QuietMembers ==
    ASSUME Quiet, NEW r
    PROVE  /\ Members(r)' = Members(r)
           /\ IdsOf(clients', Members(r)') = IdsOf(clients, Members(r))
<1>1. Members(r)' = Members(r)
  BY DEF Quiet, SameSessions, Members, get_room_clients
<1>2. \A e \in Members(r) : clients'[e].id = clients[e].id
  BY DEF Quiet, SameSessions, Members, get_room_clients
<1> QED
  BY <1>1, <1>2 DEF IdsOf

\* The departing clients are gone from their rooms; those that stay keep
\* their ids and profiles.
LEMMA DepartMembers ==
    ASSUME NEW E, Departs(E)
    PROVE  /\ \A r : Members(r)' = Members(r) \ E
           /\ \A e \in Endpoint : clients'[e] # Nil =>
                 /\ e \notin E /\ clients[e] # Nil
                 /\ clients'[e].id = clients[e].id
                 /\ clients'[e].room = clients[e].room
                 /\ clients'[e].profile = clients[e].profile
<1>1. \A e \in Endpoint :
         /\ clients'[e] = Nil <=> e \in E \/ clients[e] = Nil
         /\ clients'[e] # Nil => /\ clients'[e].id = clients[e].id
                                 /\ clients'[e].room = clients[e].room
                                 /\ clients'[e].profile = clients[e].profile
  BY DEF Departs, SameSessions, remove_clients
<1> QED
  BY <1>1 DEF Members, get_room_clients

\* The client that arrives is there; its rivals are gone; the others stay as
\* they are.
LEMMA ArrivalTable ==
    ASSUME TypeOK, NEW e \in Endpoint, NEW t \in Ticket, NEW rs \in RoomTable,
           Arrives(e, t, rs)
    PROVE  /\ tickets[t].room \in RoomId
           /\ clients' \in ClientTable
           /\ clients'[e] # Nil
           /\ clients'[e].room = tickets[t].room
           /\ clients'[e].profile = tickets[t].profile
           /\ clients'[e].id = NewId(e, t, rs)
           /\ \A x \in Endpoint : x # e =>
                 clients'[x] = IF x \in Rivals(e, t) THEN Nil ELSE clients[x]
<1> DEFINE r == tickets[t].room
           p == tickets[t].profile
           i == rs[r].instance
           epoch == rs[r].epoch
           D == Rivals(e, t)
           own == NewId(e, t, rs)
           entry == [id |-> own, room |-> r, instance |-> i, epoch |-> epoch,
                     profile |-> p, ticket |-> t, silent |-> FALSE]
<1>1. r \in RoomId /\ p \in Profile /\ i \in Instance /\ epoch \in Nat \ {0}
  BY TypeTables, ClaimTypes, RoomFields DEF Arrives
<1>2. clients' = register_client(clients, e, r, i, epoch, p, t, nextId)
  BY DEF Arrives, Admit
<1>3. clients' = [x \in Endpoint |-> IF x = e THEN entry ELSE IF x \in D THEN Nil ELSE clients[x]]
  BY <1>2 DEF register_client, NewId, Reuses, Rivals
<1>4. clients' \in ClientTable /\ clients'[e] \in Client
  <2>1. Registered(clients, clients', e, r, i, epoch, t)
    BY <1>1, <1>2, RegisterClient, TypeTables
  <2> QED
    BY <2>1 DEF Registered
<1>5. entry.room = r /\ entry.profile = p /\ entry.id = own
  OBVIOUS
<1> HIDE DEF entry, D, own
<1> QED
  BY <1>1, <1>3, <1>4, <1>5, NilIsNone DEF D, own

\* Its room has it instead of its rivals, the other rooms are without it.
LEMMA ArrivalMembers ==
    ASSUME TypeOK, NEW e \in Endpoint, NEW t \in Ticket, NEW rs \in RoomTable,
           Arrives(e, t, rs)
    PROVE  /\ get_room_clients(clients', tickets[t].room) = (Members(tickets[t].room) \ Rivals(e, t)) \cup {e}
           /\ \A s : s # tickets[t].room => get_room_clients(clients', s) = Members(s) \ {e}
           /\ Rivals(e, t) \subseteq Members(tickets[t].room)
           /\ e \notin Rivals(e, t)
<1>1. /\ clients'[e] # Nil
      /\ clients'[e].room = tickets[t].room
      /\ \A x \in Endpoint : x # e =>
            clients'[x] = IF x \in Rivals(e, t) THEN Nil ELSE clients[x]
  BY ArrivalTable
<1>2. /\ Rivals(e, t) \subseteq Members(tickets[t].room)
      /\ e \notin Rivals(e, t)
      /\ \A x \in Rivals(e, t) : clients[x].room = tickets[t].room
  BY DEF Rivals, Displaced, Members, get_room_clients
<1> DEFINE r == tickets[t].room
           D == Rivals(e, t)
<1>3. \A x \in Endpoint : x # e =>
         (clients'[x] # Nil <=> clients[x] # Nil /\ x \notin D)
  BY <1>1, <1>2 DEF Members, get_room_clients
<1>4. \A x \in Endpoint : x # e /\ clients'[x] # Nil => clients'[x].room = clients[x].room
  BY <1>1
<1> HIDE DEF r, D
<1>5. get_room_clients(clients', r) = (Members(r) \ D) \cup {e}
  BY <1>1, <1>2, <1>3, <1>4 DEF Members, get_room_clients, r, D
<1>6. \A s : s # r => get_room_clients(clients', s) = Members(s) \ {e}
  BY <1>1, <1>2, <1>3, <1>4 DEF Members, get_room_clients, r, D
<1> QED
  BY <1>2, <1>5, <1>6 DEF r, D

-----------------------------------------------------------------------------
(* The endpoint cache                                                       *)

\* What is cached for a room is its membership.
CacheExact == \A r \in RoomId : cache[r] # Nil => cache[r] = Members(r)

\* Every step keeps the endpoint cache exact or drops what it is about.
LEMMA CacheStep == TypeOK /\ CacheExact /\ [Next]_vars => CacheExact'
<1> SUFFICES ASSUME TypeOK, CacheExact, [Next]_vars PROVE CacheExact'
  OBVIOUS
<1>1. CASE Quiet
  <2>1. \A r : Members(r)' = Members(r)
    BY <1>1, QuietMembers
  <2>2. CASE cache' = cache
    BY <2>1, <2>2 DEF CacheExact
  <2>3. ASSUME NEW e \in Endpoint, cache' = fill_room_endpoint_cache(cache, clients, e)
        PROVE  CacheExact'
    <3>1. CASE clients[e] = Nil
      BY <2>1, <2>3, <3>1 DEF fill_room_endpoint_cache, CacheExact
    <3>2. CASE clients[e] # Nil
      <4> DEFINE s == clients[e].room
      <4>1. s \in RoomId
        BY <3>2, TypeTables, EntryIsClient, ClientFields
      <4>2. get_cached_room_endpoints(cache, clients, e) = Members(s)
        BY <3>2, <4>1 DEF get_cached_room_endpoints, CacheExact, Members
      <4>3. cache' = [cache EXCEPT ![s] = Members(s)]
        BY <2>3, <3>2, <4>2 DEF fill_room_endpoint_cache
      <4> HIDE DEF s
      <4> QED
        BY <2>1, <4>1, <4>3, TypeTables DEF CacheExact, CacheTable
    <3> QED
      BY <3>1, <3>2
  <2> QED
    BY <1>1, <2>2, <2>3 DEF Quiet
<1>2. ASSUME NEW E \in SUBSET Endpoint, Departs(E) PROVE CacheExact'
  <2>1. \A r : Members(r)' = Members(r) \ E
    BY <1>2, DepartMembers
  <2>2. cache' = invalidate_room_endpoint_cache(cache, RoomsOf(clients, E))
    BY <1>2 DEF Departs
  <2>3. \A r : r \notin RoomsOf(clients, E) => Members(r) \cap E = {}
    BY DEF RoomsOf, Members, get_room_clients
  <2> QED
    BY <2>1, <2>2, <2>3 DEF CacheExact, invalidate_room_endpoint_cache
<1>3. ASSUME NEW e \in Endpoint, NEW t \in Ticket, NEW rs \in RoomTable, Arrives(e, t, rs)
      PROVE  CacheExact'
  <2> DEFINE r == tickets[t].room
             stale == invalidate_room_endpoint_cache(cache, RoomsOf(clients, {e}) \cup {r})
  <2>1. cache' = fill_room_endpoint_cache(stale, clients', e)
    BY <1>3 DEF Arrives, Admit
  <2>2. r \in RoomId /\ clients'[e] # Nil /\ clients'[e].room = r
    BY <1>3, ArrivalTable
  <2>3. stale[r] = Nil /\ \A s \in RoomId : stale[s] # Nil => s # r /\ e \notin Members(s) /\ stale[s] = cache[s]
    BY <2>2 DEF invalidate_room_endpoint_cache, RoomsOf, Members, get_room_clients
  <2>4. stale \in [RoomId -> {Nil} \cup SUBSET Endpoint]
    BY TypeTables DEF invalidate_room_endpoint_cache, CacheTable
  <2> HIDE DEF stale
  <2>5. cache' = [stale EXCEPT ![r] = get_room_clients(clients', r)]
    <3> HIDE DEF r
    <3>1. get_cached_room_endpoints(stale, clients', e) = get_room_clients(clients', r)
      BY <2>2, <2>3 DEF get_cached_room_endpoints
    <3> QED
      BY <2>1, <2>2, <3>1 DEF fill_room_endpoint_cache
  <2>6. \A s : s # r => get_room_clients(clients', s) = Members(s) \ {e}
    BY <1>3, ArrivalMembers
  <2> HIDE DEF r
  <2> QED
    <3> SUFFICES ASSUME NEW s \in RoomId, cache'[s] # Nil
                 PROVE  cache'[s] = get_room_clients(clients', s)
      BY DEF CacheExact, Members
    <3>1. CASE s = r
      BY <2>2, <2>4, <2>5, <3>1
    <3>2. CASE s # r
      <4>1. cache'[s] = stale[s]
        BY <2>4, <2>5, <3>2
      <4>2. cache'[s] = Members(s) /\ e \notin Members(s)
        BY <2>3, <4>1 DEF CacheExact
      <4> QED
        BY <2>6, <3>2, <4>2
    <3> QED
      BY <3>1, <3>2
<1> QED
  BY <1>1, <1>2, <1>3, StepKinds

\* A packet is relayed to the sender's room, all of it and nothing else: no
\* join, move, departure or clean-up leaves the endpoint cache stale.
THEOREM RelayAlwaysReachesRoom == Spec => []RelayReachesRoom
<1>1. Init => CacheExact
  BY DEF Init, CacheExact
<1>2. TypeOK /\ CacheExact => RelayReachesRoom
  <2> SUFFICES ASSUME TypeOK, CacheExact, NEW e \in Endpoint, clients[e] # Nil
               PROVE  get_cached_room_endpoints(cache, clients, e) =
                         get_room_clients(clients, clients[e].room)
    BY DEF RelayReachesRoom
  <2>1. clients[e].room \in RoomId
    BY TypeTables, EntryIsClient, ClientFields
  <2> QED
    BY <2>1 DEF CacheExact, Members, get_cached_room_endpoints
<1> QED
  BY <1>1, <1>2, TypeCorrect, CacheStep, PTL DEF Spec

-----------------------------------------------------------------------------
(* Seats                                                                    *)

\* Ids are handed out once.
IdsInv ==
    /\ \A e \in Endpoint : clients[e] # Nil => clients[e].id < nextId
    /\ \A e, f \in Endpoint :
          clients[e] # Nil /\ clients[f] # Nil /\ e # f => clients[e].id # clients[f].id

ProfilesInv ==
    \A e, f \in Endpoint :
        /\ clients[e] # Nil /\ clients[f] # Nil /\ e # f
        /\ clients[e].room = clients[f].room
        => clients[e].profile # clients[f].profile

\* Rooms are finite and within their limit; the cardinality of a set that is
\* not known to be finite says nothing.
RoomsInv ==
    \A r \in RoomId :
        /\ IsFiniteSet(Members(r))
        /\ Cardinality(Members(r)) <= MaxRoomParticipants

\* A room that loses members stays within its limit.
LEMMA FewerFit ==
    ASSUME NEW S, IsFiniteSet(S), Cardinality(S) <= MaxRoomParticipants,
           NEW T \in SUBSET S
    PROVE  IsFiniteSet(T) /\ Cardinality(T) <= MaxRoomParticipants
  BY FS_Subset, FS_CardinalityType, MaxRoomParticipantsAssumption

\* Every step keeps ids apart.
LEMMA IdsStep == TypeOK /\ IdsInv /\ [Next]_vars => IdsInv'
<1> SUFFICES ASSUME TypeOK, IdsInv, [Next]_vars PROVE IdsInv'
  OBVIOUS
<1>1. CASE Quiet
  BY <1>1 DEF Quiet, SameSessions, IdsInv
<1>2. ASSUME NEW E \in SUBSET Endpoint, Departs(E) PROVE IdsInv'
  <2>1. nextId' = nextId
    BY <1>2 DEF Departs
  <2> QED
    BY <1>2, <2>1, DepartMembers DEF IdsInv
<1>3. ASSUME NEW e \in Endpoint, NEW t \in Ticket, NEW rs \in RoomTable, Arrives(e, t, rs)
      PROVE  IdsInv'
  <2>1. \A x \in Endpoint : x # e /\ clients'[x] # Nil => clients'[x] = clients[x]
    BY <1>3, ArrivalTable
  <2>2. clients'[e].id = NewId(e, t, rs)
    BY <1>3, ArrivalTable
  <2>3. \A x \in Endpoint : clients[x] # Nil => clients[x].id \in Nat
    BY TypeTables, EntryIsClient, ClientFields
  <2>4. nextId \in Nat
    BY TypeTables
  <2>5. nextId' = IF Reuses(e, t, rs) THEN nextId ELSE nextId + 1
    BY <1>3 DEF Arrives, Admit, Reuses
  <2>6. CASE Reuses(e, t, rs)
    <3>1. clients[e] # Nil /\ clients'[e].id = clients[e].id /\ nextId' = nextId
      BY <2>2, <2>5, <2>6 DEF NewId, Reuses, can_reuse_existing
    <3> QED
      BY <2>1, <3>1 DEF IdsInv
  <2>7. CASE ~Reuses(e, t, rs)
    <3>1. clients'[e].id = nextId /\ nextId' = nextId + 1
      BY <2>2, <2>5, <2>7 DEF NewId
    <3> QED
      BY <2>1, <2>3, <2>4, <3>1 DEF IdsInv
  <2> QED
    BY <2>6, <2>7
<1> QED
  BY <1>1, <1>2, <1>3, StepKinds

\* Every step keeps the profiles of a room apart: register_client displaces the
\* endpoint a profile was at.
LEMMA ProfilesStep == TypeOK /\ ProfilesInv /\ [Next]_vars => ProfilesInv'
<1> SUFFICES ASSUME TypeOK, ProfilesInv, [Next]_vars PROVE ProfilesInv'
  OBVIOUS
<1>1. CASE Quiet
  BY <1>1 DEF Quiet, SameSessions, ProfilesInv
<1>2. ASSUME NEW E \in SUBSET Endpoint, Departs(E) PROVE ProfilesInv'
  BY <1>2, DepartMembers DEF ProfilesInv
<1>3. ASSUME NEW e \in Endpoint, NEW t \in Ticket, NEW rs \in RoomTable, Arrives(e, t, rs)
      PROVE  ProfilesInv'
  <2>1. \A x \in Endpoint : x # e /\ clients'[x] # Nil =>
           clients'[x] = clients[x] /\ x \notin Rivals(e, t)
    BY <1>3, ArrivalTable
  <2>2. clients'[e].room = tickets[t].room /\ clients'[e].profile = tickets[t].profile
    BY <1>3, ArrivalTable
  <2>3. \A x \in Endpoint : /\ x # e /\ clients[x] # Nil /\ clients[x].room = tickets[t].room
                            /\ clients[x].profile = tickets[t].profile
                            => x \in Rivals(e, t)
    BY DEF Rivals, Displaced, get_room_clients
  <2> QED
    BY <2>1, <2>2, <2>3 DEF ProfilesInv
<1> QED
  BY <1>1, <1>2, <1>3, StepKinds

\* Every step keeps rooms within their limit.
LEMMA RoomsStep == TypeOK /\ RoomsInv /\ [Next]_vars => RoomsInv'
<1> SUFFICES ASSUME TypeOK, RoomsInv, [Next]_vars PROVE RoomsInv'
  OBVIOUS
<1>1. CASE Quiet
  BY <1>1, QuietMembers DEF RoomsInv
<1>2. ASSUME NEW E \in SUBSET Endpoint, Departs(E) PROVE RoomsInv'
  <2>1. \A r : Members(r)' = Members(r) \ E
    BY <1>2, DepartMembers
  <2> QED
    BY <2>1, FewerFit DEF RoomsInv
<1>3. ASSUME NEW e \in Endpoint, NEW t \in Ticket, NEW rs \in RoomTable, Arrives(e, t, rs)
      PROVE  RoomsInv'
  <2> DEFINE r == tickets[t].room
             M == Members(r)
             N == get_room_clients(clients', r)
  <2>1. r \in RoomId /\ IsFiniteSet(M) /\ Cardinality(M) <= MaxRoomParticipants
    BY <1>3, ArrivalTable DEF RoomsInv
  <2>2. N \subseteq M \cup {e} /\ \A s : s # r => get_room_clients(clients', s) \subseteq Members(s)
    BY <1>3, ArrivalMembers
  <2>3. e \in M \/ Cardinality(M) < MaxRoomParticipants
    <3>1. ~rejected_room_full(clients, e, r, rs[r].instance, tickets[t].profile)
      BY <1>3 DEF Arrives, Admit
    <3>2. CASE can_reuse_existing(clients, e, r, rs[r].instance, tickets[t].profile)
      BY <3>2 DEF can_reuse_existing, Members, get_room_clients
    <3>3. CASE ~(Cardinality(get_room_clients(clients, r)) >= MaxRoomParticipants)
      BY <2>1, <3>3, FS_CardinalityType, MaxRoomParticipantsAssumption DEF Members
    <3> QED
      BY <3>1, <3>2, <3>3 DEF rejected_room_full, Members
  <2> HIDE DEF r, M, N
  <2>4. IsFiniteSet(N) /\ Cardinality(N) <= MaxRoomParticipants
    <3>1. CASE e \in M
      BY <2>1, <2>2, <3>1, FewerFit
    <3>2. CASE e \notin M /\ Cardinality(M) < MaxRoomParticipants
      <4>1. /\ IsFiniteSet(M \cup {e})
            /\ Cardinality(M \cup {e}) = Cardinality(M) + 1
        BY <2>1, <3>2, FS_AddElement
      <4>2. Cardinality(M \cup {e}) <= MaxRoomParticipants
        BY <2>1, <3>2, <4>1, FS_CardinalityType, MaxRoomParticipantsAssumption
      <4> QED
        BY <2>2, <4>1, <4>2, FewerFit
    <3> QED
      BY <2>3, <3>1, <3>2
  <2>5. ASSUME NEW s \in RoomId, s # r
        PROVE  /\ IsFiniteSet(get_room_clients(clients', s))
               /\ Cardinality(get_room_clients(clients', s)) <= MaxRoomParticipants
    BY <2>2, <2>5, FewerFit DEF RoomsInv
  <2> QED
    BY <2>1, <2>4, <2>5 DEF RoomsInv, Members, N
<1> QED
  BY <1>1, <1>2, <1>3, StepKinds

\* Rooms stay within the size the relay is provisioned for, without two
\* endpoints of a profile in one, and ids are never shared: register_client
\* with its displacements and its limit, against moves, rejoins and departures.
THEOREM SeatsStayExclusive == Spec => []SeatsAreExclusive
<1>1. Init => IdsInv /\ ProfilesInv /\ RoomsInv
  <2> SUFFICES ASSUME Init PROVE IdsInv /\ ProfilesInv /\ RoomsInv
    OBVIOUS
  <2>1. \A r : Members(r) = {}
    BY DEF Init, Members, get_room_clients
  <2>2. RoomsInv
    BY <2>1, FS_EmptySet, MaxRoomParticipantsAssumption DEF RoomsInv
  <2> QED
    BY <2>2 DEF Init, IdsInv, ProfilesInv
<1>2. IdsInv /\ ProfilesInv /\ RoomsInv => SeatsAreExclusive
  BY DEF IdsInv, ProfilesInv, RoomsInv, Members, SeatsAreExclusive
<1> QED
  BY <1>1, <1>2, TypeCorrect, IdsStep, ProfilesStep, RoomsStep, PTL DEF Spec

-----------------------------------------------------------------------------
(* The participants' lists                                                  *)

\* Withdrawing the ids of some clients leaves the ids of the others.
LEMMA IdsWithdrawn ==
    ASSUME IdsInv, NEW A \in SUBSET Endpoint, NEW B \in SUBSET Endpoint,
           \A x \in A \cup B : clients[x] # Nil
    PROVE  IdsOf(clients, A) \ IdsOf(clients, B) = IdsOf(clients, A \ B)
<1>1. \A x \in A, y \in B : clients[x].id = clients[y].id => x = y
  BY DEF IdsInv
<1> QED
  BY <1>1 DEF IdsOf

\* Ids are those of the clients that did not change.
LEMMA IdsSame ==
    ASSUME NEW A, \A x \in A : clients'[x].id = clients[x].id
    PROVE  IdsOf(clients', A) = IdsOf(clients, A)
  BY DEF IdsOf

\* The members of a room are registered endpoints.
LEMMA MembersAre ==
    ASSUME NEW s
    PROVE  Members(s) \in SUBSET Endpoint /\ \A x \in Members(s) : clients[x] # Nil
  BY DEF Members, get_room_clients

\* The lists after an arrival: of the client that arrived, of the others in
\* its room, and of everybody else.
LEMMA ArrivalTold ==
    ASSUME TypeOK, IdsInv, RosterExact, NEW e \in Endpoint, NEW t \in Ticket,
           NEW rs \in RoomTable, Arrives(e, t, rs), NEW x \in Endpoint, clients'[x] # Nil
    PROVE  told'[x] = IdsOf(clients', get_room_clients(clients', clients'[x].room))
<1> DEFINE r == tickets[t].room
           D == Rivals(e, t)
           own == NewId(e, t, rs)
           gone == D \cup {y \in {e} : clients[y] # Nil /\ ~Reuses(e, t, rs)}
           N == get_room_clients(clients', r)
<1>1. /\ r \in RoomId /\ clients'[e] # Nil /\ clients'[e].room = r /\ clients'[e].id = own
      /\ \A y \in Endpoint : y # e => clients'[y] = IF y \in D THEN Nil ELSE clients[y]
  BY ArrivalTable
<1>2. /\ N = (Members(r) \ D) \cup {e}
      /\ \A s : s # r => get_room_clients(clients', s) = Members(s) \ {e}
      /\ D \subseteq Members(r) /\ e \notin D
  BY ArrivalMembers
<1>3. told'[x] = (IF x = e /\ ~Reuses(e, t, rs) THEN {} ELSE told[x] \ IdsOf(clients, gone))
                 \cup (IF x \in N THEN {own} ELSE {})
                 \cup (IF x = e THEN IdsOf(clients', N \ {e}) ELSE {})
  <2> DEFINE i == rs[r].instance
             p == tickets[t].profile
             removed == removed_clients(clients, e, r, i, p)
             stale == invalidate_room_endpoint_cache(cache, RoomsOf(clients, {e}) \cup {r})
             left == broadcast_participant_leave(clients', IdsOf(clients, removed))
             informed == get_cached_room_endpoints(stale, clients', e)
  <2>1. told'[x] = (IF x = e /\ ~Reuses(e, t, rs) THEN {} ELSE left[x])
                   \cup (IF x \in informed THEN {clients'[e].id} ELSE {})
                   \cup (IF x = e THEN IdsOf(clients', N \ {e}) ELSE {})
    <3>1. clients' = register_client(clients, e, r, i, rs[r].epoch, p, t, nextId)
      BY DEF Arrives, Admit
    <3>2. told' = [y \in Endpoint |->
                     (IF y = e /\ ~can_reuse_existing(clients, e, r, i, p) THEN {} ELSE left[y])
                     \cup (IF y \in informed THEN {clients'[e].id} ELSE {})
                     \cup (IF y = e THEN IdsOf(clients', N \ {e}) ELSE {})]
      BY <3>1 DEF Arrives, Admit
    <3> HIDE DEF left, informed, N
    <3> QED
      BY <3>2 DEF Reuses
  <2>2. removed = gone
    BY DEF removed_clients, Reuses, Rivals
  <2>3. left[x] = told[x] \ IdsOf(clients, removed)
    BY DEF broadcast_participant_leave
  <2>4. informed = N
    <3>1. stale[r] = Nil
      BY <1>1 DEF invalidate_room_endpoint_cache
    <3> HIDE DEF stale
    <3> QED
      BY <1>1, <3>1 DEF get_cached_room_endpoints
  <2> HIDE DEF left, informed, removed, gone, N, own
  <2> QED
    BY <1>1, <2>1, <2>2, <2>3, <2>4
<1>4. Reuses(e, t, rs) => clients[e] # Nil /\ clients[e].room = r /\ own = clients[e].id
  BY DEF Reuses, can_reuse_existing, NewId
<1>5. gone = IF Reuses(e, t, rs) \/ clients[e] = Nil THEN D ELSE D \cup {e}
  OBVIOUS
<1>6. gone \in SUBSET Endpoint /\ \A y \in gone : clients[y] # Nil
  BY <1>2, MembersAre
<1> HIDE DEF r, D, own, gone, N
<1>7. \A y \in Endpoint : y # e /\ y \notin D => clients'[y] = clients[y]
  BY <1>1
<1>8. \A s : \A y \in Members(s) : clients[y].room = s
  BY DEF Members, get_room_clients
<1>9. clients[x] # Nil => told[x] \ IdsOf(clients, gone) = IdsOf(clients, Members(clients[x].room) \ gone)
  <2> SUFFICES ASSUME clients[x] # Nil
               PROVE  told[x] \ IdsOf(clients, gone) = IdsOf(clients, Members(clients[x].room) \ gone)
    OBVIOUS
  <2>1. told[x] = IdsOf(clients, Members(clients[x].room))
    BY DEF RosterExact, Members
  <2>2. /\ Members(clients[x].room) \in SUBSET Endpoint
        /\ \A y \in Members(clients[x].room) : clients[y] # Nil
    BY MembersAre
  <2> QED
    BY <1>6, <2>1, <2>2, IdsWithdrawn
<1>10. IdsOf(clients', N) = {own} \cup IdsOf(clients', N \ {e})
  BY <1>1, <1>2 DEF IdsOf
<1>11. IdsOf(clients', N \ {e}) = IdsOf(clients, Members(r) \ (D \cup {e}))
  <2>1. N \ {e} = Members(r) \ (D \cup {e})
    BY <1>2
  <2>2. \A y \in N \ {e} : clients'[y].id = clients[y].id
    BY <1>7, <2>1, MembersAre
  <2> QED
    BY <2>1, <2>2, IdsSame
<1>12. Reuses(e, t, rs) => IdsOf(clients, Members(r) \ D) \cup {own} =
                           IdsOf(clients, Members(r) \ (D \cup {e})) \cup {own}
  BY <1>4 DEF IdsOf
<1>13. CASE x = e
  <2>1. CASE ~Reuses(e, t, rs)
    BY <1>1, <1>2, <1>3, <1>10, <1>13, <2>1 DEF N
  <2>2. CASE Reuses(e, t, rs)
    BY <1>1, <1>2, <1>3, <1>4, <1>5, <1>9, <1>10, <1>11, <1>12, <1>13, <2>2 DEF N
  <2> QED
    BY <2>1, <2>2
<1>14. ASSUME x # e PROVE clients'[x] = clients[x] /\ clients[x] # Nil /\ x \notin D
                          /\ x \in Members(clients[x].room)
  BY <1>1, <1>14 DEF Members, get_room_clients
<1>15. CASE x # e /\ clients[x].room = r
  <2>1. x \in N
    BY <1>2, <1>14, <1>15
  <2>2. told'[x] = IdsOf(clients, Members(r) \ gone) \cup {own}
    BY <1>3, <1>9, <1>14, <1>15, <2>1
  <2>3. CASE Reuses(e, t, rs)
    BY <1>5, <1>10, <1>11, <1>12, <1>14, <1>15, <2>2, <2>3 DEF N
  <2>4. CASE ~Reuses(e, t, rs)
    <3>1. Members(r) \ gone = Members(r) \ (D \cup {e})
      BY <1>5, <2>4, MembersAre
    <3> QED
      BY <1>10, <1>11, <1>14, <1>15, <2>2, <3>1 DEF N
  <2> QED
    BY <2>3, <2>4
<1>16. CASE x # e /\ clients[x].room # r
  <2> DEFINE s == clients[x].room
  <2>1. x \notin N
    BY <1>2, <1>8, <1>14, <1>16
  <2>2. told'[x] = IdsOf(clients, Members(s) \ gone)
    BY <1>3, <1>9, <1>14, <1>16, <2>1
  <2>3. Members(s) \ gone = Members(s) \ {e}
    BY <1>2, <1>4, <1>5, <1>8, <1>16, MembersAre
  <2>4. \A y \in Members(s) \ {e} : clients'[y].id = clients[y].id
    BY <1>2, <1>7, <1>8, <1>16, MembersAre
  <2>5. IdsOf(clients', Members(s) \ {e}) = IdsOf(clients, Members(s) \ {e})
    BY <2>4, IdsSame
  <2>6. get_room_clients(clients', s) = Members(s) \ {e}
    BY <1>2, <1>16
  <2> QED
    BY <1>14, <1>16, <2>2, <2>3, <2>5, <2>6
<1> QED
  BY <1>13, <1>15, <1>16

\* Every step keeps the participants' lists exact.
LEMMA RosterStep == TypeOK /\ IdsInv /\ RosterExact /\ [Next]_vars => RosterExact'
<1> SUFFICES ASSUME TypeOK, IdsInv, RosterExact, [Next]_vars,
                    NEW x \in Endpoint, clients'[x] # Nil
             PROVE  told'[x] = IdsOf(clients', get_room_clients(clients', clients'[x].room))
  BY DEF RosterExact
<1>1. CASE Quiet
  <2>1. clients[x] # Nil /\ clients'[x].room = clients[x].room /\ told' = told
    BY <1>1 DEF Quiet, SameSessions
  <2>2. \A s : get_room_clients(clients', s) = Members(s)
    BY <1>1 DEF Quiet, SameSessions, Members, get_room_clients
  <2>3. \A s : \A y \in Members(s) : clients'[y].id = clients[y].id
    BY <1>1 DEF Quiet, SameSessions, Members, get_room_clients
  <2>4. told[x] = IdsOf(clients, Members(clients[x].room))
    BY <2>1 DEF RosterExact, Members
  <2>5. IdsOf(clients', Members(clients[x].room)) = IdsOf(clients, Members(clients[x].room))
    BY <2>3, IdsSame
  <2> QED
    BY <2>1, <2>2, <2>4, <2>5
<1>2. ASSUME NEW E \in SUBSET Endpoint, Departs(E)
      PROVE  told'[x] = IdsOf(clients', get_room_clients(clients', clients'[x].room))
  <2> DEFINE s == clients[x].room
  <2>1. /\ x \notin E /\ clients[x] # Nil /\ clients'[x].room = s
        /\ \A y \in Endpoint : clients'[y] # Nil => clients'[y].id = clients[y].id
    BY <1>2, DepartMembers
  <2>2. get_room_clients(clients', s) = Members(s) \ E
    <3>1. \A r : get_room_clients(clients', r) = Members(r) \ E
      BY <1>2, DepartMembers DEF Members
    <3> QED
      BY <3>1
  <2>3. \A y \in E : clients[y] # Nil
    BY <1>2 DEF Departs
  <2>4. told'[x] = told[x] \ IdsOf(clients, E)
    BY <1>2, <2>1 DEF Departs, broadcast_participant_leave, remove_clients
  <2>5. told[x] = IdsOf(clients, Members(s))
    BY <2>1 DEF RosterExact, Members
  <2>6. told'[x] = IdsOf(clients, Members(s) \ E)
    BY <2>3, <2>4, <2>5, MembersAre, IdsWithdrawn
  <2>7. \A y \in Members(s) \ E : clients'[y].id = clients[y].id
    <3>1. \A y \in get_room_clients(clients', s) : y \in Endpoint /\ clients'[y] # Nil
      BY DEF get_room_clients
    <3> QED
      BY <2>1, <2>2, <3>1
  <2>8. IdsOf(clients', Members(s) \ E) = IdsOf(clients, Members(s) \ E)
    BY <2>7, IdsSame
  <2> QED
    BY <2>1, <2>2, <2>6, <2>8
<1>3. ASSUME NEW e \in Endpoint, NEW t \in Ticket, NEW rs \in RoomTable, Arrives(e, t, rs)
      PROVE  told'[x] = IdsOf(clients', get_room_clients(clients', clients'[x].room))
  BY <1>3, ArrivalTold
<1> QED
  BY <1>1, <1>2, <1>3, StepKinds

\* A participant has been told of exactly the ids in its room: the
\* announcements of joins, moves, displaced duplicates, kicks, timeouts and
\* closed rooms leave no phantom and hide nobody.
THEOREM RostersStayExact == Spec => []RosterExact
<1>1. Init => IdsInv /\ RosterExact
  BY DEF Init, IdsInv, RosterExact
<1> QED
  BY <1>1, TypeCorrect, IdsStep, RosterStep, PTL DEF Spec
=============================================================================
