------------------------- MODULE RoomSessionProofs --------------------------
(***************************************************************************)
(* Sessions of RoomServer agree with their rooms and stay with the holders *)
(* of their tickets: SessionMatchesRoom and NonceRecorded are invariants,  *)
(* and TicketNotTakenOver holds of every step.                             *)
(***************************************************************************)
EXTENDS RoomTypeProofs

\* A JOIN admits a client to the room as it stands.
LEMMA JoinMatches ==
    ASSUME TypeOK, NEW e \in Endpoint, NEW t \in Ticket, tickets[t] # Nil,
           NEW rs \in RoomTable, rs[tickets[t].room] \in Room,
           Matches(rs, clients), Join(e, t, rs)
    PROVE  Matches(rooms', clients')
<1>1. CASE Refuse_nonce_replay(e, t, rs)
  BY <1>1 DEF Refuse_nonce_replay
<1>2. CASE Refuse_room_full(e, t, rs)
  BY <1>2 DEF Refuse_room_full
<1>3. CASE Admit(e, t, rs)
  <2> DEFINE r == tickets[t].room
             p == tickets[t].profile
             i == rs[r].instance
             cs == register_client(clients, e, r, i, rs[r].epoch, p, t, nextId)
             js == mark_joined(rs, r)
  <2>1. r \in RoomId /\ p \in Profile /\ i \in Instance /\ rs[r].epoch \in Nat \ {0}
    BY TypeTables, ClaimTypes, RoomFields
  <2>2. /\ cs \in ClientTable
        /\ cs[e].room = r
        /\ cs[e].instance = rs[r].instance
        /\ cs[e].epoch = rs[r].epoch
        /\ \A x \in Endpoint : x # e /\ cs[x] # Nil => cs[x] = clients[x]
    <3>1. clients \in ClientTable /\ nextId \in Nat \ {0}
      BY TypeTables
    <3>2. Registered(clients, cs, e, r, i, rs[r].epoch, t)
      BY <2>1, <3>1, RegisterClient
    <3> HIDE DEF cs
    <3> QED
      BY <3>2 DEF Registered
  <2>3. \A s \in RoomId :
           /\ js[s] = Nil <=> rs[s] = Nil
           /\ rs[s] # Nil => js[s].instance = rs[s].instance /\ js[s].epoch = rs[s].epoch
    BY <2>1, MarkJoined
  <2>4. rooms' = js /\ clients' = cs
    BY <1>3 DEF Admit
  <2>5. rs[r] # Nil
    BY NilIsNone
  <2> HIDE DEF cs, js
  <2>6. ASSUME NEW x \in Endpoint, cs[x] # Nil
        PROVE  /\ js[cs[x].room] # Nil
               /\ js[cs[x].room].instance = cs[x].instance
               /\ js[cs[x].room].epoch = cs[x].epoch
    <3>1. cs[x].room \in RoomId
      BY <2>2, <2>6, EntryIsClient, ClientFields
    <3>2. /\ rs[cs[x].room] # Nil
          /\ rs[cs[x].room].instance = cs[x].instance
          /\ rs[cs[x].room].epoch = cs[x].epoch
      <4>1. CASE x = e
        BY <2>2, <2>5, <4>1
      <4>2. CASE x # e
        BY <2>2, <2>6, <4>2 DEF Matches
      <4> QED
        BY <4>1, <4>2
    <3> QED
      BY <2>3, <3>1, <3>2
  <2> QED
    BY <2>4, <2>6 DEF Matches
<1> QED
  BY <1>1, <1>2, <1>3 DEF Join

\* An admin request carries the room's new epoch to all its clients.
LEMMA CommitMatches ==
    ASSUME NEW old \in RoomTable, NEW rs, NEW r \in RoomId,
           NEW cs \in ClientTable, Matches(old, cs),
           EpochMoved(old, rs, r), Commit_admin_request(r, rs, cs)
    PROVE  Matches(rooms', clients')
<1> DEFINE new == set_room_access_epoch(cs, r, rs[r].instance, rs[r].epoch)
<1>0. /\ rs \in RoomTable
      /\ rs[r] \in Room
      /\ rs[r].instance = old[r].instance
      /\ \A s \in RoomId : s # r => rs[s] = old[s]
  BY DEF EpochMoved
<1>1. rs[r] # Nil /\ rs[r].instance \in Instance /\ rs[r].epoch \in Nat \ {0}
  BY <1>0, NilIsNone, RoomFields
<1>2. \A e \in Endpoint :
         /\ new[e] = Nil <=> cs[e] = Nil
         /\ cs[e] # Nil =>
               /\ new[e].room = cs[e].room
               /\ new[e].instance = cs[e].instance
               /\ new[e].epoch = IF cs[e].room = r /\ cs[e].instance = rs[r].instance
                                 THEN rs[r].epoch ELSE cs[e].epoch
  <2>1. EpochSet(cs, new, r, rs[r].instance, rs[r].epoch)
    BY <1>1, SetRoomAccessEpoch
  <2> HIDE DEF new
  <2> QED
    BY <2>1 DEF EpochSet
<1>3. rooms' = rs /\ clients' = new
  BY DEF Commit_admin_request
<1> HIDE DEF new
<1>4. ASSUME NEW e \in Endpoint, new[e] # Nil
      PROVE  /\ rs[new[e].room] # Nil
             /\ rs[new[e].room].instance = new[e].instance
             /\ rs[new[e].room].epoch = new[e].epoch
  <2>1. /\ cs[e] # Nil
        /\ cs[e].room \in RoomId
        /\ old[cs[e].room] # Nil
        /\ old[cs[e].room].instance = cs[e].instance
        /\ old[cs[e].room].epoch = cs[e].epoch
    BY <1>2, <1>4, EntryIsClient, ClientFields DEF Matches
  <2>2. CASE cs[e].room = r
    BY <1>0, <1>1, <1>2, <2>1, <2>2
  <2>3. CASE cs[e].room # r
    BY <1>0, <1>2, <2>1, <2>3
  <2> QED
    BY <2>2, <2>3
<1> QED
  BY <1>3, <1>4 DEF Matches

\* Every step keeps the clients' records and the registry in agreement.
LEMMA SessionStep ==
    TypeOK /\ SessionMatchesRoom /\ [Next]_vars => SessionMatchesRoom'
<1> SUFFICES ASSUME TypeOK, Matches(rooms, clients), [Next]_vars
             PROVE  Matches(rooms', clients')
  BY DEF SessionMatchesRoom, Matches
<1> USE TypeTables
<1>1. ASSUME NEW r \in RoomId, NEW p \in Profile, NEW i \in Instance,
             NEW t \in Ticket, NEW mode \in AccessMode,
             NEW pw \in Password \cup {Nil}, NEW c \in Commitment,
             handle_room_create_request(r, p, i, t, mode, pw, c)
      PROVE  Matches(rooms', clients')
  <2>1. /\ rooms[r] = Nil
        /\ \A s \in RoomId : s # r => rooms'[s] = rooms[s]
        /\ clients' = clients
    <3>1. /\ rooms[r] = Nil
          /\ rooms' = create_room(rooms, r, i, mode, pw, c)
          /\ clients' = clients
      BY <1>1 DEF handle_room_create_request, can_create_room
    <3>2. \A s \in RoomId : s # r => create_room(rooms, r, i, mode, pw, c)[s] = rooms[s]
      BY CreateRoom
    <3> QED
      BY <3>1, <3>2
  <2> QED
    BY <2>1, EntryIsClient, ClientFields DEF Matches
<1>2. ASSUME NEW e \in Endpoint, NEW t \in Ticket, handle_join_with_instance(e, t)
      PROVE  Matches(rooms', clients')
  <2>1. /\ tickets[t] # Nil
        /\ rooms[tickets[t].room] # Nil
        /\ Join(e, t, rooms)
    BY <1>2 DEF handle_join_with_instance, validate_with_claims, validate_claims, Join
  <2>2. rooms[tickets[t].room] \in Room
    BY <2>1, ClaimTypes, EntryIsRoom
  <2> QED
    BY <2>1, <2>2, JoinMatches
<1>3. ASSUME NEW e \in Endpoint, NEW t \in Ticket, NEW i \in Instance,
             handle_join_open(e, t, i)
      PROVE  Matches(rooms', clients')
  <2> DEFINE r == tickets[t].room
             c == tickets[t].commitment
             rs == ensure_open_room(rooms, r, i, c)
  <2>1. tickets[t] # Nil /\ Join(e, t, rs)
    BY <1>3 DEF handle_join_open, validate_with_claims, Join
  <2>2. /\ rs \in RoomTable
        /\ rs[r] \in Room
        /\ rooms[r] # Nil => /\ rs[r].instance = rooms[r].instance
                             /\ rs[r].epoch = rooms[r].epoch
        /\ \A s \in RoomId : s # r => rs[s] = rooms[s]
    <3>1. r \in RoomId /\ c \in Commitment
      BY <2>1, ClaimTypes
    <3> HIDE DEF r, c
    <3> QED
      BY <3>1, EnsureOpenRoom
  <2> HIDE DEF rs
  <2>3. Matches(rs, clients)
    <3> SUFFICES ASSUME NEW x \in Endpoint, clients[x] # Nil
                 PROVE  /\ rs[clients[x].room] # Nil
                        /\ rs[clients[x].room].instance = clients[x].instance
                        /\ rs[clients[x].room].epoch = clients[x].epoch
      BY DEF Matches
    <3>1. /\ clients[x].room \in RoomId
          /\ rooms[clients[x].room] # Nil
          /\ rooms[clients[x].room].instance = clients[x].instance
          /\ rooms[clients[x].room].epoch = clients[x].epoch
      BY EntryIsClient, ClientFields DEF Matches
    <3>2. rs[r] # Nil
      BY <2>2, NilIsNone
    <3> HIDE DEF r
    <3> QED
      BY <2>2, <3>1, <3>2
  <2> QED
    BY <2>1, <2>2, <2>3, JoinMatches
<1>4. ASSUME NEW r \in RoomId, NEW token \in Instance, NEW mode \in AccessMode,
             NEW pw \in Password \cup {Nil}, NEW c \in Commitment,
             admin_change_access(r, token, mode, pw, c)
      PROVE  Matches(rooms', clients')
  <2>1. /\ rooms[r] # Nil
        /\ Commit_admin_request(r, change_access_mode(rooms, r, mode, pw, c), clients)
    BY <1>4 DEF admin_change_access, can_change_access_mode, authorize_admin
  <2>2. EpochMoved(rooms, change_access_mode(rooms, r, mode, pw, c), r)
    BY <2>1, ChangeAccessMode
  <2> QED
    BY <2>1, <2>2, CommitMatches
<1>5. ASSUME NEW r \in RoomId, NEW token \in Instance,
             NEW pw \in Password \cup {Nil}, NEW c \in Commitment,
             admin_change_password(r, token, pw, c)
      PROVE  Matches(rooms', clients')
  <2> DEFINE mode == IF pw = Nil THEN "open" ELSE "password"
  <2>1. mode \in AccessMode
    BY AccessModeAssumption
  <2>2. /\ rooms[r] # Nil
        /\ Commit_admin_request(r, change_access_mode(rooms, r, mode, pw, c), clients)
    BY <1>5 DEF admin_change_password, can_change_access_mode, authorize_admin,
                change_password
  <2> HIDE DEF mode
  <2>3. EpochMoved(rooms, change_access_mode(rooms, r, mode, pw, c), r)
    BY <2>1, <2>2, ChangeAccessMode
  <2> QED
    BY <2>2, <2>3, CommitMatches
<1>6. ASSUME NEW r \in RoomId, NEW token \in Instance, NEW c \in Commitment,
             admin_rotate_media_key(r, token, c)
      PROVE  Matches(rooms', clients')
  <2>1. /\ rooms[r] # Nil
        /\ Commit_admin_request(r, rotate_access_epoch(rooms, r, c), clients)
    BY <1>6 DEF admin_rotate_media_key, authorize_admin
  <2>2. EpochMoved(rooms, rotate_access_epoch(rooms, r, c), r)
    BY <2>1, RotateAccessEpoch
  <2> QED
    BY <2>1, <2>2, CommitMatches
<1>7. ASSUME NEW r \in RoomId, NEW token \in Instance, NEW id \in 1..MaxClientId,
             NEW c \in Commitment, admin_kick_participant(r, token, id, c)
      PROVE  Matches(rooms', clients')
  <2> DEFINE E == {e \in get_room_clients(clients, r) : clients[e].id = id}
             cs == remove_clients(clients, E)
             rs == cleanup_empty_rooms(rooms, cs)
  <2>1. cs \in ClientTable /\ Matches(rooms, cs)
    BY RemoveClients, SurvivorsMatch
  <2>2. rs \in RoomTable /\ Matches(rs, cs)
    BY <2>1, CleanupEmptyRooms
  <2>3. IF authorize_admin(rs, r, token)
        THEN Commit_admin_request(r, rotate_access_epoch(rs, r, c), cs)
        ELSE rooms' = rs /\ clients' = cs
    BY <1>7 DEF admin_kick_participant
  <2> HIDE DEF E, cs, rs
  <2>4. CASE authorize_admin(rs, r, token)
    <3>1. rs[r] # Nil
      BY <2>4 DEF authorize_admin
    <3>2. EpochMoved(rs, rotate_access_epoch(rs, r, c), r)
      BY <2>2, <3>1, RotateAccessEpoch
    <3> QED
      BY <2>1, <2>2, <2>3, <2>4, <3>2, CommitMatches
  <2>5. CASE ~authorize_admin(rs, r, token)
    BY <2>2, <2>3, <2>5
  <2> QED
    BY <2>4, <2>5
<1>8. ASSUME NEW r \in RoomId, NEW token \in Instance, admin_close_room(r, token)
      PROVE  Matches(rooms', clients')
  <2> DEFINE E == get_room_clients(clients, r)
             cs == remove_clients(clients, E)
             rs == close_room(rooms, r)
  <2>1. cs \in ClientTable /\ Matches(rooms, cs)
    BY RemoveClients, SurvivorsMatch
  <2>2. rs \in RoomTable /\ \A s \in RoomId : s # r => rs[s] = rooms[s]
    BY DEF close_room, RoomTable
  <2>3. \A e \in Endpoint : cs[e] # Nil => cs[e].room \in RoomId /\ cs[e].room # r
    BY <2>1, EntryIsClient, ClientFields DEF remove_clients, get_room_clients
  <2>4. clients' = cs /\ rooms' = cleanup_empty_rooms(rs, cs)
    BY <1>8 DEF admin_close_room
  <2> HIDE DEF E, cs, rs
  <2>5. Matches(rs, cs)
    BY <2>1, <2>2, <2>3 DEF Matches
  <2> QED
    BY <2>1, <2>2, <2>4, <2>5, CleanupEmptyRooms
<1>9. ASSUME NEW E, clients' = remove_clients(clients, E),
              rooms' = cleanup_empty_rooms(rooms, clients')
       PROVE  Matches(rooms', clients')
  BY <1>9, RemoveClients, SurvivorsMatch, CleanupEmptyRooms
<1>10. ASSUME NEW e \in Endpoint, handle_leave(e)
       PROVE  Matches(rooms', clients')
  BY <1>9, <1>10 DEF handle_leave
<1>11. CASE alive_check_timer_callback
  BY <1>9, <1>11 DEF alive_check_timer_callback
<1>12. CASE TrafficStep
  <2>1. PICK e \in Endpoint : Heard(e)
    BY <1>12 DEF TrafficStep, handle_ping_message, handle_alive,
                 handle_secure_audio_message, handle_metronome_sync,
                 handle_room_chat_send, handle_room_chat_history_request,
                 handle_e2e_key_envelope, handle_room_key_handoff_ack,
                 handle_secure_control_message
  <2> QED
    BY <2>1, UpdateAlive, SurvivorsMatch DEF Heard
<1>13. ASSUME NEW e \in Endpoint, client_timeout_passes(e)
       PROVE  Matches(rooms', clients')
  <2>1. clients[e] \in Client /\ clients[e] # Nil
    BY <1>13, EntryIsClient DEF client_timeout_passes, exists
  <2>2. Survive(clients, clients') /\ rooms' = rooms
    BY <1>13, <2>1, ClientSilenced DEF client_timeout_passes, Survive, ClientTable
  <2> QED
    BY <2>2, SurvivorsMatch
<1>14. ASSUME NEW r \in RoomId, pending_room_ttl_passes(r)
       PROVE  Matches(rooms', clients')
  <2>1. rooms[r] \in Room /\ rooms[r] # Nil
    BY <1>14, EntryIsRoom DEF pending_room_ttl_passes
  <2> DEFINE entry == [rooms[r] EXCEPT !.pendingExpired = TRUE]
  <2>2. /\ entry # Nil
        /\ entry.instance = rooms[r].instance
        /\ entry.epoch = rooms[r].epoch
    BY <2>1, RoomFlagged, NilIsNone
  <2>3. rooms' = [rooms EXCEPT ![r] = entry] /\ clients' = clients
    BY <1>14 DEF pending_room_ttl_passes
  <2> HIDE DEF entry
  <2> QED
    BY <2>2, <2>3, EntryIsClient, ClientFields DEF Matches, RoomTable
<1>15. CASE handle_server_status_request
  BY <1>15, CleanupEmptyRooms DEF handle_server_status_request
<1>16. CASE UNCHANGED <<rooms, clients>>
  BY <1>16
<1> QED
  BY <1>1, <1>2, <1>3, <1>4, <1>5, <1>6, <1>7, <1>8, <1>10, <1>11, <1>12, <1>13,
     <1>14, <1>15, <1>16
     DEF Next, RoomStep, JoinStep, AdminStep, ClockStep, vars,
         handle_room_join_token_request, dev_join_token, ticket_expires

\* Every registered client's record agrees with its room, whatever requests,
\* departures and timeouts come in between.
THEOREM SessionsMatchRooms == Spec => []SessionMatchesRoom
<1>1. Init => SessionMatchesRoom
  BY DEF Init, SessionMatchesRoom
<1> QED
  BY <1>1, TypeCorrect, SessionStep, PTL DEF Spec

-----------------------------------------------------------------------------
(* Tickets and the endpoints that use them                                  *)

\* No two clients hold the same ticket, expired or not.
TicketsDistinct ==
    \A e, f \in Endpoint :
        e # f /\ clients[e] # Nil /\ clients[f] # Nil =>
            clients[e].ticket # clients[f].ticket

\* NonceRecorded alone does not survive handle_leave: if two clients shared a
\* ticket, the one that leaves would take the other's nonce with it.
Held == NonceRecorded /\ TicketsDistinct

\* The action of TicketNotTakenOver.
NotTakenOver ==
    \A e, f \in Endpoint :
        e # f /\ clients[e] # Nil /\ clients'[f] # Nil =>
            clients'[f].ticket # clients[e].ticket

\* A step that admits nobody: clients keep their tickets, and the nonces of
\* those that stay are not touched unless they expire.
KeepsTickets ==
    /\ \A e \in Endpoint : clients'[e] # Nil =>
          /\ clients[e] # Nil
          /\ clients'[e].ticket = clients[e].ticket
          /\ clients[e].ticket \notin expired =>
                nonces'[clients[e].ticket] = nonces[clients[e].ticket]
    /\ expired \subseteq expired'

\* Such a step keeps every ticket with its holder.
LEMMA KeepingHolds ==
    ASSUME Held, KeepsTickets
    PROVE  Held' /\ NotTakenOver
<1>1. NonceRecorded'
  BY DEF Held, KeepsTickets, NonceRecorded
<1>2. TicketsDistinct'
  BY DEF Held, KeepsTickets, TicketsDistinct
<1>3. NotTakenOver
  BY DEF Held, KeepsTickets, TicketsDistinct, NotTakenOver
<1> QED
  BY <1>1, <1>2, <1>3 DEF Held

\* A nonce can be reserved only if no other client holds the ticket.
LEMMA ReservedIsFree ==
    ASSUME TypeOK, Held, NEW e \in Endpoint, NEW t \in Ticket, t \notin expired,
           can_reserve_token_nonce(t, e)
    PROVE  \A f \in Endpoint : f # e /\ clients[f] # Nil => clients[f].ticket # t
<1> SUFFICES ASSUME NEW f \in Endpoint, f # e, clients[f] # Nil, clients[f].ticket = t
             PROVE  FALSE
  OBVIOUS
<1>1. nonces[t] = f
  BY DEF Held, NonceRecorded
<1>2. cleanup_used_token_nonces[t] = f
  BY <1>1 DEF cleanup_used_token_nonces
<1>3. f # Nil
  BY NilIsNone
<1> QED
  BY <1>2, <1>3 DEF can_reserve_token_nonce, exists

\* A JOIN keeps every ticket with its holder.
LEMMA JoinHolds ==
    ASSUME TypeOK, Held, NEW e \in Endpoint, NEW t \in Ticket,
           validate_with_claims(t), NEW rs \in RoomTable,
           rs[tickets[t].room] \in Room, Join(e, t, rs), expired' = expired
    PROVE  Held' /\ NotTakenOver
<1>0. t \notin expired /\ tickets[t] # Nil
  BY DEF validate_with_claims
<1>1. CASE Refuse_nonce_replay(e, t, rs)
  <2>1. KeepsTickets
    BY <1>1, TypeTables, EntryIsClient, ClientFields
       DEF Refuse_nonce_replay, KeepsTickets, cleanup_used_token_nonces
  <2> QED
    BY <2>1, KeepingHolds
<1>2. ASSUME can_reserve_token_nonce(t, e), nonces' = reserve_token_nonce(t, e)
      PROVE  /\ nonces'[t] = e
             /\ \A f \in Endpoint : f # e /\ clients[f] # Nil =>
                   /\ clients[f].ticket # t
                   /\ clients[f].ticket \notin expired =>
                         nonces'[clients[f].ticket] = nonces[clients[f].ticket]
  <2>1. \A f \in Endpoint : f # e /\ clients[f] # Nil => clients[f].ticket # t
    BY <1>0, <1>2, ReservedIsFree
  <2>2. \A f \in Endpoint : clients[f] # Nil => clients[f].ticket \in Ticket
    BY TypeTables, EntryIsClient, ClientFields
  <2> QED
    BY <1>2, <2>1, <2>2 DEF reserve_token_nonce, cleanup_used_token_nonces
<1>3. CASE Refuse_room_full(e, t, rs)
  <2>1. /\ clients' = clients
        /\ can_reserve_token_nonce(t, e)
        /\ nonces' = reserve_token_nonce(t, e)
    BY <1>3 DEF Refuse_room_full
  <2>2. clients[e] # Nil /\ clients[e].ticket \notin expired =>
           nonces'[clients[e].ticket] = nonces[clients[e].ticket]
    <3>1. clients[e] # Nil => clients[e].ticket \in Ticket
      BY TypeTables, EntryIsClient, ClientFields
    <3>2. clients[e] # Nil /\ clients[e].ticket = t => nonces[t] = e
      BY <1>0 DEF Held, NonceRecorded
    <3> QED
      BY <2>1, <3>1, <3>2, TypeTables
         DEF reserve_token_nonce, cleanup_used_token_nonces, NonceTable
  <2>3. KeepsTickets
    BY <1>2, <2>1, <2>2 DEF KeepsTickets
  <2> QED
    BY <2>3, KeepingHolds
<1>4. CASE Admit(e, t, rs)
  <2> DEFINE r == tickets[t].room
             p == tickets[t].profile
             i == rs[r].instance
             cs == register_client(clients, e, r, i, rs[r].epoch, p, t, nextId)
  <2>1. r \in RoomId /\ p \in Profile /\ i \in Instance /\ rs[r].epoch \in Nat \ {0}
    BY <1>0, TypeTables, ClaimTypes, RoomFields
  <2>2. /\ cs[e].ticket = t
        /\ \A x \in Endpoint : x # e /\ cs[x] # Nil => cs[x] = clients[x]
    <3>1. clients \in ClientTable /\ nextId \in Nat \ {0}
      BY TypeTables
    <3>2. Registered(clients, cs, e, r, i, rs[r].epoch, t)
      BY <2>1, <3>1, RegisterClient
    <3> HIDE DEF cs
    <3> QED
      BY <3>2 DEF Registered
  <2>3. /\ clients' = cs
        /\ can_reserve_token_nonce(t, e)
        /\ nonces' = reserve_token_nonce(t, e)
    BY <1>4 DEF Admit
  <2> HIDE DEF cs
  <2>4. NonceRecorded'
    BY <1>2, <2>2, <2>3 DEF Held, NonceRecorded
  <2>5. TicketsDistinct'
    BY <1>2, <2>2, <2>3 DEF Held, TicketsDistinct
  <2>6. NotTakenOver
    BY <1>2, <2>2, <2>3 DEF Held, TicketsDistinct, NotTakenOver
  <2> QED
    BY <2>4, <2>5, <2>6 DEF Held
<1> QED
  BY <1>1, <1>3, <1>4 DEF Join

\* Clients that stay when those at E go keep their nonces.
LEMMA ReleaseKeeps ==
    ASSUME TypeOK, Held, NEW E \in SUBSET Endpoint, \A e \in E : clients[e] # Nil,
           nonces' = release_token_nonces(E), expired' = expired,
           \A e \in Endpoint : clients'[e] # Nil =>
              /\ e \notin E
              /\ clients[e] # Nil
              /\ clients'[e].ticket = clients[e].ticket
    PROVE  KeepsTickets
<1>1. ASSUME NEW e \in Endpoint, clients'[e] # Nil
      PROVE  nonces'[clients[e].ticket] = nonces[clients[e].ticket]
  <2>1. clients[e].ticket \in Ticket
    BY <1>1, TypeTables, EntryIsClient, ClientFields
  <2>2. ~\E x \in E : clients[x].ticket = clients[e].ticket
    BY <1>1 DEF Held, TicketsDistinct
  <2> QED
    BY <2>1, <2>2 DEF release_token_nonces
<1> QED
  BY <1>1 DEF KeepsTickets

\* An admin request that goes through changes no client's ticket.
LEMMA CommitTickets ==
    ASSUME NEW old, NEW rs, NEW r \in RoomId, NEW cs \in ClientTable,
           EpochMoved(old, rs, r), Commit_admin_request(r, rs, cs)
    PROVE  \A e \in Endpoint : clients'[e] # Nil =>
              cs[e] # Nil /\ clients'[e].ticket = cs[e].ticket
<1>1. rs[r].instance \in Instance /\ rs[r].epoch \in Nat \ {0}
  BY RoomFields DEF EpochMoved
<1>2. EpochSet(cs, set_room_access_epoch(cs, r, rs[r].instance, rs[r].epoch),
               r, rs[r].instance, rs[r].epoch)
  BY <1>1, SetRoomAccessEpoch
<1> QED
  BY <1>1, <1>2 DEF EpochSet, Commit_admin_request

\* Every step keeps every ticket with its holder.
LEMMA TicketStep == TypeOK /\ Held /\ [Next]_vars => Held' /\ NotTakenOver
<1> SUFFICES ASSUME TypeOK, Held, [Next]_vars
             PROVE  Held' /\ NotTakenOver
  OBVIOUS
<1> USE TypeTables
<1>1. ASSUME Survive(clients, clients'), nonces' = nonces, expired \subseteq expired'
      PROVE  Held' /\ NotTakenOver
  BY <1>1, KeepingHolds DEF Survive, KeepsTickets
<1>2. ASSUME NEW e \in Endpoint, NEW t \in Ticket, handle_join_with_instance(e, t)
      PROVE  Held' /\ NotTakenOver
  <2>1. /\ validate_with_claims(t)
        /\ rooms[tickets[t].room] # Nil
        /\ Join(e, t, rooms)
        /\ expired' = expired
    BY <1>2 DEF handle_join_with_instance, validate_claims, Join
  <2>2. rooms[tickets[t].room] \in Room
    BY <2>1, ClaimTypes, EntryIsRoom DEF validate_with_claims
  <2> QED
    BY <2>1, <2>2, JoinHolds
<1>3. ASSUME NEW e \in Endpoint, NEW t \in Ticket, NEW i \in Instance,
             handle_join_open(e, t, i)
      PROVE  Held' /\ NotTakenOver
  <2> DEFINE rs == ensure_open_room(rooms, tickets[t].room, i, tickets[t].commitment)
  <2>1. validate_with_claims(t) /\ Join(e, t, rs) /\ expired' = expired
    BY <1>3 DEF handle_join_open, Join
  <2>2. rs \in RoomTable /\ rs[tickets[t].room] \in Room
    BY <2>1, ClaimTypes, EnsureOpenRoom DEF validate_with_claims
  <2> HIDE DEF rs
  <2> QED
    BY <2>1, <2>2, JoinHolds
<1>4. ASSUME NEW r \in RoomId, NEW next, EpochMoved(rooms, next, r),
             Commit_admin_request(r, next, clients),
             nonces' = nonces, expired' = expired
      PROVE  Held' /\ NotTakenOver
  <2>1. KeepsTickets
    BY <1>4, CommitTickets DEF KeepsTickets
  <2> QED
    BY <2>1, KeepingHolds
<1>5. ASSUME NEW r \in RoomId, NEW token \in Instance, NEW mode \in AccessMode,
             NEW pw \in Password \cup {Nil}, NEW c \in Commitment,
             admin_change_access(r, token, mode, pw, c)
      PROVE  Held' /\ NotTakenOver
  <2>1. /\ rooms[r] # Nil
        /\ Commit_admin_request(r, change_access_mode(rooms, r, mode, pw, c), clients)
        /\ nonces' = nonces /\ expired' = expired
    BY <1>5 DEF admin_change_access, can_change_access_mode, authorize_admin
  <2>2. EpochMoved(rooms, change_access_mode(rooms, r, mode, pw, c), r)
    BY <2>1, ChangeAccessMode
  <2> QED
    BY <1>4, <2>1, <2>2
<1>6. ASSUME NEW r \in RoomId, NEW token \in Instance,
             NEW pw \in Password \cup {Nil}, NEW c \in Commitment,
             admin_change_password(r, token, pw, c)
      PROVE  Held' /\ NotTakenOver
  <2> DEFINE mode == IF pw = Nil THEN "open" ELSE "password"
  <2>1. mode \in AccessMode
    BY AccessModeAssumption
  <2>2. /\ rooms[r] # Nil
        /\ Commit_admin_request(r, change_access_mode(rooms, r, mode, pw, c), clients)
        /\ nonces' = nonces /\ expired' = expired
    BY <1>6 DEF admin_change_password, can_change_access_mode, authorize_admin,
                change_password
  <2> HIDE DEF mode
  <2>3. EpochMoved(rooms, change_access_mode(rooms, r, mode, pw, c), r)
    BY <2>1, <2>2, ChangeAccessMode
  <2> QED
    BY <1>4, <2>2, <2>3
<1>7. ASSUME NEW r \in RoomId, NEW token \in Instance, NEW c \in Commitment,
             admin_rotate_media_key(r, token, c)
      PROVE  Held' /\ NotTakenOver
  <2>1. /\ rooms[r] # Nil
        /\ Commit_admin_request(r, rotate_access_epoch(rooms, r, c), clients)
        /\ nonces' = nonces /\ expired' = expired
    BY <1>7 DEF admin_rotate_media_key, authorize_admin
  <2>2. EpochMoved(rooms, rotate_access_epoch(rooms, r, c), r)
    BY <2>1, RotateAccessEpoch
  <2> QED
    BY <1>4, <2>1, <2>2
<1>8. ASSUME NEW r \in RoomId, NEW token \in Instance, NEW id \in 1..MaxClientId,
             NEW c \in Commitment, admin_kick_participant(r, token, id, c)
      PROVE  Held' /\ NotTakenOver
  <2> DEFINE E == {e \in get_room_clients(clients, r) : clients[e].id = id}
             cs == remove_clients(clients, E)
             rs == cleanup_empty_rooms(rooms, cs)
  <2>1. E \in SUBSET Endpoint /\ \A e \in E : clients[e] # Nil
    BY DEF get_room_clients
  <2>2. /\ cs \in ClientTable
        /\ \A e \in Endpoint : cs[e] # Nil =>
              e \notin E /\ clients[e] # Nil /\ cs[e].ticket = clients[e].ticket
    <3> HIDE DEF E
    <3>1. /\ cs \in ClientTable
          /\ Survive(clients, cs)
          /\ \A e \in Endpoint : e \in E => cs[e] = Nil
      BY RemoveClients
    <3> HIDE DEF cs
    <3> QED
      BY <3>1 DEF Survive
  <2>3. rs \in RoomTable
    BY <2>2, CleanupEmptyRooms
  <2>4. /\ nonces' = release_token_nonces(E)
        /\ expired' = expired
        /\ IF authorize_admin(rs, r, token)
           THEN Commit_admin_request(r, rotate_access_epoch(rs, r, c), cs)
           ELSE rooms' = rs /\ clients' = cs
    BY <1>8 DEF admin_kick_participant, Expel
  <2> HIDE DEF E, cs, rs
  <2>5. \A e \in Endpoint : clients'[e] # Nil =>
           cs[e] # Nil /\ clients'[e].ticket = cs[e].ticket
    <3>1. CASE authorize_admin(rs, r, token)
      <4>1. rs[r] # Nil
        BY <3>1 DEF authorize_admin
      <4>2. EpochMoved(rs, rotate_access_epoch(rs, r, c), r)
        BY <2>3, <4>1, RotateAccessEpoch
      <4>3. Commit_admin_request(r, rotate_access_epoch(rs, r, c), cs)
        BY <2>4, <3>1
      <4> QED
        BY <2>2, <4>2, <4>3, CommitTickets
    <3>2. CASE ~authorize_admin(rs, r, token)
      BY <2>4, <3>2
    <3> QED
      BY <3>1, <3>2
  <2>6. KeepsTickets
    BY <2>1, <2>2, <2>4, <2>5, ReleaseKeeps
  <2> QED
    BY <2>6, KeepingHolds
<1>9. ASSUME NEW E \in SUBSET Endpoint, \A e \in E : clients[e] # Nil,
             clients' = remove_clients(clients, E),
             nonces' = release_token_nonces(E), expired' = expired
      PROVE  Held' /\ NotTakenOver
  <2>1. \A e \in Endpoint : clients'[e] # Nil =>
           e \notin E /\ clients[e] # Nil /\ clients'[e].ticket = clients[e].ticket
    BY <1>9, RemoveClients DEF Survive
  <2> QED
    BY <1>9, <2>1, ReleaseKeeps, KeepingHolds
<1>10. ASSUME NEW r \in RoomId, NEW token \in Instance, admin_close_room(r, token)
       PROVE  Held' /\ NotTakenOver
  <2>1. /\ get_room_clients(clients, r) \in SUBSET Endpoint
        /\ \A e \in get_room_clients(clients, r) : clients[e] # Nil
    BY DEF get_room_clients
  <2>2. /\ clients' = remove_clients(clients, get_room_clients(clients, r))
        /\ nonces' = release_token_nonces(get_room_clients(clients, r))
        /\ expired' = expired
    BY <1>10 DEF admin_close_room, Expel
  <2> QED
    BY <1>9, <2>1, <2>2
<1>11. ASSUME NEW e \in Endpoint, handle_leave(e)
       PROVE  Held' /\ NotTakenOver
  <2>1. {e} \in SUBSET Endpoint /\ \A x \in {e} : clients[x] # Nil
    BY <1>11 DEF handle_leave, exists
  <2>2. /\ clients' = remove_clients(clients, {e})
        /\ nonces' = release_token_nonces({e})
        /\ expired' = expired
    BY <1>11 DEF handle_leave
  <2> QED
    BY <1>9, <2>1, <2>2
<1>12. CASE alive_check_timer_callback
  BY <1>1, <1>12, RemoveClients DEF alive_check_timer_callback
<1>13. CASE TrafficStep
  <2>1. PICK e \in Endpoint : Heard(e)
    BY <1>13 DEF TrafficStep, handle_ping_message, handle_alive,
                 handle_secure_audio_message, handle_metronome_sync,
                 handle_room_chat_send, handle_room_chat_history_request,
                 handle_e2e_key_envelope, handle_room_key_handoff_ack,
                 handle_secure_control_message
  <2> QED
    BY <1>1, <2>1, UpdateAlive DEF Heard
<1>14. ASSUME NEW e \in Endpoint, client_timeout_passes(e)
       PROVE  Held' /\ NotTakenOver
  <2>1. clients[e] \in Client /\ clients[e] # Nil
    BY <1>14, EntryIsClient DEF client_timeout_passes, exists
  <2>2. Survive(clients, clients')
    BY <1>14, <2>1, ClientSilenced DEF client_timeout_passes, Survive, ClientTable
  <2> QED
    BY <1>1, <1>14, <2>2 DEF client_timeout_passes
<1>15. CASE UNCHANGED <<clients, nonces>> /\ expired \subseteq expired'
  BY <1>1, <1>15 DEF Survive
<1>16. CASE RoomStep
  <2>1. UNCHANGED <<clients, nonces>> /\ expired \subseteq expired'
    BY <1>16 DEF RoomStep, handle_room_create_request,
                 handle_room_join_token_request, dev_join_token,
                 handle_server_status_request
  <2> QED
    BY <1>15, <2>1
<1>17. CASE ClockStep
  <2>1. \/ \E e \in Endpoint : client_timeout_passes(e)
        \/ UNCHANGED <<clients, nonces>> /\ expired \subseteq expired'
    BY <1>17 DEF ClockStep, pending_room_ttl_passes, ticket_expires
  <2> QED
    BY <1>14, <1>15, <2>1
<1>18. CASE UNCHANGED vars
  BY <1>15, <1>18 DEF vars
<1>19. CASE JoinStep
  BY <1>2, <1>3, <1>19 DEF JoinStep
<1>20. CASE AdminStep
  BY <1>5, <1>6, <1>7, <1>8, <1>10, <1>20 DEF AdminStep
<1> QED
  BY <1>11, <1>12, <1>13, <1>16, <1>17, <1>18, <1>19, <1>20 DEF Next

\* Held is an invariant.
LEMMA TicketsHeld == Spec => []Held
<1>1. Init => Held
  BY DEF Init, Held, NonceRecorded, TicketsDistinct
<1> QED
  BY <1>1, TypeCorrect, TicketStep, PTL DEF Spec

\* The nonce table and the client table agree on who uses a ticket.
THEOREM NoncesRecorded == Spec => []NonceRecorded
<1>1. Held => NonceRecorded
  BY DEF Held
<1> QED
  BY <1>1, TicketsHeld, PTL

\* No JOIN, from whatever endpoint and in whatever order with expiries, kicks
\* and timeouts, puts an endpoint in the place of the one that uses a ticket.
THEOREM TicketsNotTakenOver == Spec => TicketNotTakenOver
<1>1. TypeOK /\ Held /\ [Next]_vars => [NotTakenOver]_vars
  BY TicketStep
<1> QED
  BY <1>1, TypeCorrect, TicketsHeld, PTL DEF Spec, TicketNotTakenOver, NotTakenOver
=============================================================================
