------------------------- MODULE RoomRemovalProofs --------------------------
(***************************************************************************)
(* RemovedStayOut is an invariant of RoomServer.                           *)
(*                                                                         *)
(* It is not inductive: it must be known that a revoked ticket no longer   *)
(* opens its room.  Instances are drawn once, and the epoch of a room only *)
(* goes up, past that of every ticket an admin has revoked.                *)
(***************************************************************************)
EXTENDS RoomSessionProofs

\* Instance ids are those drawn so far.
InstancesDrawn ==
    /\ \A r \in RoomId : rooms[r] # Nil => rooms[r].instance \in instances
    /\ \A t \in Ticket :
          tickets[t] # Nil /\ tickets[t].instance # Nil => tickets[t].instance \in instances

\* No ticket is ahead of its room, and a revoked one is behind it.
TicketsBehind ==
    \A t \in Ticket :
        /\ tickets[t] # Nil /\ tickets[t].instance # Nil
        /\ rooms[tickets[t].room] # Nil
        /\ rooms[tickets[t].room].instance = tickets[t].instance
        => /\ tickets[t].epoch <= rooms[tickets[t].room].epoch
           /\ t \in revoked => tickets[t].epoch < rooms[tickets[t].room].epoch

\* Clients are in the rooms of their tickets; only signed tickets are revoked.
SessionsTicketed ==
    /\ \A e \in Endpoint : clients[e] # Nil =>
          /\ tickets[clients[e].ticket] # Nil
          /\ tickets[clients[e].ticket].room = clients[e].room
    /\ \A t \in revoked : tickets[t] # Nil

RevokedInv == InstancesDrawn /\ TicketsBehind /\ SessionsTicketed /\ RemovedStayOut

\* A room stays the same instance with its epoch going up, or is gone, or is
\* of an instance that was never drawn before.
RoomsOnward(new, drawn) ==
    \A r \in RoomId : new[r] # Nil =>
        /\ new[r].instance \in drawn
        /\ \/ /\ rooms[r] # Nil
              /\ new[r].instance = rooms[r].instance
              /\ rooms[r].epoch <= new[r].epoch
           \/ new[r].instance \notin instances

\* The clients of new are clients of old, in their rooms, with their tickets.
Stay(old, new) ==
    \A e \in Endpoint : new[e] # Nil =>
        /\ old[e] # Nil
        /\ new[e].ticket = old[e].ticket
        /\ new[e].room = old[e].room

\* A step that admits nobody and revokes nothing, with the tickets it signs.
Onward ==
    /\ instances \subseteq instances'
    /\ RoomsOnward(rooms', instances')
    /\ \A t \in Ticket :
          \/ tickets'[t] = tickets[t]
          \/ /\ tickets[t] = Nil
             /\ tickets'[t] \in Claims
             /\ \/ tickets'[t].instance = Nil
                \/ /\ rooms'[tickets'[t].room] # Nil
                   /\ tickets'[t].instance = rooms'[tickets'[t].room].instance
                   /\ tickets'[t].epoch = rooms'[tickets'[t].room].epoch
    /\ revoked' = revoked
    /\ Stay(clients, clients')

\* The epochs of rooms and tickets are numbers, and their rooms are rooms.
LEMMA EpochTypes ==
    ASSUME TypeOK
    PROVE  /\ \A r \in RoomId : rooms[r] # Nil => rooms[r].epoch \in Nat
           /\ \A t \in Ticket : tickets[t] # Nil =>
                 tickets[t].room \in RoomId /\ tickets[t].epoch \in Nat
           /\ \A e \in Endpoint : clients[e] # Nil =>
                 clients[e].ticket \in Ticket /\ clients[e].room \in RoomId
  BY TypeTables, EntryIsRoom, RoomFields, EntryIsClient, ClientFields DEF Claims

\* The same of the state after a step.
LEMMA EpochTypesNext ==
    ASSUME TypeOK'
    PROVE  /\ \A r \in RoomId : rooms'[r] # Nil => rooms'[r].epoch \in Nat
           /\ \A t \in Ticket : tickets'[t] # Nil =>
                 tickets'[t].room \in RoomId /\ tickets'[t].epoch \in Nat
           /\ \A e \in Endpoint : clients'[e] # Nil =>
                 clients'[e].ticket \in Ticket /\ clients'[e].room \in RoomId
<1>1. /\ \A r \in RoomId : rooms'[r] # Nil => rooms'[r] \in Room
      /\ \A t \in Ticket : tickets'[t] # Nil => tickets'[t] \in Claims
      /\ \A e \in Endpoint : clients'[e] # Nil => clients'[e] \in Client
  BY DEF TypeOK
<1> QED
  BY <1>1, RoomFields, ClientFields DEF Claims

\* Rooms that go onward stay ahead of tickets that stay.
LEMMA OnwardBehind ==
    ASSUME TypeOK, TypeOK', InstancesDrawn, TicketsBehind, RoomsOnward(rooms', instances'),
           NEW t \in Ticket, tickets'[t] = tickets[t],
           tickets[t] # Nil, tickets[t].instance # Nil,
           rooms'[tickets[t].room] # Nil,
           rooms'[tickets[t].room].instance = tickets[t].instance
    PROVE  /\ rooms[tickets[t].room] # Nil
           /\ rooms[tickets[t].room].epoch <= rooms'[tickets[t].room].epoch
           /\ tickets[t].epoch <= rooms'[tickets[t].room].epoch
           /\ t \in revoked => tickets[t].epoch < rooms'[tickets[t].room].epoch
<1> DEFINE r == tickets[t].room
<1>1. r \in RoomId /\ tickets[t].epoch \in Nat
  BY EpochTypes
<1>2. tickets[t].instance \in instances
  BY DEF InstancesDrawn
<1>3. /\ rooms[r] # Nil /\ rooms'[r].instance = rooms[r].instance
      /\ rooms[r].epoch <= rooms'[r].epoch
  BY <1>1, <1>2 DEF RoomsOnward
<1>4. rooms[r].epoch \in Nat /\ rooms'[r].epoch \in Nat
  BY <1>1, <1>3, EpochTypes, EpochTypesNext
<1>5. /\ tickets[t].epoch <= rooms[r].epoch
      /\ t \in revoked => tickets[t].epoch < rooms[r].epoch
  BY <1>3 DEF TicketsBehind
<1> QED
  BY <1>1, <1>3, <1>4, <1>5

\* Such a step keeps the invariant.
LEMMA OnwardKeeps ==
    ASSUME TypeOK, TypeOK', RevokedInv, Onward
    PROVE  RevokedInv'
<1> USE DEF RevokedInv
<1>0. Nil \notin Claims
  BY NilIsNone
<1>1. InstancesDrawn'
  <2>1. \A r \in RoomId : rooms'[r] # Nil => rooms'[r].instance \in instances'
    BY DEF Onward, RoomsOnward
  <2>2. ASSUME NEW t \in Ticket, tickets'[t] # Nil, tickets'[t].instance # Nil
        PROVE  tickets'[t].instance \in instances'
    <3>1. CASE tickets'[t] = tickets[t]
      BY <2>2, <3>1 DEF InstancesDrawn, Onward
    <3>2. CASE tickets'[t] # tickets[t]
      <4>1. /\ rooms'[tickets'[t].room] # Nil
            /\ tickets'[t].instance = rooms'[tickets'[t].room].instance
        BY <2>2, <3>2 DEF Onward
      <4> QED
        BY <2>1, <2>2, <4>1, EpochTypesNext
    <3> QED
      BY <3>1, <3>2
  <2> QED
    BY <2>1, <2>2 DEF InstancesDrawn
<1>2. \A t \in revoked : t \in Ticket /\ tickets[t] # Nil /\ tickets'[t] = tickets[t]
  BY DEF SessionsTicketed, Onward, TypeOK
<1>3. TicketsBehind'
  <2> SUFFICES ASSUME NEW t \in Ticket,
                      tickets'[t] # Nil, tickets'[t].instance # Nil,
                      rooms'[tickets'[t].room] # Nil,
                      rooms'[tickets'[t].room].instance = tickets'[t].instance
               PROVE  /\ tickets'[t].epoch <= rooms'[tickets'[t].room].epoch
                      /\ t \in revoked => tickets'[t].epoch < rooms'[tickets'[t].room].epoch
    BY DEF TicketsBehind, Onward
  <2>1. CASE tickets'[t] = tickets[t]
    BY <2>1, OnwardBehind DEF Onward
  <2>2. CASE tickets'[t] # tickets[t]
    <3>1. tickets'[t].epoch = rooms'[tickets'[t].room].epoch /\ t \notin revoked
      BY <1>2, <2>2 DEF Onward
    <3>2. tickets'[t].epoch \in Nat
      BY EpochTypesNext
    <3> QED
      BY <3>1, <3>2
  <2> QED
    BY <2>1, <2>2
<1>4. \A e \in Endpoint : clients'[e] # Nil =>
         /\ clients[e] # Nil /\ clients'[e].ticket = clients[e].ticket
         /\ clients'[e].room = clients[e].room
         /\ tickets'[clients'[e].ticket] = tickets[clients[e].ticket]
  BY EpochTypes DEF Onward, Stay, SessionsTicketed
<1>5. SessionsTicketed'
  BY <1>2, <1>4 DEF SessionsTicketed, Onward
<1>6. RemovedStayOut'
  BY <1>4 DEF RemovedStayOut, Onward
<1> QED
  BY <1>1, <1>3, <1>5, <1>6

\* A step that expels the clients at E from room r keeps the invariant, if
\* the room goes or moves on to a later epoch.
LEMMA RevokingKeeps ==
    ASSUME TypeOK, TypeOK', Held, RevokedInv, NEW r \in RoomId,
           NEW E, E \subseteq get_room_clients(clients, r),
           tickets' = tickets, instances' = instances,
           revoked' = revoked \cup {clients[e].ticket : e \in E},
           RoomsOnward(rooms', instances'),
           rooms'[r] # Nil => rooms[r].epoch < rooms'[r].epoch,
           Stay(clients, clients'), \A e \in E : clients'[e] = Nil
    PROVE  RevokedInv'
<1> USE DEF RevokedInv
<1>0. \A e \in E : /\ e \in Endpoint /\ clients[e] # Nil /\ clients[e].room = r
                   /\ tickets[clients[e].ticket] # Nil
                   /\ tickets[clients[e].ticket].room = r
  BY DEF get_room_clients, SessionsTicketed
<1>1. InstancesDrawn'
  BY DEF InstancesDrawn, RoomsOnward
<1>2. TicketsBehind'
  <2> SUFFICES ASSUME NEW t \in Ticket,
                      tickets[t] # Nil, tickets[t].instance # Nil,
                      rooms'[tickets[t].room] # Nil,
                      rooms'[tickets[t].room].instance = tickets[t].instance
               PROVE  /\ tickets[t].epoch <= rooms'[tickets[t].room].epoch
                      /\ t \in revoked' => tickets[t].epoch < rooms'[tickets[t].room].epoch
    BY DEF TicketsBehind
  <2>1. /\ rooms[tickets[t].room] # Nil
        /\ tickets[t].epoch <= rooms'[tickets[t].room].epoch
        /\ t \in revoked => tickets[t].epoch < rooms'[tickets[t].room].epoch
    BY OnwardBehind
  <2>2. ASSUME t \in revoked', t \notin revoked
        PROVE  tickets[t].epoch < rooms'[tickets[t].room].epoch
    <3>1. tickets[t].room = r
      BY <1>0, <2>2
    <3>2. rooms[r] # Nil /\ rooms'[r] # Nil
      BY <2>1, <3>1
    <3>3. rooms[r].epoch \in Nat /\ rooms'[r].epoch \in Nat /\ tickets[t].epoch \in Nat
      BY <3>2, EpochTypes, EpochTypesNext
    <3>4. rooms[r].instance = tickets[t].instance
      BY <3>1, <3>2 DEF InstancesDrawn, RoomsOnward
    <3>5. tickets[t].epoch <= rooms[r].epoch
      BY <3>1, <3>2, <3>4 DEF TicketsBehind
    <3> QED
      BY <3>1, <3>2, <3>3, <3>5
  <2> QED
    BY <2>1, <2>2
<1>3. SessionsTicketed'
  BY <1>0 DEF SessionsTicketed, Stay
<1>4. RemovedStayOut'
  <2> SUFFICES ASSUME NEW e \in Endpoint, clients'[e] # Nil, clients'[e].ticket \in revoked'
               PROVE  tickets[clients'[e].ticket].instance = Nil
    BY DEF RemovedStayOut
  <2>1. clients[e] # Nil /\ clients'[e].ticket = clients[e].ticket /\ e \notin E
    BY DEF Stay
  <2>2. \A x \in E : clients[x].ticket # clients[e].ticket
    BY <1>0, <2>1 DEF Held, TicketsDistinct
  <2>3. clients[e].ticket \in revoked
    BY <2>1, <2>2
  <2> QED
    BY <2>1, <2>3 DEF RemovedStayOut
<1> QED
  BY <1>1, <1>2, <1>3, <1>4

\* A step that admits endpoint e with ticket t keeps the invariant, if the
\* ticket was not revoked or names no instance.
LEMMA AdmittingKeeps ==
    ASSUME TypeOK, TypeOK', RevokedInv, NEW e \in Endpoint, NEW t \in Ticket,
           tickets[t] # Nil, t \notin revoked \/ tickets[t].instance = Nil,
           tickets' = tickets, revoked' = revoked, instances \subseteq instances',
           RoomsOnward(rooms', instances'),
           clients'[e].ticket = t, clients'[e].room = tickets[t].room,
           \A x \in Endpoint : x # e /\ clients'[x] # Nil => clients'[x] = clients[x]
    PROVE  RevokedInv'
<1> USE DEF RevokedInv
<1>1. InstancesDrawn'
  BY DEF InstancesDrawn, RoomsOnward
<1>2. TicketsBehind'
  <2> SUFFICES ASSUME NEW s \in Ticket,
                      tickets[s] # Nil, tickets[s].instance # Nil,
                      rooms'[tickets[s].room] # Nil,
                      rooms'[tickets[s].room].instance = tickets[s].instance
               PROVE  /\ tickets[s].epoch <= rooms'[tickets[s].room].epoch
                      /\ s \in revoked => tickets[s].epoch < rooms'[tickets[s].room].epoch
    BY DEF TicketsBehind
  <2> QED
    BY OnwardBehind
<1>3. SessionsTicketed'
  BY DEF SessionsTicketed
<1>4. RemovedStayOut'
  BY DEF RemovedStayOut
<1> QED
  BY <1>1, <1>2, <1>3, <1>4

\* mark_joined moves no room back.
LEMMA MarkedOnward ==
    ASSUME NEW rs \in RoomTable, NEW r \in RoomId, NEW drawn, RoomsOnward(rs, drawn)
    PROVE  RoomsOnward(mark_joined(rs, r), drawn)
<1> DEFINE new == mark_joined(rs, r)
<1>1. \A s \in RoomId :
         /\ new[s] = Nil <=> rs[s] = Nil
         /\ rs[s] # Nil => new[s].instance = rs[s].instance /\ new[s].epoch = rs[s].epoch
  BY MarkJoined
<1> HIDE DEF new
<1>2. RoomsOnward(new, drawn)
  BY <1>1 DEF RoomsOnward
<1> QED
  BY <1>2 DEF new

\* A JOIN keeps the invariant.
LEMMA JoinKeepsOut ==
    ASSUME TypeOK, TypeOK', RevokedInv, NEW e \in Endpoint, NEW t \in Ticket,
           tickets[t] # Nil, t \notin revoked \/ tickets[t].instance = Nil,
           NEW rs \in RoomTable, rs[tickets[t].room] \in Room, Join(e, t, rs),
           tickets' = tickets, revoked' = revoked, instances \subseteq instances',
           RoomsOnward(rs, instances')
    PROVE  RevokedInv'
<1>1. CASE Refuse_nonce_replay(e, t, rs) \/ Refuse_room_full(e, t, rs)
  <2>1. rooms' = rs /\ clients' = clients
    BY <1>1 DEF Refuse_nonce_replay, Refuse_room_full
  <2>2. Onward
    BY <2>1 DEF Onward, Stay
  <2> QED
    BY <2>2, OnwardKeeps
<1>2. CASE Admit(e, t, rs)
  <2> DEFINE r == tickets[t].room
             p == tickets[t].profile
             i == rs[r].instance
             cs == register_client(clients, e, r, i, rs[r].epoch, p, t, nextId)
  <2>1. r \in RoomId /\ p \in Profile /\ i \in Instance /\ rs[r].epoch \in Nat \ {0}
    BY TypeTables, ClaimTypes, RoomFields
  <2>2. Registered(clients, cs, e, r, i, rs[r].epoch, t)
    BY <2>1, TypeTables, RegisterClient
  <2>3. clients' = cs /\ rooms' = mark_joined(rs, r)
    BY <1>2 DEF Admit
  <2> HIDE DEF cs
  <2>4. RoomsOnward(rooms', instances')
    BY <2>1, <2>3, MarkedOnward
  <2>5. /\ clients'[e].ticket = t /\ clients'[e].room = r
        /\ \A x \in Endpoint : x # e /\ clients'[x] # Nil => clients'[x] = clients[x]
    BY <2>2, <2>3 DEF Registered
  <2> QED
    BY <2>4, <2>5, AdmittingKeeps
<1> QED
  BY <1>1, <1>2 DEF Join

\* A table that keeps rooms as they are, or drops them, goes onward.
LEMMA KeptOnward ==
    ASSUME TypeOK, InstancesDrawn, NEW rs,
           \A r \in RoomId : rs[r] \in {Nil, rooms[r]}
    PROVE  RoomsOnward(rs, instances)
<1> SUFFICES ASSUME NEW r \in RoomId, rs[r] # Nil
             PROVE  /\ rs[r].instance \in instances
                    /\ rooms[r] # Nil /\ rs[r].instance = rooms[r].instance
                    /\ rooms[r].epoch <= rs[r].epoch
  BY DEF RoomsOnward
<1>1. rs[r] = rooms[r] /\ rooms[r] # Nil
  OBVIOUS
<1>2. rooms[r].epoch \in Nat
  BY <1>1, EpochTypes
<1> QED
  BY <1>1, <1>2 DEF InstancesDrawn

\* So does one in which a kept room moved to its next epoch.
LEMMA MovedOnward ==
    ASSUME TypeOK, InstancesDrawn, NEW rs, NEW new, NEW r \in RoomId,
           \A s \in RoomId : rs[s] \in {Nil, rooms[s]},
           rs[r] # Nil, EpochMoved(rs, new, r)
    PROVE  RoomsOnward(new, instances) /\ rooms[r].epoch < new[r].epoch
<1>1. rs[r] = rooms[r] /\ rooms[r] # Nil
  OBVIOUS
<1>2. rooms[r].epoch \in Nat
  BY <1>1, EpochTypes
<1>3. new[r].epoch = rooms[r].epoch + 1 /\ new[r].instance = rooms[r].instance
  BY <1>1 DEF EpochMoved
<1>4. RoomsOnward(rs, instances)
  BY KeptOnward
<1>5. ASSUME NEW s \in RoomId, new[s] # Nil
      PROVE  /\ new[s].instance \in instances
             /\ rooms[s] # Nil /\ new[s].instance = rooms[s].instance
             /\ rooms[s].epoch <= new[s].epoch
  <2>1. CASE s = r
    BY <1>1, <1>2, <1>3, <2>1 DEF InstancesDrawn
  <2>2. CASE s # r
    <3>1. new[s] = rs[s] /\ rs[s] = rooms[s]
      BY <1>5, <2>2 DEF EpochMoved
    <3>2. rooms[s].epoch \in Nat
      BY <1>5, <3>1, EpochTypes
    <3> QED
      BY <1>5, <3>1, <3>2 DEF InstancesDrawn
  <2> QED
    BY <2>1, <2>2
<1>6. RoomsOnward(new, instances)
  BY <1>5 DEF RoomsOnward
<1> QED
  BY <1>2, <1>3, <1>6

\* An admin request that goes through leaves every client in its room.
LEMMA CommitStays ==
    ASSUME NEW old, NEW rs, NEW r \in RoomId, NEW cs \in ClientTable,
           EpochMoved(old, rs, r), Commit_admin_request(r, rs, cs)
    PROVE  Stay(cs, clients')
<1>1. rs[r].instance \in Instance /\ rs[r].epoch \in Nat \ {0}
  BY RoomFields DEF EpochMoved
<1>2. EpochSet(cs, set_room_access_epoch(cs, r, rs[r].instance, rs[r].epoch),
               r, rs[r].instance, rs[r].epoch)
  BY <1>1, SetRoomAccessEpoch
<1> QED
  BY <1>1, <1>2 DEF EpochSet, Commit_admin_request, Stay

\* The room and ticket requests keep the invariant.
LEMMA RoomStepKeepsOut ==
    ASSUME TypeOK, TypeOK', RevokedInv, RoomStep
    PROVE  RevokedInv'
<1> USE TypeTables DEF RevokedInv
<1>0. /\ RoomsOnward(rooms, instances)
      /\ \A rs : (\A r \in RoomId : rs[r] \in {Nil, rooms[r]}) => RoomsOnward(rs, instances)
  BY KeptOnward
<1>1. ASSUME NEW r \in RoomId, NEW p \in Profile, NEW i \in Instance, NEW t \in Ticket,
             NEW mode \in AccessMode, NEW pw \in Password \cup {Nil},
             NEW c \in Commitment, handle_room_create_request(r, p, i, t, mode, pw, c)
      PROVE  Onward
  <2>1. /\ i \notin instances /\ tickets[t] = Nil /\ rooms[r] = Nil
        /\ rooms' = create_room(rooms, r, i, mode, pw, c)
        /\ instances' = instances \cup {i}
        /\ \/ tickets' = create_udp_room_join_ticket(t, rooms'[r], r, p)
           \/ tickets' = tickets
        /\ UNCHANGED <<clients, revoked>>
    BY <1>1 DEF handle_room_create_request, can_create_room
  <2>2. /\ rooms'[r] \in Room /\ rooms'[r].instance = i
        /\ \A s \in RoomId : s # r => rooms'[s] = rooms[s]
    <3> DEFINE new == create_room(rooms, r, i, mode, pw, c)
    <3>1. /\ new[r] \in Room /\ new[r].instance = i
          /\ \A s \in RoomId : s # r => new[s] = rooms[s]
      BY CreateRoom
    <3> HIDE DEF new
    <3> QED
      BY <2>1, <3>1 DEF new
  <2>3. RoomsOnward(rooms', instances')
    BY <1>0, <2>1, <2>2 DEF RoomsOnward
  <2>4. ASSUME NEW s \in Ticket, tickets'[s] # tickets[s]
        PROVE  /\ s = t /\ tickets'[t] \in Claims /\ tickets'[t].room = r
               /\ tickets'[t].instance = rooms'[r].instance
               /\ tickets'[t].epoch = rooms'[r].epoch
    <3>1. tickets' = create_udp_room_join_ticket(t, rooms'[r], r, p)
      BY <2>1, <2>4
    <3>2. s = t
      BY <2>4, <3>1 DEF create_udp_room_join_ticket
    <3> QED
      BY <2>2, <3>1, <3>2, RoomFields DEF create_udp_room_join_ticket, Claims
  <2>5. rooms'[r] # Nil
    BY <2>2, NilIsNone
  <2> QED
    BY <2>1, <2>3, <2>4, <2>5 DEF Onward, Stay
<1>2. ASSUME NEW r \in RoomId, NEW p \in Profile, NEW t \in Ticket,
             NEW pw \in Password \cup {Nil}, handle_room_join_token_request(r, p, t, pw)
      PROVE  Onward
  <2>1. /\ tickets[t] = Nil /\ rooms[r] # Nil
        /\ tickets' = create_udp_room_join_ticket(t, rooms[r], r, p)
        /\ UNCHANGED <<rooms, instances, clients, revoked>>
    BY <1>2 DEF handle_room_join_token_request, authorize_join
  <2>2. rooms[r] \in Room
    BY <2>1, EntryIsRoom
  <2>3. /\ tickets'[t] \in Claims /\ tickets'[t].room = r
        /\ tickets'[t].instance = rooms[r].instance
        /\ tickets'[t].epoch = rooms[r].epoch
        /\ \A s \in Ticket : s # t => tickets'[s] = tickets[s]
    BY <2>1, <2>2, RoomFields DEF create_udp_room_join_ticket, Claims
  <2> QED
    BY <1>0, <2>1, <2>3 DEF Onward, Stay
<1>3. ASSUME NEW r \in DevRoom, NEW p \in Profile, NEW t \in Ticket, NEW c \in Commitment,
             dev_join_token(r, p, t, c)
      PROVE  Onward
  <2>1. /\ tickets[t] = Nil
        /\ tickets' = [tickets EXCEPT ![t] =
                          [room |-> r, profile |-> p, instance |-> Nil,
                           epoch |-> 1, commitment |-> c]]
        /\ UNCHANGED <<rooms, instances, clients, revoked>>
    BY <1>3 DEF dev_join_token
  <2>2. r \in RoomId
    BY DevRoomAssumption
  <2>3. /\ tickets'[t] \in Claims /\ tickets'[t].instance = Nil
        /\ \A s \in Ticket : s # t => tickets'[s] = tickets[s]
    BY <2>1, <2>2 DEF Claims
  <2> QED
    BY <1>0, <2>1, <2>3 DEF Onward, Stay
<1>4. CASE handle_server_status_request
  <2>1. /\ rooms' = cleanup_empty_rooms(rooms, clients)
        /\ UNCHANGED <<instances, tickets, clients, revoked>>
    BY <1>4 DEF handle_server_status_request
  <2>2. \A r \in RoomId : rooms'[r] \in {Nil, rooms[r]}
    BY <2>1, CleanupEmptyRooms
  <2>3. Onward
    BY <1>0, <2>1, <2>2 DEF Onward, Stay
  <2> QED
    BY <2>3, OnwardKeeps
<1> QED
  BY <1>1, <1>2, <1>3, <1>4, OnwardKeeps DEF RoomStep

\* The admin requests keep the invariant.
LEMMA AdminStepKeepsOut ==
    ASSUME TypeOK, TypeOK', Held, RevokedInv, AdminStep
    PROVE  RevokedInv'
<1> USE TypeTables DEF RevokedInv
<1>1. ASSUME NEW r \in RoomId, rooms[r] # Nil, NEW next, EpochMoved(rooms, next, r),
             Commit_admin_request(r, next, clients),
             UNCHANGED <<instances, tickets, revoked>>
      PROVE  RevokedInv'
  <2>1. rooms' = next
    BY <1>1 DEF Commit_admin_request
  <2>2. RoomsOnward(next, instances)
    BY <1>1, MovedOnward
  <2>3. Stay(clients, clients')
    BY <1>1, CommitStays
  <2>4. Onward
    BY <1>1, <2>1, <2>2, <2>3 DEF Onward
  <2> QED
    BY <2>4, OnwardKeeps
<1>2. ASSUME NEW r \in RoomId, NEW token \in Instance, NEW mode \in AccessMode,
             NEW pw \in Password \cup {Nil}, NEW c \in Commitment,
             admin_change_access(r, token, mode, pw, c)
      PROVE  RevokedInv'
  <2>1. /\ rooms[r] # Nil
        /\ Commit_admin_request(r, change_access_mode(rooms, r, mode, pw, c), clients)
        /\ UNCHANGED <<instances, tickets, revoked>>
    BY <1>2 DEF admin_change_access, can_change_access_mode, authorize_admin
  <2>2. EpochMoved(rooms, change_access_mode(rooms, r, mode, pw, c), r)
    BY <2>1, ChangeAccessMode
  <2> QED
    BY <1>1, <2>1, <2>2
<1>3. ASSUME NEW r \in RoomId, NEW token \in Instance,
             NEW pw \in Password \cup {Nil}, NEW c \in Commitment,
             admin_change_password(r, token, pw, c)
      PROVE  RevokedInv'
  <2> DEFINE mode == IF pw = Nil THEN "open" ELSE "password"
  <2>1. mode \in AccessMode
    BY AccessModeAssumption
  <2>2. /\ rooms[r] # Nil
        /\ Commit_admin_request(r, change_access_mode(rooms, r, mode, pw, c), clients)
        /\ UNCHANGED <<instances, tickets, revoked>>
    BY <1>3 DEF admin_change_password, can_change_access_mode, authorize_admin,
                change_password
  <2> HIDE DEF mode
  <2>3. EpochMoved(rooms, change_access_mode(rooms, r, mode, pw, c), r)
    BY <2>1, <2>2, ChangeAccessMode
  <2> QED
    BY <1>1, <2>2, <2>3
<1>4. ASSUME NEW r \in RoomId, NEW token \in Instance, NEW c \in Commitment,
             admin_rotate_media_key(r, token, c)
      PROVE  RevokedInv'
  <2>1. /\ rooms[r] # Nil
        /\ Commit_admin_request(r, rotate_access_epoch(rooms, r, c), clients)
        /\ UNCHANGED <<instances, tickets, revoked>>
    BY <1>4 DEF admin_rotate_media_key, authorize_admin
  <2>2. EpochMoved(rooms, rotate_access_epoch(rooms, r, c), r)
    BY <2>1, RotateAccessEpoch
  <2> QED
    BY <1>1, <2>1, <2>2
<1>5. ASSUME NEW r \in RoomId, NEW token \in Instance, NEW id \in 1..MaxClientId,
             NEW c \in Commitment, admin_kick_participant(r, token, id, c)
      PROVE  RevokedInv'
  <2> DEFINE E == {e \in get_room_clients(clients, r) : clients[e].id = id}
             cs == remove_clients(clients, E)
             rs == cleanup_empty_rooms(rooms, cs)
  <2>1. E \subseteq get_room_clients(clients, r)
    OBVIOUS
  <2>2. /\ cs \in ClientTable /\ Stay(clients, cs)
        /\ \A e \in Endpoint : e \in E => cs[e] = Nil
    <3> HIDE DEF E
    <3>1. cs \in ClientTable
      BY RemoveClients
    <3> QED
      BY <3>1 DEF remove_clients, Stay
  <2>3. rs \in RoomTable /\ \A s \in RoomId : rs[s] \in {Nil, rooms[s]}
    BY <2>2, CleanupEmptyRooms
  <2>4. /\ revoked' = revoked \cup {clients[e].ticket : e \in E}
        /\ UNCHANGED <<instances, tickets>>
        /\ rooms[r] # Nil /\ rooms[r].admin = token /\ token # Nil
        /\ IF authorize_admin(rs, r, token)
           THEN Commit_admin_request(r, rotate_access_epoch(rs, r, c), cs)
           ELSE rooms' = rs /\ clients' = cs
    BY <1>5 DEF admin_kick_participant, Expel, authorize_admin
  <2> HIDE DEF E, cs, rs
  <2>5. /\ RoomsOnward(rooms', instances) /\ Stay(cs, clients')
        /\ rooms'[r] # Nil => rooms[r].epoch < rooms'[r].epoch
    <3>1. CASE authorize_admin(rs, r, token)
      <4>1. rs[r] # Nil
        BY <3>1 DEF authorize_admin
      <4>2. EpochMoved(rs, rotate_access_epoch(rs, r, c), r)
        BY <2>3, <4>1, RotateAccessEpoch
      <4>3. Commit_admin_request(r, rotate_access_epoch(rs, r, c), cs)
        BY <2>4, <3>1
      <4>4. rooms' = rotate_access_epoch(rs, r, c)
        BY <4>3 DEF Commit_admin_request
      <4>5. RoomsOnward(rooms', instances) /\ rooms[r].epoch < rooms'[r].epoch
        BY <2>3, <4>1, <4>2, <4>4, MovedOnward
      <4> QED
        BY <2>2, <4>2, <4>3, <4>5, CommitStays
    <3>2. CASE ~authorize_admin(rs, r, token)
      <4>1. rs[r] = Nil
        BY <2>3, <2>4, <3>2 DEF authorize_admin
      <4>2. RoomsOnward(rs, instances)
        BY <2>3, KeptOnward
      <4> QED
        BY <2>4, <3>2, <4>1, <4>2 DEF Stay
    <3> QED
      BY <3>1, <3>2
  <2>6. Stay(clients, clients') /\ \A e \in E : clients'[e] = Nil
    BY <2>1, <2>2, <2>5 DEF Stay, get_room_clients
  <2> QED
    BY <2>1, <2>4, <2>5, <2>6, RevokingKeeps
<1>6. ASSUME NEW r \in RoomId, NEW token \in Instance, admin_close_room(r, token)
      PROVE  RevokedInv'
  <2> DEFINE E == get_room_clients(clients, r)
             cs == remove_clients(clients, E)
  <2>1. /\ cs \in ClientTable /\ Stay(clients, cs)
        /\ \A e \in Endpoint : e \in E => cs[e] = Nil
    <3> HIDE DEF E
    <3>1. cs \in ClientTable
      BY RemoveClients
    <3> QED
      BY <3>1 DEF remove_clients, Stay
  <2>2. /\ revoked' = revoked \cup {clients[e].ticket : e \in E}
        /\ UNCHANGED <<instances, tickets>>
        /\ clients' = cs
        /\ rooms' = cleanup_empty_rooms(close_room(rooms, r), cs)
    BY <1>6 DEF admin_close_room, Expel
  <2>3. E \subseteq Endpoint
    BY DEF get_room_clients
  <2> HIDE DEF cs
  <2>4. /\ close_room(rooms, r) \in RoomTable
        /\ close_room(rooms, r)[r] = Nil
        /\ \A s \in RoomId : close_room(rooms, r)[s] \in {Nil, rooms[s]}
    BY DEF close_room, RoomTable
  <2>5. \A s \in RoomId : rooms'[s] \in {Nil, close_room(rooms, r)[s]}
    BY <2>1, <2>2, <2>4, CleanupEmptyRooms
  <2>6. rooms'[r] = Nil /\ \A s \in RoomId : rooms'[s] \in {Nil, rooms[s]}
    BY <2>4, <2>5
  <2>7. RoomsOnward(rooms', instances)
    BY <2>6, KeptOnward
  <2> QED
    BY <2>1, <2>2, <2>3, <2>6, <2>7, RevokingKeeps
<1> QED
  BY <1>2, <1>3, <1>4, <1>5, <1>6 DEF AdminStep

\* Every step keeps revoked tickets behind their rooms and their holders out.
LEMMA RevokedStep == TypeOK /\ TypeOK' /\ Held /\ RevokedInv /\ [Next]_vars => RevokedInv'
<1> SUFFICES ASSUME TypeOK, TypeOK', Held, RevokedInv, [Next]_vars
             PROVE  RevokedInv'
  OBVIOUS
<1> USE TypeTables DEF RevokedInv
<1>1. ASSUME UNCHANGED <<instances, tickets, revoked>>,
             \A r \in RoomId : rooms'[r] \in {Nil, rooms[r]}, Stay(clients, clients')
      PROVE  RevokedInv'
  <2>1. Onward
    BY <1>1, KeptOnward DEF Onward
  <2> QED
    BY <2>1, OnwardKeeps
<1>2. ASSUME NEW e \in Endpoint, NEW t \in Ticket, handle_join_with_instance(e, t)
      PROVE  RevokedInv'
  <2>1. /\ tickets[t] # Nil /\ tickets[t].instance # Nil
        /\ rooms[tickets[t].room] # Nil
        /\ rooms[tickets[t].room].instance = tickets[t].instance
        /\ rooms[tickets[t].room].epoch = tickets[t].epoch
        /\ Join(e, t, rooms)
        /\ UNCHANGED <<instances, tickets, revoked>>
    BY <1>2 DEF handle_join_with_instance, validate_with_claims, validate_claims, Join
  <2>2. rooms[tickets[t].room] \in Room /\ tickets[t].epoch \in Nat
    BY <2>1, ClaimTypes, EntryIsRoom, EpochTypes
  <2>3. t \notin revoked
    BY <2>1, <2>2 DEF TicketsBehind
  <2>4. RoomsOnward(rooms, instances)
    BY KeptOnward
  <2> QED
    BY <2>1, <2>2, <2>3, <2>4, JoinKeepsOut
<1>3. ASSUME NEW e \in Endpoint, NEW t \in Ticket, NEW i \in Instance,
             handle_join_open(e, t, i)
      PROVE  RevokedInv'
  <2> DEFINE r == tickets[t].room
             rs == ensure_open_room(rooms, r, i, tickets[t].commitment)
  <2>1. /\ tickets[t] # Nil /\ tickets[t].instance = Nil /\ Join(e, t, rs)
        /\ IF rooms[r] = Nil
           THEN i \notin instances /\ instances' = instances \cup {i}
           ELSE instances' = instances
        /\ UNCHANGED <<tickets, revoked>>
    BY <1>3 DEF handle_join_open, validate_with_claims, Join
  <2>2. r \in RoomId /\ tickets[t].commitment \in Commitment
    BY <2>1, ClaimTypes
  <2>3. /\ rs \in RoomTable /\ rs[r] \in Room
        /\ rooms[r] # Nil => /\ rs[r].instance = rooms[r].instance
                             /\ rs[r].epoch = rooms[r].epoch
        /\ rooms[r] = Nil => rs[r].instance = i
        /\ \A s \in RoomId : s # r => rs[s] = rooms[s]
    BY <2>2, EnsureOpenRoom
  <2> HIDE DEF rs
  <2>4. RoomsOnward(rooms, instances)
    BY KeptOnward
  <2>5. RoomsOnward(rs, instances')
    BY <2>1, <2>3, <2>4 DEF RoomsOnward
  <2> QED
    BY <2>1, <2>3, <2>5, JoinKeepsOut
<1>4. ASSUME NEW E \in SUBSET Endpoint, clients' = remove_clients(clients, E),
             rooms' = cleanup_empty_rooms(rooms, clients'),
             UNCHANGED <<instances, tickets, revoked>>
      PROVE  RevokedInv'
  <2>1. Stay(clients, clients')
    BY <1>4 DEF remove_clients, Stay
  <2>2. \A r \in RoomId : rooms'[r] \in {Nil, rooms[r]}
    BY <1>4, RemoveClients, CleanupEmptyRooms
  <2> QED
    BY <1>1, <1>4, <2>1, <2>2
<1>5. ASSUME NEW e \in Endpoint, handle_leave(e)
      PROVE  RevokedInv'
  BY <1>4, <1>5 DEF handle_leave
<1>6. CASE alive_check_timer_callback
  <2>1. timed_out_clients(clients) \in SUBSET Endpoint
    BY DEF timed_out_clients
  <2> QED
    BY <1>4, <1>6, <2>1 DEF alive_check_timer_callback
<1>7. CASE TrafficStep
  <2>1. PICK e \in Endpoint : Heard(e)
    BY <1>7 DEF TrafficStep, handle_ping_message, handle_alive,
                handle_secure_audio_message, handle_metronome_sync,
                handle_room_chat_send, handle_room_chat_history_request,
                handle_e2e_key_envelope, handle_room_key_handoff_ack,
                handle_secure_control_message
  <2>2. Stay(clients, clients')
    BY <2>1, UpdateAlive DEF Heard, Survive, Stay
  <2> QED
    BY <1>1, <2>1, <2>2 DEF Heard
<1>8. ASSUME NEW e \in Endpoint, client_timeout_passes(e)
      PROVE  RevokedInv'
  <2>1. clients[e] \in Client /\ clients[e] # Nil
    BY <1>8, EntryIsClient DEF client_timeout_passes, exists
  <2>2. Stay(clients, clients')
    BY <1>8, <2>1, ClientSilenced DEF client_timeout_passes, Stay, ClientTable
  <2> QED
    BY <1>1, <1>8, <2>2 DEF client_timeout_passes
<1>9. ASSUME NEW r \in RoomId, pending_room_ttl_passes(r)
      PROVE  RevokedInv'
  <2> DEFINE entry == [rooms[r] EXCEPT !.pendingExpired = TRUE]
  <2>1. rooms[r] \in Room /\ rooms[r] # Nil
    BY <1>9, EntryIsRoom DEF pending_room_ttl_passes
  <2>2. /\ entry \in Room
        /\ entry.instance = rooms[r].instance /\ entry.epoch = rooms[r].epoch
    BY <2>1, RoomFlagged
  <2>3. rooms' = [rooms EXCEPT ![r] = entry]
    BY <1>9 DEF pending_room_ttl_passes
  <2> HIDE DEF entry
  <2>4. rooms'[r] = entry /\ \A s \in RoomId : s # r => rooms'[s] = rooms[s]
    BY <2>3 DEF RoomTable
  <2>5. RoomsOnward(rooms, instances)
    BY KeptOnward
  <2>6. RoomsOnward(rooms', instances)
    BY <2>1, <2>2, <2>4, <2>5 DEF RoomsOnward
  <2>7. Onward
    BY <1>9, <2>6 DEF pending_room_ttl_passes, Onward, Stay
  <2> QED
    BY <2>7, OnwardKeeps
<1>10. CASE UNCHANGED <<rooms, instances, tickets, clients, revoked>>
  BY <1>1, <1>10 DEF Stay
<1>11. CASE ClockStep
  BY <1>8, <1>9, <1>10, <1>11 DEF ClockStep, ticket_expires
<1>12. CASE UNCHANGED vars
  BY <1>10, <1>12 DEF vars
<1>13. CASE JoinStep
  BY <1>2, <1>3, <1>13 DEF JoinStep
<1> QED
  BY <1>5, <1>6, <1>7, <1>11, <1>12, <1>13, RoomStepKeepsOut, AdminStepKeepsOut DEF Next

\* A participant an admin has kicked, or whose room an admin has closed, is
\* never admitted again with the ticket it held.
THEOREM RemovedNeverReturn == Spec => []RemovedStayOut
<1>1. Init => RevokedInv
  BY DEF Init, RevokedInv, InstancesDrawn, TicketsBehind, SessionsTicketed, RemovedStayOut
<1>2. RevokedInv => RemovedStayOut
  BY DEF RevokedInv
<1> QED
  BY <1>1, <1>2, TypeCorrect, TicketsHeld, RevokedStep, PTL DEF Spec
=============================================================================
