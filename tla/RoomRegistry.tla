---------------------------- MODULE RoomRegistry ----------------------------
(***************************************************************************)
(* The room table of the server (src/server/room_registry.h).  Every       *)
(* operation of the registry is an operator on the table: a predicate for  *)
(* the checks that precede its effect, and the table it leaves behind.     *)
(* Handlers of the server (module RoomServer) chain several of them in one *)
(* step, which is why the table is an argument and not a variable here.    *)
(*                                                                         *)
(* Chat history, which the registry also stores, is module RoomChat.       *)
(***************************************************************************)
EXTENDS Naturals

CONSTANTS
    RoomId,      \* room ids clients may ask for
    Instance,    \* random room instance ids; each is drawn at most once
    AccessMode,  \* access modes in use
    Password,    \* password hashes
    Commitment,  \* well-formed media key commitments
    Nil          \* "no value": an absent table entry, an empty string

ASSUME AccessModeAssumption ==
    /\ {"open"} \subseteq AccessMode
    /\ AccessMode \subseteq {"open", "password", "approve"}
    /\ Password # {} => "password" \in AccessMode

(***************************************************************************)
(* A room.  The admin token is as fresh as the instance id and drawn in    *)
(* the same step, so the token of instance i is written i.  Of created_at  *)
(* only the answer to "older than EMPTY_PENDING_ROOM_TTL?" is kept.        *)
(***************************************************************************)
Room == [instance       : Instance,
         admin          : Instance \cup {Nil},
         mode           : AccessMode,
         password       : Password \cup {Nil},
         commitment     : Commitment,
         epoch          : Nat \ {0},
         everJoined     : BOOLEAN,
         pendingExpired : BOOLEAN]

ASSUME NilRoomAssumption == Nil \notin Instance \cup Password \cup Room

-----------------------------------------------------------------------------
can_create_room(rooms, r, mode, pw) ==
    /\ rooms[r] = Nil
    /\ mode = "password" => pw # Nil

\* Mutant: the epoch of a new room is left at its default.
create_room_epoch_zero(rooms, r, i, mode, pw, c) ==
    [rooms EXCEPT ![r] =
        [instance |-> i, admin |-> i, mode |-> mode,
         password |-> IF mode = "password" THEN pw ELSE Nil,
         commitment |-> c, epoch |-> 0,
         everJoined |-> FALSE, pendingExpired |-> FALSE]]

create_room(rooms, r, i, mode, pw, c) ==
    [rooms EXCEPT ![r] =
        [instance |-> i, admin |-> i, mode |-> mode,
         password |-> IF mode = "password" THEN pw ELSE Nil,
         commitment |-> c, epoch |-> 1,
         everJoined |-> FALSE, pendingExpired |-> FALSE]]

\* A ticket without an instance id opens the room it names if need be; an
\* existing room must hold the same commitment.
can_ensure_open_room(rooms, r, c) ==
    rooms[r] # Nil => rooms[r].commitment = c

\* Mutant: an existing room is opened anew.
ensure_open_room_anew(rooms, r, i, c) ==
    [rooms EXCEPT ![r] =
        [instance |-> i, admin |-> Nil, mode |-> "open", password |-> Nil,
         commitment |-> c, epoch |-> 1,
         everJoined |-> TRUE, pendingExpired |-> FALSE]]

ensure_open_room(rooms, r, i, c) ==
    [rooms EXCEPT ![r] =
        IF rooms[r] # Nil
        THEN [rooms[r] EXCEPT !.everJoined = TRUE]
        ELSE [instance |-> i, admin |-> Nil, mode |-> "open", password |-> Nil,
              commitment |-> c, epoch |-> 1,
              everJoined |-> TRUE, pendingExpired |-> FALSE]]

authorize_join(rooms, r, pw) ==
    /\ rooms[r] # Nil
    /\ rooms[r].mode = "password" => pw = rooms[r].password

validate_claims(rooms, r, i, epoch, c) ==
    /\ rooms[r] # Nil
    /\ rooms[r].instance = i
    /\ rooms[r].epoch = epoch
    /\ rooms[r].commitment = c

authorizes_media_key(rooms, r, i, epoch, c) ==
    /\ rooms[r] # Nil
    /\ rooms[r].instance = i
    /\ rooms[r].epoch = epoch
    /\ rooms[r].commitment = c

authorize_admin(rooms, r, token) ==
    /\ rooms[r] # Nil
    /\ token # Nil
    /\ rooms[r].admin = token

-----------------------------------------------------------------------------
can_change_access_mode(rooms, r, token, mode, pw) ==
    /\ authorize_admin(rooms, r, token)
    /\ mode = "password" => pw # Nil

change_access_mode(rooms, r, mode, pw, c) ==
    [rooms EXCEPT ![r] =
        [rooms[r] EXCEPT !.mode = mode,
                         !.password = IF mode = "password" THEN pw ELSE Nil,
                         !.commitment = c,
                         !.epoch = rooms[r].epoch + 1]]

\* change_password picks the mode from the password and changes the access.
change_password(rooms, r, pw, c) ==
    change_access_mode(rooms, r, IF pw = Nil THEN "open" ELSE "password", pw, c)

\* Mutant: the commitment changes and the epoch does not.
rotate_commitment_only(rooms, r, c) ==
    [rooms EXCEPT ![r] = [@ EXCEPT !.commitment = c]]

rotate_access_epoch(rooms, r, c) ==
    [rooms EXCEPT ![r] =
        [rooms[r] EXCEPT !.commitment = c, !.epoch = rooms[r].epoch + 1]]

close_room(rooms, r) == [rooms EXCEPT ![r] = Nil]

mark_joined(rooms, r) ==
    IF rooms[r] = Nil
    THEN rooms
    ELSE [rooms EXCEPT ![r] = [@ EXCEPT !.everJoined = TRUE]]

\* Mutant: rooms nobody ever joined are kept.
remove_joined_empty_rooms(rooms, occupied) ==
    [r \in RoomId |->
        IF rooms[r] # Nil /\ r \notin occupied /\ rooms[r].everJoined
        THEN Nil
        ELSE rooms[r]]

\* occupied: the rooms that have a participant.
remove_empty_rooms(rooms, occupied) ==
    [r \in RoomId |->
        IF /\ rooms[r] # Nil
           /\ r \notin occupied
           /\ rooms[r].everJoined \/ rooms[r].pendingExpired
        THEN Nil
        ELSE rooms[r]]
=============================================================================
