---------------------------- MODULE MCRoomServer ----------------------------
(* Small instances of RoomServer for TLC.                                   *)
EXTENDS RoomServer, TLC

Symmetry ==
    Permutations(Endpoint) \cup Permutations(Profile) \cup Permutations(RoomId)
        \cup Permutations(Instance) \cup Permutations(Ticket)
        \cup Permutations(Commitment)
=============================================================================
