----------------------------- MODULE MCRoomChat -----------------------------
(* Small instances of RoomChat for TLC.                                     *)
EXTENDS RoomChat, TLC

Symmetry == Permutations(Member) \cup Permutations(Nonce)
=============================================================================
