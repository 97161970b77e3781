-------------------------- MODULE ParticipantTable --------------------------
(***************************************************************************)
(* ParticipantManager (src/client/participant_manager.h): the other        *)
(* members of the room, changed by the network thread and read without a   *)
(* lock by the audio callback and by the window.                           *)
(*                                                                         *)
(* A reader works on the snapshot it loaded.  A participant that leaves is *)
(* parked in the graveyard, a replaced audio snapshot among the retired    *)
(* ones, and both are freed by the network thread when nobody else refers  *)
(* to them.  The references a shared_ptr counts are those of this state.   *)
(***************************************************************************)
EXTENDS Integers, FiniteSets

CONSTANTS
    Ids,          \* participant ids the server hands out
    MaxRegister,  \* how often a participant is registered
    None
NoneIsNoObject == None \notin 0..MaxRegister*2

VARIABLES
    participants,  \* participants_: [Ids -> Object or None]
    pending,       \* ids with pending_metadata_
    named,         \* objects with the metadata of their participant
    created,       \* objects created so far
    graveyard,     \* graveyard_: objects
    published,     \* audio_snapshot_: [serial, of: objects]
    retired,       \* retired_audio_snapshots_; aged: RETIRED_SNAPSHOT_MIN_AGE old
    info,          \* info_participant_snapshot_
    names,         \* metadata_snapshot_: the objects it was made from
    callback,      \* the snapshot for_each runs over in the callback, or None
    window,        \* the snapshot get_all_info reads, or None
    freed          \* objects destroyed

tableVars == <<participants, pending, named, created, graveyard, published, retired, info, names,
               callback, window, freed>>
Object == 1..MaxRegister
Members == {participants[i] : i \in Ids} \ {None}
ObjectsOf(snapshot) == IF snapshot = None THEN {} ELSE snapshot.of

Init ==
    /\ participants = [i \in Ids |-> None] /\ pending = {} /\ named = {} /\ created = 0
    /\ graveyard = {} /\ published = [serial |-> 0, of |-> {}] /\ retired = {}
    /\ info = {} /\ names = {} /\ callback = None /\ window = None /\ freed = {}

\* publish_all_snapshots_locked, for the members of p and the names in n.
Publish(p, n) ==
    LET members == {p[i] : i \in Ids} \ {None}
    IN  /\ published' = [serial |-> published.serial + 1, of |-> members]
        /\ retired' = retired \cup {[snapshot |-> published, aged |-> FALSE]}
        /\ info' = members
        /\ names' = members \cap n

-----------------------------------------------------------------------------
(* The network thread                                                       *)

\* The first packet of a sender creates its decoder and its entry.
register_participant(i) ==
    /\ participants[i] = None /\ created < MaxRegister
    /\ created' = created + 1
    /\ participants' = [participants EXCEPT ![i] = created']
    /\ named' = IF i \in pending THEN named \cup {created'} ELSE named
    /\ pending' = pending \ {i}
    /\ Publish(participants', named')
    /\ UNCHANGED <<graveyard, callback, window, freed>>

set_participant_metadata(i) ==
    /\ IF participants[i] # None
       THEN /\ named' = named \cup {participants[i]}
            /\ names' = Members \cap named'
            /\ UNCHANGED pending
       ELSE pending' = pending \cup {i} /\ UNCHANGED <<named, names>>
    /\ UNCHANGED <<participants, created, graveyard, published, retired, info, callback, window,
                   freed>>

\* remove_participant, remove_timed_out_participants and clear.
remove_participants(gone) ==
    /\ gone # {} /\ \A i \in gone : participants[i] # None
    /\ graveyard' = graveyard \cup {participants[i] : i \in gone}
    /\ participants' = [i \in Ids |-> IF i \in gone THEN None ELSE participants[i]]
    /\ Publish(participants', named)
    /\ UNCHANGED <<pending, named, created, callback, window, freed>>

age_retired ==
    /\ \E r \in retired : ~r.aged
    /\ retired' = {[r EXCEPT !.aged = TRUE] : r \in retired}
    /\ UNCHANGED <<participants, pending, named, created, graveyard, published, info, names,
                   callback, window, freed>>

\* Mutant: an old snapshot is freed while the callback runs over it.
reap_snapshots_by_age ==
    /\ \E r \in retired : r.aged
    /\ retired' = {r \in retired : ~r.aged}
    /\ UNCHANGED <<participants, pending, named, created, graveyard, published, info, names,
                   callback, window, freed>>

reap_snapshots ==
    LET unused == {r \in retired : r.aged /\ callback # r.snapshot}
    IN  /\ unused # {}
        /\ retired' = retired \ unused
        /\ UNCHANGED <<participants, pending, named, created, graveyard, published, info, names,
                       callback, window, freed>>

\* Objects the graveyard shares with a snapshot somebody holds.
Referenced ==
    published.of \cup UNION {r.snapshot.of : r \in retired} \cup info
        \cup ObjectsOf(callback) \cup ObjectsOf(window) \cup Members

\* Mutant: the snapshot of the window is not counted.
reap_graveyard_past_window ==
    LET unused == graveyard \ (published.of \cup UNION {r.snapshot.of : r \in retired})
    IN  /\ unused # {}
        /\ graveyard' = graveyard \ unused /\ freed' = freed \cup unused
        /\ UNCHANGED <<participants, pending, named, created, published, retired, info, names,
                       callback, window>>

reap_graveyard ==
    /\ graveyard \ Referenced # {}
    /\ graveyard' = graveyard \cap Referenced
    /\ freed' = freed \cup (graveyard \ Referenced)
    /\ UNCHANGED <<participants, pending, named, created, published, retired, info, names,
                   callback, window>>

-----------------------------------------------------------------------------
(* The readers                                                              *)

begin_for_each ==
    /\ callback = None
    /\ callback' = published
    /\ UNCHANGED <<participants, pending, named, created, graveyard, published, retired, info,
                   names, window, freed>>
end_for_each ==
    /\ callback # None
    /\ callback' = None
    /\ UNCHANGED <<participants, pending, named, created, graveyard, published, retired, info,
                   names, window, freed>>

begin_get_all_info ==
    /\ window = None
    /\ window' = [serial |-> 0, of |-> info]
    /\ UNCHANGED <<participants, pending, named, created, graveyard, published, retired, info,
                   names, callback, freed>>
end_get_all_info ==
    /\ window # None
    /\ window' = None
    /\ UNCHANGED <<participants, pending, named, created, graveyard, published, retired, info,
                   names, callback, freed>>

Next ==
    \/ \E i \in Ids : register_participant(i) \/ set_participant_metadata(i)
    \/ \E gone \in SUBSET Ids : remove_participants(gone)
    \/ age_retired \/ reap_snapshots \/ reap_graveyard
    \/ begin_for_each \/ end_for_each \/ begin_get_all_info \/ end_get_all_info
Spec == Init /\ [][Next]_tableVars

-----------------------------------------------------------------------------
(* Properties                                                               *)

TypeOK ==
    /\ participants \in [Ids -> Object \cup {None}] /\ pending \subseteq Ids
    /\ named \subseteq Object /\ created \in 0..MaxRegister
    /\ graveyard \subseteq Object /\ freed \subseteq Object
    /\ published.of \subseteq Object /\ info \subseteq Object /\ names \subseteq info

\* Nobody reads a participant that was destroyed, and the audio callback is
\* never the last owner of the snapshot it runs over: giving it back frees
\* nothing on the audio thread.
ReadersHoldLiveData ==
    /\ freed \cap (Members \cup ObjectsOf(callback) \cup ObjectsOf(window)) = {}
    /\ callback \in {None, published} \cup {r.snapshot : r \in retired}

=============================================================================
