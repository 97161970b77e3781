--------------------------- MODULE MCRoomProgress ---------------------------
(***************************************************************************)
(* How a client gets into a room and comes to hear it: the session, the    *)
(* keys and the window, on small instances.  Each is checked by itself     *)
(* under the fairness its module states: part says which one runs, and the *)
(* others stay as they began.                                              *)
(***************************************************************************)
EXTENDS Naturals

CONSTANT None  \* no room: a model value

VARIABLES
    part,  \* the part that runs
    \* ClientSession
    receiving, outbound, endpoint, socket, slots, asked, confirmed, removed,
    posted, rebindPosted, io, ui, target, member, toServer, toClient, starts,
    rebinds, session_events,
    \* KeyHandoff
    epoch, mode, committed, members, kicked, client, job, requests, joined,
    net, losses,
    \* RoomWindow
    w, version, jobs, invites, window_events

Session == INSTANCE ClientSession WITH
    Slots <- {"s1"}, MaxStarts <- 1, MaxRebinds <- 1, MaxEvents <- 1,
    MaxFlying <- 1, events <- session_events

Keys == INSTANCE KeyHandoff WITH
    Clients <- {"a", "c"}, Admin <- "a", Present <- {"a"}, MaxRotations <- 1,
    MaxLosses <- 1

Window == INSTANCE RoomWindow WITH
    Rooms <- {"A", "B"}, Approving <- {"B"}, MaxJobs <- 1, MaxInvites <- 1,
    MaxEvents <- 1, events <- window_events

\* The instance meets what the proofs about KeyHandoff assume.
ASSUME InstancesFit == Keys!HandoffAssumption

sessionVars ==
    <<receiving, outbound, endpoint, socket, slots, asked, confirmed, removed,
      posted, rebindPosted, io, ui, target, member, toServer, toClient,
      starts, rebinds, session_events>>
keysVars ==
    <<epoch, mode, committed, members, kicked, client, job, requests, joined,
      net, losses>>
windowVars == <<w, version, jobs, invites, window_events>>

vars == <<part, sessionVars, keysVars, windowVars>>

Init ==
    /\ part \in {"session", "keys", "window"}
    /\ Session!Init /\ Keys!Init /\ Window!Init
    \* a part that does not run begins in one of its initial states
    /\ part # "keys" => mode = "open"

Next ==
    \/ /\ part = "session" /\ Session!Next
       /\ UNCHANGED <<part, keysVars, windowVars>>
    \/ /\ part = "keys" /\ Keys!Next
       /\ UNCHANGED <<part, sessionVars, windowVars>>
    \/ /\ part = "window" /\ Window!Next
       /\ UNCHANGED <<part, sessionVars, keysVars>>

(***************************************************************************)
(* The fairness of the parts, put together, as part never changes:         *)
(* WeakStep(i) is the i-th step of the part that runs which is taken once  *)
(* it stays enabled, StrongStep(i) the i-th which is taken when it is      *)
(* enabled again and again.                                                *)
(***************************************************************************)
partVars ==
    CASE part = "session" -> sessionVars
      [] part = "keys" -> keysVars
      [] part = "window" -> windowVars

SessionStep(i) ==
    \/ i = 1 /\ (Session!Connect \/ Session!Rebind \/ Session!Handle)
    \/ i = 2 /\ Session!Leave
    \/ i = 3 /\ Session!begin_rebind
    \/ i = 4 /\ Session!run_posted
    \/ i = 5 /\ Session!alive_timer_callback
    \/ i = 6 /\ Session!on_receive("s1")
    \/ i = 7 /\ \E m \in toServer : Session!serve_join(m)
    \/ i = 8 /\ \E m \in toServer : Session!serve_alive(m)
    \/ i = 9 /\ \E m \in toServer : Session!serve_leave(m)

KeysStep(i) ==
    \/ i = 1 /\ Keys!retry_pending_key_handoffs("a")
    \/ i = 2 /\ Keys!retry_pending_key_handoffs("c")
    \/ i = 3 /\ Keys!handle_room_admin_request
    \/ i = 4 /\ Keys!rotate_media_key
    \/ i = 5 /\ Keys!apply_room_admin_result
    \/ i = 6 /\ \E m \in net : Keys!Arrives(m, "info")
    \/ i = 7 /\ \E m \in net : Keys!Arrives(m, "ack")
    \/ i = 8 /\ \E m \in net : Keys!Arrives(m, "rotation")
    \/ i = 9 /\ \E m \in net : m.to = "a" /\ Keys!Arrives(m, "envelope")
    \/ i = 10 /\ \E m \in net : m.to = "c" /\ Keys!Arrives(m, "envelope")

WindowStep(i) ==
    \/ i = 1 /\ Window!browser_timer(TRUE)
    \/ i = 2 /\ Window!run_posted
    \/ i = 3 /\ Window!finish_listing(TRUE)
    \/ i = 4 /\ Window!get_ticket
    \/ i = 5 /\ Window!join_room

WeakStep(i) ==
    /\ part' = part
    /\ \/ part = "session" /\ SessionStep(i)
       \/ part = "keys" /\ KeysStep(i)
       \/ part = "window" /\ WindowStep(i)

StrongStep(i) ==
    /\ part' = part /\ part = "session"
    /\ Session!deliver(<<"JOIN_ACK", "JOIN_REQUIRED">>[i], "s1")

Spec ==
    /\ Init /\ [][Next]_vars
    /\ \A i \in 1 .. 10 : WF_partVars(WeakStep(i))
    /\ \A i \in 1 .. 2 : SF_partVars(StrongStep(i))

----------------------------------------------------------------------------
TypeOK ==
    /\ part = "session" => Session!TypeOK
    /\ part = "keys" => Keys!TypeOK
    /\ part = "window" => Window!TypeOK

\* Every receive slot listens, and only datagrams of the present socket are
\* handled (ClientSession); a session has a window that shows it (RoomWindow);
\* every part's variables have their types.
HandledAreCurrent ==
    /\ TypeOK
    /\ part = "session" => Session!HandledAreCurrent
    /\ part = "window" => Window!SessionIsAttended

\* A client asked to be in a room is confirmed in the end (ClientSession).
SessionSettles == Session!SessionSettles

\* A removed participant learns no key committed to after its removal, and the
\* keys in use are the committed ones (KeyHandoff).
RemovedLearnNothing == part = "keys" => Keys!RemovedLearnNothing

\* Everyone in an open room comes to have its current key (KeyHandoff).
KeyReachesEveryone == Keys!KeyReachesEveryone

\* An invite is answered in the end (RoomWindow).
InviteIsAnswered == Window!InviteIsAnswered

=============================================================================
