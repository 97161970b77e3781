----------------------------- MODULE KeyHandoff -----------------------------
(***************************************************************************)
(* How a room's media secret reaches its participants.  The admin's window *)
(* asks the server to commit the room to a new secret (an admin request,   *)
(* answered once and never sent again), and its client then hands the      *)
(* secret on: as a rotation sealed with the old key, and as an envelope    *)
(* for each participant, sent again until it is acknowledged.  Any client  *)
(* that has the secret hands it to newcomers.  The server relays both, if  *)
(* they name the epoch and the commitment it holds.                        *)
(* (client_runtime.cpp, juce_mixer_component.cpp, server.cpp.)             *)
(*                                                                         *)
(* A secret is a number, 0 for none; its commitment is told apart exactly  *)
(* as the secret is, and a sealed message opens with the secret it was     *)
(* sealed with.                                                            *)
(***************************************************************************)
EXTENDS Integers, FiniteSets

CONSTANTS Clients,
          Admin,          \* the client of the room's creator
          Present,        \* the clients in the room at the start, with its secret
          MaxRotations,   \* bound: admin requests
          MaxLosses       \* bound: messages lost

HandoffAssumption ==
    /\ Admin \in Clients /\ Present \subseteq Clients
    /\ MaxRotations \in Nat

VARIABLES epoch,          \* server: the room's access_epoch
          mode,           \* server: its access mode; "open" stands for PASSWORD too
          committed,      \* server: the secret committed to at each epoch so far
          members,        \* server: the participants of the room
          kicked,         \* per client, the epoch begun by its removal, or 0
          client,         \* per client, its join_session_ and handoff state
          job,            \* the admin request of the window
          requests,       \* admin requests made
          joined,         \* clients that have been in the room
          net,            \* messages on their way
          losses

vars == <<epoch, mode, committed, members, kicked, client, job, requests, joined,
          net, losses>>

Epochs == 1 .. MaxRotations + 1
Secrets == 0 .. MaxRotations + 1
Modes == {"open", "approve"}
NoJob == [step |-> "none"]

\* A sealed message to the server or on from it; an info or leave notice.
Sealed(kind, hop, from, to, e, secret, under) ==
    [kind |-> kind, hop |-> hop, from |-> from, to |-> to, epoch |-> e,
     secret |-> secret, under |-> under]
Notice(kind, about, to) == [kind |-> kind, about |-> about, to |-> to]

Init ==
    /\ epoch = 1 /\ committed = [e \in Epochs |-> IF e = 1 THEN 1 ELSE 0]
    /\ mode \in Modes
    /\ members = Present /\ joined = Present
    /\ kicked = [c \in Clients |-> 0]
    /\ client = [c \in Clients |->
          [epoch |-> IF c \in Present THEN 1 ELSE 0,
           expects |-> IF c \in Present THEN 1 ELSE 0,   \* media_key_commitment
           secret |-> IF c \in Present THEN 1 ELSE 0,
           mode |-> mode,
           known |-> IF c \in Present THEN Present \ {c} ELSE {},
           waiting |-> {},       \* pending_access_requests_
           pending |-> {}]]      \* pending_key_handoff_acks_
    /\ job = NoJob /\ requests = 0
    /\ net = {} /\ losses = 0

(***************************************************************************)
(* The client's state and what it sends.                                   *)
(***************************************************************************)

\* send_media_key_envelope_to_participant_on_io: possible with a secret and
\* the participant's public key.
CanSend(s, p) == s.secret # 0 /\ p \in s.known
Envelope(c, s, p) == Sealed("envelope", "up", c, p, s.epoch, s.secret, 0)

\* A plausible slip: the handoff is not kept for a retry.
Queued_once(s, ps) == s
\* queue_media_key_handoff_on_io, for each of a set of participants.
Queued(s, ps) == [s EXCEPT !.pending = (@ \ ps) \cup {p \in ps : CanSend(s, p)}]
Envelopes(c, s, ps) == {Envelope(c, s, p) : p \in {q \in ps : CanSend(s, q)}}

\* apply_media_secret_rotation: refused for an earlier epoch, for the present
\* one if there is a secret already, and for a commitment other than the
\* present epoch's.  (The secret always matches the commitment it comes with.)
Applies(s, e, secret) ==
    /\ e >= s.epoch
    /\ e = s.epoch => s.secret = 0 /\ secret = s.expects

Rotated(s, e, secret) == [s EXCEPT !.secret = secret, !.epoch = e, !.expects = secret]

\* retry_pending_key_handoffs_on_io.  (Bound: envelopes are not sent again while
\* one of this client's, or an acknowledgement for it, is still on its way.)
retry_pending_key_handoffs(c) ==
    /\ Envelopes(c, client[c], client[c].pending) # {}
    /\ \A m \in net : /\ m.kind = "envelope" => m.from # c
                      /\ m.kind = "ack" => m.to # c
    /\ net' = net \cup Envelopes(c, client[c], client[c].pending)
    /\ UNCHANGED <<epoch, mode, committed, members, kicked, client, job, requests,
                   joined, losses>>

\* remember_participant_key: where the room asks for approval, a participant
\* with the secret lists the newcomer as waiting for it.
Remembered(s, p) ==
    [s EXCEPT !.known = @ \cup {p},
              !.waiting = IF s.mode = "approve" /\ s.secret # 0 THEN @ \cup {p} ELSE @]

\* PARTICIPANT_INFO: remember_participant_key, then maybe_auto_share_media_key.
receive_info(m) ==
    /\ m \in net /\ m.kind = "info"
    /\ LET s == Remembered(client[m.to], m.about)
       IN  IF s.mode = "approve"
           THEN /\ client' = [client EXCEPT ![m.to] = s]
                /\ net' = net \ {m}
           ELSE /\ client' = [client EXCEPT ![m.to] = Queued(s, {m.about})]
                /\ net' = (net \ {m}) \cup Envelopes(m.to, s, {m.about})
    /\ UNCHANGED <<epoch, mode, committed, members, kicked, job, requests, joined,
                   losses>>

\* PARTICIPANT_LEAVE: remove_participant.
receive_leave(m) ==
    /\ m \in net /\ m.kind = "leave"
    /\ net' = net \ {m}
    /\ client' = [client EXCEPT ![m.to].known = @ \ {m.about},
                                ![m.to].waiting = @ \ {m.about},
                                ![m.to].pending = @ \ {m.about}]
    /\ UNCHANGED <<epoch, mode, committed, members, kicked, job, requests, joined,
                   losses>>

\* approve_waiting_participant: the admin lets a waiting participant have the
\* secret.
approve_waiting_participant(p) ==
    /\ p \in client[Admin].waiting
    /\ CanSend(client[Admin], p)
    /\ client' = [client EXCEPT ![Admin] =
                    [Queued(client[Admin], {p}) EXCEPT !.waiting = @ \ {p}]]
    /\ net' = net \cup Envelopes(Admin, client[Admin], {p})
    /\ UNCHANGED <<epoch, mode, committed, members, kicked, job, requests, joined,
                   losses>>

\* send_key_handoff_ack_on_io
Ack(m) == Sealed("ack", "up", m.to, m.from, m.epoch, m.secret, 0)

\* handle_e2e_key_envelope: the secret is applied, and acknowledged if it is
\* now, or was already, the secret in use.
receive_envelope(m) ==
    /\ m \in net /\ m.kind = "envelope" /\ m.hop = "down"
    /\ LET s == client[m.to]
           applied == Applies(s, m.epoch, m.secret)
           already == m.epoch = s.epoch /\ m.secret = s.expects /\ m.secret = s.secret
       IN  /\ client' = IF applied
                        THEN [client EXCEPT ![m.to] = Rotated(s, m.epoch, m.secret)]
                        ELSE client
           /\ net' = (net \ {m}) \cup
                     (IF applied \/ already THEN {Ack(m)} ELSE {})
    /\ UNCHANGED <<epoch, mode, committed, members, kicked, job, requests, joined,
                   losses>>

\* ROOM_KEY_HANDOFF_ACK: for the epoch and the commitment in use.
receive_ack(m) ==
    /\ m \in net /\ m.kind = "ack" /\ m.hop = "down"
    /\ net' = net \ {m}
    /\ client' = IF m.epoch = client[m.to].epoch /\ m.secret = client[m.to].expects
                 THEN [client EXCEPT ![m.to].pending = @ \ {m.from}]
                 ELSE client
    /\ UNCHANGED <<epoch, mode, committed, members, kicked, job, requests, joined,
                   losses>>

\* handle_secure_control_message: a rotation opens with the key in use only.
receive_rotation(m) ==
    /\ m \in net /\ m.kind = "rotation" /\ m.hop = "down"
    /\ net' = net \ {m}
    /\ LET s == client[m.to]
       IN  client' = IF s.secret = m.under /\ Applies(s, m.epoch, m.secret)
                     THEN [client EXCEPT ![m.to] = Rotated(s, m.epoch, m.secret)]
                     ELSE client
    /\ UNCHANGED <<epoch, mode, committed, members, kicked, job, requests, joined,
                   losses>>

(***************************************************************************)
(* The server: joining, and relaying what names its epoch and commitment.  *)
(***************************************************************************)

\* A ticket of the present epoch, a JOIN with it, the notices it causes.
join(c) ==
    /\ c \notin joined
    /\ joined' = joined \cup {c} /\ members' = members \cup {c}
    /\ client' = [client EXCEPT ![c].epoch = epoch, ![c].expects = committed[epoch],
                                ![c].mode = mode]
    /\ net' = net \cup {Notice("info", c, m) : m \in members}
                  \cup {Notice("info", m, c) : m \in members}
    /\ UNCHANGED <<epoch, mode, committed, kicked, job, requests, losses>>

\* handle_e2e_key_envelope, handle_room_key_handoff_ack and
\* handle_secure_control_message: the sender is in the room and names the
\* room's epoch and commitment; the target, or every other participant, is in
\* the room.
relay_if(m, allowed) ==
    /\ m \in net /\ m.kind \in {"envelope", "ack", "rotation"} /\ m.hop = "up"
    /\ net' = (net \ {m}) \cup
         (IF allowed
          THEN {[m EXCEPT !.hop = "down", !.to = t] :
                  t \in IF m.kind = "rotation" THEN members \ {m.from} ELSE {m.to}}
          ELSE {})
    /\ UNCHANGED <<epoch, mode, committed, members, kicked, client, job, requests,
                   joined, losses>>

Authorized(m) ==
    m.from \in members /\ m.epoch = epoch /\ m.secret = committed[epoch]

\* A plausible slip: the target's place in the room is not looked at.
relay_to_anyone(m) == relay_if(m, Authorized(m))

relay(m) ==
    relay_if(m, Authorized(m) /\ (m.kind # "rotation" => m.to \in members))

(***************************************************************************)
(* The admin request: run_room_admin_command on a thread of the window.    *)
(***************************************************************************)

\* The new secret is chosen and the request sent, to remove `target', or, with
\* Admin as the target, to change the access mode (to the present one when only
\* the key or the password is replaced).
start_room_admin_job(target, to) ==
    /\ job = NoJob /\ requests < MaxRotations
    /\ client[Admin].secret # 0
    /\ target # Admin => to = mode
    /\ requests' = requests + 1
    /\ job' = [step |-> "asked", secret |-> requests + 2, target |-> target, mode |-> to]
    /\ UNCHANGED <<epoch, mode, committed, members, kicked, client, joined, net,
                   losses>>

\* handle_room_admin_request: the participant is removed, the room's epoch
\* advanced and the commitment replaced, in one handler; nothing is done if
\* there is no such participant.
handle_room_admin_request ==
    /\ job.step = "asked"
    /\ IF job.target \notin members
       THEN /\ job' = NoJob
            /\ UNCHANGED <<epoch, mode, committed, members, kicked, net>>
       ELSE LET gone == {job.target} \ {Admin}
            IN  /\ epoch' = epoch + 1 /\ mode' = job.mode
                /\ committed' = [committed EXCEPT ![epoch + 1] = job.secret]
                /\ members' = members \ gone
                /\ kicked' = [c \in Clients |-> IF c \in gone THEN epoch + 1 ELSE kicked[c]]
                /\ net' = net \cup {Notice("leave", g, m) : g \in gone, m \in members \ gone}
                /\ job' = [step |-> "served", secret |-> job.secret, epoch |-> epoch + 1,
                           mode |-> job.mode]
    /\ UNCHANGED <<client, requests, joined, losses>>

\* The answer arrives and rotate_media_key_on_io_context runs: the rotation
\* sealed with the old key, the new secret applied, an envelope queued for
\* every participant known.
rotate_media_key ==
    /\ job.step = "served"
    /\ LET s == client[Admin]
           now == Rotated(s, job.epoch, job.secret)
       IN  /\ client' = [client EXCEPT ![Admin] = Queued(now, s.known)]
           /\ net' = net \cup Envelopes(Admin, now, s.known) \cup
                {Sealed("rotation", "up", Admin, Admin, job.epoch, job.secret, s.secret)}
    /\ job' = [step |-> "rotated", mode |-> job.mode]
    /\ UNCHANGED <<epoch, mode, committed, members, kicked, requests, joined, losses>>

\* The window's timer takes the result: set_room_access_mode, which hands the
\* secret to everyone waiting unless the room still asks for approval.
apply_room_admin_result ==
    /\ job.step = "rotated"
    /\ job' = NoJob
    /\ LET s == client[Admin]
           served == IF job.mode = "approve" THEN {} ELSE {p \in s.waiting : CanSend(s, p)}
       IN  /\ client' = [client EXCEPT ![Admin] =
                           [Queued(s, served) EXCEPT !.mode = job.mode,
                                                     !.waiting = @ \ served]]
           /\ net' = net \cup Envelopes(Admin, s, served)
    /\ UNCHANGED <<epoch, mode, committed, members, kicked, requests, joined, losses>>

\* No answer within the deadline: the window gives up, whether the request was
\* lost or its answer, and forgets the secret it chose.
server_did_not_respond ==
    /\ job.step \in {"asked", "served"} /\ losses < MaxLosses
    /\ losses' = losses + 1
    /\ job' = NoJob
    /\ UNCHANGED <<epoch, mode, committed, members, kicked, client, requests, joined,
                   net>>

lose(m) ==
    /\ m \in net /\ losses < MaxLosses /\ m.kind \in {"envelope", "ack", "rotation"}
    /\ losses' = losses + 1
    /\ net' = net \ {m}
    /\ UNCHANGED <<epoch, mode, committed, members, kicked, client, job, requests,
                   joined>>

Receive(m) == receive_info(m) \/ receive_leave(m) \/ receive_envelope(m)
              \/ receive_ack(m) \/ receive_rotation(m)

Next ==
    \/ \E c \in Clients : join(c) \/ retry_pending_key_handoffs(c)
                          \/ \E to \in Modes : start_room_admin_job(c, to)
    \/ \E p \in Clients \ {Admin} : approve_waiting_participant(p)
    \/ \E m \in net : Receive(m) \/ relay(m) \/ lose(m)
    \/ handle_room_admin_request \/ rotate_media_key
    \/ apply_room_admin_result \/ server_did_not_respond

Spec == Init /\ [][Next]_vars

Arrives(m, kind) == m.kind = kind /\ (relay(m) \/ Receive(m))

\* The timers fire, and messages that are not lost arrive: some of each kind,
\* and some envelope for each client, as envelopes are sent again and again.
Fairness ==
    /\ \A c \in Clients : WF_vars(retry_pending_key_handoffs(c))
    /\ \A k \in {"info", "ack", "rotation"} : WF_vars(\E m \in net : Arrives(m, k))
    /\ \A c \in Clients : WF_vars(\E m \in net : m.to = c /\ Arrives(m, "envelope"))
    /\ WF_vars(handle_room_admin_request) /\ WF_vars(rotate_media_key)
    /\ WF_vars(apply_room_admin_result)

FairSpec == Spec /\ Fairness

----------------------------------------------------------------------------
\* The variables have their types.
TypeOK ==
    /\ epoch \in Epochs /\ committed \in [Epochs -> Secrets]
    /\ mode \in Modes
    /\ members \subseteq Clients /\ joined \subseteq Clients
    /\ kicked \in [Clients -> 0 .. MaxRotations + 1]
    /\ client \in [Clients -> [epoch : {0} \cup Epochs, expects : Secrets,
                               secret : Secrets, mode : Modes, known : SUBSET Clients,
                               waiting : SUBSET Clients, pending : SUBSET Clients]]
    /\ job.step \in {"none", "asked", "served", "rotated"}
    /\ requests \in 0 .. MaxRotations /\ losses \in 0 .. MaxLosses

\* The secret a client uses is the one the server committed the room to at the
\* client's epoch, whatever rotations and envelopes crossed on the way
\* (apply_media_secret_rotation with the server's checks on what it relays).
KeysAreCommitted ==
    \A c \in Clients : client[c].secret # 0 => client[c].secret = committed[client[c].epoch]

\* A participant the admin removed never gets a secret committed to at or
\* after its removal.
RemovedLearnNothing ==
    /\ KeysAreCommitted
    /\ \A c \in Clients : kicked[c] # 0 => client[c].epoch < kicked[c]

\* Without approval, every participant comes to have the room's secret as long
\* as some participant has it: lost rotations, envelopes and acknowledgements
\* only delay it (the handoff is retried until it is acknowledged).
KeyReachesEveryone ==
    \A c \in Clients :
        (c \in members /\ mode = "open") ~>
            \/ c \notin members \/ mode = "approve"
            \/ client[c].secret = committed[epoch]
            \/ \A m \in members : client[m].secret # committed[epoch]

=============================================================================
