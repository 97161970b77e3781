-------------------------- MODULE KeyHandoffProofs --------------------------
(***************************************************************************)
(* What a removed participant can learn: RemovedLearnNothing, and with it  *)
(* KeysAreCommitted, is an invariant of KeyHandoff for any set of clients  *)
(* and any number of rotations and lost messages.                          *)
(***************************************************************************)
EXTENDS KeyHandoff, TLAPS

ClientState ==
    [epoch : Nat, expects : Nat, secret : Nat, mode : Modes, known : SUBSET Clients,
     waiting : SUBSET Clients, pending : SUBSET Clients]

SealedMessage ==
    [kind : {"envelope", "ack", "rotation"}, hop : {"up", "down"}, from : Clients,
     to : Clients, epoch : Nat, secret : Nat, under : Nat]

Notices == [kind : {"info", "leave"}, about : Clients, to : Clients]

Jobs ==
    {NoJob} \cup [step : {"asked"}, secret : Nat, target : Clients, mode : Modes]
            \cup [step : {"served"}, secret : Nat, epoch : Nat, mode : Modes]
            \cup [step : {"rotated"}, mode : Modes]

HandoffTyped ==
    /\ epoch \in Epochs /\ committed \in [Epochs -> Nat] /\ mode \in Modes
    /\ members \subseteq joined /\ joined \subseteq Clients
    /\ kicked \in [Clients -> Nat]
    /\ client \in [Clients -> ClientState]
    /\ job \in Jobs
    /\ requests \in 0..MaxRotations
    /\ net \subseteq SealedMessage \cup Notices

\* A secret the server may have let through to client c, for epoch e.
Passed(c, e, secret) ==
    /\ e \in Epochs /\ e <= epoch /\ secret = committed[e]
    /\ kicked[c] # 0 => e < kicked[c]

\* What a client uses was let through, and one that never joined uses nothing.
ClientsInv ==
    \A c \in Clients :
        /\ client[c].epoch <= epoch
        /\ client[c].secret # 0 => c \in joined /\ Passed(c, client[c].epoch, client[c].secret)
        /\ kicked[c] # 0 => /\ c \in joined /\ c \notin members
                            /\ client[c].epoch < kicked[c]

\* So was every secret on its way down.
Carries(m) == m.kind \in {"envelope", "rotation"} /\ m.hop = "down"
NetInv == \A m \in net : Carries(m) => m.to \in joined /\ Passed(m.to, m.epoch, m.secret)

\* The admin is never removed, the server is committed to the secret it has
\* answered for, and there are epochs left for the request under way.
JobInv ==
    /\ kicked[Admin] = 0
    /\ job # NoJob => Admin \in joined
    /\ job.step = "served" => job.epoch = epoch /\ job.secret = committed[epoch]
    /\ epoch <= requests + 1
    /\ job.step = "asked" => epoch <= requests

HandoffInv == HandoffTyped /\ ClientsInv /\ NetInv /\ JobInv

----------------------------------------------------------------------------
\* The start is such a state.
LEMMA HandoffInvInit == ASSUME HandoffAssumption, Init PROVE HandoffInv
<1> USE DEF HandoffAssumption
<1>1. HandoffTyped
  BY DEF Init, HandoffTyped, Epochs, Modes, ClientState, Jobs
<1>2. ClientsInv
  BY DEF Init, ClientsInv, Passed, Epochs
<1>3. NetInv /\ JobInv
  BY DEF Init, NetInv, JobInv, NoJob
<1> QED
  BY <1>1, <1>2, <1>3 DEF HandoffInv

\* queue_media_key_handoff_on_io changes what is to be retried, nothing else.
LEMMA QueuedState ==
    ASSUME NEW s \in ClientState, NEW ps \in SUBSET Clients
    PROVE  /\ Queued(s, ps) \in ClientState
           /\ Queued(s, ps).epoch = s.epoch /\ Queued(s, ps).secret = s.secret
  BY DEF Queued, ClientState

\* remember_participant_key changes whom the client knows and lets wait.
LEMMA RememberedState ==
    ASSUME NEW s \in ClientState, NEW p \in Clients
    PROVE  /\ Remembered(s, p) \in ClientState
           /\ Remembered(s, p).epoch = s.epoch /\ Remembered(s, p).secret = s.secret
<1> DEFINE known == s.known \cup {p}
           waiting == IF s.mode = "approve" /\ s.secret # 0 THEN s.waiting \cup {p} ELSE s.waiting
<1>1. known \in SUBSET Clients /\ waiting \in SUBSET Clients
  BY DEF ClientState
<1>2. Remembered(s, p) = [s EXCEPT !.known = known, !.waiting = waiting]
  BY DEF Remembered
<1> HIDE DEF known, waiting
<1> QED
  BY <1>1, <1>2 DEF ClientState

\* remove_participant forgets a participant wherever it is noted.
LEMMA ForgottenState ==
    ASSUME NEW s \in ClientState, NEW p
    PROVE  LET t == [s EXCEPT !.known = @ \ {p}, !.waiting = @ \ {p}, !.pending = @ \ {p}]
           IN  t \in ClientState /\ t.epoch = s.epoch /\ t.secret = s.secret
<1> DEFINE known == s.known \ {p}
           waiting == s.waiting \ {p}
           pending == s.pending \ {p}
<1>1. {known, waiting, pending} \subseteq SUBSET Clients
  BY DEF ClientState
<1> HIDE DEF known, waiting, pending
<1>2. LET t == [s EXCEPT !.known = known, !.waiting = waiting, !.pending = pending]
      IN  t \in ClientState /\ t.epoch = s.epoch /\ t.secret = s.secret
  BY <1>1 DEF ClientState
<1> QED
  BY <1>2 DEF known, waiting, pending

\* What clients send goes to the server first.
LEMMA EnvelopesGoUp ==
    ASSUME NEW c \in Clients, NEW s \in ClientState, NEW ps \in SUBSET Clients
    PROVE  /\ Envelopes(c, s, ps) \subseteq SealedMessage
           /\ \A m \in Envelopes(c, s, ps) : ~Carries(m)
<1> SUFFICES ASSUME NEW p \in ps
             PROVE  Envelope(c, s, p) \in SealedMessage /\ ~Carries(Envelope(c, s, p))
  BY DEF Envelopes
<1> QED
  BY DEF Envelope, Sealed, SealedMessage, ClientState, Carries

----------------------------------------------------------------------------
\* The server's state, and so what has been let through, stays.
SameRoom == UNCHANGED <<epoch, committed, members, joined, kicked>>

\* Clients keep the secrets they use.
LEMMA ClientsKeep ==
    ASSUME HandoffInv, SameRoom,
           \A c \in Clients : /\ client'[c].epoch = client[c].epoch
                              /\ client'[c].secret = client[c].secret
    PROVE  ClientsInv'
  BY DEF HandoffInv, ClientsInv, SameRoom, Passed

\* Messages added on their way up carry nothing to anybody.
LEMMA NetKeeps ==
    ASSUME HandoffInv, SameRoom, \A m \in net' : m \in net \/ ~Carries(m)
    PROVE  NetInv'
  BY DEF HandoffInv, NetInv, SameRoom, Passed, Carries

\* One client takes a secret that was let through.
LEMMA ClientTakes ==
    ASSUME HandoffInv, SameRoom, NEW c \in Clients, NEW e \in Nat, NEW secret \in Nat,
           c \in joined, Passed(c, e, secret),
           \A d \in Clients \ {c} : client'[d] = client[d],
           client'[c].epoch = e, client'[c].secret = secret
    PROVE  ClientsInv'
  BY DEF HandoffInv, ClientsInv, SameRoom, Passed

\* Each step keeps the invariant.
LEMMA HandoffInvNext ==
    ASSUME HandoffAssumption, HandoffInv, [Next]_vars
    PROVE  HandoffInv'
<1>t. HandoffTyped /\ Admin \in Clients
  BY DEF HandoffInv, HandoffAssumption
<1>1. ASSUME NEW c \in Clients, join(c) PROVE HandoffInv'
  <2>1. /\ c \notin joined /\ joined' = joined \cup {c} /\ members' = members \cup {c}
        /\ UNCHANGED <<epoch, mode, committed, kicked, job, requests>>
    BY <1>1 DEF join
  <2>2. /\ client' \in [Clients -> ClientState]
        /\ \A d \in Clients \ {c} : client'[d] = client[d]
        /\ client'[c].epoch = epoch /\ client'[c].secret = client[c].secret
    <3> DEFINE s == client[c]
               t == [s EXCEPT !.epoch = epoch, !.expects = committed[epoch], !.mode = mode]
    <3>1. s \in ClientState /\ client \in [Clients -> ClientState]
      BY <1>t DEF HandoffTyped
    <3>2. epoch \in Nat /\ committed[epoch] \in Nat /\ mode \in Modes
      BY <1>t DEF HandoffTyped, Epochs
    <3>3. client' = [client EXCEPT ![c] = t]
      BY <1>1, <3>1 DEF join, ClientState
    <3>4. t \in ClientState /\ t.epoch = epoch /\ t.secret = s.secret
      BY <3>1, <3>2 DEF ClientState
    <3> HIDE DEF t
    <3> QED
      BY <3>1, <3>3, <3>4
  <2>3. net' \subseteq SealedMessage \cup Notices /\ \A m \in net' : m \in net \/ ~Carries(m)
    BY <1>t, <1>1 DEF join, HandoffTyped, Notice, Notices, Carries
  <2>4. HandoffTyped'
    BY <1>t, <2>1, <2>2, <2>3 DEF HandoffTyped
  <2>5. client[c].secret = 0 /\ kicked[c] = 0
    BY <2>1 DEF HandoffInv, ClientsInv
  <2>6. ClientsInv'
    BY <1>t, <2>1, <2>2, <2>5 DEF HandoffInv, HandoffTyped, ClientsInv, Passed, Epochs
  <2>7. NetInv'
    BY <2>1, <2>3 DEF HandoffInv, NetInv, Passed
  <2>8. JobInv'
    BY <2>1 DEF HandoffInv, JobInv
  <2> QED
    BY <2>4, <2>6, <2>7, <2>8 DEF HandoffInv
<1>2. ASSUME NEW c \in Clients, retry_pending_key_handoffs(c) PROVE HandoffInv'
  <2>1. SameRoom /\ UNCHANGED <<mode, client, job, requests>>
    BY <1>2 DEF retry_pending_key_handoffs, SameRoom
  <2>2. net' \subseteq SealedMessage \cup Notices /\ \A m \in net' : m \in net \/ ~Carries(m)
    BY <1>t, <1>2, EnvelopesGoUp DEF retry_pending_key_handoffs, HandoffTyped, ClientState
  <2> QED
    BY <1>t, <2>1, <2>2, ClientsKeep, NetKeeps DEF HandoffInv, HandoffTyped, JobInv, SameRoom
<1>3. ASSUME NEW c \in Clients, NEW to \in Modes, start_room_admin_job(c, to) PROVE HandoffInv'
  <2>1. /\ SameRoom /\ UNCHANGED <<mode, client, net>>
        /\ job = NoJob /\ requests < MaxRotations /\ client[Admin].secret # 0
        /\ requests' = requests + 1
        /\ job' = [step |-> "asked", secret |-> requests + 2, target |-> c, mode |-> to]
    BY <1>3 DEF start_room_admin_job, SameRoom
  <2>2. HandoffTyped'
    BY <1>t, <2>1 DEF HandoffTyped, SameRoom, Jobs, HandoffAssumption
  <2>3. JobInv'
    BY <1>t, <2>1 DEF HandoffInv, HandoffTyped, ClientsInv, JobInv, SameRoom, Epochs, HandoffAssumption
  <2> QED
    BY <2>1, <2>2, <2>3, ClientsKeep, NetKeeps DEF HandoffInv
<1>4. ASSUME NEW p \in Clients, approve_waiting_participant(p) PROVE HandoffInv'
  <2>1. SameRoom /\ UNCHANGED <<mode, job, requests>>
    BY <1>4 DEF approve_waiting_participant, SameRoom
  <2>2. /\ client' \in [Clients -> ClientState]
        /\ \A d \in Clients : client'[d].epoch = client[d].epoch /\ client'[d].secret = client[d].secret
    <3> DEFINE s == client[Admin]
               q == Queued(s, {p})
               t == [q EXCEPT !.waiting = @ \ {p}]
    <3>1. s \in ClientState /\ client \in [Clients -> ClientState]
      BY <1>t DEF HandoffTyped
    <3>2. q \in ClientState /\ q.epoch = s.epoch /\ q.secret = s.secret
      BY <3>1, QueuedState
    <3>3. client' = [client EXCEPT ![Admin] = t]
      BY <1>4, Zenon DEF approve_waiting_participant
    <3> HIDE DEF q
    <3>4. t \in ClientState /\ t.epoch = q.epoch /\ t.secret = q.secret
      BY <3>2 DEF ClientState
    <3> HIDE DEF t
    <3> QED
      BY <1>t, <3>1, <3>2, <3>3, <3>4
  <2>3. net' \subseteq SealedMessage \cup Notices /\ \A m \in net' : m \in net \/ ~Carries(m)
    BY <1>t, <1>4, EnvelopesGoUp DEF approve_waiting_participant, HandoffTyped
  <2> QED
    BY <1>t, <2>1, <2>2, <2>3, ClientsKeep, NetKeeps DEF HandoffInv, HandoffTyped, JobInv, SameRoom
<1>5. ASSUME NEW m \in net, receive_info(m) PROVE HandoffInv'
  <2>1. SameRoom /\ UNCHANGED <<mode, job, requests>>
    BY <1>5 DEF receive_info, SameRoom
  <2>2. m.to \in Clients /\ m.about \in Clients
    BY <1>t, <1>5 DEF receive_info, HandoffTyped, SealedMessage, Notices
  <2> DEFINE s == Remembered(client[m.to], m.about)
  <2>3. /\ s \in ClientState
        /\ s.epoch = client[m.to].epoch /\ s.secret = client[m.to].secret
    BY <1>t, <2>2, RememberedState DEF HandoffTyped
  <2>4. /\ client' \in {[client EXCEPT ![m.to] = s], [client EXCEPT ![m.to] = Queued(s, {m.about})]}
        /\ net' \subseteq net \cup Envelopes(m.to, s, {m.about})
    BY <1>5 DEF receive_info
  <2> HIDE DEF s
  <2>5. /\ client' \in [Clients -> ClientState]
        /\ \A d \in Clients : client'[d].epoch = client[d].epoch /\ client'[d].secret = client[d].secret
    BY <1>t, <2>2, <2>3, <2>4, QueuedState DEF HandoffTyped
  <2>6. net' \subseteq SealedMessage \cup Notices /\ \A n \in net' : n \in net \/ ~Carries(n)
    BY <1>t, <2>2, <2>3, <2>4, EnvelopesGoUp DEF HandoffTyped
  <2> QED
    BY <1>t, <2>1, <2>5, <2>6, ClientsKeep, NetKeeps DEF HandoffInv, HandoffTyped, JobInv, SameRoom
<1>6. ASSUME NEW m \in net, receive_leave(m) \/ receive_ack(m) PROVE HandoffInv'
  <2>1. SameRoom /\ UNCHANGED <<mode, job, requests>> /\ net' \subseteq net
    BY <1>6 DEF receive_leave, receive_ack, SameRoom
  <2>2. m.to \in Clients
    BY <1>t DEF HandoffTyped, SealedMessage, Notices
  <2>3. /\ client' \in [Clients -> ClientState]
        /\ \A d \in Clients : client'[d].epoch = client[d].epoch /\ client'[d].secret = client[d].secret
    <3>1. client \in [Clients -> ClientState]
      BY <1>t DEF HandoffTyped
    <3>2. CASE receive_leave(m)
      <4> DEFINE s == client[m.to]
                 t == [s EXCEPT !.known = @ \ {m.about}, !.waiting = @ \ {m.about},
                                !.pending = @ \ {m.about}]
      <4>1. client' = [client EXCEPT ![m.to] = t]
        BY <2>2, <3>1, <3>2 DEF receive_leave, ClientState
      <4>2. t \in ClientState /\ t.epoch = s.epoch /\ t.secret = s.secret
        BY <2>2, <3>1, ForgottenState
      <4> HIDE DEF t
      <4> QED
        BY <2>2, <3>1, <4>1, <4>2
    <3>3. CASE receive_ack(m)
      <4>1. client' \in {client, [client EXCEPT ![m.to].pending = @ \ {m.from}]}
        BY <3>3 DEF receive_ack
      <4> QED
        BY <2>2, <3>1, <4>1 DEF ClientState
    <3> QED
      BY <1>6, <3>2, <3>3
  <2> QED
    BY <1>t, <2>1, <2>3, ClientsKeep, NetKeeps DEF HandoffInv, HandoffTyped, JobInv, SameRoom
<1>7. ASSUME NEW m \in net, receive_envelope(m) \/ receive_rotation(m) PROVE HandoffInv'
  <2>1. /\ SameRoom /\ UNCHANGED <<mode, job, requests>>
        /\ Carries(m) /\ net' \subseteq net \cup {Ack(m)}
    BY <1>7 DEF receive_envelope, receive_rotation, SameRoom, Carries
  <2>2. m \in SealedMessage /\ Ack(m) \in SealedMessage /\ ~Carries(Ack(m))
    BY <1>t, <2>1 DEF HandoffTyped, SealedMessage, Notices, Carries, Ack, Sealed
  <2>3. m.to \in joined /\ Passed(m.to, m.epoch, m.secret)
    BY <2>1 DEF HandoffInv, NetInv
  <2>4. \/ client' = client
        \/ client' = [client EXCEPT ![m.to] = Rotated(client[m.to], m.epoch, m.secret)]
    BY <1>7 DEF receive_envelope, receive_rotation
  <2>5. m.to \in Clients /\ m.epoch \in Nat /\ m.secret \in Nat
    BY <2>2 DEF SealedMessage
  <2>6. client' \in [Clients -> ClientState] /\ ClientsInv'
    <3>1. CASE client' = client
      BY <1>t, <2>1, <3>1, ClientsKeep DEF HandoffTyped
    <3>2. CASE client' = [client EXCEPT ![m.to] = Rotated(client[m.to], m.epoch, m.secret)]
      <4>1. /\ client' \in [Clients -> ClientState]
            /\ \A d \in Clients \ {m.to} : client'[d] = client[d]
            /\ client'[m.to].epoch = m.epoch /\ client'[m.to].secret = m.secret
        <5> DEFINE now == Rotated(client[m.to], m.epoch, m.secret)
        <5>1. client[m.to] \in ClientState
          BY <1>t, <2>5 DEF HandoffTyped
        <5>2. now \in ClientState /\ now.epoch = m.epoch /\ now.secret = m.secret
          BY <2>5, <5>1 DEF Rotated, ClientState
        <5> HIDE DEF now
        <5>3. client' = [client EXCEPT ![m.to] = now]
          BY <3>2 DEF now
        <5> QED
          BY <1>t, <2>5, <5>2, <5>3 DEF HandoffTyped
      <4> QED
        BY <2>1, <2>3, <2>5, <4>1, ClientTakes
    <3> QED
      BY <2>4, <3>1, <3>2
  <2> QED
    BY <1>t, <2>1, <2>2, <2>6, NetKeeps DEF HandoffInv, HandoffTyped, JobInv, SameRoom
<1>8. ASSUME NEW m \in net, relay(m) PROVE HandoffInv'
  <2>1. SameRoom /\ UNCHANGED <<mode, client, job, requests>> /\ m.hop = "up"
        /\ m.kind \in {"envelope", "ack", "rotation"}
    BY <1>8 DEF relay, relay_if, SameRoom
  <2>2. m \in SealedMessage
    BY <1>t, <2>1 DEF HandoffTyped, Notices
  <2>3. ASSUME NEW n \in net', n \notin net
        PROVE  n \in SealedMessage /\ n.to \in members /\ n.epoch = epoch /\ n.secret = committed[epoch]
    <3>1. PICK t \in members : n = [m EXCEPT !.hop = "down", !.to = t] /\ Authorized(m)
      BY <1>8, <2>3 DEF relay, relay_if
    <3> QED
      BY <1>t, <2>2, <3>1 DEF Authorized, SealedMessage, HandoffTyped
  <2>4. \A c \in members : c \in joined /\ kicked[c] = 0 /\ Passed(c, epoch, committed[epoch])
    BY <1>t DEF HandoffInv, ClientsInv, Passed, HandoffTyped, Epochs
  <2>5. NetInv'
    BY <2>1, <2>3, <2>4 DEF HandoffInv, NetInv, SameRoom, Passed, Carries
  <2>6. HandoffTyped'
    BY <1>t, <2>1, <2>3 DEF HandoffTyped, SameRoom
  <2> QED
    BY <2>1, <2>5, <2>6, ClientsKeep DEF HandoffInv, JobInv, SameRoom
<1>9. ASSUME handle_room_admin_request PROVE HandoffInv'
  <2>1. CASE job.target \notin members
    <3>1. SameRoom /\ job' = NoJob /\ UNCHANGED <<mode, client, requests, net>>
      BY <1>9, <2>1 DEF handle_room_admin_request, SameRoom
    <3>2. JobInv'
      BY <3>1 DEF HandoffInv, JobInv, SameRoom, NoJob
    <3> QED
      BY <1>t, <3>1, <3>2, ClientsKeep, NetKeeps DEF HandoffInv, HandoffTyped, SameRoom, Jobs
  <2>2. CASE job.target \in members
    <3> DEFINE gone == {job.target} \ {Admin}
    <3>1. /\ epoch' = epoch + 1 /\ mode' = job.mode
          /\ committed' = [committed EXCEPT ![epoch + 1] = job.secret]
          /\ members' = members \ gone
          /\ kicked' = [c \in Clients |-> IF c \in gone THEN epoch + 1 ELSE kicked[c]]
          /\ net' = net \cup {Notice("leave", g, m) : g \in gone, m \in members \ gone}
          /\ job' = [step |-> "served", secret |-> job.secret, epoch |-> epoch + 1,
                     mode |-> job.mode]
          /\ UNCHANGED <<client, requests, joined>>
      BY <1>9, <2>2 DEF handle_room_admin_request
    <3>2. job.step = "asked" /\ job \in [step : {"asked"}, secret : Nat, target : Clients, mode : Modes]
      BY <1>9, <1>t DEF handle_room_admin_request, HandoffTyped, Jobs, NoJob
    <3>3. epoch \in Nat /\ epoch + 1 \in Epochs /\ epoch + 1 <= requests + 1
      BY <1>t, <3>2 DEF HandoffInv, JobInv, HandoffTyped, Epochs, HandoffAssumption
    <3>4. /\ committed' \in [Epochs -> Nat] /\ committed'[epoch + 1] = job.secret
          /\ \A e \in Epochs : e <= epoch => committed'[e] = committed[e]
      BY <1>t, <3>1, <3>2, <3>3 DEF HandoffTyped, Epochs
    <3>5. /\ gone \subseteq members /\ Admin \notin gone
          /\ \A c \in Clients : kicked'[c] = IF c \in gone THEN epoch + 1 ELSE kicked[c]
          /\ kicked' \in [Clients -> Nat]
      BY <1>t, <2>2, <3>1, <3>3 DEF HandoffTyped
    <3> HIDE DEF gone
    <3>6. \A c \in Clients : \A e, secret : Passed(c, e, secret) => Passed(c, e, secret)'
      BY <1>t, <3>1, <3>3, <3>4, <3>5 DEF Passed, HandoffTyped, Epochs
    <3>7. net' \subseteq SealedMessage \cup Notices /\ \A m \in net' : m \in net \/ ~Carries(m)
      BY <1>t, <3>1, <3>5 DEF HandoffTyped, Notice, Notices, Carries
    <3>8. HandoffTyped'
      BY <1>t, <3>1, <3>2, <3>3, <3>4, <3>5, <3>7 DEF HandoffTyped, Jobs
    <3>9. ClientsInv'
      BY <1>t, <3>1, <3>3, <3>5, <3>6 DEF HandoffInv, ClientsInv, HandoffTyped, ClientState
    <3>10. NetInv'
      BY <1>t, <3>1, <3>6, <3>7 DEF HandoffInv, NetInv, HandoffTyped, Carries
    <3>11. JobInv'
      BY <1>t, <3>1, <3>2, <3>3, <3>4, <3>5 DEF HandoffInv, JobInv, NoJob
    <3> QED
      BY <3>8, <3>9, <3>10, <3>11 DEF HandoffInv
  <2> QED
    BY <2>1, <2>2
<1>10. ASSUME rotate_media_key PROVE HandoffInv'
  <2> DEFINE now == Rotated(client[Admin], job.epoch, job.secret)
             known == client[Admin].known
  <2>1. /\ SameRoom /\ UNCHANGED <<mode, requests>>
        /\ job.step = "served" /\ job' = [step |-> "rotated", mode |-> job.mode]
        /\ client' = [client EXCEPT ![Admin] = Queued(now, known)]
        /\ net' = net \cup Envelopes(Admin, now, known) \cup
             {Sealed("rotation", "up", Admin, Admin, job.epoch, job.secret, client[Admin].secret)}
    BY <1>10 DEF rotate_media_key, SameRoom
  <2>2. job \in [step : {"served"}, secret : Nat, epoch : Nat, mode : Modes]
    BY <1>t, <2>1 DEF HandoffTyped, Jobs, NoJob
  <2>3. client[Admin] \in ClientState /\ known \in SUBSET Clients
    BY <1>t DEF HandoffTyped, ClientState
  <2>4. now \in ClientState /\ now.epoch = job.epoch /\ now.secret = job.secret
    <3>1. job.epoch \in Nat /\ job.secret \in Nat
      BY <2>2
    <3> QED
      BY <2>3, <3>1 DEF Rotated, ClientState
  <2>5. Admin \in joined /\ Passed(Admin, job.epoch, job.secret)
    BY <1>t, <2>1 DEF HandoffInv, JobInv, Passed, HandoffTyped, Epochs, NoJob
  <2> HIDE DEF now, known
  <2>6. /\ client' \in [Clients -> ClientState]
        /\ \A d \in Clients \ {Admin} : client'[d] = client[d]
        /\ client'[Admin].epoch = job.epoch /\ client'[Admin].secret = job.secret
    BY <1>t, <2>1, <2>3, <2>4, QueuedState DEF HandoffTyped
  <2>7. net' \subseteq SealedMessage \cup Notices /\ \A m \in net' : m \in net \/ ~Carries(m)
    <3> DEFINE r == Sealed("rotation", "up", Admin, Admin, job.epoch, job.secret, client[Admin].secret)
    <3>1. r \in SealedMessage /\ ~Carries(r)
      BY <1>t, <2>2, <2>3 DEF Sealed, SealedMessage, Carries, ClientState
    <3> HIDE DEF r
    <3> QED
      BY <1>t, <2>1, <2>3, <2>4, <3>1, EnvelopesGoUp DEF HandoffTyped, r
  <2>8. ClientsInv'
    BY <1>t, <2>1, <2>2, <2>5, <2>6, ClientTakes
  <2>9. JobInv'
    BY <2>1, <2>5 DEF HandoffInv, JobInv, SameRoom
  <2>10. HandoffTyped'
    BY <1>t, <2>1, <2>2, <2>6, <2>7 DEF HandoffTyped, SameRoom, Jobs
  <2> QED
    BY <2>1, <2>7, <2>8, <2>9, <2>10, NetKeeps DEF HandoffInv
<1>11. ASSUME apply_room_admin_result PROVE HandoffInv'
  <2> DEFINE s == client[Admin]
             served == IF job.mode = "approve" THEN {} ELSE {p \in s.waiting : CanSend(s, p)}
  <2>1. /\ SameRoom /\ UNCHANGED <<mode, requests>> /\ job' = NoJob
        /\ client' = [client EXCEPT ![Admin] =
                        [Queued(s, served) EXCEPT !.mode = job.mode, !.waiting = @ \ served]]
        /\ net' = net \cup Envelopes(Admin, s, served)
    BY <1>11 DEF apply_room_admin_result, SameRoom
  <2>2. job.mode \in Modes
    BY <1>11, <1>t DEF apply_room_admin_result, HandoffTyped, Jobs, NoJob
  <2>3. s \in ClientState /\ served \in SUBSET Clients
    BY <1>t DEF HandoffTyped, ClientState
  <2> HIDE DEF s, served
  <2>4. Queued(s, served) \in ClientState /\ Queued(s, served).epoch = s.epoch
        /\ Queued(s, served).secret = s.secret
    BY <2>3, QueuedState
  <2>5. /\ client' \in [Clients -> ClientState]
        /\ \A d \in Clients : client'[d].epoch = client[d].epoch /\ client'[d].secret = client[d].secret
    BY <1>t, <2>1, <2>2, <2>3, <2>4 DEF HandoffTyped, ClientState, s
  <2>6. net' \subseteq SealedMessage \cup Notices /\ \A m \in net' : m \in net \/ ~Carries(m)
    BY <1>t, <2>1, <2>3, EnvelopesGoUp DEF HandoffTyped
  <2>7. JobInv'
    BY <2>1 DEF HandoffInv, JobInv, SameRoom, NoJob
  <2> QED
    BY <1>t, <2>1, <2>5, <2>6, <2>7, ClientsKeep, NetKeeps DEF HandoffInv, HandoffTyped, SameRoom, Jobs
<1>12. ASSUME server_did_not_respond PROVE HandoffInv'
  <2>1. SameRoom /\ UNCHANGED <<mode, requests, client, net>> /\ job' = NoJob
    BY <1>12 DEF server_did_not_respond, SameRoom
  <2>2. JobInv'
    BY <2>1 DEF HandoffInv, JobInv, SameRoom, NoJob
  <2> QED
    BY <1>t, <2>1, <2>2, ClientsKeep, NetKeeps DEF HandoffInv, HandoffTyped, SameRoom, Jobs
<1>13. ASSUME NEW m \in net, lose(m) PROVE HandoffInv'
  <2>1. SameRoom /\ UNCHANGED <<mode, requests, client, job>> /\ net' \subseteq net
    BY <1>13 DEF lose, SameRoom
  <2> QED
    BY <1>t, <2>1, ClientsKeep, NetKeeps DEF HandoffInv, HandoffTyped, JobInv, SameRoom
<1>14. ASSUME UNCHANGED vars PROVE HandoffInv'
  <2>1. SameRoom /\ UNCHANGED <<mode, requests, client, job, net>>
    BY <1>14 DEF vars, SameRoom
  <2> QED
    BY <1>t, <2>1, ClientsKeep, NetKeeps DEF HandoffInv, HandoffTyped, JobInv, SameRoom
<1> QED
  BY <1>1, <1>2, <1>3, <1>4, <1>5, <1>6, <1>7, <1>8, <1>9, <1>10, <1>11, <1>12, <1>13, <1>14
  DEF Next, Receive

----------------------------------------------------------------------------
\* A participant the admin removed never gets a secret of its removal's epoch
\* or a later one, and every secret in use is the one the room was committed to
\* at its epoch: the server's checks on what it relays and the clients' checks
\* on what they apply suffice, whatever is lost or overtaken.
THEOREM RemovedStayIgnorant ==
    ASSUME HandoffAssumption
    PROVE  Spec => []RemovedLearnNothing
<1>1. Init => HandoffInv
  BY HandoffInvInit
<1>2. HandoffInv /\ [Next]_vars => HandoffInv'
  BY HandoffInvNext
<1>3. HandoffInv => RemovedLearnNothing
  BY DEF HandoffInv, ClientsInv, Passed, RemovedLearnNothing, KeysAreCommitted
<1> QED
  BY <1>1, <1>2, <1>3, PTL DEF Spec
=============================================================================
