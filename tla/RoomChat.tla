------------------------------ MODULE RoomChat ------------------------------
(***************************************************************************)
(* Room chat: the server's log of a room's last messages (store_chat_      *)
(* message and chat_history_since of src/server/room_registry.h, with      *)
(* their handlers in server.cpp) and each participant's view of it         *)
(* (src/client/client_runtime.cpp).                                        *)
(*                                                                         *)
(* The network is the set of all datagrams ever sent: each may be received *)
(* late, again, out of order, or never.  A message is named by its nonce.  *)
(* The participants stay in the room; the room's access epoch moves, and   *)
(* each participant follows when the new key reaches it.  Unread counts    *)
(* and status texts are left out.                                          *)
(***************************************************************************)
EXTENDS Naturals, Sequences, FiniteSets

CONSTANTS
    Member,                         \* the participants of the room
    Nonce,                          \* nonces of the messages sent
    ROOM_CHAT_RETAINED_MESSAGES,
    CLIENT_CHAT_RETAINED_MESSAGES,
    MaxEpoch,                       \* bound: access epochs
    MaxRequests,                    \* bound: history requests of a client
    MaxStored                       \* bound: messages stored

ASSUME ChatAssumption ==
    /\ ROOM_CHAT_RETAINED_MESSAGES \in Nat \ {0}
    /\ CLIENT_CHAT_RETAINED_MESSAGES \in Nat \ {0}
    /\ MaxEpoch \in Nat \ {0}
    /\ MaxRequests \in Nat
    /\ MaxStored \in Nat

VARIABLES
    access_epoch,   \* of the room
    chat_messages,  \* the retained messages, oldest first
    stored,         \* history: all messages ever stored, by sequence number
    net,            \* the datagrams sent so far
    epoch,          \* client: access epoch of the key it holds
    view,           \* client: chat_messages_
    last_seen,      \* client: last_seen_chat_sequence_
    first_seen,     \* history: the first sequence accepted since view was cleared
    pending,        \* client: nonce -> [aged, asked]
    requests,       \* client: history requests sent so far; names the next one
    gave_up         \* history: messages reported as not confirmed

server == <<access_epoch, chat_messages, stored>>
client == <<epoch, view, last_seen, first_seen, pending, requests, gave_up>>
vars == <<server, client, net>>

Message == [seq : Nat \ {0}, sender : Member, epoch : 1..MaxEpoch, nonce : Nonce]

\* aged: sent more than two seconds ago.  asked: the history request made
\* for it, 0 while history_requested is false.
Pending == [aged : BOOLEAN, asked : 0..MaxRequests]

TypeOK ==
    /\ access_epoch \in 1..MaxEpoch
    /\ chat_messages \in Seq(Message)
    /\ Len(chat_messages) <= ROOM_CHAT_RETAINED_MESSAGES
    /\ stored \in Seq(Message)
    /\ epoch \in [Member -> 1..MaxEpoch]
    /\ view \in [Member -> SUBSET Message]
    /\ \A c \in Member : Cardinality(view[c]) <= CLIENT_CHAT_RETAINED_MESSAGES
    /\ last_seen \in [Member -> Nat]
    /\ first_seen \in [Member -> Nat]
    /\ \A c \in Member :
          /\ DOMAIN pending[c] \subseteq Nonce
          /\ \A n \in DOMAIN pending[c] : pending[c][n] \in Pending
    /\ requests \in [Member -> 0..MaxRequests]

Init ==
    /\ access_epoch = 1
    /\ chat_messages = <<>>
    /\ stored = <<>>
    /\ net = {}
    /\ epoch = [c \in Member |-> 1]
    /\ view = [c \in Member |-> {}]
    /\ last_seen = [c \in Member |-> 0]
    /\ first_seen = [c \in Member |-> 0]
    /\ pending = [c \in Member |-> <<>>]
    /\ requests = [c \in Member |-> 0]
    /\ gave_up = {}

Send(P) == net' = net \cup P

Restriction(f, S) == [x \in S |-> f[x]]

-----------------------------------------------------------------------------
(* The server                                                               *)

\* Mutant: a repeated datagram is a new message.
Rejected_epoch_only(p) == p.epoch # access_epoch

\* A datagram of an earlier epoch is refused; the sender is told.
Rejected(p) ==
    \/ p.epoch # access_epoch
    \/ \E k \in DOMAIN chat_messages :
          /\ chat_messages[k].sender = p.from
          /\ chat_messages[k].epoch = p.epoch
          /\ chat_messages[k].nonce = p.nonce

\* Mutant: the oldest message makes way one message late.
Retained_late(log) ==
    IF Len(log) > ROOM_CHAT_RETAINED_MESSAGES + 1 THEN Tail(log) ELSE log

Retained(log) == IF Len(log) > ROOM_CHAT_RETAINED_MESSAGES THEN Tail(log) ELSE log

NextSequence == Len(stored) + 1

handle_room_chat_send(p) ==
    LET m == [seq |-> NextSequence, sender |-> p.from, epoch |-> p.epoch,
              nonce |-> p.nonce]
    IN  /\ p.type = "send"
        /\ \/ /\ Rejected(p)
              /\ Send({[type |-> "rejected", to |-> p.from, nonce |-> p.nonce]})
              /\ UNCHANGED server
           \/ /\ ~Rejected(p)
              /\ Len(stored) < MaxStored
              /\ chat_messages' = Retained(Append(chat_messages, m))
              /\ stored' = Append(stored, m)
              /\ Send({[type |-> "event", to |-> c, message |-> m] : c \in Member})
              /\ UNCHANGED access_epoch
        /\ UNCHANGED client

\* One datagram per retained message of the epoch, then the final one.  The
\* client hears of a refusal too, and ignores it.
handle_room_chat_history_request(p) ==
    LET current == {k \in DOMAIN chat_messages : chat_messages[k].epoch = p.epoch}
        newer == {chat_messages[k] : k \in
                     {j \in current : chat_messages[j].seq > p.after}}
    IN  /\ p.type = "history"
        /\ p.epoch = access_epoch
        /\ Send({[type |-> "event", to |-> p.from, message |-> m] : m \in newer}
                \cup {[type |-> "done", to |-> p.from, request |-> p.request]})
        /\ UNCHANGED <<server, client>>

\* An admin rotates the key, kicks, or changes the access.
rotate_access_epoch ==
    /\ access_epoch < MaxEpoch
    /\ access_epoch' = access_epoch + 1
    /\ UNCHANGED <<chat_messages, stored, net, client>>

-----------------------------------------------------------------------------
(* A client                                                                 *)

send_chat_message_on_io(c, n) ==
    /\ \A p \in net : p.type = "send" => p.nonce # n
    /\ pending' = [pending EXCEPT ![c] =
          [x \in DOMAIN @ \cup {n} |->
              IF x = n THEN [aged |-> FALSE, asked |-> 0] ELSE @[x]]]
    /\ Send({[type |-> "send", from |-> c, epoch |-> epoch[c], nonce |-> n]})
    /\ UNCHANGED <<server, epoch, view, last_seen, first_seen, requests, gave_up>>

HistoryRequest(c, after) ==
    [type |-> "history", from |-> c, request |-> requests[c] + 1,
     epoch |-> epoch[c], after |-> after]

\* The user opens the chat or asks for it again.
request_chat_history_on_io(c) ==
    /\ requests[c] < MaxRequests
    /\ requests' = [requests EXCEPT ![c] = @ + 1]
    /\ Send({HistoryRequest(c, last_seen[c])})
    /\ UNCHANGED <<server, epoch, view, last_seen, first_seen, pending, gave_up>>

Newest(S) ==
    {m \in S : Cardinality({x \in S : x.seq > m.seq}) < CLIENT_CHAT_RETAINED_MESSAGES}

Forget(c, n) ==
    pending' = [pending EXCEPT ![c] = Restriction(@, DOMAIN @ \ {n})]

LastSeenAfter(c, seq) == IF seq > last_seen[c] THEN seq ELSE last_seen[c]

\* Mutant: one missing message does not make a gap.
Gap_off_by_one(c, seq) == last_seen[c] # 0 /\ seq > last_seen[c] + 2

Gap(c, seq) == last_seen[c] # 0 /\ seq > last_seen[c] + 1

\* The message is of the epoch whose key the client holds.
Readable(c, m) == m.epoch = epoch[c]

\* handle_chat_event_message, for an event and for a message of a history;
\* accept_chat_message asks for what lies between it and the newest message
\* seen before.
handle_chat_event_message(c, p) ==
    LET m == p.message
        duplicate == \E x \in view[c] : x.seq = m.seq
    IN  /\ p.type = "event" /\ p.to = c
        /\ Readable(c, m)
        /\ Forget(c, m.nonce)
        /\ \/ /\ duplicate
              /\ UNCHANGED <<view, last_seen, first_seen, requests, net>>
           \/ /\ ~duplicate
              /\ last_seen' = [last_seen EXCEPT ![c] = LastSeenAfter(c, m.seq)]
              /\ first_seen' = [first_seen EXCEPT ![c] = IF @ = 0 THEN m.seq ELSE @]
              /\ view' = [view EXCEPT ![c] = Newest(@ \cup {m})]
              /\ IF Gap(c, m.seq)
                 THEN /\ requests[c] < MaxRequests
                      /\ requests' = [requests EXCEPT ![c] = @ + 1]
                      /\ Send({HistoryRequest(c, last_seen[c])})
                 ELSE UNCHANGED <<requests, net>>
        /\ UNCHANGED <<server, epoch, gave_up>>

handle_chat_rejected_message(c, p) ==
    /\ p.type = "rejected" /\ p.to = c
    /\ p.nonce \in DOMAIN pending[c]
    /\ Forget(c, p.nonce)
    /\ UNCHANGED <<server, net, epoch, view, last_seen, first_seen, requests, gave_up>>

\* The final datagram of a history gives up the messages that the timer has
\* asked for.
handle_chat_history_done(c, p) ==
    LET stale == {n \in DOMAIN pending[c] : pending[c][n].asked # 0}
    IN  /\ p.type = "done" /\ p.to = c
        /\ stale # {}
        /\ pending' = [pending EXCEPT ![c] = Restriction(@, DOMAIN @ \ stale)]
        /\ gave_up' = gave_up \cup
              {[by |-> c, nonce |-> n, asked |-> pending[c][n].asked,
                done |-> p.request] : n \in stale}
        /\ UNCHANGED <<server, net, epoch, view, last_seen, first_seen, requests>>

two_seconds_pass(c, n) ==
    /\ n \in DOMAIN pending[c]
    /\ ~pending[c][n].aged
    /\ pending' = [pending EXCEPT ![c][n] = [@ EXCEPT !.aged = TRUE]]
    /\ UNCHANGED <<server, net, epoch, view, last_seen, first_seen, requests, gave_up>>

\* One request for all the messages that have waited too long.
chat_timer_callback(c) ==
    LET waiting == {n \in DOMAIN pending[c] :
                       pending[c][n].aged /\ pending[c][n].asked = 0}
    IN  /\ waiting # {}
        /\ requests[c] < MaxRequests
        /\ requests' = [requests EXCEPT ![c] = @ + 1]
        /\ pending' = [pending EXCEPT ![c] =
              [n \in DOMAIN @ |->
                  IF n \in waiting THEN [@[n] EXCEPT !.asked = requests[c] + 1]
                  ELSE @[n]]]
        /\ Send({HistoryRequest(c, last_seen[c])})
        /\ UNCHANGED <<server, epoch, view, last_seen, first_seen, gave_up>>

\* Mutant: the view outlives the key.
apply_media_secret_rotation_keeps(c, e) ==
    /\ e > epoch[c] /\ e <= access_epoch
    /\ epoch' = [epoch EXCEPT ![c] = e]
    /\ UNCHANGED <<server, net, view, last_seen, first_seen, pending, requests, gave_up>>

\* The key of a later epoch arrives: clear_chat_state.
apply_media_secret_rotation(c, e) ==
    /\ e > epoch[c] /\ e <= access_epoch
    /\ epoch' = [epoch EXCEPT ![c] = e]
    /\ view' = [view EXCEPT ![c] = {}]
    /\ last_seen' = [last_seen EXCEPT ![c] = 0]
    /\ first_seen' = [first_seen EXCEPT ![c] = 0]
    /\ pending' = [pending EXCEPT ![c] = <<>>]
    /\ UNCHANGED <<server, net, requests, gave_up>>

Next ==
    \/ rotate_access_epoch
    \/ \E p \in net : handle_room_chat_send(p) \/ handle_room_chat_history_request(p)
    \/ \E c \in Member :
          \/ request_chat_history_on_io(c)
          \/ chat_timer_callback(c)
          \/ \E n \in Nonce : send_chat_message_on_io(c, n) \/ two_seconds_pass(c, n)
          \/ \E e \in 1..MaxEpoch : apply_media_secret_rotation(c, e)
          \/ \E p \in net :
                \/ handle_chat_event_message(c, p)
                \/ handle_chat_rejected_message(c, p)
                \/ handle_chat_history_done(c, p)

Spec == Init /\ [][Next]_vars

-----------------------------------------------------------------------------
(* Properties                                                               *)

\* A participant asks for every message it has missed since the first one
\* it saw: what is absent from its view was overtaken by CLIENT_CHAT_RETAINED_
\* MESSAGES newer ones, or lies beyond a request it has sent.
HolesAreAskedFor ==
    \A c \in Member : \A s \in DOMAIN stored :
        first_seen[c] < s /\ s < last_seen[c] /\ first_seen[c] # 0 =>
            \/ \E m \in view[c] : m.seq = s
            \/ /\ Cardinality(view[c]) = CLIENT_CHAT_RETAINED_MESSAGES
               /\ \A m \in view[c] : m.seq > s
            \/ \E p \in net : /\ p.type = "history" /\ p.from = c
                              /\ p.epoch = epoch[c] /\ p.after < s

\* The server retains the newest messages, and however often the datagram of
\* a message arrives, it is stored again only after ROOM_CHAT_RETAINED_MESSAGES
\* others: the deduplication reaches exactly as far as the history does.
RetainedAreTheLast ==
    LET n == Len(chat_messages)
    IN  /\ chat_messages = SubSeq(stored, Len(stored) - n + 1, Len(stored))
        /\ \A j, k \in DOMAIN stored :
              stored[j].nonce = stored[k].nonce /\ j < k =>
                  k - j > ROOM_CHAT_RETAINED_MESSAGES

\* All participants show the same message under a sequence number, the one
\* the server stored, and only messages of the epoch whose key they hold,
\* although datagrams are duplicated, delayed and overtaken by rotations; what
\* is absent from a view was asked for, and the server stores nothing twice.
ViewsAgree ==
    /\ \A c \in Member : \A m \in view[c] :
          /\ m.seq \in DOMAIN stored /\ stored[m.seq] = m
          /\ m.epoch = epoch[c]
    /\ HolesAreAskedFor /\ RetainedAreTheLast

\* "If the nonce is still absent after that history response completes, the
\* client shows "Message not confirmed"": a message is given up on the final
\* datagram of the history that was asked for on its behalf.
GivenUpAfterItsHistory == \A g \in gave_up : g.done = g.asked
=============================================================================
