--------------------------- MODULE ClientSession ---------------------------
(***************************************************************************)
(* How the client keeps its place in a room: the UDP socket with its       *)
(* receive slots, the sends posted to the network thread, the join state,  *)
(* and the ways a session starts, is left, is moved to a new socket or is  *)
(* ended by the server (client_runtime.cpp, client_join_session.cpp,       *)
(* join_reliability.h).                                                    *)
(*                                                                         *)
(* Two threads run this code.  The network thread runs one handler at a    *)
(* time; `io' is the handler it is in.  stop_connection runs on the        *)
(* window's thread, between the steps of that handler; `ui' is how far it  *)
(* has come.  join_room is called from a job thread, which waits while the *)
(* network thread runs it.                                                 *)
(*                                                                         *)
(* A session is named by the number of the call that started it; 0 is no   *)
(* session.  A port is named by the number of the socket bound to it.      *)
(* receive_generation_ and outbound_generation_ are 64-bit counters that    *)
(* are only compared for equality with their present value: a slot or a    *)
(* send records whether its generation is still the present one, and an    *)
(* increment makes every recorded generation an old one.                   *)
(***************************************************************************)
EXTENDS Integers, Sequences, FiniteSets

CONSTANTS Slots,        \* receive_states_
          MaxStarts,    \* bound: calls of join_room
          MaxRebinds,   \* bound: moves to a new socket
          MaxEvents,    \* bound: calls of stop_connection, losses, server
                        \* restarts, removals and refusals
          MaxFlying     \* bound: requests under way when a timer may add one

VARIABLES receiving,    \* receiving_enabled_
          outbound,     \* outbound_enabled_
          endpoint,     \* server_endpoint_ is set
          socket,       \* the port socket_ is bound to
          slots,        \* per slot: its state; armed in the present generation?
          asked,        \* the session join_session_ is configured for
          confirmed,    \* join_confirmed_
          removed,      \* room_removed_by_server_
          posted,       \* sends posted to the network thread, in order
          rebindPosted, \* udp_path_rebind_pending_
          io,           \* the handler the network thread is in
          ui,           \* the step of stop_connection the window is at
          target,       \* the endpoint stop_connection saw
          member,       \* the session the server has the socket's port in
          toServer, toClient, \* datagrams from and to the socket's port
          starts, rebinds, events

flags == <<receiving, outbound>>
place == <<asked, confirmed, endpoint>>
threads == <<io, ui, target>>
network == <<member, toServer, toClient>>
counts == <<starts, rebinds, events>>
vars == <<flags, place, socket, slots, removed, posted, rebindPosted, threads,
          network, counts>>

Ports == 1 .. MaxRebinds + 1
Sessions == 0 .. MaxStarts
Idle == [step |-> "idle"]
Nothing == [kind |-> "aborted"]
Free == [state |-> "free"]
Waiting == [state |-> "waiting", current |-> TRUE]
Requests == [kind : {"JOIN", "ALIVE", "LEAVE"}, session : Sessions]
Replies == {"JOIN_ACK", "JOIN_REQUIRED", "JOIN_DENIED", "ROOM_REMOVED"}
LeaveRequest == [kind |-> "LEAVE", session |-> 0]
Steps == {"starting", "resolved", "rebinding", "rebound"}

Init ==
    /\ receiving = FALSE /\ outbound = FALSE
    /\ endpoint = FALSE
    /\ socket = 1
    /\ slots = [k \in Slots |-> Free]
    /\ asked = 0 /\ confirmed = FALSE /\ removed = FALSE
    /\ posted = <<>> /\ rebindPosted = FALSE
    /\ io = Idle /\ ui = "idle" /\ target = FALSE
    /\ member = 0
    /\ toServer = {} /\ toClient = {}
    /\ starts = 0 /\ rebinds = 0 /\ events = 0

(***************************************************************************)
(* Receive slots and posted sends.                                         *)
(***************************************************************************)

\* do_receive: a slot that is not in flight is given to the socket.
Armed(held) ==
    [k \in Slots |-> IF held[k].state = "free" THEN Waiting ELSE held[k]]

\* cancel or close: the receives in flight complete with operation_aborted.
Cancelled(held) ==
    [k \in Slots |->
        IF held[k].state = "waiting"
        THEN [state |-> "ready", current |-> held[k].current, got |-> Nothing]
        ELSE held[k]]

\* receive_generation_ and outbound_generation_ are incremented.
NextReceiveGeneration(held) ==
    [k \in Slots |-> IF held[k].state = "free" THEN Free
                     ELSE [held[k] EXCEPT !.current = FALSE]]
NextOutboundGeneration(sends) ==
    [i \in DOMAIN sends |-> [sends[i] EXCEPT !.current = FALSE]]

\* send: nothing while sending is disabled; otherwise the datagram is posted
\* with the endpoint and the generation of this moment.
Post(sends, kind, session, enabled, to) ==
    IF enabled
    THEN Append(sends, [kind |-> kind, session |-> session, current |-> TRUE, to |-> to])
    ELSE sends

\* send_join: a JOIN for the session join_session_ is configured for.
SendJoin(sends, enabled) == Post(sends, "JOIN", asked, enabled, endpoint)

\* The handler send posts: the datagram goes out only while sending is enabled
\* and the generation is the one it was posted in.
run_posted ==
    /\ io = Idle /\ posted # <<>>
    /\ posted' = Tail(posted)
    /\ LET s == Head(posted)
       IN  toServer' = IF outbound /\ s.current /\ s.to
                       THEN toServer \cup {[kind |-> s.kind, session |-> s.session]}
                       ELSE toServer
    /\ UNCHANGED <<flags, place, socket, slots, removed, rebindPosted, threads,
                   member, toClient, counts>>

\* on_receive, up to the dispatch: the slot is given back to the socket while
\* receiving is enabled, and the datagram is handled if `handled' says so.
complete_receive(k, handled) ==
    /\ io = Idle /\ slots[k].state = "ready"
    /\ slots' = [slots EXCEPT ![k] = IF receiving THEN Waiting ELSE Free]
    /\ io' = IF handled /\ slots[k].got # Nothing
             THEN [step |-> "dispatch", got |-> slots[k].got]
             ELSE Idle
    /\ UNCHANGED <<flags, place, socket, removed, posted, rebindPosted, ui,
                   target, network, counts>>

\* A plausible slip: the generation is not compared.
on_receive_of_any_generation(k) == complete_receive(k, receiving)

\* A completion of an earlier generation, an error, or one that finds
\* receiving disabled is not handled.
on_receive(k) == complete_receive(k, receiving /\ slots[k].current)

(***************************************************************************)
(* Starting a session: join_room, then start_connection_on_io_context.     *)
(***************************************************************************)

\* The session is configured, receiving and sending are disabled, the
\* receives in flight cancelled.  The name is then resolved, which may take
\* seconds or throw.
join_room ==
    /\ io = Idle /\ starts < MaxStarts
    /\ starts' = starts + 1
    /\ asked' = starts + 1
    /\ confirmed' = FALSE
    /\ receiving' = FALSE /\ outbound' = FALSE
    /\ posted' = NextOutboundGeneration(posted)
    /\ slots' = Cancelled(slots)
    /\ io' = [step |-> "starting"]
    /\ UNCHANGED <<endpoint, socket, removed, rebindPosted, ui, target, network,
                   rebinds, events>>

resolve_fails ==
    /\ io = [step |-> "starting"]
    /\ io' = Idle
    /\ UNCHANGED <<flags, place, socket, slots, removed, posted, rebindPosted,
                   ui, target, network, counts>>

set_endpoint ==
    /\ io = [step |-> "starting"]
    /\ endpoint' = TRUE
    /\ posted' = NextOutboundGeneration(posted)
    /\ io' = [step |-> "resolved"]
    /\ UNCHANGED <<flags, asked, confirmed, socket, slots, removed, rebindPosted, ui, target, network,
                   counts>>

\* The socket is kept (the protocol matches); the slots whose cancelled
\* receive has not completed yet stay in flight.
start_receiving ==
    /\ io = [step |-> "resolved"]
    /\ confirmed' = FALSE
    /\ receiving' = TRUE /\ outbound' = TRUE
    /\ slots' = Armed(NextReceiveGeneration(slots))
    /\ posted' = SendJoin(posted, TRUE)
    /\ io' = Idle
    /\ UNCHANGED <<asked, endpoint, socket, removed, rebindPosted,
                   ui, target, network, counts>>

(***************************************************************************)
(* Leaving: stop_connection on the window's thread, in four steps.         *)
(***************************************************************************)
stop_connection ==
    /\ ui = "idle" /\ events < MaxEvents
    /\ events' = events + 1
    /\ target' = endpoint
    /\ receiving' = FALSE /\ outbound' = FALSE
    /\ slots' = NextReceiveGeneration(slots)
    /\ posted' = NextOutboundGeneration(posted)
    /\ ui' = "disabled"
    /\ UNCHANGED <<place, socket, removed, rebindPosted, io,
                   network, starts, rebinds>>

send_leave ==
    /\ ui = "disabled"
    /\ toServer' = IF target
                   THEN toServer \cup {LeaveRequest}
                   ELSE toServer
    /\ slots' = Cancelled(slots)
    /\ ui' = "left"
    /\ UNCHANGED <<flags, place, socket, removed, posted, rebindPosted, io,
                   target, member, toClient, counts>>

clear_server_endpoint ==
    /\ ui = "left"
    /\ endpoint' = FALSE
    /\ posted' = NextOutboundGeneration(posted)
    /\ ui' = "cleared"
    /\ UNCHANGED <<flags, asked, confirmed, socket, slots, removed, rebindPosted, io, target, network,
                   counts>>

clear_room_session_state ==
    /\ ui = "cleared"
    /\ asked' = 0 /\ confirmed' = FALSE
    /\ ui' = "idle"
    /\ UNCHANGED <<flags, endpoint, socket, slots, removed, posted,
                   rebindPosted, io, target, network, counts>>

(***************************************************************************)
(* Moving to a new socket: request_udp_path_rebind on missing pings or     *)
(* severe loss, then rebind_udp_socket_and_rejoin.                         *)
(***************************************************************************)

\* ping_timer_callback sends, and looks for missing answers, only in a
\* confirmed session.
Pinging == outbound /\ endpoint /\ confirmed

request_udp_path_rebind ==
    /\ io = Idle /\ rebinds < MaxRebinds
    /\ Pinging /\ ~rebindPosted
    /\ rebindPosted' = TRUE
    /\ UNCHANGED <<flags, place, socket, slots, removed, posted, threads,
                   network, counts>>

begin_rebind ==
    /\ io = Idle /\ rebindPosted
    /\ rebindPosted' = FALSE
    /\ IF endpoint /\ outbound
       THEN /\ receiving' = FALSE /\ outbound' = FALSE
            /\ slots' = NextReceiveGeneration(slots)
            /\ posted' = NextOutboundGeneration(posted)
            /\ rebinds' = rebinds + 1
            /\ io' = [step |-> "rebinding"]
       ELSE UNCHANGED <<flags, slots, posted, io, rebinds>>
    /\ UNCHANGED <<place, socket, removed, ui, target, network,
                   starts, events>>

\* Under the socket's lock: LEAVE from the old port, the old socket closed,
\* the new one in its place.  What is under way to or from the old port can
\* reach the client no more (what becomes of the old port at the server is in
\* module RoomServer).
replace_socket ==
    /\ io = [step |-> "rebinding"]
    /\ member' = 0 /\ toServer' = {} /\ toClient' = {}
    /\ slots' = Cancelled(slots)
    /\ socket' = socket + 1
    /\ io' = [step |-> "rebound"]
    /\ UNCHANGED <<flags, place, removed, posted, rebindPosted, ui, target, counts>>

finish_rebind ==
    /\ io = [step |-> "rebound"]
    /\ confirmed' = FALSE
    /\ receiving' = TRUE /\ outbound' = TRUE
    /\ slots' = Armed(NextReceiveGeneration(slots))
    /\ posted' = SendJoin(NextOutboundGeneration(posted), TRUE)
    /\ io' = Idle
    /\ UNCHANGED <<asked, endpoint, socket, removed, rebindPosted, ui, target,
                   network, counts>>

(***************************************************************************)
(* Timers.                                                                 *)
(***************************************************************************)

\* alive_timer_callback and join_retry_timer_callback: a JOIN until the server
\* has confirmed one, ALIVE after that.
alive_timer_callback ==
    /\ io = Idle /\ outbound /\ endpoint
    /\ Len(posted) + Cardinality(toServer) < MaxFlying
    /\ posted' = IF confirmed
                 THEN Post(posted, "ALIVE", 0, outbound, endpoint)
                 ELSE SendJoin(posted, outbound)
    /\ UNCHANGED <<flags, place, socket, slots, removed, rebindPosted, threads,
                   network, counts>>

(***************************************************************************)
(* handle_ctrl_message, for the messages that change the session.  A       *)
(* datagram that is not from the server's endpoint is ignored.             *)
(***************************************************************************)
Dispatching(kind) == /\ io.step = "dispatch"
                     /\ io.got.kind = kind
                     /\ endpoint

stray_packet ==
    /\ io.step = "dispatch" /\ ~endpoint
    /\ io' = Idle
    /\ UNCHANGED <<flags, place, socket, slots, removed, posted, rebindPosted,
                   ui, target, network, counts>>

handle_join_ack ==
    /\ Dispatching("JOIN_ACK")
    /\ confirmed' = TRUE
    /\ io' = Idle
    /\ UNCHANGED <<flags, asked, endpoint, socket, slots, removed, posted,
                   rebindPosted, ui, target, network, counts>>

\* A plausible slip: a client that was confirmed does not join again.
handle_join_required_unheeded ==
    /\ Dispatching("JOIN_REQUIRED")
    /\ posted' = IF confirmed THEN posted ELSE SendJoin(posted, outbound)
    /\ io' = Idle
    /\ UNCHANGED <<flags, place, socket, slots, removed, rebindPosted, ui, target,
                   network, counts>>

handle_join_required ==
    /\ Dispatching("JOIN_REQUIRED")
    /\ confirmed' = FALSE
    /\ posted' = SendJoin(posted, outbound)
    /\ io' = Idle
    /\ UNCHANGED <<flags, asked, endpoint, socket, slots, removed, rebindPosted,
                   ui, target, network, counts>>

\* JOIN_DENIED (room full) and ROOM_REMOVED: disconnect_from_server(false) on
\* the network thread.
handle_session_end ==
    /\ \/ Dispatching("JOIN_DENIED") /\ UNCHANGED removed
       \/ Dispatching("ROOM_REMOVED") /\ removed' = TRUE
    /\ receiving' = FALSE /\ outbound' = FALSE
    /\ slots' = Cancelled(NextReceiveGeneration(slots))
    /\ posted' = NextOutboundGeneration(posted)
    /\ endpoint' = FALSE
    /\ asked' = 0 /\ confirmed' = FALSE
    /\ io' = Idle
    /\ UNCHANGED <<socket, rebindPosted, ui, target, network, counts>>

(***************************************************************************)
(* The network and the server (module RoomServer has the server's side in  *)
(* full).                                                                  *)
(***************************************************************************)
deliver(m, k) ==
    /\ m \in toClient /\ slots[k].state = "waiting"
    /\ toClient' = toClient \ {m}
    /\ slots' = [slots EXCEPT ![k] =
                   [state |-> "ready", current |-> slots[k].current,
                    got |-> [kind |-> m, port |-> socket]]]
    /\ UNCHANGED <<flags, place, socket, removed, posted, rebindPosted, threads,
                   member, toServer, counts>>

lose ==
    /\ events < MaxEvents
    /\ events' = events + 1
    /\ \/ \E m \in toServer : toServer' = toServer \ {m} /\ UNCHANGED toClient
       \/ \E m \in toClient : toClient' = toClient \ {m} /\ UNCHANGED toServer
    /\ UNCHANGED <<flags, place, socket, slots, removed, posted, rebindPosted,
                   threads, member, starts, rebinds>>

serve_join(m) ==
    /\ m \in toServer /\ m.kind = "JOIN"
    /\ toServer' = toServer \ {m}
    /\ \/ /\ m.session = 0
          /\ UNCHANGED <<member, toClient, events>>
       \/ /\ m.session # 0
          /\ member' = m.session
          /\ toClient' = toClient \cup {"JOIN_ACK"}
          /\ UNCHANGED events
       \/ /\ m.session # 0 /\ events < MaxEvents
          /\ events' = events + 1
          /\ toClient' = toClient \cup {"JOIN_DENIED"}
          /\ UNCHANGED member
    /\ UNCHANGED <<flags, place, socket, slots, removed, posted, rebindPosted,
                   threads, starts, rebinds>>

serve_alive(m) ==
    /\ m \in toServer /\ m.kind = "ALIVE"
    /\ toServer' = toServer \ {m}
    /\ toClient' = IF member = 0 THEN toClient \cup {"JOIN_REQUIRED"} ELSE toClient
    /\ UNCHANGED <<flags, place, socket, slots, removed, posted, rebindPosted,
                   threads, member, counts>>

serve_leave(m) ==
    /\ m \in toServer /\ m.kind = "LEAVE"
    /\ toServer' = toServer \ {m}
    /\ member' = 0
    /\ UNCHANGED <<flags, place, socket, slots, removed, posted, rebindPosted,
                   threads, toClient, counts>>

\* The server restarts or times the client out, or its admin removes it.
forget ==
    /\ events < MaxEvents /\ member # 0
    /\ events' = events + 1
    /\ member' = 0
    /\ \/ UNCHANGED toClient
       \/ toClient' = toClient \cup {"ROOM_REMOVED"}
    /\ UNCHANGED <<flags, place, socket, slots, removed, posted, rebindPosted,
                   threads, toServer, starts, rebinds>>

Serve == \E m \in toServer : serve_join(m) \/ serve_alive(m) \/ serve_leave(m)
Handle == stray_packet \/ handle_join_ack \/ handle_join_required \/ handle_session_end
Connect == set_endpoint \/ resolve_fails \/ start_receiving
Rebind == replace_socket \/ finish_rebind
Leave == send_leave \/ clear_server_endpoint \/ clear_room_session_state

Next ==
    \/ join_room \/ Connect
    \/ stop_connection \/ Leave
    \/ request_udp_path_rebind \/ begin_rebind \/ Rebind
    \/ run_posted \/ alive_timer_callback
    \/ \E k \in Slots : on_receive(k)
    \/ Handle
    \/ \E m \in toClient, k \in Slots : deliver(m, k)
    \/ lose
    \/ Serve
    \/ forget

Spec == Init /\ [][Next]_vars

(***************************************************************************)
(* Both threads go on running and the timers go on firing.  The network    *)
(* may lose a datagram, and delivers an answer that is sent again and      *)
(* again; a refusal or a removal may never arrive.                         *)
(***************************************************************************)
Fairness ==
    /\ WF_vars(Connect \/ Rebind \/ Handle) /\ WF_vars(Leave)
    /\ WF_vars(begin_rebind) /\ WF_vars(run_posted) /\ WF_vars(alive_timer_callback)
    /\ \A k \in Slots : WF_vars(on_receive(k))
    /\ \A m \in {"JOIN_ACK", "JOIN_REQUIRED"} : SF_vars(\E k \in Slots : deliver(m, k))
    /\ WF_vars(\E m \in toServer : serve_join(m))
    /\ WF_vars(\E m \in toServer : serve_alive(m))
    /\ WF_vars(\E m \in toServer : serve_leave(m))

FairSpec == Spec /\ Fairness

----------------------------------------------------------------------------
\* The variables have their types.
TypeOK ==
    /\ receiving \in BOOLEAN /\ outbound \in BOOLEAN /\ endpoint \in BOOLEAN
    /\ confirmed \in BOOLEAN /\ removed \in BOOLEAN
    /\ rebindPosted \in BOOLEAN /\ target \in BOOLEAN
    /\ socket \in Ports /\ asked \in Sessions
    /\ \A k \in Slots : slots[k].state \in {"free", "waiting", "ready"}
    /\ \/ io = Idle \/ io.step \in Steps
       \/ /\ io.step = "dispatch"
          /\ io.got \in [kind : Replies, port : Ports]
    /\ ui \in {"idle", "disabled", "left", "cleared"}
    /\ member \in Sessions
    /\ toServer \subseteq Requests /\ toClient \subseteq Replies

\* While the client receives, no receive slot is idle: each waits on the
\* socket or has a completion still to be handled, whatever starts, stops and
\* moves to a new socket came before (on_receive: "keep this receive slot
\* listening").
SlotsListen ==
    receiving /\ io = Idle => \A k \in Slots : slots[k].state # "free"

\* A datagram handled by the network thread came to the socket in use: one
\* that an earlier socket received before it was replaced is never handled.
HandledAreCurrent ==
    /\ SlotsListen
    /\ io.step = "dispatch" => io.got.port = socket

\* A client asked to be in a room is in the end confirmed and known to the
\* server at its current port, unless the session ends or a later join_room
\* cannot resolve its server: lost datagrams, a server that forgets it, answers
\* that cross and a change of socket only delay it.
SessionSettles ==
    (asked # 0 /\ outbound /\ endpoint) ~>
        \/ confirmed /\ member # 0
        \/ asked = 0 \/ ~endpoint
        \/ io = Idle /\ ~outbound

============================================================================
