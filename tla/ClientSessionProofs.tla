------------------------ MODULE ClientSessionProofs ------------------------
(***************************************************************************)
(* Receive slots across stops, starts and changes of socket:               *)
(* HandledAreCurrent is an invariant of ClientSession, for any number of   *)
(* slots, sessions and sockets.                                            *)
(***************************************************************************)
EXTENDS ClientSession, TLAPS

Datagram == [kind : Replies, port : Nat]

\* What a receive slot can be: not in flight, waiting on the socket, or
\* completed, with a datagram or aborted.
SlotState ==
    {Free}
    \cup [state : {"waiting"}, current : BOOLEAN]
    \cup [state : {"ready"}, current : BOOLEAN, got : {Nothing} \cup Datagram]

Handlers ==
    {Idle} \cup [step : Steps] \cup [step : {"dispatch"}, got : Datagram]

SlotsTyped ==
    /\ slots \in [Slots -> SlotState]
    /\ io \in Handlers
    /\ socket \in Nat
    /\ receiving \in BOOLEAN
    /\ toClient \subseteq Replies

\* HandledAreCurrent is not inductive.  Receiving stays disabled while a
\* handler moves the client to another server or socket; from begin_rebind on
\* until the socket is replaced every slot in flight is of an old generation;
\* and a datagram in a slot of the present generation came to the socket in use.
SlotsInv ==
    /\ SlotsTyped
    /\ receiving => \A k \in Slots : slots[k].state # "free"
    /\ io.step \in Steps => ~receiving
    /\ io.step = "rebinding" =>
          \A k \in Slots : slots[k].state # "free" => ~slots[k].current
    /\ \A k \in Slots :
          slots[k].state = "ready" /\ slots[k].current /\ slots[k].got # Nothing =>
              slots[k].got.port = socket
    /\ io.step = "dispatch" => io.got.port = socket

----------------------------------------------------------------------------
\* cancel and close leave free slots free, keep generations, and put no
\* datagram into a slot.
LEMMA CancelledSlots ==
    ASSUME NEW held \in [Slots -> SlotState]
    PROVE  /\ Cancelled(held) \in [Slots -> SlotState]
           /\ \A k \in Slots :
                 /\ Cancelled(held)[k].state = "free" <=> held[k].state = "free"
                 /\ Cancelled(held)[k].state # "free" =>
                       Cancelled(held)[k].current = held[k].current
                 /\ Cancelled(held)[k].state = "ready" /\ Cancelled(held)[k].got # Nothing =>
                       Cancelled(held)[k] = held[k]
<1> SUFFICES ASSUME NEW k \in Slots
             PROVE  /\ Cancelled(held)[k] \in SlotState
                    /\ Cancelled(held)[k].state = "free" <=> held[k].state = "free"
                    /\ Cancelled(held)[k].state # "free" =>
                          Cancelled(held)[k].current = held[k].current
                    /\ Cancelled(held)[k].state = "ready" /\ Cancelled(held)[k].got # Nothing =>
                          Cancelled(held)[k] = held[k]
  BY DEF Cancelled
<1>1. CASE held[k] = Free
  BY <1>1 DEF Cancelled, SlotState, Free
<1>2. CASE held[k] \in [state : {"waiting"}, current : BOOLEAN]
  BY <1>2 DEF Cancelled, SlotState, Nothing
<1>3. CASE held[k] \in [state : {"ready"}, current : BOOLEAN, got : {Nothing} \cup Datagram]
  BY <1>3 DEF Cancelled, SlotState
<1> QED
  BY <1>1, <1>2, <1>3 DEF SlotState

\* A new receive generation leaves every slot in flight with an old one.
LEMMA NextGenerationSlots ==
    ASSUME NEW held \in [Slots -> SlotState]
    PROVE  /\ NextReceiveGeneration(held) \in [Slots -> SlotState]
           /\ \A k \in Slots :
                 /\ NextReceiveGeneration(held)[k].state = held[k].state
                 /\ held[k].state # "free" => ~NextReceiveGeneration(held)[k].current
<1> SUFFICES ASSUME NEW k \in Slots
             PROVE  /\ NextReceiveGeneration(held)[k] \in SlotState
                    /\ NextReceiveGeneration(held)[k].state = held[k].state
                    /\ held[k].state # "free" => ~NextReceiveGeneration(held)[k].current
  BY DEF NextReceiveGeneration
<1>1. CASE held[k] = Free
  BY <1>1 DEF NextReceiveGeneration, SlotState, Free
<1>2. CASE held[k] \in [state : {"waiting"}, current : BOOLEAN]
  BY <1>2 DEF NextReceiveGeneration, SlotState, Free
<1>3. CASE held[k] \in [state : {"ready"}, current : BOOLEAN, got : {Nothing} \cup Datagram]
  BY <1>3 DEF NextReceiveGeneration, SlotState, Free
<1> QED
  BY <1>1, <1>2, <1>3 DEF SlotState

\* do_receive leaves no slot free, and only puts slots to waiting.
LEMMA ArmedSlots ==
    ASSUME NEW held \in [Slots -> SlotState]
    PROVE  /\ Armed(held) \in [Slots -> SlotState]
           /\ \A k \in Slots :
                 /\ Armed(held)[k].state # "free"
                 /\ Armed(held)[k].state = "ready" => Armed(held)[k] = held[k]
<1> SUFFICES ASSUME NEW k \in Slots
             PROVE  /\ Armed(held)[k] \in SlotState
                    /\ Armed(held)[k].state # "free"
                    /\ Armed(held)[k].state = "ready" => Armed(held)[k] = held[k]
  BY DEF Armed
<1> QED
  BY DEF Armed, SlotState, Waiting, Free

\* Nothing is received or under way at the start.
LEMMA SlotsInvInit == Init => SlotsInv
<1> SUFFICES ASSUME Init PROVE SlotsInv
  OBVIOUS
<1>1. io.step = "idle"
  BY DEF Init, Idle
<1>2. \A k \in Slots : slots[k].state = "free"
  BY DEF Init, Free
<1>3. SlotsTyped
  BY DEF Init, SlotsTyped, SlotState, Handlers
<1> QED
  BY <1>1, <1>2, <1>3 DEF Init, SlotsInv, Steps

\* A step that touches neither the slots nor the socket, and leaves the network
\* thread idle or where it is, keeps the invariant.
LEMMA QuietStep ==
    ASSUME SlotsInv, UNCHANGED <<slots, socket>>, io' \in {io, Idle},
           receiving' \in {receiving, FALSE}, toClient' \subseteq Replies
    PROVE  SlotsInv'
<1>1. SlotsTyped'
  BY DEF SlotsInv, SlotsTyped, Handlers
<1>2. io' = io \/ io'.step = "idle"
  BY DEF Idle
<1>3. receiving' => receiving
  OBVIOUS
<1> USE DEF SlotsInv
<1>4. receiving' => \A k \in Slots : slots'[k].state # "free"
  BY <1>3
<1>5. io'.step \in Steps => ~receiving'
  BY <1>2, <1>3 DEF Steps
<1>6. io'.step = "rebinding" => \A k \in Slots : slots'[k].state # "free" => ~slots'[k].current
  BY <1>2
<1>7. io'.step = "dispatch" => io'.got.port = socket'
  BY <1>2
<1> QED
  BY <1>1, <1>4, <1>5, <1>6, <1>7

\* Each step keeps the invariant.
LEMMA SlotsInvNext == SlotsInv /\ [Next]_vars => SlotsInv'
<1> SUFFICES ASSUME SlotsInv, [Next]_vars PROVE SlotsInv'
  OBVIOUS
<1> USE DEF flags, place, threads, network, counts
<1>t. SlotsTyped /\ toClient \subseteq Replies
  BY DEF SlotsInv, SlotsTyped
<1>1. ASSUME join_room PROVE SlotsInv'
  <2>1. io'.step = "starting" /\ io' \in Handlers
    BY <1>1 DEF join_room, Handlers, Steps
  <2>2. slots' = Cancelled(slots) /\ UNCHANGED <<socket, toClient>> /\ receiving' = FALSE
    BY <1>1 DEF join_room
  <2>3. SlotsTyped' /\ \A k \in Slots :
           slots'[k].state = "ready" /\ slots'[k].got # Nothing => slots'[k] = slots[k]
    BY <1>t, <2>1, <2>2, CancelledSlots DEF SlotsTyped
  <2> QED
    BY <2>1, <2>2, <2>3 DEF SlotsInv
<1>2. ASSUME resolve_fails \/ clear_server_endpoint \/ clear_room_session_state
             \/ request_udp_path_rebind \/ run_posted \/ alive_timer_callback
             \/ stray_packet \/ handle_join_ack \/ handle_join_required
      PROVE  SlotsInv'
  BY <1>t, <1>2, QuietStep
  DEF resolve_fails, clear_server_endpoint, clear_room_session_state,
      request_udp_path_rebind, run_posted, alive_timer_callback, stray_packet,
      handle_join_ack, handle_join_required
<1>3. ASSUME set_endpoint PROVE SlotsInv'
  <2>1. io'.step = "resolved" /\ io' \in Handlers /\ receiving = FALSE
    BY <1>3 DEF set_endpoint, Handlers, Steps, SlotsInv
  <2>2. UNCHANGED <<slots, socket, toClient, receiving>>
    BY <1>3 DEF set_endpoint
  <2> QED
    BY <1>t, <2>1, <2>2 DEF SlotsInv, SlotsTyped
<1>4. ASSUME start_receiving \/ finish_rebind PROVE SlotsInv'
  <2> DEFINE old == NextReceiveGeneration(slots)
  <2>1. io' = Idle /\ receiving' = TRUE
    BY <1>4 DEF start_receiving, finish_rebind
  <2>2. slots' = Armed(old) /\ UNCHANGED <<socket, toClient>>
    BY <1>4 DEF start_receiving, finish_rebind
  <2>3. /\ old \in [Slots -> SlotState]
        /\ \A k \in Slots : old[k].state # "free" => ~old[k].current
    BY <1>t, NextGenerationSlots DEF SlotsTyped
  <2> HIDE DEF old
  <2>4. \A k \in Slots : slots'[k].state = "ready" => ~slots'[k].current
    BY <2>2, <2>3, ArmedSlots
  <2>5. io'.step = "idle" /\ io' \in Handlers
    BY <2>1 DEF Idle, Handlers
  <2>6. SlotsTyped' /\ \A k \in Slots : slots'[k].state # "free"
    BY <1>t, <2>1, <2>2, <2>3, <2>5, ArmedSlots DEF SlotsTyped
  <2> QED
    BY <2>1, <2>4, <2>5, <2>6 DEF SlotsInv, Steps
<1>5. ASSUME stop_connection PROVE SlotsInv'
  <2>1. slots' = NextReceiveGeneration(slots) /\ UNCHANGED <<io, socket, toClient>> /\ receiving' = FALSE
    BY <1>5 DEF stop_connection
  <2>2. SlotsTyped' /\ \A k \in Slots : slots'[k].state # "free" => ~slots'[k].current
    BY <1>t, <2>1, NextGenerationSlots DEF SlotsTyped
  <2> QED
    BY <2>1, <2>2 DEF SlotsInv
<1>6. ASSUME send_leave PROVE SlotsInv'
  <2>1. slots' = Cancelled(slots) /\ UNCHANGED <<io, socket, toClient, receiving>>
    BY <1>6 DEF send_leave
  <2> QED
    BY <1>t, <2>1, CancelledSlots DEF SlotsInv, SlotsTyped
<1>7. ASSUME begin_rebind PROVE SlotsInv'
  <2>1. CASE endpoint /\ outbound
    <3>1. io'.step = "rebinding" /\ io' \in Handlers
      BY <1>7, <2>1 DEF begin_rebind, Handlers, Steps
    <3>2. slots' = NextReceiveGeneration(slots) /\ UNCHANGED <<socket, toClient>> /\ receiving' = FALSE
      BY <1>7, <2>1 DEF begin_rebind
    <3>3. SlotsTyped' /\ \A k \in Slots : slots'[k].state # "free" => ~slots'[k].current
      BY <1>t, <3>1, <3>2, NextGenerationSlots DEF SlotsTyped
    <3> QED
      BY <3>1, <3>2, <3>3 DEF SlotsInv
  <2>2. CASE ~(endpoint /\ outbound)
    BY <1>t, <1>7, <2>2, QuietStep DEF begin_rebind
  <2> QED
    BY <2>1, <2>2
<1>8. ASSUME replace_socket PROVE SlotsInv'
  <2>1. io.step = "rebinding" /\ receiving = FALSE
    BY <1>8 DEF replace_socket, SlotsInv, Steps
  <2>2. io'.step = "rebound" /\ io' \in Handlers
    BY <1>8 DEF replace_socket, Handlers, Steps
  <2>3. slots' = Cancelled(slots) /\ socket' \in Nat /\ toClient' = {} /\ receiving' = FALSE
    BY <1>8, <1>t, <2>1 DEF replace_socket, SlotsTyped
  <2>4. \A k \in Slots : slots'[k].state # "free" => ~slots'[k].current
    BY <1>t, <2>1, <2>3, CancelledSlots DEF SlotsInv, SlotsTyped
  <2>5. SlotsTyped'
    BY <1>t, <2>2, <2>3, CancelledSlots DEF SlotsTyped
  <2> QED
    BY <2>2, <2>3, <2>4, <2>5 DEF SlotsInv
<1>9. ASSUME NEW k \in Slots, on_receive(k) PROVE SlotsInv'
  <2>1. /\ slots[k].state = "ready" /\ io.step = "idle"
        /\ UNCHANGED <<socket, toClient, receiving>>
        /\ slots' = [slots EXCEPT ![k] = IF receiving THEN Waiting ELSE Free]
    BY <1>9 DEF on_receive, complete_receive, Idle
  <2>2. slots' \in [Slots -> SlotState]
    BY <1>t, <2>1 DEF SlotsTyped, SlotState, Waiting
  <2>3. \A j \in Slots : slots'[j] = slots[j] \/ (j = k /\ slots'[j] = IF receiving THEN Waiting ELSE Free)
    BY <1>t, <2>1 DEF SlotsTyped
  <2>4. slots[k].got \in {Nothing} \cup Datagram
    BY <1>t, <2>1 DEF SlotsTyped, SlotState, Free
  <2>5. \/ io' = Idle
        \/ /\ io' = [step |-> "dispatch", got |-> slots[k].got]
           /\ slots[k].got # Nothing /\ slots[k].current
    BY <1>9 DEF on_receive, complete_receive
  <2>6. /\ io' \in Handlers /\ io'.step \in {"idle", "dispatch"}
        /\ io'.step = "dispatch" => io'.got.port = socket
    BY <2>1, <2>4, <2>5 DEF Handlers, Idle, SlotsInv
  <2> QED
    BY <1>t, <2>1, <2>2, <2>3, <2>6 DEF SlotsInv, SlotsTyped, Waiting, Free, Steps
<1>10. ASSUME handle_session_end PROVE SlotsInv'
  <2> DEFINE old == NextReceiveGeneration(slots)
  <2>1. io' = Idle /\ io'.step = "idle" /\ io' \in Handlers /\ receiving' = FALSE
    BY <1>10 DEF handle_session_end, Idle, Handlers
  <2>2. slots' = Cancelled(old) /\ UNCHANGED <<socket, toClient>>
    BY <1>10 DEF handle_session_end
  <2>3. /\ old \in [Slots -> SlotState]
        /\ \A k \in Slots : old[k].state # "free" => ~old[k].current
    BY <1>t, NextGenerationSlots DEF SlotsTyped
  <2> HIDE DEF old
  <2>4. SlotsTyped' /\ \A k \in Slots : slots'[k].state # "free" => ~slots'[k].current
    BY <1>t, <2>1, <2>2, <2>3, CancelledSlots DEF SlotsTyped
  <2> QED
    BY <2>1, <2>2, <2>4 DEF SlotsInv, Steps
<1>11. ASSUME NEW m \in toClient, NEW k \in Slots, deliver(m, k) PROVE SlotsInv'
  <2> DEFINE got == [kind |-> m, port |-> socket]
  <2>1. /\ slots[k].state = "waiting" /\ UNCHANGED <<io, socket, receiving>>
        /\ toClient' \subseteq Replies
        /\ slots' = [slots EXCEPT ![k] =
                       [state |-> "ready", current |-> slots[k].current, got |-> got]]
    BY <1>t, <1>11 DEF deliver
  <2>2. got \in Datagram /\ slots[k].current \in BOOLEAN
    BY <1>t, <2>1 DEF SlotsTyped, SlotState, Free, Datagram
  <2>3. slots' \in [Slots -> SlotState]
    BY <1>t, <2>1, <2>2 DEF SlotsTyped, SlotState
  <2>4. \A j \in Slots :
           \/ slots'[j] = slots[j]
           \/ /\ j = k
              /\ slots'[j] = [state |-> "ready", current |-> slots[k].current, got |-> got]
    BY <1>t, <2>1 DEF SlotsTyped
  <2> QED
    BY <1>t, <2>1, <2>3, <2>4 DEF SlotsInv, SlotsTyped
<1>12. ASSUME lose \/ forget \/ Serve PROVE SlotsInv'
  BY <1>t, <1>12, QuietStep
  DEF lose, forget, Serve, serve_join, serve_alive, serve_leave, Replies
<1>13. ASSUME UNCHANGED vars PROVE SlotsInv'
  BY <1>t, <1>13, QuietStep DEF vars
<1> QED
  BY <1>1, <1>2, <1>3, <1>4, <1>5, <1>6, <1>7, <1>8, <1>9, <1>10, <1>11, <1>12, <1>13
  DEF Next, Connect, Leave, Rebind, Handle

----------------------------------------------------------------------------
\* Only datagrams of the socket in use are handled, and no receive slot is left
\* idle while the client receives: on_receive with its generations is right
\* for every order of starts, stops and changes of socket.
THEOREM OnlyCurrentHandled == Spec => []HandledAreCurrent
<1>1. SlotsInv => HandledAreCurrent
  BY DEF SlotsInv, HandledAreCurrent, SlotsListen
<1> QED
  BY <1>1, SlotsInvInit, SlotsInvNext, PTL DEF Spec
============================================================================
