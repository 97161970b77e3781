--------------------------- MODULE StatusRefresh ---------------------------
(***************************************************************************)
(* The room browser's refresh of its servers: one probe for each server    *)
(* runs on a job thread (StatusRefreshRunner, juce_room_browser_           *)
(* component.cpp).  A probe resolves the address and asks for the rooms,   *)
(* of the selected server page by page, of another only for a sign of      *)
(* life.  Datagrams are lost and repeated, the rooms change meanwhile, and *)
(* a timer ends a probe whose answer does not come.                        *)
(*                                                                         *)
(* A server lists its rooms in the order of their numbers.                 *)
(***************************************************************************)
EXTENDS Integers, FiniteSets, Sequences, SequencesExt

CONSTANTS Servers,
          Selected,       \* the server selected in the browser
          Rooms,          \* the rooms the selected server may have: numbers
          PageSize,       \* MAX_ROOM_STATUS_SUMMARIES
          PageLimit,      \* ROOM_STATUS_PAGE_LIMIT
          MaxFaults,      \* bound: datagrams lost or repeated
          MaxChanges      \* bound: changes of the selected server's rooms

VARIABLES probe,          \* per server, its ProbeState
          updates,        \* the servers updated, in order, with their status
          pending,        \* probes not finished; the job ends at 0
          flying,         \* requests and responses on their way
          rooms,          \* the rooms of the selected server
          changed,        \* they changed since the refresh began
          faults

statusVars == <<probe, updates, pending, flying, rooms, changed, faults>>

List(s) == IF s = Selected THEN SetToSortSeq(rooms, <) ELSE <<>>
Limit(s) == IF s = Selected THEN PageSize ELSE 1

Request(s, offset) == [kind |-> "request", server |-> s, offset |-> offset]

NewProbe == [phase |-> "resolving", expected |-> 0, pages |-> 0, ok |-> FALSE,
             rooms |-> <<>>, truncated |-> FALSE]

Init ==
    /\ probe = [s \in Servers |-> NewProbe]
    /\ updates = <<>> /\ pending = Cardinality(Servers)
    /\ flying = {} /\ faults = 0
    /\ rooms \in SUBSET Rooms /\ changed = 0

(***************************************************************************)
(* The probe.                                                              *)
(***************************************************************************)

\* finish: with the status of p, once.
finish(s, p) ==
    /\ probe' = [probe EXCEPT ![s] = [p EXCEPT !.phase = "finished"]]
    /\ updates' = Append(updates, [server |-> s, ok |-> p.ok, rooms |-> p.rooms,
                                   truncated |-> p.truncated])
    /\ pending' = pending - 1

\* handle_resolve, and request_page for the first page.
handle_resolve(s) ==
    /\ pending > 0 /\ probe[s].phase = "resolving"
    /\ probe' = [probe EXCEPT ![s].phase = "asked"]
    /\ flying' = flying \cup {Request(s, 0)}
    /\ UNCHANGED <<updates, pending, rooms, changed, faults>>

\* The address does not resolve, or a send fails: finish_failure.
finish_failure(s) ==
    /\ pending > 0 /\ probe[s].phase # "finished"
    /\ faults < MaxFaults /\ faults' = faults + 1
    /\ finish(s, [probe[s] EXCEPT !.ok = FALSE, !.rooms = <<>>])
    /\ UNCHANGED <<flying, rooms, changed>>

\* The timer of arm_timeout: what has come so far is the result.
expire(s) ==
    /\ pending > 0 /\ probe[s].phase # "finished"
    /\ finish(s, probe[s])
    /\ UNCHANGED <<flying, rooms, changed, faults>>

\* apply_response.
Applied(s, m) ==
    [probe[s] EXCEPT !.ok = TRUE, !.truncated = m.truncated,
                     !.rooms = IF s = Selected THEN @ \o m.rooms ELSE @]

\* handle_response to a datagram the probe accepts: the next page, or the end.
take_response(m, accepted) ==
    LET s == m.server
        p == Applied(s, m)
        next == m.offset + Len(m.rooms)
        can_page == /\ s = Selected /\ m.rooms # <<>>
                    /\ m.truncated /\ next < m.total
                    /\ p.pages + 1 < PageLimit
    IN  IF ~accepted
        THEN UNCHANGED <<probe, updates, pending>> /\ flying' = flying \ {m}
        ELSE IF can_page
        THEN /\ probe' = [probe EXCEPT ![s] = [p EXCEPT !.pages = @ + 1, !.expected = next]]
             /\ flying' = (flying \ {m}) \cup {Request(s, next)}
             /\ UNCHANGED <<updates, pending>>
        ELSE /\ finish(s, [p EXCEPT !.truncated = s = Selected /\ @ /\ next < m.total])
             /\ flying' = flying \ {m}

\* A plausible slip: the page is not compared with the one asked for.
handle_response_of_any_page(m) ==
    /\ pending > 0 /\ m \in flying /\ m.kind = "response"
    /\ take_response(m, probe[m.server].phase # "finished")
    /\ UNCHANGED <<rooms, changed, faults>>

\* handle_receive and handle_response: an answer to a probe that is not
\* finished, for the page it expects.  Anything else is dropped and the socket
\* listens again.
handle_response(m) ==
    /\ pending > 0 /\ m \in flying /\ m.kind = "response"
    /\ take_response(m, probe[m.server].phase # "finished"
                        /\ m.offset = probe[m.server].expected)
    /\ UNCHANGED <<rooms, changed, faults>>

(***************************************************************************)
(* The server and the network.                                             *)
(***************************************************************************)

\* handle_server_status_request.
handle_server_status_request(m) ==
    /\ m \in flying /\ m.kind = "request"
    /\ LET list == List(m.server)
           offset == IF m.offset < Len(list) THEN m.offset ELSE Len(list)
           last == IF offset + Limit(m.server) < Len(list) THEN offset + Limit(m.server)
                   ELSE Len(list)
       IN  flying' = (flying \ {m}) \cup
              {[kind |-> "response", server |-> m.server, offset |-> offset,
                rooms |-> SubSeq(list, offset + 1, last),
                truncated |-> last < Len(list), total |-> Len(list)]}
    /\ UNCHANGED <<probe, updates, pending, rooms, changed, faults>>

lose(m) ==
    /\ m \in flying /\ faults < MaxFaults
    /\ faults' = faults + 1 /\ flying' = flying \ {m}
    /\ UNCHANGED <<probe, updates, pending, rooms, changed>>

\* A request arrives twice: it is answered and still on its way.
repeat(m) ==
    /\ m \in flying /\ m.kind = "response" /\ faults < MaxFaults
    /\ faults' = faults + 1 /\ flying' = flying \cup {Request(m.server, m.offset)}
    /\ UNCHANGED <<probe, updates, pending, rooms, changed>>

\* A room is created or removed at the selected server.
change_rooms(r) ==
    /\ pending > 0 /\ changed < MaxChanges
    /\ changed' = changed + 1
    /\ rooms' = IF r \in rooms THEN rooms \ {r} ELSE rooms \cup {r}
    /\ UNCHANGED <<probe, updates, pending, flying, faults>>

Next ==
    \/ \E s \in Servers : handle_resolve(s) \/ finish_failure(s) \/ expire(s)
    \/ \E m \in flying : handle_response(m) \/ handle_server_status_request(m)
                         \/ lose(m) \/ repeat(m)
    \/ \E r \in Rooms : change_rooms(r)

Spec == Init /\ [][Next]_statusVars

----------------------------------------------------------------------------
\* The variables have their types.
TypeOK ==
    /\ probe \in [Servers -> [phase : {"resolving", "asked", "finished"},
                              expected : 0 .. Cardinality(Rooms), pages : 0 .. PageLimit,
                              ok : BOOLEAN, rooms : Seq(Rooms), truncated : BOOLEAN]]
    /\ pending \in 0 .. Cardinality(Servers)
    /\ pending = Cardinality({s \in Servers : probe[s].phase # "finished"})
    /\ rooms \subseteq Rooms /\ changed \in 0 .. MaxChanges
    /\ faults \in 0 .. MaxFaults

\* A list of the selected server shown as complete is its list of rooms, and one
\* shown as cut short is the beginning of it, however answers were lost,
\* repeated or late, as long as the rooms did not change meanwhile
\* (handle_response with expected_room_offset, and the timeout between pages).
ListedAsTheServerLists ==
    \A i \in DOMAIN updates :
        (updates[i].ok /\ updates[i].server = Selected /\ changed = 0) =>
            IF updates[i].truncated THEN IsPrefix(updates[i].rooms, List(Selected))
            ELSE updates[i].rooms = List(Selected)

\* A refresh that ends has updated every server exactly once: answers that
\* never come, come twice or come after the timer neither finish a probe again
\* nor leave one out.  (A probe that is not finished has its timer, so the
\* refresh does end.)
RefreshIsExact ==
    /\ ListedAsTheServerLists
    /\ (pending = 0) <=> ({updates[i].server : i \in DOMAIN updates} = Servers)
    /\ \A i, j \in DOMAIN updates : updates[i].server = updates[j].server => i = j

=============================================================================
