----------------------------- MODULE Metronome -----------------------------
(***************************************************************************)
(* The room's metronome (client_metronome.cpp and the server's             *)
(* handle_metronome_sync).  A client that changes the tempo, starts or     *)
(* stops the click sends a sync; the server numbers it, gives it a time a  *)
(* little ahead and relays it to the whole room, the sender included.  A   *)
(* client's network thread stores the sync field by field; its audio       *)
(* callback prepares it and applies it when its time has come, with no     *)
(* lock between the two.                                                   *)
(*                                                                         *)
(* A sync's time is its number: times grow with the numbers.  The beat it  *)
(* carries is left out: it is stored and applied with the time.            *)
(***************************************************************************)
EXTENDS Integers, FiniteSets

CONSTANTS Clients,        \* the clients of the room
          Tempos,         \* the tempos they choose: numbers from 1
          MaxSyncs        \* bound: syncs sent

VARIABLES metronome,      \* per client, its metronome
          toServer,       \* syncs on their way to the server
          toClients,      \* syncs on their way to a client
          sequence,       \* the server's metronome_sequence_
          now,            \* the last sync whose time has come
          sent, best      \* syncs sent; per client, the latest sync handled
metronomeVars == <<metronome, toServer, toClients, sequence, now, sent, best>>

Off == [bpm |-> 0, running |-> FALSE, at |-> 0]

New ==
    [pending |-> Off, number |-> 0,           \* stored by the network thread
     storing |-> 0, sync |-> Off,             \* the fields it has yet to store, and of what
     prepared |-> 0, at |-> 0, applied |-> 0, \* the audio thread's
     reading |-> 0, next |-> Off, playing |-> Off]

Init ==
    /\ metronome = [c \in Clients |-> New]
    /\ toServer = {} /\ toClients = {}
    /\ sequence = 0 /\ now = 0 /\ sent = 0
    /\ best = [c \in Clients |-> Off]

(***************************************************************************)
(* Sending, and the server.                                                *)
(***************************************************************************)

send_metronome_sync(c, bpm, running) ==
    /\ sent < MaxSyncs
    /\ sent' = sent + 1
    /\ toServer' = toServer \cup {[bpm |-> bpm, running |-> running, id |-> sent]}
    /\ UNCHANGED <<metronome, toClients, sequence, now, best>>

\* should_send_bpm_milli: not what is playing, or not what is pending.
ShouldSend(c, bpm) ==
    \/ bpm # metronome[c].playing.bpm
    \/ metronome[c].number # 0 /\ metronome[c].pending.bpm # bpm

commit_metronome_bpm(c, bpm) ==
    /\ ShouldSend(c, bpm)
    /\ send_metronome_sync(c, bpm, metronome[c].playing.running)

\* Start and stop send the tempo that is playing.
start_or_stop_metronome(c) ==
    send_metronome_sync(c, metronome[c].playing.bpm, ~metronome[c].playing.running)

handle_metronome_sync(m) ==
    /\ m \in toServer
    /\ sequence' = sequence + 1
    /\ toServer' = toServer \ {m}
    /\ toClients' = toClients \cup
          {[to |-> c, bpm |-> m.bpm, running |-> m.running, at |-> sequence + 1] : c \in Clients}
    /\ UNCHANGED <<metronome, now, sent, best>>

\* The time of the next sync comes.
tick ==
    /\ now < sequence
    /\ now' = now + 1
    /\ UNCHANGED <<metronome, toServer, toClients, sequence, sent, best>>

lose(m) ==
    /\ m \in toClients
    /\ toClients' = toClients \ {m}
    /\ UNCHANGED <<metronome, toServer, sequence, now, sent, best>>

(***************************************************************************)
(* schedule_sync, on the network thread.                                   *)
(***************************************************************************)

\* A sync numbered no higher than the one stored is ignored.
schedule_sync(m) ==
    LET c == m.to
        content == [bpm |-> m.bpm, running |-> m.running, at |-> m.at] IN
    /\ m \in toClients /\ metronome[c].storing = 0
    /\ toClients' = toClients \ {m}
    /\ IF m.at <= metronome[c].number THEN UNCHANGED <<metronome, best>>
       ELSE /\ metronome' = [metronome EXCEPT ![c].storing = 1, ![c].sync = content]
            /\ best' = [best EXCEPT ![c] = content]
    /\ UNCHANGED <<toServer, sequence, now, sent>>

\* The fields are stored in turn, field k of the four in the order of k.
Stored(s, k) ==
    CASE k = 1 -> [s EXCEPT !.pending.bpm = s.sync.bpm]
      [] k = 2 -> [s EXCEPT !.pending.running = s.sync.running]
      [] k = 3 -> [s EXCEPT !.pending.at = s.sync.at]
      [] k = 4 -> [s EXCEPT !.number = s.sync.at]

\* A plausible slip: the number is stored first.
StoredNumberFirst(s, k) ==
    CASE k = 1 -> [s EXCEPT !.number = s.sync.at]
      [] k = 2 -> [s EXCEPT !.pending.bpm = s.sync.bpm]
      [] k = 3 -> [s EXCEPT !.pending.running = s.sync.running]
      [] k = 4 -> [s EXCEPT !.pending.at = s.sync.at]

store_number_first(c) ==
    LET s == metronome[c] IN
    /\ s.storing # 0
    /\ metronome' = [metronome EXCEPT ![c] =
          [StoredNumberFirst(s, s.storing) EXCEPT !.storing = (s.storing + 1) % 5]]
    /\ UNCHANGED <<toServer, toClients, sequence, now, sent, best>>

store_field(c) ==
    LET s == metronome[c] IN
    /\ s.storing # 0
    /\ metronome' = [metronome EXCEPT ![c] =
          [Stored(s, s.storing) EXCEPT !.storing = (s.storing + 1) % 5]]
    /\ UNCHANGED <<toServer, toClients, sequence, now, sent, best>>

(***************************************************************************)
(* mix_click, on the audio thread.                                         *)
(***************************************************************************)

\* prepare_schedule: a number not seen before is taken, and after it the time.
prepare_schedule(c) ==
    LET s == metronome[c] IN
    /\ \/ /\ s.reading = 0 /\ s.number # s.prepared
          /\ metronome' = [metronome EXCEPT ![c].prepared = s.number, ![c].reading = 1]
       \/ /\ s.reading = 1
          /\ metronome' = [metronome EXCEPT ![c].at = s.pending.at, ![c].reading = 2]
    /\ UNCHANGED <<toServer, toClients, sequence, now, sent, best>>

\* apply_due_schedule: once the time has come, what is pending is read, field
\* by field, and played from the time prepared.
apply_due_schedule(c) ==
    LET s == metronome[c] IN
    /\ \/ /\ s.reading \in {0, 2} /\ s.prepared # s.applied /\ s.at <= now
          /\ metronome' = [metronome EXCEPT ![c].next.bpm = s.pending.bpm, ![c].reading = 3]
       \/ /\ s.reading = 3
          /\ metronome' = [metronome EXCEPT
                ![c].playing = [bpm |-> s.next.bpm, running |-> s.pending.running, at |-> s.at],
                ![c].next = Off, ![c].applied = s.prepared, ![c].reading = 0]
    /\ UNCHANGED <<toServer, toClients, sequence, now, sent, best>>

\* The callback ends; what is not due is looked at again in the next.
end_mix_click(c) ==
    /\ metronome[c].reading = 2
    /\ metronome' = [metronome EXCEPT ![c].reading = 0]
    /\ UNCHANGED <<toServer, toClients, sequence, now, sent, best>>

Next ==
    \/ \E c \in Clients :
          \/ \E bpm \in Tempos : commit_metronome_bpm(c, bpm)
          \/ start_or_stop_metronome(c)
          \/ store_field(c) \/ prepare_schedule(c) \/ apply_due_schedule(c) \/ end_mix_click(c)
    \/ \E m \in toServer : handle_metronome_sync(m)
    \/ \E m \in toClients : schedule_sync(m) \/ lose(m)
    \/ tick

Spec == Init /\ [][Next]_metronomeVars

Fair ==
    /\ WF_metronomeVars(\E m \in toServer : handle_metronome_sync(m))
    /\ WF_metronomeVars(tick)
    /\ \A c \in Clients :
          /\ WF_metronomeVars(store_field(c))
          /\ WF_metronomeVars(\E m \in toClients : m.to = c /\ schedule_sync(m))
          /\ WF_metronomeVars(prepare_schedule(c) \/ apply_due_schedule(c) \/ end_mix_click(c))

FairSpec == Spec /\ Fair

----------------------------------------------------------------------------
\* The variables have their types.
TypeOK ==
    /\ sequence \in 0 .. MaxSyncs /\ now \in 0 .. sequence /\ sent \in 0 .. MaxSyncs
    /\ \A c \in Clients :
          /\ metronome[c].storing \in 0 .. 4 /\ metronome[c].reading \in 0 .. 3
          /\ metronome[c].number \in 0 .. sequence

\* Every client comes to play the latest sync it was given, its tempo, its start
\* or stop and its time all of that one sync, in whatever order syncs arrive and
\* however the callback's reads fall between the stores (schedule_sync,
\* prepare_schedule, apply_due_schedule).
LatestSyncIsPlayed ==
    \A c \in Clients : <>[](metronome[c].playing = best[c])

=============================================================================
