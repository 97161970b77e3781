----------------------------- MODULE RoomWindow -----------------------------
(***************************************************************************)
(* The window of the client: the room browser and the mixer, which the     *)
(* root component swaps, and the job that gets a ticket and joins.         *)
(* (juce_root_component.cpp, juce_room_browser_component.cpp,              *)
(* juce_mixer_component.cpp.)  The message thread runs one event at a      *)
(* time: a timer tick, a click, an invite from the system, a callback      *)
(* posted earlier.  The browser's job runs on its own thread and calls     *)
(* join_room there; the network thread ends sessions and delivers keys.    *)
(*                                                                         *)
(* A room has a version: its instance and access epoch.                    *)
(***************************************************************************)
EXTENDS Integers, Sequences

CONSTANTS Rooms,
          Approving,      \* the rooms that ask for approval
          None,           \* no room
          MaxJobs,        \* bound: joins and creations started
          MaxInvites,     \* bound: invites opened
          MaxEvents       \* bound: removals by the server, rooms changed

VARIABLES w,              \* the window and the client, see Init
          version,        \* server: per room
          jobs, invites, events

windowVars == <<w, version, jobs, invites, events>>

NoJob == [step |-> "none"]
NoDialog == [kind |-> "none"]

Init ==
    /\ w = [screen |-> "browser",
            listed |-> [r \in Rooms |-> 1],   \* the version listed, 0 for none
            job |-> NoJob,                    \* the job, its result until it is polled
            dialog |-> NoDialog,              \* active_dialog_
            invite |-> None,                  \* pending_invite_join_
            waiting |-> None,                 \* the room of pending_join_launch_
            posted |-> <<>>,                  \* callbacks posted to the message thread
            session |-> None,                 \* the client's room
            key |-> FALSE,                    \* has_media_key
            removed |-> FALSE,                \* room_removed_by_server_
            strayed |-> FALSE]                \* a flag of an earlier session was consumed
    /\ version = [r \in Rooms |-> 1]
    /\ jobs = 0 /\ invites = 0 /\ events = 0

Browsing == w.screen = "browser"
Running == w.job.step \in {"asking", "joining", "listing"}
Post(s, call, r) == [s EXCEPT !.posted = Append(@, [call |-> call, room |-> r])]

\* stop_connection.  It leaves room_removed_by_server_ alone.
Stopped(s) == [s EXCEPT !.session = None, !.key = FALSE]

\* consume_room_removed_by_server.
Consumed(s) == [s EXCEPT !.removed = FALSE, !.strayed = @ \/ s.session # None]

\* A dialog replaces the active one; the waiting dialog, so dismissed, calls back
\* (external: JUCE ends the modal state of a window that is deleted).
Showing(s, d) ==
    [(IF s.dialog.kind = "waiting" THEN Post(s, "dismissed", None) ELSE s)
        EXCEPT !.dialog = d]

(***************************************************************************)
(* The browser's dialogs and its job.                                      *)
(***************************************************************************)

\* start_job, unless one is running or its result not yet taken.
Started(s, j) == IF s.job = NoJob THEN [s EXCEPT !.job = j] ELSE s
Listing == [step |-> "listing"]

\* start_join_flow: the dialog remembers the room as it is listed.
JoinDialog(s, r) ==
    IF s.listed[r] = 0 THEN s
    ELSE Showing(s, [kind |-> "join", room |-> r, seen |-> s.listed[r]])

start_join_flow(r) ==
    /\ Browsing /\ w.dialog = NoDialog /\ w.listed[r] # 0
    /\ w' = JoinDialog(w, r)
    /\ UNCHANGED <<version, jobs, invites, events>>

\* The dialog is answered with Join, or the one of start_create_flow, which asks
\* for a new room, with Create.
submit(j) ==
    /\ jobs < MaxJobs /\ jobs' = jobs + 1
    /\ w' = Started([w EXCEPT !.dialog = NoDialog], j)
    /\ UNCHANGED <<version, invites, events>>

confirm_join ==
    /\ w.dialog.kind = "join"
    /\ submit([step |-> "asking", kind |-> "join", room |-> w.dialog.room,
               seen |-> w.dialog.seen])

start_create_flow(r) ==
    /\ Browsing /\ w.dialog = NoDialog
    /\ submit([step |-> "asking", kind |-> "create", room |-> r, seen |-> 0])

cancel_dialog ==
    /\ w.dialog.kind \in {"join", "invite"}
    /\ w' = [w EXCEPT !.dialog = NoDialog]
    /\ UNCHANGED <<version, jobs, invites, events>>

\* cancel_waiting_join, by its button; it closes whatever dialog is active.
CancelledWait(s) == [Stopped(s) EXCEPT !.waiting = None, !.dialog = NoDialog]

cancel_waiting_join ==
    /\ w.dialog.kind = "waiting" /\ w.waiting # None
    /\ w' = CancelledWait(w)
    /\ UNCHANGED <<version, jobs, invites, events>>

\* The invite dialog is answered with Open: the invite is kept, and the rooms
\* refreshed unless a job is running.
open_typed_invite ==
    /\ w.dialog.kind = "invite"
    /\ w' = Started([w EXCEPT !.dialog = NoDialog, !.invite = w.dialog.room], Listing)
    /\ UNCHANGED <<version, jobs, invites, events>>

\* The job thread: the rooms are listed, or the server does not answer.
finish_listing(ok) ==
    /\ w.job = Listing
    /\ ok \/ events < MaxEvents
    /\ events' = IF ok THEN events ELSE events + 1
    /\ w' = [w EXCEPT !.job = IF ok THEN [step |-> "listed", listed |-> version]
                              ELSE [step |-> "failed"]]
    /\ UNCHANGED <<version, jobs, invites>>

\* The job thread: the ticket.  It is refused if the room is not there (or, to be
\* created, is there), and dropped if the room is not as it was listed.
get_ticket ==
    /\ w.job.step = "asking"
    /\ LET r == w.job.room
           created == w.job.kind = "create"
       IN  IF (version[r] = 0) = created /\ (~created => version[r] = w.job.seen)
           THEN /\ w' = [w EXCEPT !.job.step = "joining"]
                /\ version' = IF created THEN [version EXCEPT ![r] = 1] ELSE version
           ELSE /\ w' = [w EXCEPT !.job = [step |-> "failed"]]
                /\ UNCHANGED version
    /\ UNCHANGED <<jobs, invites, events>>

\* The job thread: join_room.  Only a creator has the room's key.
join_room ==
    /\ w.job.step = "joining"
    /\ w' = [w EXCEPT !.job.step = "joined", !.session = w.job.room,
                      !.key = w.job.kind = "create"]
    /\ UNCHANGED <<version, jobs, invites, events>>

(***************************************************************************)
(* Timers.                                                                 *)
(***************************************************************************)

\* A plausible slip: the invite is not forgotten.
apply_status_once(s) ==
    LET t == [s EXCEPT !.job = NoJob, !.listed = s.job.listed]
    IN  IF s.invite # None THEN Post(t, "start_join_flow", s.invite) ELSE t

\* apply_status: the listing of the job.  An invited room that is listed gets its
\* dialog from a posted callback; the invite is then forgotten.
apply_status(s) ==
    LET t == [s EXCEPT !.job = NoJob, !.listed = s.job.listed, !.invite = None]
    IN  IF s.invite # None /\ s.job.listed[s.invite] # 0
        THEN Post(t, "start_join_flow", s.invite) ELSE t

\* apply_ticket_result: the mixer is posted, or the wait for approval begins.
apply_ticket_result(s) ==
    LET t == [s EXCEPT !.job = NoJob]
    IN  IF s.job.step = "failed" THEN t
        ELSE IF s.job.kind = "join" /\ s.job.room \in Approving
        THEN [Showing(t, [kind |-> "waiting"]) EXCEPT !.waiting = s.job.room]
        ELSE Post(t, "show_mixer", s.job.room)

poll_job_result(s) ==
    CASE s.job.step = "listed" -> apply_status(s)
      [] s.job.step \in {"failed", "joined"} -> apply_ticket_result(s)
      [] OTHER -> s

\* finish_waiting_join.
FinishedWait(s) ==
    Post([s EXCEPT !.waiting = None, !.dialog = NoDialog], "show_mixer", s.waiting)

\* timerCallback of the browser: the job, the end of a wait (after which a
\* declined request returns), the periodic refresh, when it is due.
browser_timer(due) ==
    /\ Browsing
    /\ LET s == poll_job_result(w)
       IN  w' = IF s.waiting # None /\ s.removed THEN CancelledWait(Consumed(s))
                ELSE LET t == IF s.waiting # None /\ s.key THEN FinishedWait(s) ELSE s
                     IN  IF due THEN Started(t, Listing) ELSE t
    /\ UNCHANGED <<version, jobs, invites, events>>

\* timerCallback of the mixer: a removal is answered with the browser.
mixer_timer ==
    /\ w.screen = "mixer" /\ w.removed
    /\ w' = Post(Consumed(w), "show_browser", None)
    /\ UNCHANGED <<version, jobs, invites, events>>

(***************************************************************************)
(* The root component and the mixer's Leave.                               *)
(***************************************************************************)

\* The browser is deleted when the mixer replaces it: its destructor waits for
\* the job, whose result is lost with it, and callbacks bound to it do nothing.
show_mixer(s) ==
    [s EXCEPT !.screen = "mixer", !.job = NoJob, !.dialog = NoDialog, !.invite = None,
              !.waiting = None,
              !.posted = SelectSeq(@, LAMBDA c : c.call \in {"show_mixer", "show_browser"})]

\* The browser, a new one unless it is shown already.
show_browser(s) ==
    IF s.screen = "browser" THEN s
    ELSE [s EXCEPT !.screen = "browser", !.listed = [r \in Rooms |-> 0]]

run_posted ==
    /\ w.posted # <<>>
    /\ LET c == Head(w.posted)
           s == [w EXCEPT !.posted = Tail(@)]
       IN  /\ c.call = "show_mixer" => ~Running
           /\ w' = CASE c.call = "show_mixer" -> show_mixer(s)
                     [] c.call = "show_browser" -> show_browser(s)
                     [] c.call = "start_join_flow" -> JoinDialog(s, c.room)
                     [] OTHER -> IF s.waiting # None THEN CancelledWait(s) ELSE s
    /\ UNCHANGED <<version, jobs, invites, events>>

leave_room ==
    /\ w.screen = "mixer"
    /\ Len(w.posted) < 2
    /\ w' = Post(Stopped(w), "show_browser", None)
    /\ UNCHANGED <<version, jobs, invites, events>>

\* open_invite of the root component: the session ends, the browser asks.
open_invite(r) ==
    /\ invites < MaxInvites /\ invites' = invites + 1
    /\ w' = Showing(show_browser(Stopped(w)), [kind |-> "invite", room |-> r])
    /\ UNCHANGED <<version, jobs, events>>

(***************************************************************************)
(* The network thread and the server.                                      *)
(***************************************************************************)

receive_key ==
    /\ w.session # None /\ ~w.key
    /\ w' = [w EXCEPT !.key = TRUE]
    /\ UNCHANGED <<version, jobs, invites, events>>

\* ROOM_REMOVED: the session is over and the flag raised.
receive_room_removed ==
    /\ w.session # None /\ events < MaxEvents /\ events' = events + 1
    /\ w' = [Stopped(w) EXCEPT !.removed = TRUE]
    /\ UNCHANGED <<version, jobs, invites>>

\* A room is closed, or its key replaced.
change_room(r, v) ==
    /\ version[r] # 0 /\ events < MaxEvents /\ events' = events + 1
    /\ version' = [version EXCEPT ![r] = v]
    /\ UNCHANGED <<w, jobs, invites>>

Next ==
    \/ \E r \in Rooms : start_join_flow(r) \/ start_create_flow(r) \/ open_invite(r)
                        \/ change_room(r, 0) \/ change_room(r, 2)
    \/ confirm_join \/ cancel_dialog \/ cancel_waiting_join \/ open_typed_invite
    \/ \E b \in BOOLEAN : finish_listing(b) \/ browser_timer(b)
    \/ get_ticket \/ join_room \/ mixer_timer \/ run_posted \/ leave_room
    \/ receive_key \/ receive_room_removed

Spec == Init /\ [][Next]_windowVars

\* The timer ticks and refreshes, a job ends, a posted callback runs.
FairSpec ==
    /\ Spec
    /\ WF_windowVars(browser_timer(TRUE)) /\ WF_windowVars(run_posted)
    /\ WF_windowVars(finish_listing(TRUE)) /\ WF_windowVars(get_ticket)
    /\ WF_windowVars(join_room)

----------------------------------------------------------------------------
\* The variables have their types.
TypeOK ==
    /\ w.screen \in {"browser", "mixer"}
    /\ w.listed \in [Rooms -> 0 .. 2] /\ version \in [Rooms -> 0 .. 2]
    /\ {w.invite, w.waiting, w.session} \subseteq Rooms \cup {None}
    /\ {w.key, w.removed, w.strayed} \subseteq BOOLEAN
    /\ jobs \in 0 .. MaxJobs /\ invites \in 0 .. MaxInvites /\ events \in 0 .. MaxEvents

\* A session is never left without a window that shows it: unless a job or a
\* callback is still to come, the mixer is shown or the browser waits for
\* approval.  The exception is a removal flag that outlived its session
\* (room_removed_by_server_ is not reset when the next connection starts).
SessionIsAttended ==
    (w.session # None /\ w.job = NoJob /\ w.posted = <<>> /\ ~w.strayed) =>
        w.screen = "mixer" \/ w.waiting # None

\* An invite that was opened does not hang: it comes to its dialog or is found
\* not to be listed, even if a job was running when it was opened and the
\* refresh it asks for was therefore skipped.
InviteIsAnswered == w.invite # None ~> w.invite = None

=============================================================================
