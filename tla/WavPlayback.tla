---------------------------- MODULE WavPlayback ----------------------------
(***************************************************************************)
(* Playing a WAV file into the stream (wav_file_playback.h).  The window's *)
(* thread loads, unloads, plays, pauses and seeks; the audio callback      *)
(* reads.  They share atomics, and the file itself by a shared pointer: a  *)
(* file that is replaced is kept among the retired ones until no callback  *)
(* holds it, so that the callback never frees memory.                      *)
(*                                                                         *)
(* A file is a number, 0 for none; its samples are their positions.  The   *)
(* fraction of a frame kept between reads is left out.                     *)
(***************************************************************************)
EXTENDS Integers, FiniteSets

CONSTANTS Files,          \* the files that can be loaded: numbers from 1
          MaxLength,      \* frames of the longest
          Resampled,      \* the files whose rate is not the stream's
          Frames,         \* frames a callback asks for
          MaxOps          \* bound: operations of the window

VARIABLES loaded,         \* loaded_wav_
          retired,        \* retired_wavs_
          freedBy,        \* per file, who freed it: "no one", "window", "audio"
          playing, position,
          ui,             \* the window's thread: between the steps of load_file
          held,           \* the file the callback holds, 0 for none
          from,           \* the position it read
          ops

wavVars == <<loaded, retired, freedBy, playing, position, ui, held, from, ops>>

\* The frames of a file; the first is the longest.
Length == [f \in Files |-> IF f = 1 THEN MaxLength ELSE MaxLength - 1]

Idle == [step |-> "idle"]
Unread == -1

Init ==
    /\ loaded = 0 /\ retired = {}
    /\ freedBy = [f \in Files |-> "no one"]
    /\ playing = FALSE /\ position = 0
    /\ ui = Idle /\ held = 0 /\ from = Unread
    /\ ops = 0

(***************************************************************************)
(* The window.                                                             *)
(***************************************************************************)

\* load_file and unload begin alike: playback is reset, nothing is published
\* yet.  A file is loaded at most once.
reset_playback(f) ==
    /\ ui = Idle /\ ops < MaxOps /\ ops' = ops + 1
    /\ f # 0 => f # loaded /\ f \notin retired /\ freedBy[f] = "no one"
    /\ playing' = FALSE /\ position' = 0
    /\ ui' = [step |-> "unloading", file |-> f]
    /\ UNCHANGED <<loaded, retired, freedBy, held, from>>

\* reap_retired_wavs: those that nobody else holds are freed.
Reaped == {f \in retired : held # f}

\* publish_loaded_wav: the retired are reaped, then the file replaces the one
\* loaded, which is retired.
publish(f, keeps) ==
    /\ loaded' = f
    /\ retired' = (retired \ Reaped) \cup (IF keeps THEN {loaded} \ {0} ELSE {})
    /\ freedBy' = [g \in Files |->
          IF g \in Reaped THEN "window"
          ELSE IF g = loaded /\ ~keeps /\ held # g THEN "window" ELSE freedBy[g]]

\* A plausible slip: the file replaced is let go.
publish_without_retiring ==
    /\ ui.step = "unloading"
    /\ publish(0, FALSE)
    /\ ui' = IF ui.file = 0 THEN Idle ELSE [ui EXCEPT !.step = "loading"]
    /\ UNCHANGED <<playing, position, held, from, ops>>

publish_nothing ==
    /\ ui.step = "unloading"
    /\ publish(0, TRUE)
    /\ ui' = IF ui.file = 0 THEN Idle ELSE [ui EXCEPT !.step = "loading"]
    /\ UNCHANGED <<playing, position, held, from, ops>>

\* The file is read: it is refused, or playback reset again and the file
\* published.
finish_loading(readable) ==
    /\ ui.step = "loading"
    /\ IF readable
       THEN /\ playing' = FALSE /\ position' = 0
            /\ publish(ui.file, TRUE)
       ELSE UNCHANGED <<playing, position, loaded, retired, freedBy>>
    /\ ui' = Idle
    /\ UNCHANGED <<held, from, ops>>

play ==
    /\ ui = Idle /\ loaded # 0 /\ ~playing /\ ops < MaxOps /\ ops' = ops + 1
    /\ playing' = TRUE
    /\ UNCHANGED <<loaded, retired, freedBy, position, ui, held, from>>

pause ==
    /\ ui = Idle /\ playing /\ ops < MaxOps /\ ops' = ops + 1
    /\ playing' = FALSE
    /\ UNCHANGED <<loaded, retired, freedBy, position, ui, held, from>>

\* The position slider is moved: playback is paused, and then the seek made,
\* which does nothing unless playback is off.
move_slider(p) ==
    /\ ui = Idle /\ loaded # 0 /\ p <= Length[loaded] /\ ops < MaxOps /\ ops' = ops + 1
    /\ playing' = FALSE
    /\ ui' = [step |-> "seeking", at |-> p]
    /\ UNCHANGED <<loaded, retired, freedBy, position, held, from>>

seek ==
    /\ ui.step = "seeking"
    /\ position' = IF playing THEN position ELSE ui.at
    /\ ui' = Idle
    /\ UNCHANGED <<loaded, retired, freedBy, playing, held, from, ops>>

\* The client's cleanup timer reaps too, on the network thread.
reap_retired_wavs ==
    /\ Reaped # {}
    /\ retired' = retired \ Reaped
    /\ freedBy' = [f \in Files |-> IF f \in Reaped THEN "window" ELSE freedBy[f]]
    /\ UNCHANGED <<loaded, playing, position, ui, held, from, ops>>

(***************************************************************************)
(* read, on the audio thread.                                              *)
(***************************************************************************)

\* The file is held and playback found to be on.
begin_read ==
    /\ held = 0 /\ loaded # 0 /\ playing
    /\ held' = loaded /\ from' = Unread
    /\ UNCHANGED <<loaded, retired, freedBy, playing, position, ui, ops>>

read_position ==
    /\ held # 0 /\ from = Unread
    /\ from' = position
    /\ UNCHANGED <<loaded, retired, freedBy, playing, position, ui, held, ops>>

\* The callback lets the file go; freed here if no one else has it.
Released ==
    freedBy' = [f \in Files |->
        IF f = held /\ loaded # f /\ f \notin retired /\ freedBy[f] = "no one"
        THEN "audio" ELSE freedBy[f]]

\* The samples are copied and the position moved: added to for a file at the
\* stream's rate, replaced for one that is resampled.  At the end of the file
\* playback is turned off.
end_read ==
    /\ held # 0 /\ from # Unread
    /\ LET left == Length[held] - from
           read == IF left < Frames THEN left ELSE Frames
       IN  IF left <= 0
           THEN playing' = FALSE /\ UNCHANGED position
           ELSE /\ position' = IF held \in Resampled THEN from + read ELSE position + read
                /\ playing' = IF held \in Resampled
                              THEN playing /\ from + read < Length[held]
                              ELSE playing /\ read = Frames
    /\ Released
    /\ held' = 0 /\ from' = Unread
    /\ UNCHANGED <<loaded, retired, ui, ops>>

Next ==
    \/ \E f \in Files \cup {0} : reset_playback(f)
    \/ publish_nothing \/ \E b \in BOOLEAN : finish_loading(b)
    \/ play \/ pause \/ seek \/ \E p \in 0 .. MaxLength : move_slider(p)
    \/ reap_retired_wavs \/ begin_read \/ read_position \/ end_read

Spec == Init /\ [][Next]_wavVars

----------------------------------------------------------------------------
\* The variables have their types.
TypeOK ==
    /\ loaded \in Files \cup {0} /\ retired \subseteq Files
    /\ held \in Files \cup {0} /\ playing \in BOOLEAN
    /\ position \in Nat /\ from \in Nat \cup {Unread} /\ ops \in 0 .. MaxOps

\* The callback never frees a file, and the file it reads is not freed under it,
\* however loads and unloads fall between the steps of its read
\* (publish_loaded_wav and reap_retired_wavs).
CallbackNeverFrees ==
    /\ \A f \in Files : freedBy[f] # "audio"
    /\ held # 0 => freedBy[held] = "no one"

=============================================================================
