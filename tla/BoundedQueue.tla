---------------------------- MODULE BoundedQueue ----------------------------
(***************************************************************************)
(* What the event loop and a media worker expect of the queue between      *)
(* them: a first-in first-out queue of bounded length whose push and pop   *)
(* take effect at one instant each.                                        *)
(***************************************************************************)
EXTENDS Naturals, Sequences

CONSTANTS
    Task,     \* what is queued
    Limit     \* how many tasks fit

VARIABLES
    items,    \* the queued tasks, oldest first
    taken     \* the task popped last, as a sequence of at most one

Init == items = <<>> /\ taken = <<>>

Push(v) ==
    /\ Len(items) < Limit
    /\ items' = Append(items, v)
    /\ UNCHANGED taken

Pop ==
    /\ items # <<>>
    /\ items' = Tail(items)
    /\ taken' = <<Head(items)>>

Next == (\E v \in Task : Push(v)) \/ Pop

Spec == Init /\ [][Next]_<<items, taken>>
=============================================================================
