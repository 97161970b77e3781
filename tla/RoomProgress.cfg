\* Each part by itself: one session that is stopped, moved to a new socket,
\* removed or loses a datagram; one rotation of the room's key and one lost
\* message; one join and one invite.
SPECIFICATION Spec
CONSTANT None = None
INVARIANTS HandledAreCurrent RemovedLearnNothing
   
\* Each part may stop: its bounds are used up.
CHECK_DEADLOCK FALSE
