\* Each part by itself: one reporter and one change of the packet size; two
\* changes of the jitter settings and one of a packet size.
SPECIFICATION Spec
INVARIANTS TypeOK
PROPERTIES RestoredWhileReported 
\* Each part may stop: its bounds are used up.
CHECK_DEADLOCK FALSE
