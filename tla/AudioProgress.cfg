\* Each part by itself: two devices, one of them lost once; two metronome
\* syncs; two recordings of at most four blocks.
SPECIFICATION Spec
INVARIANTS StoppedStaysStopped
PROPERTIES  LatestSyncIsPlayed 
\* Each part may stop: its bounds are used up.
CHECK_DEADLOCK FALSE
