------------------------------ MODULE MCPlayout ------------------------------
EXTENDS Playout

\* A large callback that may decode two packets, and a small one that comes
\* when the other participants have used up the decodes.
MCCallbacks == {[budget |-> 2, frames |-> 3], [budget |-> 0, frames |-> 1]}
=============================================================================
