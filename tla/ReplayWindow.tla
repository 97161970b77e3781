---------------------------- MODULE ReplayWindow ----------------------------
(***************************************************************************)
(* ReplayWindow (src/common/replay_window.h): the receiver's guard against *)
(* replayed secure packets, a bitmap of the WINDOW_BITS newest sequence    *)
(* numbers.  Numbers are counted by the sender and taken modulo Modulus on *)
(* the wire; they arrive in any order, any number of times, as long as the *)
(* spread stays under half the number space.                               *)
(***************************************************************************)
EXTENDS Integers, FiniteSets

CONSTANTS
    Modulus,      \* 2^32 in the code
    WINDOW_BITS,  \* 64 in the code
    First,        \* the number of the first packet sent
    Span          \* bound: how many packets are sent; less than Modulus / 2

WindowAssumption ==
    /\ Modulus \in Nat \ {0} /\ Modulus % 2 = 0
    /\ WINDOW_BITS \in Nat \ {0} /\ WINDOW_BITS < Modulus
    /\ First \in Nat
    /\ Span \in Nat /\ 2 * Span < Modulus

Number == First..(First + Span - 1)
Wire(n) == n % Modulus

VARIABLES
    initialized,
    highest_sequence,
    seen,       \* the set bits of seen_: bit d stands for highest_sequence - d
    accepted,   \* history: how often each number was accepted
    newest      \* history: the largest accepted, First - 1 at first

vars == <<initialized, highest_sequence, seen, accepted, newest>>

TypeOK ==
    /\ initialized \in BOOLEAN
    /\ highest_sequence \in 0..Modulus-1
    /\ seen \in SUBSET (0..WINDOW_BITS-1)
    /\ accepted \in [Number -> Nat]
    /\ newest \in Number \cup {First - 1}

Init ==
    /\ initialized = FALSE
    /\ highest_sequence = 0
    /\ seen = {}
    /\ accepted = [n \in Number |-> 0]
    /\ newest = First - 1

Minus(a, b) == (a - b) % Modulus

\* static_cast<int32_t>(lhs - rhs) > 0
sequence_after(lhs, rhs) == lhs # rhs /\ Minus(lhs, rhs) < Modulus \div 2

\* Mutant: the window has no last bit.
ShiftLeft_unmasked(bits, distance) == {d + distance : d \in bits}

\* Mutant: the shift keeps the bits that should fall out of the window.
ShiftLeft_wrapping(bits, distance) == {(d + distance) % WINDOW_BITS : d \in bits}

\* seen_ << distance, in WINDOW_BITS bits.
ShiftLeft(bits, distance) ==
    {d + distance : d \in bits} \cap (0..WINDOW_BITS-1)

accept_first(n) ==
    /\ Wire(n) # 0
    /\ ~initialized
    /\ initialized' = TRUE
    /\ highest_sequence' = Wire(n)
    /\ seen' = {0}
    /\ accepted' = [accepted EXCEPT ![n] = @ + 1]
    /\ newest' = n

accept_newer(n) ==
    LET distance == Minus(Wire(n), highest_sequence)
    IN  /\ Wire(n) # 0
        /\ initialized
        /\ sequence_after(Wire(n), highest_sequence)
        /\ seen' = (IF distance >= WINDOW_BITS THEN {} ELSE ShiftLeft(seen, distance))
                       \cup {0}
        /\ highest_sequence' = Wire(n)
        /\ accepted' = [accepted EXCEPT ![n] = @ + 1]
        /\ newest' = n
        /\ UNCHANGED initialized

\* Mutant: a bit past the end of the window is taken for an unseen one.
accept_older_unchecked(n) ==
    LET distance == Minus(highest_sequence, Wire(n))
    IN  /\ Wire(n) # 0
        /\ initialized
        /\ ~sequence_after(Wire(n), highest_sequence)
        /\ distance \notin seen
        /\ seen' = seen \cup ({distance} \cap (0..WINDOW_BITS-1))
        /\ accepted' = [accepted EXCEPT ![n] = @ + 1]
        /\ UNCHANGED <<initialized, highest_sequence, newest>>

accept_older(n) ==
    LET distance == Minus(highest_sequence, Wire(n))
    IN  /\ Wire(n) # 0
        /\ initialized
        /\ ~sequence_after(Wire(n), highest_sequence)
        /\ distance < WINDOW_BITS
        /\ distance \notin seen
        /\ seen' = seen \cup {distance}
        /\ accepted' = [accepted EXCEPT ![n] = @ + 1]
        /\ UNCHANGED <<initialized, highest_sequence, newest>>

\* Every other packet is refused, without an effect.
accept(n) == accept_first(n) \/ accept_newer(n) \/ accept_older(n)

Next == \E n \in Number : accept(n)

Spec == Init /\ [][Next]_vars

-----------------------------------------------------------------------------
\* A packet is accepted at most once, across the wrap and however far the
\* window has moved since.
AcceptedOnce == \A n \in Number : accepted[n] <= 1

\* What the window remembers is what was accepted: an older number it has no
\* bit for was never accepted, so no packet of the window is lost to it.
WindowIsExact ==
    initialized => \A n \in Number :
        newest - n \in 0..WINDOW_BITS-1 => (newest - n \in seen <=> accepted[n] > 0)
=============================================================================
