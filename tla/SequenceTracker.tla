--------------------------- MODULE SequenceTracker ---------------------------
(***************************************************************************)
(* SequenceArrivalTracker (src/common/sequence_tracker.h): it numbers the  *)
(* gaps in a stream of packet sequence numbers and decides whether a late  *)
(* packet fills one of them.  The server keeps one per sender for audio    *)
(* and one for pings, the client one per participant.                      *)
(*                                                                         *)
(* The sender counts packets First, First+1, ...; on the wire a number is  *)
(* taken modulo Modulus, so the stream may cross the wrap.  Packets arrive  *)
(* in any order, any number of times.                                      *)
(***************************************************************************)
EXTENDS Integers, Sequences, FiniteSets, FiniteSetsExt

CONSTANTS
    Modulus,     \* 2^32 in the code: one more than the largest number
    MaxRanges,  \* MAX_TRACKED_RANGES
    First,      \* the number of the first packet sent
    Span        \* bound: how many packets are sent; less than Modulus / 2

TrackerAssumption ==
    /\ Modulus \in Nat \ {0} /\ Modulus % 2 = 0
    /\ MaxRanges \in Nat \ {0}
    /\ First \in Nat
    /\ Span \in Nat /\ 2 * Span < Modulus

Half == Modulus \div 2
Number == First..(First + Span - 1)
Wire(n) == n % Modulus

VARIABLES
    initialized,
    next_sequence,
    unresolved_gaps,
    total_gaps_detected,
    total_gaps_recovered,
    missing,     \* missing_[0 .. missing_count_): ranges [first, count]
    delta,       \* what the last call of record returned
    arrived,     \* history: the numbers recorded so far
    newest       \* history: the largest of them

vars == <<initialized, next_sequence, unresolved_gaps, total_gaps_detected,
          total_gaps_recovered, missing, delta, arrived, newest>>

MissingRange == [first : 0..Modulus-1, count : 1..Modulus-1]

NoDelta == [gaps_detected |-> 0, gaps_recovered |-> 0, late_or_duplicate |-> FALSE]

TypeOK ==
    /\ initialized \in BOOLEAN
    /\ next_sequence \in 0..Modulus-1
    /\ unresolved_gaps \in Nat
    /\ total_gaps_detected \in Nat
    /\ total_gaps_recovered \in Nat
    /\ missing \in Seq(MissingRange) /\ Len(missing) <= MaxRanges
    /\ delta \in [gaps_detected : 0..Modulus-1, gaps_recovered : 0..1,
                  late_or_duplicate : BOOLEAN]
    /\ arrived \in SUBSET Number
    /\ newest \in Number

Init ==
    /\ initialized = FALSE
    /\ next_sequence = 0
    /\ unresolved_gaps = 0
    /\ total_gaps_detected = 0
    /\ total_gaps_recovered = 0
    /\ missing = <<>>
    /\ delta = NoDelta
    /\ arrived = {}
    /\ newest = First

-----------------------------------------------------------------------------
(* Unsigned 32-bit arithmetic                                               *)

Plus(a, b) == (a + b) % Modulus
Minus(a, b) == (a - b) % Modulus

sequence_number_before(lhs, rhs) ==
    /\ lhs # rhs
    /\ \/ lhs < rhs /\ rhs - lhs < Half
       \/ lhs > rhs /\ lhs - rhs > Half

sequence_number_after(lhs, rhs) == sequence_number_before(rhs, lhs)

decrement_unresolved(unresolved, count) ==
    IF unresolved > count THEN unresolved - count ELSE 0

-----------------------------------------------------------------------------
(* The table of missing ranges                                              *)

\* Index of the range that starts longest ago, 0 if there is none; the first
\* of several.  excluded = 0 excludes none.
oldest_range_index(excluded) ==
    LET candidates == (1..Len(missing)) \ {excluded}
        age(k) == Minus(next_sequence, missing[k].first)
        oldest == {k \in candidates : \A j \in candidates : age(j) <= age(k)}
    IN  IF candidates = {} THEN 0
        ELSE CHOOSE k \in oldest : \A j \in oldest : k <= j

\* Mutant: the last range is dropped instead of moved.
erase_range_drops_last(ranges, k) == [j \in 1..Len(ranges)-1 |-> ranges[j]]

\* The last range moves into the place of the erased one.
erase_range(ranges, k) ==
    LET n == Len(ranges)
    IN  [j \in 1..n-1 |-> IF j = k THEN ranges[n] ELSE ranges[j]]

\* Mutant: the table has no bound.
remember_missing_range_unbounded(first, count) ==
    /\ missing' = IF count = 0 THEN missing
                  ELSE Append(missing, [first |-> first, count |-> count])
    /\ unresolved_gaps' = unresolved_gaps + count

\* Mutant: the range that makes way stays in the count.
remember_missing_range_uncounted(first, count) ==
    LET adjacent == {k \in 1..Len(missing) :
                        Plus(missing[k].first, missing[k].count) = first}
        range == [first |-> first, count |-> count]
        full == Len(missing) >= MaxRanges
        oldest == oldest_range_index(0)
    IN  /\ missing' =
              IF count = 0 THEN missing
              ELSE IF adjacent # {}
              THEN LET k == CHOOSE x \in adjacent : \A y \in adjacent : x <= y
                   IN  [missing EXCEPT ![k].count = @ + count]
              ELSE IF full THEN [missing EXCEPT ![oldest] = range]
              ELSE Append(missing, range)
        /\ unresolved_gaps' = unresolved_gaps + count

\* A new gap extends the range it continues, or takes a new entry, which in
\* a full table is that of the oldest range.
remember_missing_range(first, count) ==
    LET adjacent == {k \in 1..Len(missing) :
                        Plus(missing[k].first, missing[k].count) = first}
        range == [first |-> first, count |-> count]
        full == Len(missing) >= MaxRanges
        oldest == oldest_range_index(0)
    IN  /\ missing' =
              IF count = 0 THEN missing
              ELSE IF adjacent # {}
              THEN LET k == CHOOSE x \in adjacent : \A y \in adjacent : x <= y
                   IN  [missing EXCEPT ![k].count = @ + count]
              ELSE IF full THEN [missing EXCEPT ![oldest] = range]
              ELSE Append(missing, range)
        /\ unresolved_gaps' =
              (IF count # 0 /\ adjacent = {} /\ full
               THEN decrement_unresolved(unresolved_gaps, missing[oldest].count)
               ELSE unresolved_gaps) + count

Holding(s) ==
    {k \in 1..Len(missing) : Minus(s, missing[k].first) < missing[k].count}

contains_missing(s) == Holding(s) # {}

\* A number inside a range splits it.  In a full table the right part takes
\* the place of the oldest other range, or is given up.
remove_missing(s) ==
    LET k == CHOOSE x \in Holding(s) : \A y \in Holding(s) : x <= y
        range == missing[k]
        offset == Minus(s, range.first)
        right == [first |-> Plus(s, 1), count |-> range.count - offset - 1]
        left == [missing EXCEPT ![k].count = offset]
        oldest == oldest_range_index(k)
        resolved(n) == unresolved_gaps' = decrement_unresolved(unresolved_gaps, n)
    IN  \/ /\ range.count = 1
           /\ missing' = erase_range(missing, k)
           /\ resolved(1)
        \/ /\ range.count > 1 /\ offset = 0
           /\ missing' = [missing EXCEPT ![k] =
                             [first |-> Plus(@.first, 1), count |-> @.count - 1]]
           /\ resolved(1)
        \/ /\ range.count > 1 /\ offset = range.count - 1
           /\ missing' = [missing EXCEPT ![k].count = @ - 1]
           /\ resolved(1)
        \/ /\ offset > 0 /\ offset < range.count - 1
           /\ \/ /\ Len(missing) < MaxRanges
                 /\ missing' = Append(left, right)
                 /\ resolved(1)
              \/ /\ Len(missing) >= MaxRanges /\ oldest # 0
                 /\ missing' = Append(erase_range(left, oldest), right)
                 /\ resolved(1 + missing[oldest].count)
              \/ /\ Len(missing) >= MaxRanges /\ oldest = 0
                 /\ missing' = left
                 /\ resolved(1 + right.count)

-----------------------------------------------------------------------------
(* record(Wire(n)), case by case                                            *)

Arrive(n) ==
    /\ arrived' = arrived \cup {n}
    /\ newest' = IF arrived = {} \/ n > newest THEN n ELSE newest

record_first(n) ==
    /\ ~initialized
    /\ initialized' = TRUE
    /\ next_sequence' = Plus(Wire(n), 1)
    /\ delta' = NoDelta
    /\ Arrive(n)
    /\ UNCHANGED <<unresolved_gaps, total_gaps_detected, total_gaps_recovered,
                   missing>>

record_in_order(n) ==
    /\ initialized
    /\ Wire(n) = next_sequence
    /\ next_sequence' = Plus(next_sequence, 1)
    /\ delta' = NoDelta
    /\ Arrive(n)
    /\ UNCHANGED <<initialized, unresolved_gaps, total_gaps_detected,
                   total_gaps_recovered, missing>>

record_gap(n) ==
    LET gap == Minus(Wire(n), next_sequence)
    IN  /\ initialized
        /\ sequence_number_after(Wire(n), next_sequence)
        /\ delta' = [NoDelta EXCEPT !.gaps_detected = gap]
        /\ total_gaps_detected' = total_gaps_detected + gap
        /\ remember_missing_range(next_sequence, gap)
        /\ next_sequence' = Plus(Wire(n), 1)
        /\ Arrive(n)
        /\ UNCHANGED <<initialized, total_gaps_recovered>>

record_late(n) ==
    /\ initialized
    /\ Wire(n) # next_sequence
    /\ ~sequence_number_after(Wire(n), next_sequence)
    /\ \/ /\ contains_missing(Wire(n))
          /\ remove_missing(Wire(n))
          /\ total_gaps_recovered' = total_gaps_recovered + 1
          /\ delta' = [NoDelta EXCEPT !.late_or_duplicate = TRUE,
                                      !.gaps_recovered = 1]
       \/ /\ ~contains_missing(Wire(n))
          /\ delta' = [NoDelta EXCEPT !.late_or_duplicate = TRUE]
          /\ UNCHANGED <<missing, unresolved_gaps, total_gaps_recovered>>
    /\ Arrive(n)
    /\ UNCHANGED <<initialized, next_sequence, total_gaps_detected>>

Next ==
    \E n \in Number :
        \/ record_first(n)
        \/ record_in_order(n)
        \/ record_gap(n)
        \/ record_late(n)

Spec == Init /\ [][Next]_vars

-----------------------------------------------------------------------------
(* Properties                                                               *)

\* Every tracked number is really missing: it was skipped, and it has not
\* arrived since, however ranges were split, shrunk and moved around.
TrackedAreMissing ==
    \A s \in 0..Modulus-1 : contains_missing(s) =>
        \E n \in Number : Wire(n) = s /\ n < newest /\ n \notin arrived

\* unresolved_gaps, which the metrics report, is the number of tracked
\* numbers, through every split and every range given up for lack of room;
\* no number is tracked twice.
UnresolvedIsTracked ==
    /\ unresolved_gaps = MapThenSumSet(LAMBDA k : missing[k].count, DOMAIN missing)
    /\ \A s \in 0..Modulus-1 : Cardinality(Holding(s)) <= 1
=============================================================================
