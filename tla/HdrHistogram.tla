---------------------------- MODULE HdrHistogram ----------------------------
(***************************************************************************)
(* The latency histogram, include/policy/hdr_histogram.hpp, as operators   *)
(* on a record.  The shifts are products and quotients by powers of two.   *)
(* The magnitudes the constructor derives with log2 from lowest and        *)
(* significant_figures are constants here.                                 *)
(***************************************************************************)
EXTENDS Integers, FiniteSetsExt

CONSTANTS highest_,                     \* largest trackable value
          unit_magnitude_,
          sub_bucket_count_magnitude_

ASSUME HistogramAssumption ==
    /\ highest_ \in Nat \ {0, 1}
    /\ unit_magnitude_ \in Nat
    /\ sub_bucket_count_magnitude_ \in Nat \ {0}

sub_bucket_count_ == 2^sub_bucket_count_magnitude_

sub_bucket_half_count_ == sub_bucket_count_ \div 2

\* The least number of buckets whose last one holds highest_.
bucket_count_ ==
    CHOOSE n \in 1..highest_ + 1 :
        /\ sub_bucket_count_ * 2^(unit_magnitude_ + n - 1) > highest_
        /\ \A k \in 1..n - 1 : sub_bucket_count_ * 2^(unit_magnitude_ + k - 1) <= highest_

Indices == 0..((bucket_count_ + 1) * sub_bucket_half_count_ - 1)

\* Counting leading zeros of value | mask: the least bucket that holds it.
bucket_index(value) ==
    CHOOSE b \in 0..bucket_count_ :
        /\ value < sub_bucket_count_ * 2^(b + unit_magnitude_)
        /\ \A c \in 0..b - 1 : value >= sub_bucket_count_ * 2^(c + unit_magnitude_)

sub_bucket_index(value, b) == value \div 2^(b + unit_magnitude_)

counts_index_for(value) ==
    LET b == bucket_index(value)
    IN (b + 1) * sub_bucket_half_count_ + (sub_bucket_index(value, b) - sub_bucket_half_count_)

value_from_index(i) ==
    LET bucket == i \div sub_bucket_half_count_ - 1
        sub == i % sub_bucket_half_count_
    IN IF bucket < 0 THEN sub * 2^unit_magnitude_
       ELSE (sub + sub_bucket_half_count_) * 2^(bucket + unit_magnitude_)

lowest_equivalent_value(value) ==
    LET b == bucket_index(value)
    IN sub_bucket_index(value, b) * 2^(b + unit_magnitude_)

size_of_equivalent_value_range(value) ==
    LET b == bucket_index(value)
    IN 2^(unit_magnitude_ + IF sub_bucket_index(value, b) >= sub_bucket_count_ THEN b + 1 ELSE b)

highest_equivalent_value(value) ==
    lowest_equivalent_value(value) + size_of_equivalent_value_range(value) - 1

\* A new histogram, and what reset leaves.
NewHistogram ==
    [counts |-> [i \in Indices |-> 0], total |-> 0, overflow |-> 0, negative |-> 0,
     min |-> 0, max |-> 0]

\* record is record_n of one: count occurrences of value, a negative one only
\* counted, one above highest_ counted and kept at highest_.
record_n(h, value, count) ==
    LET v == IF value > highest_ THEN highest_ ELSE value
        total == h.total + count
    IN IF count <= 0 THEN h
       ELSE IF value < 0 THEN [h EXCEPT !.negative = @ + count]
       ELSE [counts   |-> [h.counts EXCEPT ![counts_index_for(v)] = @ + count],
             total    |-> total,
             overflow |-> h.overflow + IF value > highest_ THEN count ELSE 0,
             negative |-> h.negative,
             max      |-> IF v > h.max \/ total = count THEN v ELSE h.max,
             min      |-> IF v < h.min \/ total = count THEN v ELSE h.min]

record(h, value) == record_n(h, value, 1)

\* Merge: the extremes of an empty histogram are not values.
add(h, other) ==
    [counts   |-> [i \in Indices |-> h.counts[i] + other.counts[i]],
     total    |-> h.total + other.total,
     overflow |-> h.overflow + other.overflow,
     negative |-> h.negative + other.negative,
     min      |-> IF other.total = 0 THEN h.min ELSE IF h.total = 0 THEN other.min
                  ELSE IF other.min < h.min THEN other.min ELSE h.min,
     max      |-> IF other.total = 0 THEN h.max ELSE IF h.total = 0 THEN other.max
                  ELSE IF other.max > h.max THEN other.max ELSE h.max]

\* The rank of a percentile: rounded up, and at least 1.
Target(percentile, total) ==
    LET rank == (percentile * total + 99) \div 100
    IN IF rank < 1 THEN 1 ELSE rank

value_at_percentile(h, percentile) ==
    LET running(i) == MapThenSumSet(LAMBDA j : h.counts[j], 0..i)
        reached == {i \in Indices : running(i) >= Target(percentile, h.total)}
    IN IF h.total = 0 THEN 0 ELSE highest_equivalent_value(value_from_index(Min(reached)))

=============================================================================
