------------------------------ MODULE ProbeTable ------------------------------
(***************************************************************************)
(* Open addressing with linear probing, as SubscriberStore and FlatSet64   *)
(* both do it.  A table is seen through its keys: a function from the slot *)
(* numbers 0..cap-1 to keys, 0 in a free slot.  Hash is left open: nothing *)
(* here may depend on how well splitmix64 spreads the keys.                *)
(***************************************************************************)
EXTENDS Naturals

CONSTANTS Keys,  \* the keys, positive integers
          Hash   \* [Keys -> Nat]

ASSUME HashAssumption ==
    /\ Keys \subseteq Nat \ {0}
    /\ Hash \in [Keys -> Nat]

Slots(cap) == 0..(cap - 1)

\* The slot d steps from where the probe for key starts: (i + 1) & mask_.
Probed(cap, key, d) == (Hash[key] + d) % cap

\* The probe loop leaves at the key or at a free slot.
Leaves(cap, keys, key, d) == keys[Probed(cap, key, d)] \in {key, 0}

\* Whether the loop, which has no bound of its own, ends.
ProbeEnds(cap, keys, key) == \E d \in Slots(cap) : Leaves(cap, keys, key, d)

FirstExit(cap, keys, key) ==
    CHOOSE d \in Slots(cap) :
        Leaves(cap, keys, key, d) /\ \A e \in Slots(d) : ~ Leaves(cap, keys, key, e)

\* The slot the loop leaves at: the key's own, or the free one it would take.
Probe(cap, keys, key) == Probed(cap, key, FirstExit(cap, keys, key))

\* Round up to a power of two, at least 8.
next_pow2(n) ==
    LET p == CHOOSE e \in 3..n + 3 : 2^e >= n /\ \A f \in 3..e - 1 : 2^f < n
    IN 2^p

=============================================================================
