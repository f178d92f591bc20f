--------------------------- MODULE SubscriberStore ---------------------------
(***************************************************************************)
(* The subscriber table, src/subscriber_store.cpp, and the key sets the    *)
(* compiled rules hold, include/policy/flat_set.hpp.  Both are open-       *)
(* addressing tables; the store grows, the key set is rebuilt.             *)
(*                                                                         *)
(* The load factor is a percentage: with a power-of-two capacity the       *)
(* comparison the code makes in doubles is the same one.                   *)
(***************************************************************************)
EXTENDS Roster, ProbeTable, SequencesExt

CONSTANTS Records,    \* the records upsert is called with
          Files,      \* the subscriber files: sequences of lines
          Bytes,      \* what add_usage is called with
          Metered,    \* the IMSIs add_usage and reset_period are called with
          Resets,     \* the timestamps reset_period is called with
          Setups,     \* how the tables are built: the store's expected
                      \* subscribers and load factor, and a rule's key list
          kMaxReportedErrors

VARIABLES slots, size_, max_load_factor_,
          result,     \* the LoadResult of the last load_csv
          keys,       \* the list the key set is built from
          set         \* FlatSet64: [slots, size]

vars == <<slots, size_, max_load_factor_, result, keys, set>>

Cap(s) == Cardinality(DOMAIN s)

\* Mutant: the key goes to its home slot, taken or not.
InsertAtHome(t, key) ==
    LET i == Probed(Cap(t.slots), key, 0)
    IN IF key = 0 \/ t.slots[i] = key THEN t
       ELSE [slots |-> [t.slots EXCEPT ![i] = key], size |-> t.size + 1]

\* FlatSet64: a zero is dropped, and so is a key already there.
insert(t, key) ==
    LET i == Probe(Cap(t.slots), t.slots, key)
    IN IF key = 0 \/ t.slots[i] = key THEN t
       ELSE [slots |-> [t.slots EXCEPT ![i] = key], size |-> t.size + 1]

rebuild(list) ==
    LET blank == [slots |-> [i \in Slots(next_pow2(2 * Len(list))) |-> 0], size |-> 0]
    IN IF list = <<>> THEN [slots |-> <<>>, size |-> 0] ELSE FoldLeft(insert, blank, list)

contains(key) ==
    /\ set.slots # <<>>
    /\ key # 0
    /\ set.slots[Probe(Cap(set.slots), set.slots, key)] = key

\* Mutant: the load factor is taken as given.
Unclamped(p) == p

clamp(p) == IF p < 25 THEN 25 ELSE IF p > 90 THEN 90 ELSE p

slots_for(n, p) ==
    LET most == IF n < 4 THEN 4 ELSE n
    IN next_pow2((most * 100 + clamp(p) - 1) \div clamp(p))

NoErrors == [loaded |-> 0, skipped |-> 0, errors |-> <<>>]

Init ==
    /\ \E s \in Setups :
          /\ max_load_factor_ = clamp(s.max_load_factor)
          /\ slots = [i \in Slots(slots_for(s.expected, clamp(s.max_load_factor))) |-> Empty]
          /\ keys = s.keys
          /\ set = rebuild(s.keys)
    /\ size_ = 0
    /\ result = NoErrors

ImsiAt(s) == [i \in DOMAIN s |-> s[i].imsi]

\* nullptr is the empty record: no provisioned subscriber has IMSI 0.
find(imsi) ==
    LET r == slots[Probe(Cap(slots), ImsiAt(slots), imsi)]
    IN IF imsi # 0 /\ r.imsi = imsi THEN r ELSE Empty

find_mutable(imsi) == {i \in DOMAIN slots : find(imsi) # Empty /\ slots[i] = find(imsi)}

\* The probe loop of upsert: overwrite the key's slot or take the free one.
Place(t, rec) ==
    LET i == Probe(Cap(t.slots), ImsiAt(t.slots), rec.imsi)
    IN [slots |-> [t.slots EXCEPT ![i] = rec],
        size  |-> IF t.slots[i].imsi = 0 THEN t.size + 1 ELSE t.size]

AboveLoad(t) == (t.size + 1) * 100 > Cap(t.slots) * max_load_factor_

\* Mutant: the records keep their slots, without being hashed again.
GrowInPlace(t) ==
    LET slot(i) == IF i < Cap(t.slots) THEN t.slots[i] ELSE Empty
    IN [slots |-> [i \in Slots(Cap(t.slots) * 2) |-> slot(i)], size |-> t.size]

\* The upserts of grow run in a table twice as large, which none of them
\* fills to the limit again: the load never passes it (TableIsSound).
grow(t) ==
    LET cap == Cap(t.slots) * 2
        blank == [slots |-> [i \in Slots(cap) |-> Empty], size |-> 0]
        inSlotOrder == [n \in 1..Cap(t.slots) |-> t.slots[n - 1]]
    IN FoldLeft(Place, blank, SelectSeq(inSlotOrder, LAMBDA r : r.imsi # 0))

upsert(t, rec) ==
    IF rec.imsi = 0 THEN t ELSE Place(IF AboveLoad(t) THEN grow(t) ELSE t, rec)

Table == [slots |-> slots, size |-> size_]

SetTable(t) == slots' = t.slots /\ size_' = t.size

Upsert(rec) ==
    /\ SetTable(upsert(Table, rec))
    /\ UNCHANGED <<max_load_factor_, result, keys, set>>

add_usage(imsi, n) ==
    /\ \E i \in find_mutable(imsi) :
          slots' = [slots EXCEPT ![i].bytes_used_period = (@ + n) % kU64]
    /\ UNCHANGED <<size_, max_load_factor_, result, keys, set>>

reset_period(imsi, ts) ==
    /\ \E i \in find_mutable(imsi) :
          slots' = [slots EXCEPT ![i].bytes_used_period = 0, ![i].period_reset_ts = ts]
    /\ UNCHANGED <<size_, max_load_factor_, result, keys, set>>

\* note: every refused row counts, the first kMaxReportedErrors are reported
\* and one more entry says that there were others.
note(res, line_no) ==
    [loaded  |-> res.loaded,
     skipped |-> res.skipped + 1,
     errors  |-> IF Len(res.errors) < kMaxReportedErrors THEN Append(res.errors, line_no)
                 ELSE IF Len(res.errors) = kMaxReportedErrors THEN Append(res.errors, 0)
                 ELSE res.errors]

\* One turn of the loop over the lines, on what the loop carries.
LoadLine(acc, line) ==
    LET fields == split_fields(line)
        row == [acc EXCEPT !.line_no = @ + 1, !.header_seen = TRUE]
    IN CASE line.blank -> [acc EXCEPT !.line_no = @ + 1]
         [] ~ line.blank /\ ~ acc.header_seen /\ IsHeader(line) -> row
         [] ~ line.blank /\ (acc.header_seen \/ ~ IsHeader(line)) /\ Refused(fields) ->
                [row EXCEPT !.res = note(acc.res, acc.line_no + 1)]
         [] OTHER -> [row EXCEPT !.table = upsert(acc.table, RecordOf(fields)),
                                 !.res.loaded = @ + 1]

load_csv(file) ==
    LET start == [table |-> Table, res |-> NoErrors, header_seen |-> FALSE, line_no |-> 0]
        end == FoldLeft(LoadLine, start, file)
    IN /\ SetTable(end.table)
       /\ result' = end.res
       /\ UNCHANGED <<max_load_factor_, keys, set>>

\* The file cannot be opened: an error, and nothing counted.
LoadMissing ==
    /\ result' = [NoErrors EXCEPT !.errors = <<0>>]
    /\ UNCHANGED <<slots, size_, max_load_factor_, keys, set>>

\* for_each visits these slots; stats counts the reads a lookup of each costs.
Live == {i \in DOMAIN slots : slots[i].imsi # 0}

probes(i) ==
    LET home == Probed(Cap(slots), slots[i].imsi, 0)
    IN ((i + Cap(slots) - home) % Cap(slots)) + 1

Next ==
    \/ \E rec \in Records : Upsert(rec)
    \/ \E imsi \in Metered, n \in Bytes : add_usage(imsi, n)
    \/ \E imsi \in Metered, ts \in Resets : reset_period(imsi, ts)
    \/ \E file \in Files : load_csv(file)
    \/ LoadMissing

Spec == Init /\ [][Next]_vars

-----------------------------------------------------------------------------
(* Properties *)

TypeOK ==
    /\ size_ \in Nat
    /\ max_load_factor_ \in 25..90
    /\ DOMAIN slots = Slots(next_pow2(Cap(slots)))
    /\ \A i \in DOMAIN slots : slots[i].imsi \in Keys \cup {0}
    /\ set.size \in Nat

\* The table is one a probe loop can be run in: size_ counts the live slots
\* and stays within the configured load factor through updates, growth and
\* bulk loads, so the unbounded loops of find, upsert and contains reach a
\* free slot for every key there is, and the probe lengths stats() reports
\* are what find really reads.
TableIsSound ==
    /\ size_ = Cardinality(Live)
    /\ size_ * 100 <= Cap(slots) * max_load_factor_
    /\ \A key \in Keys : ProbeEnds(Cap(slots), ImsiAt(slots), key)
    /\ set.slots # <<>> => \A key \in Keys : ProbeEnds(Cap(set.slots), set.slots, key)
    /\ \A i \in Live : probes(i) = FirstExit(Cap(slots), ImsiAt(slots), slots[i].imsi) + 1

\* A compiled key set answers contains() with membership in the list it was
\* rebuilt from, zeros and repeats dropped, and size() counts its keys.
MembershipIsTheList ==
    /\ \A key \in Keys \cup {0} : contains(key) <=> key \in ToSet(keys) \ {0}
    /\ set.size = Cardinality(ToSet(keys) \ {0})

Provisioned == [imsi \in Keys |-> find(imsi)]

map == INSTANCE SubscriberMap WITH
    Imsis  <- Keys,
    map    <- Provisioned,
    report <- [loaded |-> result.loaded, skipped |-> result.skipped,
               ok |-> result.errors = <<>>]

\* What find returns is a map: the last record written under each IMSI, never
\* disturbed by a collision, a wrap around the end of the table or a growth,
\* and load_csv leaves in it the last good row of every subscriber and reports
\* ok exactly when it refused none, however many errors it kept the text of.
ImplementsMap == map!Spec

=============================================================================
