---------------------------- MODULE SubscriberMap ----------------------------
(***************************************************************************)
(* What the subscriber store promises: a map from IMSI to the last record  *)
(* written under it, whatever the table behind it does, and a bulk load    *)
(* that takes the last good row of every subscriber and says how many rows *)
(* it took and refused.                                                    *)
(***************************************************************************)
EXTENDS Roster, FiniteSets, TLC

CONSTANTS Imsis, Records, Files, Bytes, Metered, Resets

VARIABLES map,    \* [Imsis -> records], Empty where nothing is provisioned
          report  \* [loaded, skipped, ok] of the last load

Init ==
    /\ map = [i \in Imsis |-> Empty]
    /\ report = [loaded |-> 0, skipped |-> 0, ok |-> TRUE]

Put(rec) ==
    /\ rec.imsi \in Imsis
    /\ UNCHANGED report
    /\ map' = [map EXCEPT ![rec.imsi] = rec]

AddUsage(i, n) ==
    /\ map[i] # Empty
    /\ UNCHANGED report
    /\ map' = [map EXCEPT ![i].bytes_used_period = (@ + n) % kU64]

ResetPeriod(i, ts) ==
    /\ map[i] # Empty
    /\ UNCHANGED report
    /\ map' = [map EXCEPT ![i].bytes_used_period = 0, ![i].period_reset_ts = ts]

\* The positions of the rows: every line that is neither blank nor the header.
Rows(file) ==
    LET filled == {l \in DOMAIN file : ~ file[l].blank}
    IN {l \in filled : IsHeader(file[l]) => \E k \in filled : k < l}

GoodRows(file) == {l \in Rows(file) : ~ Refused(split_fields(file[l]))}

\* What a file provisions: the last good row of every subscriber in it.
Provisions(file) ==
    LET good == GoodRows(file)
        record(l) == RecordOf(split_fields(file[l]))
        rows(i) == {l \in good : record(l).imsi = i}
    IN [i \in {record(l).imsi : l \in good} |->
           record(CHOOSE l \in rows(i) : \A k \in rows(i) : k <= l)]

Outcomes ==
    [file \in Files |->
        [records |-> Provisions(file),
         report  |-> [loaded  |-> Cardinality(GoodRows(file)),
                      skipped |-> Cardinality(Rows(file) \ GoodRows(file)),
                      ok      |-> Rows(file) = GoodRows(file)]]]

Load(file) ==
    /\ report' = Outcomes[file].report
    /\ map' = Outcomes[file].records @@ map

\* The file cannot be opened.
LoadMissing ==
    /\ report' = [loaded |-> 0, skipped |-> 0, ok |-> FALSE]
    /\ UNCHANGED map

Next ==
    \/ \E rec \in Records : Put(rec)
    \/ \E i \in Metered, n \in Bytes : AddUsage(i, n)
    \/ \E i \in Metered, ts \in Resets : ResetPeriod(i, ts)
    \/ \E file \in Files : Load(file)
    \/ LoadMissing

Spec == Init /\ [][Next]_<<map, report>>

=============================================================================
