------------------------------- MODULE Roster -------------------------------
(***************************************************************************)
(* One line of the subscriber file, src/subscriber_store.cpp from          *)
(* split_fields to the body of load_csv: a record [blank, fields].         *)
(***************************************************************************)
EXTENDS Identifiers, Sequences

CONSTANT plan_names  \* the plans of the compiled rules, in id order

\* No bound on the digits: the value wraps.
parse_u64(f) == IF f[1] = "num" THEN f[3] % kU64 ELSE Bad

Statuses == <<{"ACTIVE", "active"}, {"SUSPENDED", "suspended"}, {"BARRED", "barred"}>>

\* By name, in either case, or by number.
parse_status(f) ==
    LET named == {s \in 1..3 : f = Num(1, s - 1) \/ (f[1] = "text" /\ f[2] \in Statuses[s])}
    IN IF named = {} THEN Bad ELSE (CHOOSE s \in named : TRUE) - 1

SubscriberFlag == {"roaming", "tethering", "volte", "test"}

\* Names it does not know are passed over.
parse_sub_flags(f) == IF f[1] = "flags" THEN f[2] \cap SubscriberFlag ELSE {}

plan_of(f) ==
    LET named == {p \in DOMAIN plan_names : f = Text(plan_names[p])}
    IN IF named = {} THEN Bad ELSE (CHOOSE p \in named : \A q \in named : p <= q) - 1

\* split_fields stops after eight fields.
split_fields(line) == SubSeq(line.fields, 1, IF Len(line.fields) < 8 THEN Len(line.fields) ELSE 8)

IsHeader(line) == line.fields[1] = Text("imsi")

\* The conditions under which the loader notes an error and skips the row.
Refused(f) ==
    \/ Len(f) < 7
    \/ parse_imsi(f[1]) \in {Bad, 0}
    \/ parse_imei(f[2]) = Bad
    \/ plan_of(f[3]) = Bad
    \/ parse_status(f[4]) = Bad
    \/ Bad \in {parse_u64(f[5]), parse_u64(f[6]), parse_plmn(f[7])}

\* The row as the store keeps it.
RecordOf(f) ==
    [imsi |-> parse_imsi(f[1]), imei |-> parse_imei(f[2]), plan_id |-> plan_of(f[3]),
     status |-> parse_status(f[4]), bytes_used_period |-> parse_u64(f[5]),
     period_reset_ts |-> parse_u64(f[6]), home_plmn |-> parse_plmn(f[7]),
     flags |-> IF Len(f) >= 8 THEN parse_sub_flags(f[8]) ELSE {}]

\* SubscriberRecord{}: imsi 0 marks a slot as empty.
Empty ==
    [imsi |-> 0, imei |-> 0, plan_id |-> 0, status |-> 0, bytes_used_period |-> 0,
     period_reset_ts |-> 0, home_plmn |-> 0, flags |-> {}]

=============================================================================
