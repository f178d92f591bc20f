-------------------------- MODULE MCSubscriberStore --------------------------
(***************************************************************************)
(* A store at each end of the load factor's range and in the middle.  The  *)
(* hashes collide, run past the end of an 8-slot table, and part again in  *)
(* a table of 16.                                                          *)
(***************************************************************************)
EXTENDS SubscriberStore

Hashes == <<7, 7, 15, 6, 0, 23, 8, 14, 7>>

Plans == <<"basic", "pro">>

Record(imsi, plan) == [Empty EXCEPT !.imsi = imsi, !.plan_id = plan]

UpsertedRecords ==
    {Record(i, 0) : i \in 0..4} \cup {Record(3, 1)}

Line(fields) == [blank |-> FALSE, fields |-> fields]

Row(imsi, plan, used) ==
    <<Num(15, imsi), Text(""), Text(plan), Text("ACTIVE"), used, Num(1, 2),
      <<"plmn", 3, 310, 3, 260>>, <<"flags", {"roaming", "other"}>>>>

With(k, field) == [Row(4, "pro", Num(1, 1)) EXCEPT ![k] = field]

Header == Line(<<Text("imsi")>>)

Blank == [blank |-> TRUE, fields |-> <<>>]

\* Eight subscribers: what a table of 8 slots holds at no load factor.
Full == <<Header>> \o [i \in 1..8 |-> Line(Row(i, "basic", Num(1, 0)))]

\* No header, rows the loader refuses, a subscriber listed twice, and both
\* spellings of a network.
Mixed ==
    <<Blank, Line([With(7, Num(5, 31026)) EXCEPT ![4] = Text("barred")]), Header, Line(Row(2, "pro", Num(2, 6))),
      Line(With(1, Num(16, 4))), Line(With(1, Num(15, 0))), Blank,
      Line(With(3, Text("prepaid"))), Line(With(4, Text("gone"))),
      Line(Row(2, "basic", Num(1, 1)))>>

Broken ==
    <<Line(With(2, Text("x"))), Line(With(5, Text("x"))), Line(With(7, <<"plmn", 2, 31, 3, 260>>)),
      Line(SubSeq(Row(4, "pro", Num(1, 1)), 1, 6)), Line(SubSeq(Row(4, "pro", Num(1, 1)), 1, 7)),
      Line(With(4, Num(1, 2)) \o <<Text("ninth")>>)>>

RosterFiles == {Full, Mixed, Broken}

Setup(expected, load, list) ==
    [expected |-> expected, max_load_factor |-> load, keys |-> list]

TableSetups ==
    {Setup(4, 50, <<1, 2, 9, 6>>), Setup(0, 10, <<2, 1, 2, 0, 3, 9>>), Setup(5, 100, <<0>>),
     Setup(5, 100, <<>>)}

=============================================================================
