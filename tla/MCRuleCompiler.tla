--------------------------- MODULE MCRuleCompiler ---------------------------
(* Rule files, requests and subscribers for model checking RuleCompiler.     *)
EXTENDS RuleCompiler

Basic   == [name |-> "basic", quota |-> 10, quota_validity |-> 60, ambr_ul |-> 5, ambr_dl |-> 6]
Premium == [name |-> "premium", qos_5qi |-> 8, arp |-> 3, tethering |-> TRUE, rating_group |-> 2]

GoodHeader ==
  [dnns |-> <<"internet", "ims">>, redirects |-> <<"portal">>, plans |-> <<Basic, Premium>>,
   partners |-> {"partner"}, blocklist |-> {7}, default |-> [reason |-> "OK"], rules |-> "present"]

\* The default action denies, or redirects.
MCHeaders ==
  { GoodHeader,
    [GoodHeader EXCEPT !.default = [verdict |-> "REDIRECT", redirect |-> "portal"]] }

\* One file for each table that is refused, and one without rules.
RefusedHeaders ==
  { [GoodHeader EXCEPT !.dnns = <<"ims", "ims">>],
    [GoodHeader EXCEPT !.plans = <<Basic, Basic>>],
    [GoodHeader EXCEPT !.redirects = <<"portal", "shop">>],
    [GoodHeader EXCEPT !.default = [verdict |-> "REDIRECT"]],
    [GoodHeader EXCEPT !.rules = Bad] }

AllHeaders == MCHeaders \union RefusedHeaders

Cond(key, arg) == [key |-> key, arg |-> arg]

Window(s, e) == [start |-> s, end |-> e]

Rule(id, priority, plans, when, action) ==
  [id |-> id, priority |-> priority, plans |-> plans, when |-> when, action |-> action]

Allow == [verdict |-> "ALLOW"]

\* Rules that compile.  Two of them repeat an id, and the last one redirects
\* without a target; 1 shadows both pairs of 9, and 10 one of them.
MCTexts ==
  { Rule(1, 5, <<"basic">>, << >>, Allow),
    Rule(2, 5, << >>, << Cond("roaming", TRUE), Cond("roaming_partner", FALSE) >>, [verdict |-> "DENY", quota |-> 3]),
    Rule(3, 4, << >>, << Cond("dnn", <<"internet", "ims">>), Cond("rat", <<"LTE", "NR">>) >>,
         [arp |-> 2]),
    Rule(4, 5, <<"basic", "premium">>, << Cond("usage_above", 800), Cond("time_between", Window(1320, 60)) >>,
         [inherit |-> {"ambr", "quota"}, ambr_ul |-> 1, ambr_dl |-> 1]),
    Rule(5, 5, << >>, << Cond("usage_below", 500), Cond("not_dnn", <<"ims">>) >>, [quota |-> 4]),
    Rule(6, 4, << >>, << Cond("status", <<"UNKNOWN", "BARRED">>), Cond("not_time_between", Window(60, 120)) >>,
         [verdict |-> "REDIRECT", redirect |-> "portal"]),
    Rule(7, 6, << >>, << Cond("time_between", Window(0, 100)), Cond("dnn", << >>) >>, Allow),
    Rule(9, 6, <<"basic">>, << Cond("imei_blocked", TRUE), Cond("dnn", <<"internet", "ims">>) >>, Allow),
    Rule(10, 5, << >>, << Cond("dnn", <<"internet">>) >>, Allow),
    Rule(2, 5, <<"premium">>, << Cond("emergency", TRUE) >>, [quota_validity |-> 9]),
    Rule(3, 3, << >>, << Cond("usage_above", 1000) >>, [verdict |-> "REDIRECT"]) }

\* Rules with one error each: priority, id, plan, action, condition, name,
\* value, expansion, one-sided rate.
RefusedTexts ==
  { Rule(1, Bad, << >>, << >>, Allow), Rule(0, 1, << >>, << >>, Allow),
    Rule(8, 1, <<"gold">>, << >>, Allow), Rule(8, 1, << >>, << >>, Bad),
    Rule(8, 1, << >>, << Cond("unknown", TRUE) >>, Allow),
    Rule(8, 1, << >>, << Cond("status", <<"ASLEEP">>) >>, Allow),
    Rule(8, 1, << >>, << Cond("roaming", Bad) >>, Allow),
    Rule(8, 1, << >>, << Cond("rat", <<"LTE", "NR", "WLAN">>), Cond("dnn", <<"internet", "ims">>) >>, Allow),
    Rule(8, 1, << >>, << Cond("dnn", <<"internet", "ims">>) >>, [ambr_ul |-> 1]) }

AllTexts == MCTexts \union RefusedTexts

\* A rule that lists a DNN and excludes it.
ContradictoryTexts ==
  { Rule(1, 5, << >>, << Cond("dnn", <<"internet", "ims">>), Cond("not_dnn", <<"ims">>) >>, Allow),
    Rule(2, 6, << >>, << Cond("rat", <<"LTE">>) >>, Allow),
    Rule(3, 4, << >>, << Cond("not_rat", <<"NR">>), Cond("emergency", TRUE) >>, Allow),
    Rule(4, 4, << >>, << Cond("roaming", TRUE) >>, Allow) }

\* A rule for two DNNs after a rule for one of them.
PartlyShadowedTexts ==
  { Rule(1, 5, << >>, << Cond("dnn", <<"internet">>) >>, [verdict |-> "DENY"]),
    Rule(2, 6, << >>, << Cond("dnn", <<"internet", "ims">>) >>, Allow) }

Request(rat, dnn, flags, minute, plmn, usage) ==
  [rat |-> rat, dnn |-> dnn, imei |-> 7, flags |-> flags, requested_5qi |-> 1,
   minute |-> minute, plmn |-> plmn, usage |-> usage]

MCRequests ==
  { Request(0, 0, {}, 30, "home", 0), Request(1, 1, {}, 1339, "away", 0),
    Request(2, 0, {"usage_valid"}, 1500, "partner", 8), Request(0, 1, {"usage_valid", "emergency"}, 100, "home", 12),
    Request(1, 9, {"tethering"}, 720, "partner", 0), Request(9, 16, {"usage_valid"}, 0, "home", 4) }

Record(status, flags, plan, usage) ==
  [status |-> status, home |-> "home", flags |-> flags, plan |-> plan, usage |-> usage, reset |-> 5]

MCRecords ==
  { NoRecord, Record("ACTIVE", {"roaming"}, 0, 9), Record("BARRED", {}, 0, 4),
    Record("ACTIVE", {"tethering"}, 1, 20), Record("SUSPENDED", {}, 2, 0) }
=============================================================================
