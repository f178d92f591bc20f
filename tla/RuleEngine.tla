----------------------------- MODULE RuleEngine -----------------------------
(***************************************************************************)
(* The compiled rule set (include/policy/rules.hpp) and how a request is    *)
(* decided against it (src/engine.cpp).  A 64-bit feature word, mask or     *)
(* value is the set of its bits, so (f & mask) is an intersection; a plan   *)
(* mask is a set of plan ids.                                               *)
(*                                                                          *)
(* rs   [rules, plans, windows, thresholds, partners, blocklist, default]   *)
(* req  [rat, dnn, imei, flags, requested_5qi, minute, plmn, usage]         *)
(* rec  NoRecord or [status, home, flags, plan, usage, reset]               *)
(***************************************************************************)
EXTENDS Integers, Sequences

CONSTANTS
  NoRecord,              \* what store.find() gives for an unknown subscriber
  Now,                   \* coarse_now_unix_s(), 0 before the clock runs
  kMaxPlans,             \* the capacity limits of rules.hpp
  kMaxTimeWindows,
  kMaxUsageThresholds

ASSUME LimitsAssumption ==
  /\ Now \in Nat
  /\ {kMaxPlans, kMaxTimeWindows, kMaxUsageThresholds} \subseteq Nat \ {0}

\* Bit numbers of namespace feat.  Windows have kMaxTimeWindows bits (8 in the
\* code) and the thresholds follow them (bit 48).
kRatBase == 0
kRatBits == 8
kDnnBase == 8
kDnnBits == 16
kTimeWindowBase == 40
kUsageThresholdBase == kTimeWindowBase + kMaxTimeWindows

StatusBit == [ACTIVE |-> 24, SUSPENDED |-> 25, BARRED |-> 26, UNKNOWN |-> 27]

BoolBit ==
  [home_plmn |-> 28, roaming |-> 29, roaming_partner |-> 30, roaming_allowed |-> 31,
   imei_known |-> 32, imei_blocked |-> 33, tethering_detected |-> 34, tethering_allowed |-> 35,
   emergency |-> 36, quota_exhausted |-> 37, period_expired |-> 38, requested_gbr |-> 39]

is_gbr_5qi(q) == q \in {1, 2, 3, 4, 65, 66, 67, 71, 72, 73, 74, 75, 76}

-----------------------------------------------------------------------------
(* Features of a request *)

\* TimeWindow::contains(): a window that starts after it ends wraps midnight.
WindowContains(w, minute) ==
  IF w.start <= w.end THEN w.start <= minute /\ minute < w.end
                      ELSE w.start <= minute \/ minute < w.end

\* The product is exact (128 bits); an unmetered plan crosses no threshold.
usage_at_least_permille(usage, quota, permille) ==
  quota # 0 /\ usage * 1000 >= quota * permille

HasPlan(rs, rec) == rec # NoRecord /\ rec.plan < Len(rs.plans)

PlanOf(rs, rec) == rs.plans[rec.plan + 1]

QuotaOf(rs, rec) == IF HasPlan(rs, rec) THEN PlanOf(rs, rec).quota ELSE 0

\* The serving node's figure is fresher than the replicated counter.
UsageOf(req, rec) ==
  CASE "usage_valid" \in req.flags -> req.usage
    [] OTHER -> IF rec = NoRecord THEN 0 ELSE rec.usage

\* An unknown subscriber is roaming, and nothing else about it is known.
Facts(rs, req, rec) ==
  LET known == rec # NoRecord
      home  == known /\ req.plmn = rec.home
  IN  [home_plmn          |-> home,
       roaming            |-> ~home,
       roaming_partner    |-> known /\ ~home /\ req.plmn \in rs.partners,
       roaming_allowed    |-> known /\ "roaming" \in rec.flags,
       imei_known         |-> req.imei # 0,
       imei_blocked       |-> req.imei # 0 /\ req.imei \in rs.blocklist,
       tethering_detected |-> "tethering" \in req.flags,
       tethering_allowed  |-> \/ HasPlan(rs, rec) /\ PlanOf(rs, rec).tethering
                              \/ known /\ "tethering" \in rec.flags,
       emergency          |-> "emergency" \in req.flags,
       quota_exhausted    |-> QuotaOf(rs, rec) # 0 /\ UsageOf(req, rec) >= QuotaOf(rs, rec),
       period_expired     |-> known /\ Now # 0 /\ rec.reset # 0 /\ Now >= rec.reset,
       requested_gbr      |-> is_gbr_5qi(req.requested_5qi)]

StatusOf(rec) == IF rec = NoRecord THEN "UNKNOWN" ELSE rec.status

build_features(rs, req, rec) ==
  UNION { {kRatBase + r : r \in {req.rat} \cap 0 .. kRatBits - 1},
          {kDnnBase + d : d \in {req.dnn} \cap 0 .. kDnnBits - 1},
          {StatusBit[StatusOf(rec)]},
          {BoolBit[k] : k \in {j \in DOMAIN BoolBit : Facts(rs, req, rec)[j]}},
          {kTimeWindowBase + i - 1 :
             i \in {j \in DOMAIN rs.windows : WindowContains(rs.windows[j], req.minute % 1440)}},
          {kUsageThresholdBase + i - 1 :
             i \in {j \in DOMAIN rs.thresholds :
                      usage_at_least_permille(UsageOf(req, rec), QuotaOf(rs, rec),
                                              rs.thresholds[j])}} }

plan_bit_for(rec) ==
  IF rec = NoRecord THEN {} ELSE {rec.plan} \cap 0 .. kMaxPlans - 1

-----------------------------------------------------------------------------
(* Decisions *)

Matches(rule, f, planBit) ==
  /\ f \cap rule.mask = rule.value
  /\ rule.plans = {} \/ rule.plans \cap planBit # {}

\* The scan in table order: the index of the rule that fires, 0 for none.
FirstMatch(rules, f, planBit) ==
  LET hits == {i \in DOMAIN rules : Matches(rules[i], f, planBit)}
  IN  IF hits = {} THEN 0 ELSE CHOOSE i \in hits : \A j \in hits : i <= j

\* Mutant of Remaining: the whole allowance is granted every time.
Allowance(quota, usage) == quota

\* An inherited quota grants what is left of it.
Remaining(quota, usage) == IF quota > usage THEN quota - usage ELSE 0

\* A DENY carries no authorization.
Authorization(d) ==
  IF d.verdict # "DENY" THEN d
  ELSE [d EXCEPT !.qos_5qi = 0, !.arp = 0, !.ambr_ul = 0, !.ambr_dl = 0,
                 !.quota = 0, !.quota_validity = 0]

\* A group of fields comes from the plan where the action inherits it.
Inherits(rs, act, rec, group) == group \in act.inherit /\ HasPlan(rs, rec)

FieldOf(rs, act, rec, group, field) ==
  IF Inherits(rs, act, rec, group) THEN PlanOf(rs, rec)[field] ELSE act[field]

ActionOf(rs, hit) == IF hit = 0 THEN rs.default ELSE rs.rules[hit].action

\* The decision field by field: the action's value or the plan's.
Filled(rs, act, req, rec, hit) ==
  [rule_id        |-> IF hit = 0 THEN 0 ELSE rs.rules[hit].id,
   verdict        |-> act.verdict,
   reason         |-> IF hit = 0 THEN "NO_MATCHING_RULE" ELSE act.reason,
   redirect       |-> act.redirect,
   flags          |-> act.flags \union (req.flags \cap {"usage_valid"}),
   qos_5qi        |-> FieldOf(rs, act, rec, "qos", "qos_5qi"),
   arp            |-> FieldOf(rs, act, rec, "qos", "arp"),
   ambr_ul        |-> FieldOf(rs, act, rec, "ambr", "ambr_ul"),
   ambr_dl        |-> FieldOf(rs, act, rec, "ambr", "ambr_dl"),
   rating_group   |-> FieldOf(rs, act, rec, "rating_group", "rating_group"),
   quota          |-> IF Inherits(rs, act, rec, "quota")
                      THEN Remaining(PlanOf(rs, rec).quota, UsageOf(req, rec))
                      ELSE act.quota,
   quota_validity |-> FieldOf(rs, act, rec, "quota", "quota_validity")]

evaluate(rs, req, rec) ==
  LET hit == FirstMatch(rs.rules, build_features(rs, req, rec), plan_bit_for(rec))
  IN  Authorization(Filled(rs, ActionOf(rs, hit), req, rec, hit))
=============================================================================
