---------------------------- MODULE RuleCompiler ----------------------------
(***************************************************************************)
(* The rule compiler (src/rules.cpp, class Compiler), one action per table  *)
(* load, rule head, condition and rule end, followed by a decision against  *)
(* the rule set it built.                                                   *)
(*                                                                          *)
(* A file arrives as the YAML parser left it.  A mapping is a function      *)
(* whose domain is the set of keys present; Bad is a value of the wrong     *)
(* type or one its conversion refuses.  Errors are only told apart from     *)
(* their absence: what a table holds after an error is never seen, because  *)
(* the file is refused as a whole.  Warnings are left out except for the    *)
(* shadowed rules.                                                          *)
(***************************************************************************)
EXTENDS RuleEngine, FiniteSetsExt, Functions

CONSTANTS
  Bad,                    \* a node that its reader refuses
  NoDecision,
  Headers,                \* what a file may have besides its rules
  Texts,                  \* the rules it may have
  MaxFile,                \* bound: rules per file
  Requests, Records,      \* what may be decided; NoRecord \in Records
  kMaxDnns, kMaxRedirects, kMaxRules, kMaxExpansionPerRule

ASSUME CompilerAssumption ==
  /\ {MaxFile, kMaxDnns, kMaxRedirects, kMaxRules, kMaxExpansionPerRule} \subseteq Nat \ {0}
  /\ kMaxDnns <= kDnnBits

IsSeq(s) == s \in Seq(Range(s))

\* The keys whose value is a name or a list of names.
SetKeys == {"status", "rat", "not_rat", "dnn", "not_dnn"}

\* What the readers of the YAML nodes yield: lists, truth values, as_uint().
ASSUME TextsAssumption ==
  \A t \in Texts :
    /\ IsSeq(t.plans) /\ IsSeq(t.when) /\ (t.priority = Bad \/ t.priority \in Nat)
    /\ \A k \in DOMAIN t.when :
         /\ t.when[k].key \in SetKeys => t.when[k].arg = Bad \/ IsSeq(t.when[k].arg)
         /\ t.when[k].key \in DOMAIN BoolBit => t.when[k].arg = Bad \/ t.when[k].arg \in BOOLEAN

ASSUME HeadersAssumption ==
  \A h \in Headers :
    /\ h.dnns = Bad \/ IsSeq(h.dnns)
    /\ h.redirects = Bad \/ IsSeq(h.redirects)
    /\ h.plans = Bad \/ /\ IsSeq(h.plans)
                        /\ \A i \in DOMAIN h.plans :
                             "quota" \in DOMAIN h.plans[i] =>
                               h.plans[i].quota = Bad \/ h.plans[i].quota \in Nat

\* The fields of a request and of a record are unsigned, and load_csv() stores
\* only the three statuses.
ASSUME RecordsAssumption ==
  /\ \A req \in Requests : req.usage \in Nat
  /\ \A rec \in Records \ {NoRecord} :
       /\ rec.status \in {"ACTIVE", "SUSPENDED", "BARRED"}
       /\ rec.plan \in Nat /\ rec.usage \in Nat

VARIABLES
  phase,        \* where run() is: "tables", "rules", "when", "end", "ready", "refused"
  tables,       \* dnns, redirects, plans, partners, blocklist, default
  text,         \* the rules of the file read so far
  at,           \* conditions of the last one compiled so far
  ms,           \* its (mask, value) pairs
  seen,         \* seen_rule_ids_
  rules, windows, thresholds,
  failed,       \* errors is not empty
  warnings,     \* by index of the compiled rule: what the lint says of it
  decision      \* NoDecision or [req, rec, hit, reply]

file == <<tables, text, seen>>
table == <<rules, windows, thresholds>>
result == <<warnings, decision>>
vars == <<phase, tables, text, at, ms, seen, rules, windows, thresholds, failed, warnings, decision>>

Has(node, key) == key \in DOMAIN node

Opt(node, key, default) == IF Has(node, key) THEN node[key] ELSE default

InRange(node, key, range) == Has(node, key) => node[key] \in range

-----------------------------------------------------------------------------
(* Actions and tables *)

RuleDefault ==
  [verdict |-> "ALLOW", reason |-> "OK", inherit |-> {"qos", "ambr", "quota", "rating_group"},
   flags |-> {}, redirect |-> 0, qos_5qi |-> 0, arp |-> 0, ambr_ul |-> 0, ambr_dl |-> 0,
   quota |-> 0, quota_validity |-> 0, rating_group |-> 0]

default_deny_action ==
  [RuleDefault EXCEPT !.verdict = "DENY", !.reason = "POLICY_DEFAULT_DENY", !.inherit = {}]

\* The inherit groups and the fields that belong to them.
GroupFields ==
  [qos |-> {"qos_5qi", "arp"}, ambr |-> {"ambr_ul", "ambr_dl"},
   quota |-> {"quota", "quota_validity"}, rating_group |-> {"rating_group"}]

\* Mutant of SetGroups: the second field of a pair does not stop inheriting.
SetGroupsByName(n) ==
  {g \in DOMAIN GroupFields : (GroupFields[g] \ {"arp"}) \cap DOMAIN n # {}}

\* Setting any field of a group takes the group out of the inherit mask.
SetGroups(n) == {g \in DOMAIN GroupFields : GroupFields[g] \cap DOMAIN n # {}}

\* Index 0 is "no redirect"; the targets are numbered from 1 and a repeated
\* name stands for its last target.
RedirectId(redirects, name) == Max({0} \union {i \in DOMAIN redirects : redirects[i] = name})

parse_action(n, a, redirects) ==
  LET half == Has(n, "qos_5qi") # Has(n, "arp")
  IN  [verdict        |-> Opt(n, "verdict", a.verdict),
       reason         |-> Opt(n, "reason", a.reason),
       inherit        |-> Opt(n, "inherit", a.inherit) \ SetGroups(n),
       flags          |-> Opt(n, "flags", a.flags),
       redirect       |-> IF Has(n, "redirect") THEN RedirectId(redirects, n.redirect) ELSE 0,
       qos_5qi        |-> Opt(n, "qos_5qi", IF half THEN 9 ELSE a.qos_5qi),
       arp            |-> Opt(n, "arp", IF half THEN 8 ELSE a.arp),
       ambr_ul        |-> Opt(n, "ambr_ul", a.ambr_ul),
       ambr_dl        |-> Opt(n, "ambr_dl", a.ambr_dl),
       quota          |-> Opt(n, "quota", a.quota),
       quota_validity |-> Opt(n, "quota_validity", a.quota_validity),
       rating_group   |-> Opt(n, "rating_group", a.rating_group)]

\* parse_action() reports no error.
ActionOk(n, redirects) ==
  /\ n # Bad /\ \A key \in DOMAIN n : n[key] # Bad
  /\ InRange(n, "qos_5qi", 1 .. 255) /\ InRange(n, "arp", 1 .. 15)
  /\ Has(n, "ambr_ul") = Has(n, "ambr_dl")
  /\ InRange(n, "redirect", Range(redirects))
  /\ Opt(n, "verdict", "ALLOW") = "REDIRECT" => Has(n, "redirect")

PlanConfig(p) ==
  [name |-> p.name, qos_5qi |-> Opt(p, "qos_5qi", 9), arp |-> Opt(p, "arp", 8),
   ambr_ul |-> Opt(p, "ambr_ul", 0), ambr_dl |-> Opt(p, "ambr_dl", 0),
   quota |-> Opt(p, "quota", 0), quota_validity |-> Opt(p, "quota_validity", 0),
   rating_group |-> Opt(p, "rating_group", 0), tethering |-> Opt(p, "tethering", FALSE)]

PlansOk(plans) ==
  /\ plans # Bad /\ plans # <<>> /\ Len(plans) <= kMaxPlans
  /\ \A i \in DOMAIN plans :
       /\ Has(plans[i], "name") /\ \A key \in DOMAIN plans[i] : plans[i][key] # Bad
       /\ InRange(plans[i], "qos_5qi", 1 .. 255) /\ InRange(plans[i], "arp", 1 .. 15)
       /\ \A j \in 1 .. i - 1 : plans[j].name # plans[i].name

DnnsOk(dnns) == dnns # Bad /\ Len(dnns) <= kMaxDnns /\ IsInjective(dnns)

\* The entry for "no redirect" takes one of the kMaxRedirects places.
RedirectsOk(redirects) == redirects # Bad /\ Len(redirects) < kMaxRedirects

HeaderOk(h) ==
  /\ DnnsOk(h.dnns) /\ RedirectsOk(h.redirects) /\ PlansOk(h.plans)
  /\ h.partners # Bad /\ h.blocklist # Bad
  /\ ActionOk(h.default, h.redirects)

NoTables ==
  [dnns |-> <<>>, redirects |-> <<>>, plans |-> <<>>, partners |-> {}, blocklist |-> {},
   default |-> default_deny_action]

LoadTables(h) ==
  [dnns |-> h.dnns, redirects |-> h.redirects,
   plans |-> [i \in DOMAIN h.plans |-> PlanConfig(h.plans[i])],
   partners |-> h.partners, blocklist |-> h.blocklist,
   default |-> parse_action(h.default, default_deny_action, h.redirects)]

-----------------------------------------------------------------------------
(* Conditions *)

\* Mutant of add_bit: a bit that must be clear is not looked at.
add_bit_set(pairs, bit, want) ==
  [i \in DOMAIN pairs |->
     [mask  |-> IF want THEN pairs[i].mask \union {bit} ELSE pairs[i].mask,
      value |-> IF want THEN pairs[i].value \union {bit} ELSE pairs[i].value]]

add_bit(pairs, bit, want) ==
  [i \in DOMAIN pairs |->
     [mask  |-> pairs[i].mask \union {bit},
      value |-> IF want THEN pairs[i].value \union {bit} ELSE pairs[i].value]]

\* One pair per pair and alternative, since a pair cannot express "or".
add_one_of(pairs, bits) ==
  IF bits = <<>> THEN pairs
  ELSE [k \in 1 .. Len(pairs) * Len(bits) |->
          LET pair == pairs[((k - 1) \div Len(bits)) + 1]
              bit  == bits[((k - 1) % Len(bits)) + 1]
          IN  [mask |-> pair.mask \union {bit}, value |-> pair.value \union {bit}]]

add_none_of(pairs, bits) ==
  [i \in DOMAIN pairs |-> [mask |-> pairs[i].mask \union Range(bits), value |-> pairs[i].value]]

BitOf(dnns) ==
  [status |-> StatusBit,
   rat    |-> [LTE |-> kRatBase, NR |-> kRatBase + 1, WLAN |-> kRatBase + 2],
   dnn    |-> [name \in Range(dnns) |-> kDnnBase + (CHOOSE i \in DOMAIN dnns : dnns[i] = name) - 1]]

\* The keys that list alternatives and the keys that exclude, with the field of
\* the feature word they are about.
OneHot == [status |-> "status", rat |-> "rat", dnn |-> "dnn"]

NoneOf == [not_rat |-> "rat", not_dnn |-> "dnn"]

Clause == text[Len(text)].when[at + 1]

Compiling == phase = "when" /\ at < Len(text[Len(text)].when)

\* A condition that cannot be compiled drops its rule and fails the file.
SkipRule ==
  /\ phase' = "rules" /\ failed' = TRUE
  /\ UNCHANGED <<at, ms, file, table, result>>

NextClause(pairs) ==
  /\ ms' = pairs /\ at' = at + 1
  /\ UNCHANGED <<phase, failed, file, rules, result>>

BoolCondition ==
  /\ Compiling /\ Clause.key \in DOMAIN BoolBit
  /\ IF Clause.arg = Bad THEN SkipRule
     ELSE NextClause(add_bit(ms, BoolBit[Clause.key], Clause.arg)) /\ UNCHANGED <<windows, thresholds>>

\* status, rat, dnn, and the negations of the last two.
SetCondition ==
  /\ Compiling /\ Clause.key \in DOMAIN OneHot \union DOMAIN NoneOf
  /\ LET kind  == IF Has(OneHot, Clause.key) THEN OneHot[Clause.key] ELSE NoneOf[Clause.key]
         bitOf == BitOf(tables.dnns)[kind]
         known == Clause.arg # Bad /\ Range(Clause.arg) \subseteq DOMAIN bitOf
         bits  == [i \in DOMAIN Clause.arg |-> bitOf[Clause.arg[i]]]
     IN  \/ /\ ~known
            /\ SkipRule
         \/ /\ known /\ Has(NoneOf, Clause.key)
            /\ NextClause(add_none_of(ms, bits)) /\ UNCHANGED <<windows, thresholds>>
         \/ /\ known /\ Has(OneHot, Clause.key)
            /\ Len(ms) * Len(bits) > kMaxExpansionPerRule
            /\ SkipRule
         \/ /\ known /\ Has(OneHot, Clause.key)
            /\ Len(ms) * Len(bits) <= kMaxExpansionPerRule
            /\ NextClause(add_one_of(ms, bits)) /\ UNCHANGED <<windows, thresholds>>

HasRoom(list, item, limit) == item \in Range(list) \/ Len(list) < limit

\* Equal thresholds, and equal windows, share one bit.
Intern(list, item) == IF item \in Range(list) THEN list ELSE Append(list, item)

IndexIn(list, item) == CHOOSE i \in DOMAIN list : list[i] = item

\* usage_above, usage_below
UsageCondition ==
  /\ Compiling /\ Clause.key \in {"usage_above", "usage_below"}
  /\ IF Clause.arg = Bad \/ ~HasRoom(thresholds, Clause.arg, kMaxUsageThresholds) THEN SkipRule
     ELSE /\ thresholds' = Intern(thresholds, Clause.arg)
          /\ NextClause(add_bit(ms, kUsageThresholdBase + IndexIn(thresholds', Clause.arg) - 1,
                                Clause.key = "usage_above"))
          /\ UNCHANGED windows

\* time_between, not_time_between
TimeCondition ==
  /\ Compiling /\ Clause.key \in {"time_between", "not_time_between"}
  /\ IF Clause.arg = Bad \/ ~HasRoom(windows, Clause.arg, kMaxTimeWindows) THEN SkipRule
     ELSE /\ windows' = Intern(windows, Clause.arg)
          /\ NextClause(add_bit(ms, kTimeWindowBase + IndexIn(windows', Clause.arg) - 1,
                                Clause.key = "time_between"))
          /\ UNCHANGED thresholds

UnknownCondition ==
  /\ Compiling /\ Clause.key = "unknown"
  /\ SkipRule

-----------------------------------------------------------------------------
(* Rules and the file *)

Init ==
  /\ phase = "tables" /\ tables = NoTables /\ text = <<>> /\ at = 0 /\ ms = <<>> /\ seen = {}
  /\ rules = <<>> /\ windows = <<>> /\ thresholds = <<>>
  /\ failed = FALSE /\ warnings = <<>> /\ decision = NoDecision

\* Not YAML, or not a mapping: run() returns before there is a rule set.
ParseError ==
  /\ phase = "tables"
  /\ phase' = "refused" /\ failed' = TRUE
  /\ UNCHANGED <<at, ms, file, table, result>>

\* load_dnns() to default_action.  A table with an error stays empty here.
ReadTables ==
  /\ phase = "tables"
  /\ \E h \in Headers :
       /\ tables' = IF HeaderOk(h) THEN LoadTables(h) ELSE NoTables
       /\ failed' = (h.rules = Bad \/ ~HeaderOk(h))
       /\ phase' = IF h.rules = Bad THEN "end" ELSE "rules"
  /\ UNCHANGED <<text, at, ms, seen, table, result>>

PlanNames == {tables.plans[i].name : i \in DOMAIN tables.plans}

PlanIds(names) == {i - 1 : i \in {j \in DOMAIN tables.plans : tables.plans[j].name \in names}}

\* The head of a rule, up to compile_when().
NextRule ==
  /\ phase = "rules" /\ Len(text) < MaxFile
  /\ \E t \in Texts :
       LET idOk == t.id # Bad /\ t.id # 0 /\ t.id \notin seen
           ok   == idOk /\ t.priority # Bad /\ Range(t.plans) \subseteq PlanNames
       IN  /\ text' = Append(text, t)
           /\ seen' = IF idOk THEN seen \union {t.id} ELSE seen
           /\ failed' = (failed \/ ~ok)
           /\ phase' = IF ok THEN "when" ELSE "rules"
  /\ at' = 0 /\ ms' = << [mask |-> {}, value |-> {}] >>
  /\ UNCHANGED <<tables, table, result>>

\* parse_action(), the room in the table, and one compiled rule per pair.
EndRule ==
  LET t == text[Len(text)]
      action == parse_action(t.action, RuleDefault, tables.redirects)
  IN  /\ phase = "when" /\ at = Len(t.when)
      /\ \/ /\ ~ActionOk(t.action, tables.redirects)
            /\ SkipRule
         \/ /\ ActionOk(t.action, tables.redirects)
            /\ Len(rules) + Len(ms) > kMaxRules
            /\ phase' = "end" /\ failed' = TRUE
            /\ UNCHANGED <<at, ms, file, table, result>>
         \/ /\ ActionOk(t.action, tables.redirects)
            /\ Len(rules) + Len(ms) <= kMaxRules
            /\ rules' = rules \o [i \in DOMAIN ms |->
                 [mask |-> ms[i].mask, value |-> ms[i].value, plans |-> PlanIds(Range(t.plans)),
                  id |-> t.id, priority |-> t.priority, action |-> action]]
            /\ phase' = "rules"
            /\ UNCHANGED <<at, ms, file, windows, thresholds, failed, result>>

\* Mutant of Before: the order the comment on RuleSet::rules names.
BeforeById(s, i, j) ==
  \/ s[i].priority < s[j].priority
  \/ s[i].priority = s[j].priority /\ s[i].id < s[j].id
  \/ s[i].priority = s[j].priority /\ s[i].id = s[j].id /\ i < j

Before(s, i, j) ==
  \/ s[i].priority < s[j].priority
  \/ s[i].priority = s[j].priority /\ i < j

\* The place of an element in the sorted sequence.
Rank(s, i) == 1 + Cardinality({j \in DOMAIN s : Before(s, j, i)})

stable_sort(s) == [k \in DOMAIN s |-> s[CHOOSE i \in DOMAIN s : Rank(s, i) = k]]

\* Mutant of Shadows: the plans of the earlier rule are not compared.
ShadowsAnyPlan(a, b) ==
  /\ a.id # b.id
  /\ a.mask \subseteq b.mask
  /\ b.value \cap a.mask = a.value

\* a tests a subset of b's bits for the same values and covers b's plans.
Shadows(a, b) ==
  /\ a.id # b.id
  /\ a.mask \subseteq b.mask
  /\ b.value \cap a.mask = a.value
  /\ a.plans = {} \/ (b.plans # {} /\ b.plans \subseteq a.plans)

\* The earlier compiled rules that the loop of sort_and_check() finds for one.
Covers(s, i) == {j \in 1 .. i - 1 : Shadows(s[j], s[i])}

\* "rule <id> can never fire: rule <by> always matches first".  One warning
\* per compiled rule that is covered, with the ids of the rules of the file.
Lint(s) ==
  [i \in {k \in DOMAIN s : Covers(s, k) # {}} |->
     [id |-> s[i].id, by |-> s[Min(Covers(s, i))].id]]

\* The end of load_rules(), sort_and_check(), and the return of run().
EndOfFile ==
  /\ phase \in {"rules", "end"}
  /\ phase' = IF failed THEN "refused" ELSE "ready"
  /\ rules' = IF failed THEN rules ELSE stable_sort(rules)
  /\ warnings' = IF failed THEN <<>> ELSE Lint(stable_sort(rules))
  /\ UNCHANGED <<at, ms, file, windows, thresholds, failed, decision>>

RuleSet ==
  [rules |-> rules, plans |-> tables.plans, windows |-> windows, thresholds |-> thresholds,
   partners |-> tables.partners, blocklist |-> tables.blocklist, default |-> tables.default]

\* evaluate() keeps no state, so one decision per rule set shows them all.
Decide ==
  /\ phase = "ready" /\ decision = NoDecision
  /\ \E req \in Requests, rec \in Records :
       decision' = [req |-> req, rec |-> rec, reply |-> evaluate(RuleSet, req, rec),
                    hit |-> FirstMatch(rules, build_features(RuleSet, req, rec), plan_bit_for(rec))]
  /\ UNCHANGED <<phase, at, ms, file, table, failed, warnings>>

Next ==
  \/ ParseError \/ ReadTables \/ NextRule
  \/ BoolCondition \/ SetCondition \/ UsageCondition \/ TimeCondition \/ UnknownCondition
  \/ EndRule \/ EndOfFile \/ Decide

Spec == Init /\ [][Next]_vars

-----------------------------------------------------------------------------
(* What the source text means, without bits *)

\* A condition of the file, for one request and one subscriber.  An empty list
\* restricts nothing.
Holds(c, req, rec) ==
  LET usage(permille) ==
        usage_at_least_permille(UsageOf(req, rec), QuotaOf(RuleSet, rec), permille)
      inWindow == WindowContains(c.arg, req.minute % 1440)
      rats == {BitOf(tables.dnns).rat[n] - kRatBase : n \in Range(c.arg)}
      dnns == {i - 1 : i \in {j \in DOMAIN tables.dnns : tables.dnns[j] \in Range(c.arg)}}
  IN  CASE c.key \in DOMAIN BoolBit      -> Facts(RuleSet, req, rec)[c.key] = c.arg
        [] c.key = "status"              -> c.arg = <<>> \/ StatusOf(rec) \in Range(c.arg)
        [] c.key = "rat"                 -> c.arg = <<>> \/ req.rat \in rats
        [] c.key = "not_rat"             -> req.rat \notin rats
        [] c.key = "dnn"                 -> c.arg = <<>> \/ req.dnn \in dnns
        [] c.key = "not_dnn"             -> req.dnn \notin dnns
        [] c.key = "usage_above"         -> usage(c.arg)
        [] c.key = "usage_below"         -> ~usage(c.arg)
        [] c.key = "time_between"        -> inWindow
        [] c.key = "not_time_between"    -> ~inWindow

\* A rule of the file: its plans and all its conditions.
Applies(t, req, rec) ==
  /\ \/ t.plans = <<>>
     \/ HasPlan(RuleSet, rec) /\ PlanOf(RuleSet, rec).name \in Range(t.plans)
  /\ \A k \in DOMAIN t.when : Holds(t.when[k], req, rec)

\* No condition of the rule asks for what another one excludes.
Consistent(t) ==
  \A k, l \in DOMAIN t.when :
    LET c == t.when[k]
        d == t.when[l]
    IN  /\ Has(NoneOf, d.key) /\ c.key = NoneOf[d.key] => Range(c.arg) \cap Range(d.arg) = {}
        /\ c.key = d.key /\ c.key \in DOMAIN BoolBit => c.arg = d.arg
        /\ c.key = "usage_above" /\ d.key = "usage_below" => c.arg # d.arg
        /\ c.key = "time_between" /\ d.key = "not_time_between" => c.arg # d.arg

Decided == decision # NoDecision

\* The rule of the file that the reply names.
Fired == CHOOSE t \in Range(text) : t.id = decision.reply.rule_id

-----------------------------------------------------------------------------
(* Properties *)

\* Types, and the capacity limits of rules.hpp: no list outgrows its bits.
TypeOK ==
  /\ phase \in {"tables", "rules", "when", "end", "ready", "refused"}
  /\ text \in Seq(Texts) /\ at \in Nat /\ failed \in BOOLEAN
  /\ Len(ms) <= kMaxExpansionPerRule /\ Len(rules) <= kMaxRules
  /\ Len(windows) <= kMaxTimeWindows /\ Len(thresholds) <= kMaxUsageThresholds
  /\ \A i \in DOMAIN ms : ms[i].value \subseteq ms[i].mask
  /\ DOMAIN warnings \subseteq DOMAIN rules

\* After every condition the (mask, value) pairs match exactly the requests
\* for which the conditions read so far hold: compile_when(), with its
\* expansion of lists and its shared window and threshold bits, keeps their
\* meaning.
PairsMeanTheConditions ==
  phase = "when" /\ ~failed /\ Consistent(text[Len(text)]) =>
    \A req \in Requests, rec \in Records :
      (\E i \in DOMAIN ms : build_features(RuleSet, req, rec) \cap ms[i].mask = ms[i].value)
        <=> \A k \in 1 .. at : Holds(text[Len(text)].when[k], req, rec)

\* A decision names the rule an operator finds by reading the file: of the
\* rules that apply the one with the lowest priority, the first in the file
\* among equals, and 0 if none applies.
DecidesLikeTheFile ==
  Decided /\ (\A i \in DOMAIN text : Consistent(text[i])) =>
    LET apply == {i \in DOMAIN text : Applies(text[i], decision.req, decision.rec)}
    IN  IF apply = {} THEN decision.reply.rule_id = 0
        ELSE \E i \in apply : /\ decision.reply.rule_id = text[i].id
                              /\ \A j \in apply : text[i].priority <= text[j].priority
                              /\ \A j \in apply : text[i].priority = text[j].priority => i <= j

\* A warning of the lint is true of the (mask, value) pair it was written for:
\* when that pair matches the request, so does an earlier pair of the other
\* rule that the warning names, so the pair does not decide.  It says nothing
\* of the other pairs of the rule; WarnedRulesNeverFire does.
WarnedPairsNeverFire ==
  Decided =>
    LET f == build_features(RuleSet, decision.req, decision.rec)
        p == plan_bit_for(decision.rec)
    IN  \A i \in DOMAIN warnings :
          Matches(rules[i], f, p) =>
            /\ decision.hit # i
            /\ warnings[i].by # rules[i].id
            /\ \E j \in 1 .. i - 1 : rules[j].id = warnings[i].by /\ Matches(rules[j], f, p)

\* The rule that decides is not one that the compiler told the operator "can
\* never fire".
WarnedRulesNeverFire ==
  Decided => \A i \in DOMAIN warnings : warnings[i].id # decision.reply.rule_id

\* Unless the rule sets a quota of its own, a reply never grants more than is
\* left of the subscriber's plan: usage and grant stay within the plan's quota.
CreditIsWhatIsLeft ==
  Decided /\ decision.reply.rule_id # 0 /\ decision.reply.quota # 0 =>
    \/ Has(Fired.action, "quota")
    \/ UsageOf(decision.req, decision.rec) + decision.reply.quota
         <= QuotaOf(RuleSet, decision.rec)

\* A reply carries what the file says, whatever inherits from the plan: a field
\* that the rule's action sets is the field of a reply that is not a DENY, a
\* DENY opens nothing whichever rule or default it comes from, and a REDIRECT
\* names a target of the table it was compiled with.
ReplyIsAsWritten ==
  Decided =>
    CASE decision.reply.verdict = "DENY" ->
           \A field \in GroupFields.qos \union GroupFields.ambr \union GroupFields.quota :
             decision.reply[field] = 0
      [] OTHER ->
           /\ decision.reply.rule_id # 0 =>
                \A g \in DOMAIN GroupFields : \A field \in GroupFields[g] \cap DOMAIN Fired.action :
                  decision.reply[field] = Fired.action[field]
           /\ decision.reply.verdict = "REDIRECT" =>
                decision.reply.redirect \in DOMAIN tables.redirects

\* "not_dnn and not_rat mean none of these": the rule that decides a request
\* does not exclude its DNN or access type.
NotMeansNoneOfThese ==
  Decided /\ decision.reply.rule_id # 0 =>
    \A k \in DOMAIN Fired.when :
      Has(NoneOf, Fired.when[k].key) => Holds(Fired.when[k], decision.req, decision.rec)
=============================================================================
