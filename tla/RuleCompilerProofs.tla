------------------------- MODULE RuleCompilerProofs -------------------------
(***************************************************************************)
(* Proofs about RuleCompiler, for any rule files, tables, requests and       *)
(* subscribers, and for any values of the capacity limits.                  *)
(***************************************************************************)
EXTENDS RuleCompiler, WellFoundedInduction, TLAPS

\* How long a leaf may take, and what is tried when it takes longer.
USE SMTT(10), Zenon, SMTT(30), SMTT(60)

-----------------------------------------------------------------------------
(* Lemmas on numbers and sequences *)

\* A set of naturals that is not empty has a least element.
LEMMA LeastNatural ==
  ASSUME NEW S, S \subseteq Nat, S # {}
  PROVE  \E i \in S : \A j \in S : i <= j
<1> DEFINE R == {ss \in Nat \X Nat : ss[1] < ss[2]}
<1>1. IsWellFoundedOn(R, Nat)
  BY NatLessThanWellFounded, Zenon DEF OpToRel
<1>2. \A x, y \in Nat : <<y, x>> \notin R => x <= y
  BY SMT
<1> HIDE DEF R
<1>3. \E x \in S : \A y \in S : ~(<<y, x>> \in R)
  BY <1>1, WFMin, Zenon
<1> QED BY <1>2, <1>3, Zenon

\* What a sequence is, whatever its elements are.
LEMMA SeqShape ==
  ASSUME NEW s, IsSeq(s)
  PROVE  Len(s) \in Nat /\ DOMAIN s = 1 .. Len(s)
BY DEF IsSeq

\* A function on 1 .. n is a sequence of length n.
LEMMA FunctionIsSeq ==
  ASSUME NEW s, NEW n \in Nat, s = [i \in 1 .. n |-> s[i]]
  PROVE  IsSeq(s) /\ Len(s) = n
<1>1. \A i \in 1 .. n : s[i] \in Range(s)
  BY DEF Range
<1>2. s \in [1 .. n -> Range(s)]
  BY <1>1
<1> QED BY <1>2 DEF IsSeq

\* A sequence over any set is one.
LEMMA SeqIsSeq ==
  ASSUME NEW S, NEW s \in Seq(S)
  PROVE  IsSeq(s)
<1>1. Len(s) \in Nat /\ s = [i \in 1 .. Len(s) |-> s[i]]
  OBVIOUS
<1> QED BY <1>1, FunctionIsSeq

\* Appending one sequence to another.
LEMMA ConcatIsSeq ==
  ASSUME NEW s, NEW t, IsSeq(s), IsSeq(t)
  PROVE  IsSeq(s \o t) /\ Len(s \o t) = Len(s) + Len(t)
<1> DEFINE A == Range(s) \union Range(t)
<1>1. s \in Seq(A) /\ t \in Seq(A)
  BY SeqShape DEF IsSeq
<1> HIDE DEF A
<1>2. s \o t \in Seq(A) /\ Len(s \o t) = Len(s) + Len(t)
  BY <1>1
<1> QED BY <1>2, SeqIsSeq, Zenon

-----------------------------------------------------------------------------
(* Lemmas on the operators of the compiler and of the engine *)

\* A rule that shadows another matches whatever the other one matches.
LEMMA ShadowMatchesMore ==
  ASSUME NEW a, NEW b, NEW f, NEW planBit, Shadows(a, b), Matches(b, f, planBit)
  PROVE  Matches(a, f, planBit)
<1>1. f \cap a.mask = a.value
  BY DEF Shadows, Matches
<1>2. a.plans = {} \/ a.plans \cap planBit # {}
  BY DEF Shadows, Matches
<1> QED BY <1>1, <1>2 DEF Matches

\* The scan of evaluate() stops at a rule that matches, and at none before it.
LEMMA FirstMatchIsFirst ==
  ASSUME NEW rs, IsSeq(rs), NEW f, NEW planBit, FirstMatch(rs, f, planBit) # 0
  PROVE  LET hit == FirstMatch(rs, f, planBit)
         IN  /\ hit \in DOMAIN rs /\ Matches(rs[hit], f, planBit)
             /\ \A j \in DOMAIN rs : Matches(rs[j], f, planBit) => hit <= j
<1> DEFINE hits == {i \in DOMAIN rs : Matches(rs[i], f, planBit)}
<1>1. hits \subseteq Nat
  BY SeqShape
<1>2. hits # {}
  BY DEF FirstMatch
<1>3. \E i \in hits : \A j \in hits : i <= j
  <2> HIDE DEF hits
  <2> QED BY <1>1, <1>2, LeastNatural, Zenon
<1>4. FirstMatch(rs, f, planBit) = CHOOSE i \in hits : \A j \in hits : i <= j
  BY <1>2 DEF FirstMatch
<1>5. FirstMatch(rs, f, planBit) \in hits /\ \A j \in hits : FirstMatch(rs, f, planBit) <= j
  <2> HIDE DEF hits
  <2> QED BY <1>3, <1>4
<1> QED BY <1>5

\* What holds of the pairs of a rule after every condition.
PairsOk(pairs) ==
  /\ IsSeq(pairs) /\ Len(pairs) <= kMaxExpansionPerRule
  /\ \A i \in DOMAIN pairs : pairs[i].value \subseteq pairs[i].mask

\* A function on the indexes of a sequence is a sequence of the same length.
LEMMA SameDomainIsSeq ==
  ASSUME NEW s, IsSeq(s), NEW t, t = [i \in DOMAIN s |-> t[i]]
  PROVE  IsSeq(t) /\ Len(t) = Len(s) /\ DOMAIN t = DOMAIN s
<1>1. Len(s) \in Nat /\ DOMAIN s = 1 .. Len(s)
  BY SeqShape
<1>2. t = [i \in 1 .. Len(s) |-> t[i]]
  BY <1>1, Zenon
<1>3. IsSeq(t) /\ Len(t) = Len(s)
  BY <1>1, <1>2, FunctionIsSeq
<1> QED BY <1>1, <1>3, SeqShape

LEMMA AddBitOk ==
  ASSUME NEW pairs, PairsOk(pairs), NEW bit, NEW want
  PROVE  PairsOk(add_bit(pairs, bit, want))
<1> DEFINE t == add_bit(pairs, bit, want)
<1>1. t = [i \in DOMAIN pairs |-> t[i]]
  BY Zenon DEF add_bit
<1>2. IsSeq(t) /\ Len(t) = Len(pairs) /\ DOMAIN t = DOMAIN pairs
  <2> HIDE DEF t
  <2> QED BY <1>1, SameDomainIsSeq DEF PairsOk
<1>3. \A i \in DOMAIN pairs : t[i].value \subseteq t[i].mask
  BY DEF PairsOk, add_bit
<1> QED BY <1>2, <1>3 DEF PairsOk

LEMMA AddNoneOfOk ==
  ASSUME NEW pairs, PairsOk(pairs), NEW bits
  PROVE  PairsOk(add_none_of(pairs, bits))
<1> DEFINE t == add_none_of(pairs, bits)
<1>1. t = [i \in DOMAIN pairs |-> t[i]]
  BY Zenon DEF add_none_of
<1>2. IsSeq(t) /\ Len(t) = Len(pairs) /\ DOMAIN t = DOMAIN pairs
  <2> HIDE DEF t
  <2> QED BY <1>1, SameDomainIsSeq DEF PairsOk
<1>3. \A i \in DOMAIN pairs : t[i].value \subseteq t[i].mask
  BY DEF PairsOk, add_none_of
<1> QED BY <1>2, <1>3 DEF PairsOk

\* The cross product of pairs and alternatives reads inside both lists.
LEMMA CrossIndex ==
  ASSUME NEW m \in Nat, NEW n \in Nat, n # 0, NEW k \in 1 .. m * n
  PROVE  ((k - 1) \div n) + 1 \in 1 .. m
<1> DEFINE q == (k - 1) \div n
<1>1. q \in Nat /\ n * q <= k - 1
  OBVIOUS
<1>2. m * n \in Nat /\ n * q < n * m
  BY <1>1
<1> HIDE DEF q
<1>3. q < m
  BY <1>1, <1>2
<1> QED BY <1>1, <1>3 DEF q

LEMMA AddOneOfOk ==
  ASSUME NEW pairs, PairsOk(pairs), NEW bits, IsSeq(bits),
         Len(pairs) * Len(bits) <= kMaxExpansionPerRule
  PROVE  PairsOk(add_one_of(pairs, bits))
<1> DEFINE t == add_one_of(pairs, bits)
<1>1. CASE bits = <<>>
  BY <1>1 DEF add_one_of
<1>2. CASE bits # <<>>
  <2> DEFINE n == Len(pairs) * Len(bits)
  <2>1. /\ Len(pairs) \in Nat /\ DOMAIN pairs = 1 .. Len(pairs)
        /\ Len(bits) \in Nat /\ Len(bits) # 0
    BY <1>2, SeqShape DEF PairsOk, IsSeq
  <2>2. n \in Nat
    BY <2>1
  <2>3. t = [k \in 1 .. n |-> t[k]]
    BY <1>2, Zenon DEF add_one_of
  <2>4. IsSeq(t) /\ Len(t) = n /\ DOMAIN t = 1 .. n
    <3> HIDE DEF t, n
    <3> QED BY <2>2, <2>3, FunctionIsSeq, SeqShape
  <2>5. ASSUME NEW k \in 1 .. n
        PROVE  t[k].value \subseteq t[k].mask
    <3> DEFINE pair == pairs[((k - 1) \div Len(bits)) + 1]
               bit  == bits[((k - 1) % Len(bits)) + 1]
    <3>1. pair.value \subseteq pair.mask
      BY <2>1, CrossIndex DEF PairsOk
    <3>2. t[k] = [mask |-> pair.mask \union {bit}, value |-> pair.value \union {bit}]
      BY <1>2, Zenon DEF add_one_of
    <3> HIDE DEF pair, bit, t
    <3> QED BY <3>1, <3>2
  <2>6. PairsOk(t)
    <3> HIDE DEF t
    <3> QED BY <2>4, <2>5 DEF PairsOk
  <2> QED BY <2>6
<1> QED BY <1>1, <1>2

\* A list that has room takes one more item without passing its limit.
LEMMA InternFits ==
  ASSUME NEW list, IsSeq(list), NEW limit \in Nat, Len(list) <= limit, NEW item,
         HasRoom(list, item, limit)
  PROVE  IsSeq(Intern(list, item)) /\ Len(Intern(list, item)) <= limit
<1>1. CASE item \in Range(list)
  BY <1>1 DEF Intern
<1>2. CASE item \notin Range(list)
  <2> DEFINE A == Range(list) \union {item}
  <2>1. list \in Seq(A) /\ item \in A
    BY SeqShape DEF IsSeq
  <2> HIDE DEF A
  <2>2. Append(list, item) \in Seq(A) /\ Len(Append(list, item)) = Len(list) + 1
    BY <2>1
  <2>3. IsSeq(Append(list, item))
    BY <2>2, SeqIsSeq, Zenon
  <2>4. Len(list) < limit /\ Len(list) \in Nat
    BY <1>2, SeqShape DEF HasRoom
  <2> QED BY <1>2, <2>2, <2>3, <2>4 DEF Intern
<1> QED BY <1>1, <1>2

-----------------------------------------------------------------------------
(* The inductive invariant *)

\* The lists are sequences, and there is a rule to compile conditions of.
Shape ==
  /\ IsSeq(rules) /\ IsSeq(windows) /\ IsSeq(thresholds) /\ IsSeq(ms)
  /\ phase = "when" => text # <<>>

\* The lint is about the table that is served, and a decision comes from it.
Linted ==
  /\ phase = "ready" => warnings = Lint(rules)
  /\ Decided =>
       /\ phase = "ready"
       /\ decision.hit = FirstMatch(rules, build_features(RuleSet, decision.req, decision.rec),
                                    plan_bit_for(decision.rec))

IInv == TypeOK /\ Shape /\ Linted

LEMMA Limits ==
  /\ kMaxTimeWindows \in Nat /\ kMaxUsageThresholds \in Nat /\ kMaxRules \in Nat
  /\ kMaxExpansionPerRule \in Nat \ {0}
BY LimitsAssumption, CompilerAssumption

\* Before the file ends nothing is decided, so the lint is not about anything.
LEMMA NotReady ==
  ASSUME IInv, phase # "ready", phase' # "ready", UNCHANGED decision
  PROVE  Linted'
BY DEF IInv, Linted, Decided

LEMMA EmptyIsSeq == IsSeq(<<>>) /\ Len(<<>>) = 0
BY DEF IsSeq

LEMMA OnePair ==
  LET first == << [mask |-> {}, value |-> {}] >> IN PairsOk(first)
<1> DEFINE pair == [mask |-> {}, value |-> {}]
           first == <<pair>>
<1>1. first \in Seq({pair}) /\ Len(first) = 1 /\ DOMAIN first = {1} /\ first[1] = pair
  <2> HIDE DEF pair
  <2> QED OBVIOUS
<1>2. pair.value \subseteq pair.mask
  OBVIOUS
<1>3. IsSeq(first)
  <2> HIDE DEF first
  <2> QED BY <1>1, SeqIsSeq
<1> QED BY <1>1, <1>2, <1>3, Limits DEF PairsOk

LEMMA InitIInv == Init => IInv
<1> SUFFICES ASSUME Init PROVE IInv
  OBVIOUS
<1>1. TypeOK
  <2>1. <<>> \in Seq(Texts) /\ DOMAIN <<>> = {}
    OBVIOUS
  <2>2. Len(<<>>) <= kMaxExpansionPerRule /\ Len(<<>>) <= kMaxRules
    BY EmptyIsSeq, Limits
  <2>3. Len(<<>>) <= kMaxTimeWindows /\ Len(<<>>) <= kMaxUsageThresholds
    BY EmptyIsSeq, Limits
  <2>4. 0 \in Nat
    OBVIOUS
  <2> QED BY <2>1, <2>2, <2>3, <2>4, Zenon DEF Init, TypeOK
<1>2. Shape
  BY EmptyIsSeq DEF Init, Shape
<1>3. Linted
  BY DEF Init, Linted, Decided
<1> QED BY <1>1, <1>2, <1>3 DEF IInv

\* Dropping a rule, or a file, changes no list.
LEMMA FailIInv ==
  ASSUME IInv, phase # "ready", phase' \in {"rules", "end", "refused"}, failed' = TRUE,
         UNCHANGED <<at, ms, file, table, result>>
  PROVE  IInv'
<1>1. TypeOK'
  BY DEF IInv, TypeOK, file, table, result
<1>2. Shape'
  BY DEF IInv, Shape, file, table, result
<1>3. Linted'
  BY NotReady DEF result
<1> QED BY <1>1, <1>2, <1>3 DEF IInv

\* A condition that compiles leaves good pairs and lists within their limits.
LEMMA ClauseIInv ==
  ASSUME IInv, phase = "when", NEW pairs, PairsOk(pairs), NextClause(pairs),
         IsSeq(windows'), Len(windows') <= kMaxTimeWindows,
         IsSeq(thresholds'), Len(thresholds') <= kMaxUsageThresholds
  PROVE  IInv'
<1>1. TypeOK'
  BY DEF IInv, TypeOK, NextClause, PairsOk, file, result
<1>2. Shape'
  BY DEF IInv, Shape, NextClause, PairsOk, file, result
<1>3. Linted'
  BY NotReady DEF NextClause, result
<1> QED BY <1>1, <1>2, <1>3 DEF IInv

LEMMA MsOk ==
  ASSUME IInv
  PROVE  PairsOk(ms)
BY DEF IInv, TypeOK, Shape, PairsOk

\* The condition that is compiled next is one of the file's.
LEMMA ClauseArg ==
  ASSUME IInv, Compiling, Clause.key \in SetKeys, Clause.arg # Bad
  PROVE  IsSeq(Clause.arg)
<1> DEFINE t == text[Len(text)]
<1>1. t \in Texts
  BY DEF IInv, TypeOK, Shape, Compiling
<1>2. IsSeq(t.when)
  BY <1>1, TextsAssumption
<1>3. at + 1 \in DOMAIN t.when
  <2> HIDE DEF t
  <2>1. at < Len(t.when)
    BY DEF Compiling, t
  <2> QED BY <1>2, <2>1, SeqShape DEF IInv, TypeOK
<1> QED BY <1>1, <1>3, TextsAssumption DEF Clause

-----------------------------------------------------------------------------
(* One lemma per action that changes the pairs or the table *)

LEMMA SkipRuleIInv ==
  ASSUME IInv, phase = "when", SkipRule
  PROVE  IInv'
BY FailIInv DEF SkipRule

LEMMA ListsOk ==
  ASSUME IInv
  PROVE  /\ IsSeq(windows) /\ Len(windows) <= kMaxTimeWindows
         /\ IsSeq(thresholds) /\ Len(thresholds) <= kMaxUsageThresholds
BY DEF IInv, TypeOK, Shape

LEMMA BoolIInv ==
  ASSUME IInv, BoolCondition
  PROVE  IInv'
<1>1. phase = "when"
  BY DEF BoolCondition, Compiling
<1>2. CASE SkipRule
  BY <1>1, <1>2, SkipRuleIInv
<1>3. ASSUME NEW bit, NEW want, NextClause(add_bit(ms, bit, want)), UNCHANGED <<windows, thresholds>>
      PROVE  IInv'
  BY <1>1, <1>3, MsOk, AddBitOk, ListsOk, ClauseIInv
<1> QED BY <1>2, <1>3 DEF BoolCondition

LEMMA SetIInv ==
  ASSUME IInv, SetCondition
  PROVE  IInv'
<1>1. phase = "when" /\ Compiling
  BY Zenon DEF SetCondition, Compiling
<1>2. CASE SkipRule
  BY <1>1, <1>2, SkipRuleIInv
<1>3. ASSUME NEW bits, NextClause(add_none_of(ms, bits)), UNCHANGED <<windows, thresholds>>
      PROVE  IInv'
  BY <1>1, <1>3, MsOk, AddNoneOfOk, ListsOk, ClauseIInv
<1>4. ASSUME NEW bits, IsSeq(bits), Len(ms) * Len(bits) <= kMaxExpansionPerRule,
             NextClause(add_one_of(ms, bits)), UNCHANGED <<windows, thresholds>>
      PROVE  IInv'
  BY <1>1, <1>4, MsOk, AddOneOfOk, ListsOk, ClauseIInv
<1>5. Clause.key \in SetKeys
  BY Zenon DEF SetCondition, OneHot, NoneOf, SetKeys
<1> DEFINE bitOf == BitOf(tables.dnns)[IF Has(OneHot, Clause.key) THEN OneHot[Clause.key] ELSE NoneOf[Clause.key]]
           bits  == [i \in DOMAIN Clause.arg |-> bitOf[Clause.arg[i]]]
<1>6. Clause.arg # Bad => IsSeq(bits)
  <2> SUFFICES ASSUME Clause.arg # Bad PROVE IsSeq(bits)
    OBVIOUS
  <2>1. IsSeq(Clause.arg)
    BY <1>1, <1>5, ClauseArg
  <2>2. bits = [i \in DOMAIN Clause.arg |-> bits[i]]
    BY Zenon
  <2> HIDE DEF bits
  <2> QED BY <2>1, <2>2, SameDomainIsSeq
<1>7. \/ SkipRule
      \/ NextClause(add_none_of(ms, bits)) /\ UNCHANGED <<windows, thresholds>>
      \/ /\ Clause.arg # Bad /\ Len(ms) * Len(bits) <= kMaxExpansionPerRule
         /\ NextClause(add_one_of(ms, bits)) /\ UNCHANGED <<windows, thresholds>>
  BY Zenon DEF SetCondition
<1> HIDE DEF bits
<1> QED BY <1>2, <1>3, <1>4, <1>6, <1>7

LEMMA UsageIInv ==
  ASSUME IInv, UsageCondition
  PROVE  IInv'
<1>1. phase = "when"
  BY DEF UsageCondition, Compiling
<1>2. CASE SkipRule
  BY <1>1, <1>2, SkipRuleIInv
<1>3. ASSUME NEW item, HasRoom(thresholds, item, kMaxUsageThresholds),
             thresholds' = Intern(thresholds, item), UNCHANGED windows,
             NEW bit, NEW want, NextClause(add_bit(ms, bit, want))
      PROVE  IInv'
  <2>1. IsSeq(thresholds') /\ Len(thresholds') <= kMaxUsageThresholds
    BY <1>3, ListsOk, InternFits, Limits
  <2>2. PairsOk(add_bit(ms, bit, want))
    BY MsOk, AddBitOk
  <2> QED BY <1>1, <1>3, <2>1, <2>2, ListsOk, ClauseIInv
<1> QED BY <1>2, <1>3, Zenon DEF UsageCondition

LEMMA TimeIInv ==
  ASSUME IInv, TimeCondition
  PROVE  IInv'
<1>1. phase = "when"
  BY DEF TimeCondition, Compiling
<1>2. CASE SkipRule
  BY <1>1, <1>2, SkipRuleIInv
<1>3. ASSUME NEW item, HasRoom(windows, item, kMaxTimeWindows),
             windows' = Intern(windows, item), UNCHANGED thresholds,
             NEW bit, NEW want, NextClause(add_bit(ms, bit, want))
      PROVE  IInv'
  <2>1. IsSeq(windows') /\ Len(windows') <= kMaxTimeWindows
    BY <1>3, ListsOk, InternFits, Limits
  <2>2. PairsOk(add_bit(ms, bit, want))
    BY MsOk, AddBitOk
  <2> QED BY <1>1, <1>3, <2>1, <2>2, ListsOk, ClauseIInv
<1> QED BY <1>2, <1>3, Zenon DEF TimeCondition

LEMMA TablesIInv ==
  ASSUME IInv, ReadTables
  PROVE  IInv'
<1>0. PICK h \in Headers :
        /\ failed' = (h.rules = Bad \/ ~HeaderOk(h))
        /\ phase' = IF h.rules = Bad THEN "end" ELSE "rules"
  BY DEF ReadTables
<1>1. phase' \in {"end", "rules"} /\ failed' \in BOOLEAN
  BY <1>0, Zenon
<1>2. TypeOK'
  BY <1>1 DEF IInv, TypeOK, ReadTables, table, result
<1>3. Shape'
  BY <1>1 DEF IInv, Shape, ReadTables, table, result
<1>4. Linted'
  BY <1>1, NotReady DEF ReadTables, result
<1> QED BY <1>2, <1>3, <1>4 DEF IInv

LEMMA NextRuleIInv ==
  ASSUME IInv, NextRule
  PROVE  IInv'
<1>0. PICK t \in Texts : text' = Append(text, t)
  BY DEF NextRule
<1>1. phase' \in {"when", "rules"} /\ failed' \in BOOLEAN
  BY Zenon DEF NextRule
<1>2. PairsOk(ms')
  BY OnePair DEF NextRule
<1>3. text' \in Seq(Texts) /\ text' # <<>>
  BY <1>0 DEF IInv, TypeOK
<1>4. at' = 0 /\ UNCHANGED <<rules, windows, thresholds, warnings, decision>> /\ phase = "rules"
  BY DEF NextRule, table, result
<1>5. TypeOK'
  BY <1>1, <1>2, <1>3, <1>4 DEF IInv, TypeOK, PairsOk
<1>6. Shape'
  BY <1>2, <1>3, <1>4 DEF IInv, Shape, PairsOk
<1>7. Linted'
  BY <1>1, <1>4, NotReady
<1> QED BY <1>5, <1>6, <1>7 DEF IInv

LEMMA EndRuleIInv ==
  ASSUME IInv, EndRule
  PROVE  IInv'
<1>1. phase = "when"
  BY DEF EndRule
<1>2. CASE SkipRule
  BY <1>1, <1>2, SkipRuleIInv
<1>3. CASE phase' = "end" /\ failed' = TRUE /\ UNCHANGED <<at, ms, file, table, result>>
  BY <1>1, <1>3, FailIInv
<1>4. ASSUME NEW more, more = [i \in DOMAIN ms |-> more[i]],
             Len(rules) + Len(ms) <= kMaxRules, rules' = rules \o more, phase' = "rules",
             UNCHANGED <<at, ms, file, windows, thresholds, failed, result>>
      PROVE  IInv'
  <2>1. IsSeq(more) /\ Len(more) = Len(ms)
    BY <1>4, SameDomainIsSeq DEF IInv, Shape
  <2>2. IsSeq(rules') /\ Len(rules') = Len(rules) + Len(ms)
    BY <1>4, <2>1, ConcatIsSeq, Zenon DEF IInv, Shape
  <2>3. DOMAIN rules \subseteq DOMAIN rules'
    BY <2>2, SeqShape DEF IInv, Shape
  <2>4. TypeOK'
    BY <1>4, <2>2, <2>3 DEF IInv, TypeOK, file, result
  <2>5. Shape'
    BY <1>4, <2>2 DEF IInv, Shape, file, result
  <2>6. Linted'
    BY <1>1, <1>4, NotReady DEF result
  <2> QED BY <2>4, <2>5, <2>6 DEF IInv
<1> DEFINE t    == text[Len(text)]
           more == [i \in DOMAIN ms |->
                      [mask |-> ms[i].mask, value |-> ms[i].value, plans |-> PlanIds(Range(t.plans)),
                       id |-> t.id, priority |-> t.priority,
                       action |-> parse_action(t.action, RuleDefault, tables.redirects)]]
<1>5. more = [i \in DOMAIN ms |-> more[i]]
  BY Zenon
<1>6. \/ SkipRule
      \/ phase' = "end" /\ failed' = TRUE /\ UNCHANGED <<at, ms, file, table, result>>
      \/ /\ Len(rules) + Len(ms) <= kMaxRules /\ rules' = rules \o more /\ phase' = "rules"
         /\ UNCHANGED <<at, ms, file, windows, thresholds, failed, result>>
  BY Zenon DEF EndRule
<1> HIDE DEF more
<1> QED BY <1>2, <1>3, <1>4, <1>5, <1>6, Zenon

LEMMA EndOfFileIInv ==
  ASSUME IInv, EndOfFile
  PROVE  IInv'
<1>1. ~Decided /\ UNCHANGED <<at, ms, text, windows, thresholds, failed, decision>>
  BY DEF EndOfFile, IInv, Linted, file
<1>2. stable_sort(rules) = [k \in DOMAIN rules |-> stable_sort(rules)[k]]
  <2> DEFINE e(k) == rules[CHOOSE i \in DOMAIN rules : Rank(rules, i) = k]
             sorted == [k \in DOMAIN rules |-> e(k)]
  <2>1. stable_sort(rules) = sorted
    BY Zenon DEF stable_sort
  <2>2. sorted = [k \in DOMAIN rules |-> sorted[k]]
    <3> HIDE DEF e
    <3> QED BY Zenon
  <2> HIDE DEF sorted
  <2> QED BY <2>1, <2>2, Zenon
<1>3. IsSeq(stable_sort(rules)) /\ Len(stable_sort(rules)) = Len(rules)
      /\ DOMAIN stable_sort(rules) = DOMAIN rules
  BY <1>2, SameDomainIsSeq DEF IInv, Shape
<1>4. IsSeq(rules') /\ Len(rules') = Len(rules) /\ DOMAIN rules' = DOMAIN rules
  BY <1>3 DEF EndOfFile, IInv, Shape
<1>5. DOMAIN warnings' \subseteq DOMAIN rules' /\ phase' \in {"refused", "ready"}
  <2>1. DOMAIN <<>> = {} /\ DOMAIN Lint(rules') \subseteq DOMAIN rules'
    BY DEF Lint
  <2>2. warnings' = <<>> \/ warnings' = Lint(rules')
    BY DEF EndOfFile
  <2> QED BY <2>1, <2>2 DEF EndOfFile
<1>6. TypeOK'
  BY <1>1, <1>4, <1>5 DEF IInv, TypeOK
<1>7. Shape'
  BY <1>1, <1>4, <1>5 DEF IInv, Shape
<1>8. phase' = "ready" => warnings' = Lint(rules')
  BY DEF EndOfFile
<1>9. Linted'
  BY <1>1, <1>8 DEF Linted, Decided
<1> QED BY <1>6, <1>7, <1>9 DEF IInv

LEMMA DecideIInv ==
  ASSUME IInv, Decide
  PROVE  IInv'
<1>1. UNCHANGED <<phase, at, ms, tables, text, rules, windows, thresholds, failed, warnings>>
      /\ phase = "ready"
  BY DEF Decide, file, table
<1>2. TypeOK' /\ Shape'
  BY <1>1 DEF IInv, TypeOK, Shape
<1>3. RuleSet' = RuleSet
  BY <1>1 DEF RuleSet
<1>4. decision'.hit = FirstMatch(rules, build_features(RuleSet, decision'.req, decision'.rec),
                                 plan_bit_for(decision'.rec))
  BY DEF Decide
<1>5. Linted'
  <2>1. warnings' = Lint(rules')
    BY <1>1 DEF IInv, Linted
  <2> QED BY <1>1, <1>3, <1>4, <2>1 DEF Linted, Decided, FirstMatch, Matches
<1> QED BY <1>2, <1>5 DEF IInv

-----------------------------------------------------------------------------
(* Theorems *)

LEMMA NextIInv == IInv /\ [Next]_vars => IInv'
<1> SUFFICES ASSUME IInv, [Next]_vars PROVE IInv'
  OBVIOUS
<1>1. CASE ParseError
  BY <1>1, FailIInv DEF ParseError
<1>2. CASE UnknownCondition
  BY <1>2, SkipRuleIInv DEF UnknownCondition, Compiling
<1>3. CASE UNCHANGED vars
  <2>1. TypeOK' /\ Shape'
    BY <1>3 DEF vars, IInv, TypeOK, Shape
  <2>2. RuleSet' = RuleSet
    BY <1>3 DEF vars, RuleSet
  <2>3. Linted'
    <3>1. phase' = "ready" => warnings' = Lint(rules')
      BY <1>3 DEF vars, IInv, Linted
    <3> QED BY <1>3, <2>2, <3>1 DEF vars, IInv, Linted, Decided, FirstMatch, Matches
  <2> QED BY <2>1, <2>3 DEF IInv
<1> QED BY <1>1, <1>2, <1>3, TablesIInv, NextRuleIInv, BoolIInv, SetIInv, UsageIInv, TimeIInv,
           EndRuleIInv, EndOfFileIInv, DecideIInv DEF Next

\* Types and capacity: whatever the files say, a rule never expands past
\* kMaxExpansionPerRule, the table never passes kMaxRules, and the windows and
\* the thresholds never outgrow their bits of the feature word.
THEOREM CapacityKept == Spec => []TypeOK
<1>1. IInv => TypeOK
  BY DEF IInv
<1> QED BY <1>1, InitIInv, NextIInv, PTL DEF Spec

\* Every warning of sort_and_check() is true of its (mask, value) pair, for
\* every file and every request: a pair that is reported never decides, because
\* the rule that the warning names matches whatever the pair matches, and first.
THEOREM WarningsAreTrue == Spec => []WarnedPairsNeverFire
<1>1. ASSUME IInv PROVE WarnedPairsNeverFire
  <2> DEFINE f == build_features(RuleSet, decision.req, decision.rec)
             p == plan_bit_for(decision.rec)
  <2> SUFFICES ASSUME Decided, NEW i \in DOMAIN warnings, Matches(rules[i], f, p)
               PROVE  /\ decision.hit # i
                      /\ warnings[i].by # rules[i].id
                      /\ \E j \in 1 .. i - 1 : rules[j].id = warnings[i].by /\ Matches(rules[j], f, p)
    BY DEF WarnedPairsNeverFire
  <2>1. decision.hit = FirstMatch(rules, f, p) /\ warnings = Lint(rules)
    BY <1>1 DEF IInv, Linted
  <2> HIDE DEF f, p
  <2>2. DOMAIN rules = 1 .. Len(rules) /\ Len(rules) \in Nat /\ IsSeq(rules)
    BY <1>1, SeqShape DEF IInv, Shape
  <2> DEFINE first == Min(Covers(rules, i))
  <2>3. i \in DOMAIN rules /\ Covers(rules, i) # {} /\ warnings[i].by = rules[first].id
    BY <2>1 DEF Lint
  <2>4. first \in Covers(rules, i)
    <3>1. Covers(rules, i) \subseteq Nat
      BY DEF Covers
    <3>2. PICK x \in Covers(rules, i) : \A y \in Covers(rules, i) : x <= y
      BY <2>3, <3>1, LeastNatural
    <3> QED BY <3>2, Zenon DEF Min
  <2> HIDE DEF first
  <2>5. first \in 1 .. i - 1 /\ Shadows(rules[first], rules[i])
    BY <2>4 DEF Covers
  <2>6. Matches(rules[first], f, p)
    BY <2>5, ShadowMatchesMore
  <2>7. rules[first].id # rules[i].id
    BY <2>5 DEF Shadows
  <2>8. first \in DOMAIN rules /\ first < i /\ i # 0
    BY <2>2, <2>3, <2>5
  <2>9. decision.hit # i
    <3> SUFFICES ASSUME FirstMatch(rules, f, p) = i PROVE FALSE
      BY <2>1
    <3>1. i <= first
      BY <2>2, <2>6, <2>8, FirstMatchIsFirst
    <3> QED BY <2>2, <2>3, <2>8, <3>1
  <2> QED BY <2>3, <2>5, <2>6, <2>7, <2>9
<1> QED BY <1>1, InitIInv, NextIInv, PTL DEF Spec
=============================================================================
