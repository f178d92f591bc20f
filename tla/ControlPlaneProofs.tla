------------------------- MODULE ControlPlaneProofs -------------------------
(***************************************************************************)
(* Proofs about ControlPlane, for any rule files, plan lists, edits and     *)
(* requests.                                                                *)
(***************************************************************************)
EXTENDS ControlPlane, TLAPS

\* How long a leaf may take, and what is tried when it takes longer.
USE SMTT(10), Zenon, SMTT(30), SMTT(60)

Critical == {"compiling", "checking", "swapping", "counting"}

\* reload_mutex_ is held exactly inside reload_rules(), and no thread exists
\* before start().
Locking ==
  /\ \A t \in Threads : pc[t] \in Critical <=> mutex = t
  /\ ~Serving => \A t \in Threads : pc[t] = "none"

\* What the thread inside reload_rules() has built: newer than what is live,
\* compiled, and, once checked, faithful to the live plan list.
Building ==
  /\ live.version < nextVersion
  /\ \A t \in Threads :
       /\ pc[t] \in {"checking", "swapping", "counting"} => compiled[t].content \in Contents \ Broken
       /\ pc[t] \in {"checking", "swapping"} => live.version < compiled[t].version
       /\ pc[t] = "swapping" => KeepsPlans(PlansOf[live.content], PlansOf[compiled[t].content])
       /\ pc[t] = "counting" => live = compiled[t]
       /\ compiled[t].version < nextVersion

\* The rule set and the roster it serves.
Policy ==
  /\ phase \notin {"compiling", "failed"} => live.content \in Contents \ Broken
  /\ Serving \/ phase = "starting" => KeepsPlans(roster, PlansOf[live.content])

\* reload_stats_ between its updates.
Counting ==
  /\ stats.attempts = stats.successes + stats.failures + (IF mutex = "free" THEN 0 ELSE 1)
  /\ stats.version <= live.version
  /\ (\A t \in Threads : pc[t] # "counting") => stats.version = live.version
  /\ pc["admin"] = "returned" /\ ok["admin"] => compiled["admin"].version <= stats.version

IInv == TypeOK /\ Locking /\ Building /\ Policy /\ Counting

-----------------------------------------------------------------------------
\* Keeping the plans is transitive: a chain of accepted reloads keeps them.
LEMMA KeepsPlansTransitive ==
  ASSUME NEW a \in Seq(PlanNames), NEW b \in Seq(PlanNames), NEW c \in Seq(PlanNames),
         KeepsPlans(a, b), KeepsPlans(b, c)
  PROVE  KeepsPlans(a, c)
BY DEF KeepsPlans

\* A plan list keeps itself.
LEMMA KeepsPlansReflexive == ASSUME NEW a \in Seq(PlanNames) PROVE KeepsPlans(a, a)
BY DEF KeepsPlans

\* Before start-up.
LEMMA InitIInv == Init => IInv
BY ContentsAssumption DEF Init, IInv, TypeOK, Locking, Building, Policy, Counting, Serving, Critical,
   Threads, Phases, Pcs, RuleSet, ReloadStats

\* A return records its result and unlocks.
LEMMA ReturnEffect ==
  ASSUME TypeOK, NEW t \in Threads, NEW success \in BOOLEAN, Return(t, success)
  PROVE  /\ ok' \in [Threads -> BOOLEAN] /\ ok'[t] = success
         /\ \A u \in Threads \ {t} : ok'[u] = ok[u]
BY Zenon DEF TypeOK, Return

\* Types.
LEMMA TypeStep == ASSUME IInv, Next PROVE TypeOK'
<1> USE ContentsAssumption
    DEF IInv, TypeOK, Threads, Phases, Pcs, RuleSet, ReloadStats, Goto, Compiles,
        fileVars, mainVars, planeVars, threadVars
<1>1. ASSUME NEW c \in Contents \cup {NoFile}, WriteFile(c) PROVE TypeOK'
  BY <1>1 DEF WriteFile
<1>2. CASE InitializeRules  BY <1>2 DEF InitializeRules
<1>3. CASE InitializeRoster
  <2>1. live.content \in Contents  BY <1>3 DEF InitializeRoster, Policy
  <2>2. rules_file_mtime \in Nat  BY DEF rules_file_mtime
  <2> QED BY <1>3, <2>1, <2>2 DEF InitializeRoster
<1>4. CASE Start  BY <1>4 DEF Start
<1>5. CASE Stop  BY <1>5 DEF Stop
<1>6. ASSUME NEW t \in Threads, Lock(t) PROVE TypeOK'
  <2>1. stats' \in ReloadStats  BY <1>6 DEF Lock, Enter, Tally
  <2> QED BY <1>6, <2>1 DEF Lock, Enter
<1>7. ASSUME NEW t \in Threads, Compile(t) PROVE TypeOK'
  <2>1. CASE Compiles(file)  BY <1>7, <2>1 DEF Compile
  <2>2. CASE ~Compiles(file)
    <3>1. Refuse(t)  BY <1>7, <2>2 DEF Compile
    <3>2. ok' \in [Threads -> BOOLEAN]  BY <3>1, ReturnEffect, Zenon DEF Refuse
    <3>3. stats' \in ReloadStats  BY <3>1 DEF Refuse, Tally
    <3>4. pc' \in [Threads -> Pcs] /\ mutex' \in Threads \cup {"free"}
      BY <3>1 DEF Refuse, Return
    <3>5. nextVersion' \in Nat \ {0} /\ compiled' = compiled
      BY <1>7, <2>2 DEF Compile
    <3> QED BY <1>7, <3>2, <3>3, <3>4, <3>5 DEF Compile
  <2> QED BY <2>1, <2>2
<1>8. ASSUME NEW t \in Threads, CheckPlans(t) PROVE TypeOK'
  <2>1. CASE pc' = [pc EXCEPT ![t] = "swapping"] /\ UNCHANGED <<mutex, stats, ok>>
    BY <1>8, <2>1 DEF CheckPlans
  <2>2. CASE Refuse(t)
    <3>2. ok' \in [Threads -> BOOLEAN]  BY <2>2, ReturnEffect, Zenon DEF Refuse
    <3>3. stats' \in ReloadStats  BY <2>2 DEF Refuse, Tally
    <3>4. pc' \in [Threads -> Pcs] /\ mutex' \in Threads \cup {"free"}
      BY <2>2 DEF Refuse, Return
    <3> QED BY <1>8, <3>2, <3>3, <3>4 DEF CheckPlans
  <2> QED BY <1>8, <2>1, <2>2 DEF CheckPlans
<1>9. ASSUME NEW t \in Threads, Swap(t) PROVE TypeOK'
  BY <1>9 DEF Swap
<1>10. ASSUME NEW t \in Threads, Finish(t) PROVE TypeOK'
  <2>1. ok' \in [Threads -> BOOLEAN]  BY <1>10, ReturnEffect, Zenon DEF Finish, Count
  <2>2. stats' \in ReloadStats  BY <1>10 DEF Finish, Count, Tally
  <2>3. pc' \in [Threads -> Pcs] /\ mutex' \in Threads \cup {"free"}
    BY <1>10 DEF Finish, Count, Return
  <2> QED BY <1>10, <2>1, <2>2, <2>3 DEF Finish, Count
<1>11. CASE Poll
  <2>1. rules_file_mtime \in Nat  BY DEF rules_file_mtime
  <2> QED BY <1>11, <2>1 DEF Poll
<1>12. CASE Watermark  BY <1>12 DEF Watermark, SetWatermark
<1>13. CASE WatcherExit  BY <1>13 DEF WatcherExit
<1>14. CASE PostReload  BY <1>14 DEF PostReload
<1>15. CASE AnswerReload  BY <1>15 DEF AnswerReload
<1>16. CASE ReadStats  BY <1>16 DEF ReadStats
<1>17. CASE AdminLoop  BY <1>17 DEF AdminLoop
<1>18. CASE Ended  BY <1>18 DEF Ended, vars
<1>19. ASSUME NEW t \in Threads, Reload(t) PROVE TypeOK'
  BY <1>6, <1>7, <1>8, <1>9, <1>10, <1>19, Zenon DEF Reload
<1>20. "watcher" \in Threads /\ "admin" \in Threads
  OBVIOUS
<1> HIDE DEF IInv, TypeOK, Threads, Phases, Pcs, RuleSet, ReloadStats, Goto, Compiles,
             fileVars, mainVars, planeVars, threadVars
<1> QED
  BY <1>1, <1>2, <1>3, <1>4, <1>5, <1>11, <1>12, <1>13, <1>14,
     <1>15, <1>16, <1>17, <1>18, <1>19, <1>20 DEF Next, Watcher, Admin

\* The mutex and the threads.
LEMMA LockingStep == ASSUME IInv, Next PROVE Locking'
<1> USE DEF IInv, TypeOK, Locking, Critical, Threads, Serving, Goto
<1>1. ASSUME NEW c \in Contents \cup {NoFile}, WriteFile(c) PROVE Locking'
  BY <1>1 DEF WriteFile, mainVars, planeVars, threadVars
<1>2. CASE InitializeRules  BY <1>2 DEF InitializeRules, threadVars
<1>3. CASE InitializeRoster  BY <1>3 DEF InitializeRoster, threadVars
<1>4. CASE Start  BY <1>4 DEF Start, planeVars
<1>5. CASE Stop  BY <1>5 DEF Stop, planeVars, threadVars
<1>6. ASSUME NEW t \in Threads, Lock(t) PROVE Locking'
  BY <1>6 DEF Lock, Enter, mainVars
<1>7. ASSUME NEW t \in Threads, Compile(t) PROVE Locking'
  BY <1>7 DEF Compile, Refuse, Return, mainVars
<1>8. ASSUME NEW t \in Threads, CheckPlans(t) PROVE Locking'
  BY <1>8 DEF CheckPlans, Refuse, Return, mainVars
<1>9. ASSUME NEW t \in Threads, Swap(t) PROVE Locking'
  BY <1>9 DEF Swap, mainVars
<1>10. ASSUME NEW t \in Threads, Finish(t) PROVE Locking'
  BY <1>10 DEF Finish, Count, Return, mainVars
<1>11. CASE Poll  BY <1>11 DEF Poll, mainVars, planeVars
<1>12. CASE Watermark  BY <1>12 DEF Watermark, SetWatermark, mainVars
<1>13. CASE WatcherExit  BY <1>13 DEF WatcherExit, mainVars, planeVars
<1>14. CASE PostReload  BY <1>14 DEF PostReload, mainVars, planeVars
<1>15. CASE AnswerReload  BY <1>15 DEF AnswerReload, mainVars, planeVars
<1>16. CASE ReadStats  BY <1>16 DEF ReadStats, mainVars, planeVars
<1>17. CASE AdminLoop  BY <1>17 DEF AdminLoop, mainVars, planeVars
<1>18. CASE Ended  BY <1>18 DEF Ended, vars, mainVars, planeVars, threadVars
<1> QED
  BY <1>1, <1>2, <1>3, <1>4, <1>5, <1>6, <1>7, <1>8, <1>9, <1>10, <1>11, <1>12, <1>13, <1>14,
     <1>15, <1>16, <1>17, <1>18 DEF Next, Watcher, Admin, Reload

\* A step outside reload_rules() and initialize() leaves the rule sets, the
\* versions, the statistics and the mutex alone, and lets no thread enter or
\* leave reload_rules() past its lock; the statement is what the other step
\* lemmas need of it.
LEMMA OutsideFrame ==
  ASSUME IInv,
         \/ \E c \in Contents \cup {NoFile} : WriteFile(c)
         \/ InitializeRoster \/ Start \/ Stop \/ Poll \/ Watermark \/ WatcherExit
         \/ PostReload \/ AnswerReload \/ ReadStats \/ AdminLoop \/ Ended
  PROVE  /\ UNCHANGED <<live, nextVersion, stats, mutex, compiled, ok>>
         /\ \A t \in Threads : \/ pc'[t] = pc[t]
                               \/ pc[t] \notin Critical /\ pc'[t] \notin Critical \cup {"returned"}
<1> USE DEF IInv, TypeOK, Critical, Threads, Goto, mainVars, planeVars, threadVars
<1>1. ASSUME NEW c \in Contents \cup {NoFile}, WriteFile(c)
      PROVE  UNCHANGED <<live, nextVersion, stats, mutex, compiled, ok, pc>>
  BY <1>1 DEF WriteFile
<1>2. CASE InitializeRoster  BY <1>2 DEF InitializeRoster
<1>3. CASE Start  BY <1>3 DEF Start, Locking, Serving
<1>4. CASE Stop  BY <1>4 DEF Stop
<1>5. CASE Poll  BY <1>5 DEF Poll
<1>6. CASE Watermark  BY <1>6 DEF Watermark, SetWatermark
<1>7. CASE WatcherExit  BY <1>7 DEF WatcherExit
<1>8. CASE PostReload  BY <1>8 DEF PostReload
<1>9. CASE AnswerReload  BY <1>9 DEF AnswerReload
<1>10. CASE ReadStats  BY <1>10 DEF ReadStats
<1>11. CASE AdminLoop  BY <1>11 DEF AdminLoop
<1>12. CASE Ended  BY <1>12 DEF Ended, vars
<1> QED
  BY <1>1, <1>2, <1>3, <1>4, <1>5, <1>6, <1>7, <1>8, <1>9, <1>10, <1>11, <1>12

\* The cases the remaining lemmas distinguish.
LEMMA NextCases ==
  ASSUME IInv, Next,
         NEW P, InitializeRules => P,
         \A t \in Threads : Lock(t) \/ Compile(t) \/ CheckPlans(t) \/ Swap(t) \/ Finish(t) => P,
         /\ UNCHANGED <<live, nextVersion, stats, mutex, compiled, ok>>
         /\ \A t \in Threads : \/ pc'[t] = pc[t]
                               \/ pc[t] \notin Critical /\ pc'[t] \notin Critical \cup {"returned"}
         => P
  PROVE  P
BY OutsideFrame, Zenon DEF Next, Watcher, Admin, Reload, Threads

\* What is being built.
LEMMA BuildingStep == ASSUME IInv, Next PROVE Building'
<1> USE DEF IInv, TypeOK, Building, RuleSet
<1>1. CASE InitializeRules
  <2>1. \A t \in Threads : pc[t] = "none"
    BY <1>1 DEF InitializeRules, Locking, Serving
  <2> QED BY <1>1, <2>1 DEF InitializeRules, threadVars
<1>2. ASSUME NEW t \in Threads, Lock(t) PROVE Building'
  BY <1>2 DEF Lock, Enter, Goto
<1>3. ASSUME NEW t \in Threads, Compile(t) PROVE Building'
  <2>1. \A u \in Threads \ {t} : pc[u] \notin Critical
    BY <1>3 DEF Compile, Locking, Critical
  <2>2. CASE Compiles(file)
    <3>1. /\ compiled'[t] = [version |-> nextVersion, content |-> file]
          /\ pc'[t] = "checking" /\ file \in Contents \ Broken
          /\ \A u \in Threads \ {t} : compiled'[u] = compiled[u] /\ pc'[u] = pc[u]
          /\ nextVersion' = nextVersion + 1 /\ live' = live
      BY <1>3, <2>2 DEF Compile, Compiles
    <3>2. /\ compiled'[t].version = nextVersion /\ compiled'[t].content = file
      BY <3>1
    <3> QED BY <2>1, <3>1, <3>2 DEF Critical
  <2>3. CASE ~Compiles(file)
    BY <1>3, <2>1, <2>3 DEF Compile, Refuse, Return, Critical
  <2> QED BY <2>2, <2>3
<1>4. ASSUME NEW t \in Threads, CheckPlans(t) PROVE Building'
  BY <1>4 DEF CheckPlans, Refuse, Return
<1>5. ASSUME NEW t \in Threads, Swap(t) PROVE Building'
  <2>1. \A u \in Threads \ {t} : pc[u] \notin Critical
    BY <1>5 DEF Swap, Goto, Locking, Critical
  <2> QED BY <1>5, <2>1 DEF Swap, Goto, Critical
<1>6. ASSUME NEW t \in Threads, Finish(t) PROVE Building'
  BY <1>6 DEF Finish, Count, Return
<1>7. CASE /\ UNCHANGED <<live, nextVersion, stats, mutex, compiled, ok>>
           /\ \A t \in Threads : \/ pc'[t] = pc[t]
                                 \/ pc[t] \notin Critical /\ pc'[t] \notin Critical \cup {"returned"}
  BY <1>7 DEF Critical
<1> HIDE DEF IInv, Building
<1> QED BY <1>1, <1>2, <1>3, <1>4, <1>5, <1>6, <1>7, NextCases

\* The live rule set and the roster.
LEMMA PolicyStep == ASSUME IInv, Next PROVE Policy'
<1> USE ContentsAssumption DEF IInv, TypeOK, Policy, RuleSet, Serving, fileVars, mainVars, planeVars,
        threadVars, Goto, Threads
<1>1. ASSUME NEW c \in Contents \cup {NoFile}, WriteFile(c) PROVE Policy'
  BY <1>1 DEF WriteFile
<1>2. CASE InitializeRules  BY <1>2 DEF InitializeRules, Compiles
<1>3. CASE InitializeRoster
  <2>1. PlansOf[live.content] \in Seq(PlanNames)  BY <1>3 DEF InitializeRoster
  <2>2. KeepsPlans(PlansOf[live.content], PlansOf[live.content])  BY <2>1, KeepsPlansReflexive
  <2> QED BY <1>3, <2>2 DEF InitializeRoster
<1>4. CASE Start  BY <1>4 DEF Start
<1>5. CASE Stop  BY <1>5 DEF Stop
<1>6. ASSUME NEW t \in Threads, Lock(t) PROVE Policy'
  BY <1>6 DEF Lock, Enter
<1>7. ASSUME NEW t \in Threads, Compile(t) PROVE Policy'
  BY <1>7 DEF Compile
<1>8. ASSUME NEW t \in Threads, CheckPlans(t) PROVE Policy'
  BY <1>8 DEF CheckPlans
<1>9. ASSUME NEW t \in Threads, Swap(t) PROVE Policy'
  <2>1. Serving  BY <1>9 DEF Swap, Locking
  <2>2. /\ live.content \in Contents /\ compiled[t].content \in Contents \ Broken
        /\ KeepsPlans(PlansOf[live.content], PlansOf[compiled[t].content])
    BY <1>9, <2>1 DEF Swap, Building
  <2>3. KeepsPlans(roster, PlansOf[compiled[t].content])
    BY <2>1, <2>2, KeepsPlansTransitive
  <2> QED BY <1>9, <2>1, <2>2, <2>3 DEF Swap
<1>10. ASSUME NEW t \in Threads, Finish(t) PROVE Policy'
  BY <1>10 DEF Finish, Count
<1>11. CASE Poll  BY <1>11 DEF Poll
<1>12. CASE Watermark  BY <1>12 DEF Watermark, SetWatermark
<1>13. CASE WatcherExit  BY <1>13 DEF WatcherExit
<1>14. CASE PostReload  BY <1>14 DEF PostReload
<1>15. CASE AnswerReload  BY <1>15 DEF AnswerReload
<1>16. CASE ReadStats  BY <1>16 DEF ReadStats
<1>17. CASE AdminLoop  BY <1>17 DEF AdminLoop
<1>18. CASE Ended  BY <1>18 DEF Ended, vars
<1> HIDE DEF IInv, Policy
<1> QED
  BY <1>1, <1>2, <1>3, <1>4, <1>5, <1>6, <1>7, <1>8, <1>9, <1>10, <1>11, <1>12, <1>13, <1>14,
     <1>15, <1>16, <1>17, <1>18 DEF Next, Watcher, Admin, Reload

\* The statistics.
LEMMA CountingStep == ASSUME IInv, Next PROVE Counting'
<1> USE DEF IInv, TypeOK, Counting, RuleSet, ReloadStats, Threads
<1>1. CASE InitializeRules
  <2>1. \A t \in Threads : pc[t] = "none" /\ mutex = "free"
    BY <1>1 DEF InitializeRules, Locking, Serving, Critical
  <2> QED BY <1>1, <2>1 DEF InitializeRules, threadVars
<1>2. ASSUME NEW t \in Threads, Lock(t) PROVE Counting'
  BY <1>2 DEF Lock, Enter, Goto, Tally
<1>3. ASSUME NEW t \in Threads, Compile(t) PROVE Counting'
  <2>1. mutex = t /\ \A u \in Threads : pc[u] # "counting"
    BY <1>3 DEF Compile, Locking, Critical
  <2>2. CASE Compiles(file)
    BY <1>3, <2>1, <2>2 DEF Compile
  <2>3. CASE ~Compiles(file)
    <3>1. Refuse(t)  BY <1>3, <2>3 DEF Compile
    <3>2. ok'[t] = FALSE /\ \A u \in Threads \ {t} : ok'[u] = ok[u]
      BY <3>1, ReturnEffect, Zenon DEF Refuse
    <3> QED BY <1>3, <2>1, <2>3, <3>1, <3>2 DEF Compile, Refuse, Return, Tally
  <2> QED BY <2>2, <2>3
<1>4. ASSUME NEW t \in Threads, CheckPlans(t) PROVE Counting'
  <2>1. mutex = t /\ \A u \in Threads : pc[u] # "counting"
    BY <1>4 DEF CheckPlans, Locking, Critical
  <2>2. CASE pc' = [pc EXCEPT ![t] = "swapping"] /\ UNCHANGED <<mutex, stats, ok>>
    BY <1>4, <2>1, <2>2 DEF CheckPlans
  <2>3. CASE Refuse(t)
    <3>2. ok'[t] = FALSE /\ \A u \in Threads \ {t} : ok'[u] = ok[u]
      BY <2>3, ReturnEffect, Zenon DEF Refuse
    <3> QED BY <1>4, <2>1, <2>3, <3>2 DEF CheckPlans, Refuse, Return, Tally
  <2> QED BY <1>4, <2>2, <2>3 DEF CheckPlans
<1>5. ASSUME NEW t \in Threads, Swap(t) PROVE Counting'
  BY <1>5 DEF Swap, Goto, Building
<1>6. ASSUME NEW t \in Threads, Finish(t) PROVE Counting'
  <2>1. mutex = t /\ live = compiled[t] /\ \A u \in Threads \ {t} : pc[u] # "counting"
    BY <1>6 DEF Finish, Count, Locking, Critical, Building
  <2>2. \A u \in Threads \ {t} : ok'[u] = ok[u]
    BY <1>6, ReturnEffect, Zenon DEF Finish, Count
  <2>3. /\ stats.version <= compiled[t].version
        /\ compiled[t].version \in Nat /\ compiled["admin"].version \in Nat
    BY <2>1
  <2>4. /\ stats' = [attempts |-> stats.attempts + 0, successes |-> stats.successes + 1,
                     failures |-> stats.failures + 0, version |-> compiled[t].version]
        /\ mutex' = "free" /\ pc' = [pc EXCEPT ![t] = "returned"]
        /\ UNCHANGED <<live, compiled>>
    BY <1>6 DEF Finish, Count, Return, Tally
  <2>5. pc'["admin"] = "returned" /\ ok'["admin"] => compiled'["admin"].version <= stats'.version
    BY <2>2, <2>3, <2>4
  <2> QED BY <2>1, <2>3, <2>4, <2>5
<1>7. CASE /\ UNCHANGED <<live, nextVersion, stats, mutex, compiled, ok>>
           /\ \A t \in Threads : \/ pc'[t] = pc[t]
                                 \/ pc[t] \notin Critical /\ pc'[t] \notin Critical \cup {"returned"}
  BY <1>7 DEF Critical
<1> HIDE DEF IInv, Counting
<1> QED BY <1>1, <1>2, <1>3, <1>4, <1>5, <1>6, <1>7, NextCases

\* The inductive invariant.
LEMMA NextIInv == IInv /\ [Next]_vars => IInv'
<1> SUFFICES ASSUME IInv, [Next]_vars PROVE IInv'  OBVIOUS
<1>1. CASE Next
  BY <1>1, TypeStep, LockingStep, BuildingStep, PolicyStep, CountingStep DEF IInv
<1>2. CASE UNCHANGED vars
  BY <1>2 DEF IInv, TypeOK, Locking, Building, Policy, Counting, Serving, vars, fileVars, mainVars,
     planeVars, threadVars
<1> QED BY <1>1, <1>2

\* The inductive invariant always holds.
THEOREM Invariance == Spec => []IInv
BY InitIInv, NextIInv, PTL DEF Spec

-----------------------------------------------------------------------------
\* The types of the control plane's state, whatever the rule files are.
THEOREM TypeCorrect == Spec => []TypeOK
<1>1. IInv => TypeOK  BY DEF IInv
<1> QED BY Invariance, <1>1, PTL

\* No sequence of edits and reloads, by the watcher or by the admin server,
\* changes what a subscriber's plan id means or puts a broken file live.
THEOREM PlanIdsKept == Spec => []PlanIdsKeepTheirMeaning
<1>1. IInv => PlanIdsKeepTheirMeaning
  <2> SUFFICES ASSUME IInv, Serving PROVE PlanIdsKeepTheirMeaning
    BY DEF PlanIdsKeepTheirMeaning
  <2>1. live.content \in Contents \ Broken /\ KeepsPlans(roster, PlansOf[live.content])
    BY DEF IInv, Policy, Serving
  <2>2. PlansOf[live.content] \in Seq(PlanNames) /\ roster \in Seq(PlanNames)
    BY <2>1, ContentsAssumption DEF IInv, TypeOK
  <2> QED BY <2>1, <2>2 DEF KeepsPlans, PlanIdsKeepTheirMeaning
<1> QED BY Invariance, <1>1, PTL

\* Between reloads reload_stats_ is consistent and names the live version.
THEOREM StatsConsistent == Spec => []StatsAddUp
<1>1. IInv => StatsAddUp
  BY DEF IInv, TypeOK, ReloadStats, Locking, Counting, StatsAddUp, Critical, Threads
<1> QED BY Invariance, <1>1, PTL

\* Versions go live in increasing order, because a version is drawn and made
\* live under one lock.
THEOREM VersionsOrdered == Spec => VersionsIncrease
<1>1. IInv /\ [Next]_vars => [live' # live => live'.version > live.version]_vars
  <2> SUFFICES ASSUME IInv, Next, live' # live PROVE live'.version > live.version
    BY DEF vars, planeVars
  <2>1. CASE InitializeRules
    BY <2>1 DEF IInv, TypeOK, RuleSet, Building, InitializeRules
  <2>2. ASSUME NEW t \in Threads, Swap(t) PROVE live'.version > live.version
    BY <2>2 DEF IInv, TypeOK, RuleSet, Building, Swap, Goto
  <2>3. ASSUME NEW t \in Threads, Lock(t) \/ Compile(t) \/ CheckPlans(t) \/ Finish(t)
        PROVE  live' = live
    BY <2>3, Zenon DEF Lock, Enter, Compile, CheckPlans, Finish, Count
  <2> QED BY <2>1, <2>2, <2>3, NextCases
<1> QED BY Invariance, <1>1, PTL DEF Spec, VersionsIncrease

\* The version a successful POST /rules/reload reports is its own or a newer
\* one, although another reload may run before it reads the number.
THEOREM AnswersAreFresh == Spec => AnswerIsNotStale
<1>1. IInv /\ [Next]_vars
      => [AnswerReload /\ ok["admin"] => answered' >= compiled["admin"].version]_vars
  <2> SUFFICES ASSUME IInv, AnswerReload, ok["admin"]
               PROVE  answered' >= compiled["admin"].version
    OBVIOUS
  <2>1. pc["admin"] = "returned" /\ answered' = stats.version
    BY DEF AnswerReload, Goto
  <2>2. compiled["admin"].version <= stats.version  BY <2>1 DEF IInv, Counting
  <2>3. stats.version \in Nat /\ compiled["admin"].version \in Nat
    BY DEF IInv, TypeOK, ReloadStats, RuleSet, Threads
  <2> QED BY <2>1, <2>2, <2>3
<1> QED BY Invariance, <1>1, PTL DEF Spec, AnswerIsNotStale
=============================================================================
