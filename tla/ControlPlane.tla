---------------------------- MODULE ControlPlane ----------------------------
(***************************************************************************)
(* The control plane of policyd (src/control_plane.cpp, src/main.cpp): the  *)
(* rules file, start-up, hot reload from the mtime watcher and from         *)
(* POST /rules/reload, the reload statistics, and shutdown.                 *)
(*                                                                          *)
(* Rule files are abstract contents; all the control plane looks at is      *)
(* whether one compiles and its list of plan names.  The RCU domain is the  *)
(* cell it promises to be (Rcu, SnapshotCell): publishing is one step, and  *)
(* a guard taken under the reload mutex reads the live rule set.            *)
(***************************************************************************)
EXTENDS Integers, Sequences

CONSTANTS
  Contents,           \* possible contents of the rules file
  Broken,             \* those that do not compile
  PlanNames,          \* names of plans
  PlansOf,            \* the plan names of each content, in order
  NoFile,             \* the rules file is missing
  Enabled,            \* threads the configuration turns on: watch_rules_file, admin_port
  MaxWrites,          \* bound: edits of the rules file
  MaxPosts,           \* bound: POST /rules/reload requests
  WritesDuringStart   \* may the file be edited before initialize() returns?

Threads == {"watcher", "admin"}

ASSUME ContentsAssumption ==
  /\ Broken \subseteq Contents /\ NoFile \notin Contents
  /\ PlansOf \in [Contents -> Seq(PlanNames)]
  /\ MaxWrites \in Nat /\ MaxPosts \in Nat
  /\ Enabled \subseteq Threads /\ WritesDuringStart \in BOOLEAN

VARIABLES
  file, stamp,      \* the rules file and the mtime of its last edit
  phase,            \* main(): initialize, start, run, stop
  live, roster,     \* the published rule set; the plan names the store was loaded with
  nextVersion, stats, lastSeen,    \* next_version_, reload_stats_, last_seen_mtime_
  mutex,            \* owner of reload_mutex_
  pc, compiled, ok, seen,          \* locals of the two threads
  posts, answered   \* requests so far, the version the last answer named

fileVars == <<file, stamp>>
mainVars == <<phase, roster>>
planeVars == <<live, nextVersion, stats, lastSeen, mutex>>
threadVars == <<pc, compiled, ok, seen, posts, answered>>
vars == <<fileVars, mainVars, planeVars, threadVars>>

Phases == {"compiling", "loading", "starting", "running", "stopping", "closing", "stopped", "failed"}
Pcs == {"none", "idle", "polling", "locking", "compiling", "checking", "swapping", "counting", "returned",
        "reading", "done"}

RuleSet == [version : Nat, content : Contents \cup {NoFile}]
ReloadStats == [attempts : Nat, successes : Nat, failures : Nat, version : Nat]

Init ==
  /\ file \in Contents \cup {NoFile} /\ stamp = 1
  /\ phase = "compiling" /\ roster = <<>>
  /\ live = [version |-> 0, content |-> NoFile]
  /\ nextVersion = 1 /\ lastSeen = 0 /\ mutex = "free"
  /\ stats = [attempts |-> 0, successes |-> 0, failures |-> 0, version |-> 0]
  /\ pc = [t \in Threads |-> "none"]
  /\ compiled = [t \in Threads |-> live]
  /\ ok = [t \in Threads |-> FALSE]
  /\ seen = 0 /\ posts = 0 /\ answered = 0

-----------------------------------------------------------------------------
(* The file system: every edit gets a new mtime, a missing file has none *)

WriteFile(c) ==
  /\ stamp <= MaxWrites
  /\ WritesDuringStart \/ phase \notin {"compiling", "loading"}
  /\ file' = c /\ stamp' = stamp + 1
  /\ UNCHANGED <<mainVars, planeVars, threadVars>>

rules_file_mtime == IF file = NoFile THEN 0 ELSE stamp

Compiles(c) == c \in Contents \ Broken

-----------------------------------------------------------------------------
(* main() and ControlPlane::initialize, start, stop *)

\* initialize() up to publish(): compile version 1 or give up.
InitializeRules ==
  /\ phase = "compiling"
  /\ nextVersion' = nextVersion + 1
  /\ IF Compiles(file)
       THEN /\ phase' = "loading"
            /\ live' = [version |-> nextVersion, content |-> file]
            /\ stats' = [attempts |-> 1, successes |-> 1, failures |-> 0, version |-> nextVersion]
       ELSE phase' = "failed" /\ UNCHANGED <<live, stats>>
  /\ UNCHANGED <<fileVars, roster, lastSeen, mutex, threadVars>>

\* The rest of initialize(): the watermark, then the subscriber file, which is
\* read with the plan names just published and may have bad rows.
InitializeRoster ==
  /\ phase = "loading"
  /\ lastSeen' = rules_file_mtime
  /\ \/ phase' = "starting" /\ roster' = PlansOf[live.content]
     \/ phase' = "failed" /\ UNCHANGED roster
  /\ UNCHANGED <<fileVars, live, nextVersion, stats, mutex, threadVars>>

\* start(): the admin server, which may fail to bind, and the watcher.
Start ==
  /\ phase = "starting"
  /\ \/ phase' = "running"
        /\ pc' = [t \in Threads |-> IF t \in Enabled THEN "idle" ELSE "done"]
     \/ phase' = "failed" /\ UNCHANGED pc
  /\ UNCHANGED <<fileVars, roster, planeVars, compiled, ok, seen, posts, answered>>

\* stop(): raise the flag, join the watcher, then stop and join the admin server.
Stop ==
  /\ \/ phase = "running" /\ phase' = "stopping"
     \/ phase = "stopping" /\ pc["watcher"] = "done" /\ phase' = "closing"
     \/ phase = "closing" /\ pc["admin"] = "done" /\ phase' = "stopped"
  /\ UNCHANGED <<fileVars, roster, planeVars, threadVars>>

-----------------------------------------------------------------------------
(* reload_rules(), by either thread *)

Goto(t, from, to) == pc[t] = from /\ pc' = [pc EXCEPT ![t] = to]

\* Add to the counters of reload_stats_ and set its version.
Tally(attempts, successes, failures, version) ==
  stats' = [attempts  |-> stats.attempts + attempts,
            successes |-> stats.successes + successes,
            failures  |-> stats.failures + failures,
            version   |-> version]

Enter(t) ==
  /\ Goto(t, "locking", "compiling")
  /\ mutex' = t
  /\ Tally(1, 0, 0, stats.version)
  /\ UNCHANGED <<fileVars, mainVars, live, nextVersion, lastSeen, compiled, ok, seen, posts, answered>>

\* Mutant: reload_rules() without its lock_guard.
LockNothing(t) == Enter(t)

Lock(t) == mutex = "free" /\ Enter(t)

\* Mutant: lock() without a guard object, so a return does not unlock.
ReturnLocked(t, success) ==
  /\ pc' = [pc EXCEPT ![t] = "returned"]
  /\ ok' = [ok EXCEPT ![t] = success]
  /\ UNCHANGED mutex

\* Every return unlocks.
Return(t, success) ==
  /\ pc' = [pc EXCEPT ![t] = "returned"]
  /\ ok' = [ok EXCEPT ![t] = success]
  /\ mutex' = "free"

\* Mutant: an early return that forgets the failure counter.
RefuseUncounted(t) == Return(t, FALSE) /\ UNCHANGED stats

Refuse(t) ==
  /\ Return(t, FALSE)
  /\ Tally(0, 0, 1, stats.version)

\* compile_rules_from_file() with a fresh version, used up even on failure.
Compile(t) ==
  /\ pc[t] = "compiling"
  /\ nextVersion' = nextVersion + 1
  /\ IF Compiles(file)
       THEN /\ pc' = [pc EXCEPT ![t] = "checking"]
            /\ compiled' = [compiled EXCEPT ![t] = [version |-> nextVersion, content |-> file]]
            /\ UNCHANGED <<mutex, stats, ok>>
       ELSE Refuse(t) /\ UNCHANGED compiled
  /\ UNCHANGED <<fileVars, mainVars, live, lastSeen, seen, posts, answered>>

\* Mutant: the plans of the shorter list are compared, so plans can go away.
SameWhereBoth(a, b) == \A i \in (1 .. Len(a)) \cap (1 .. Len(b)) : b[i] = a[i]

\* Every old plan is in its old position.
KeepsPlans(a, b) == \A i \in 1 .. Len(a) : i <= Len(b) /\ b[i] = a[i]

CheckPlans(t) ==
  /\ pc[t] = "checking"
  /\ IF KeepsPlans(PlansOf[live.content], PlansOf[compiled[t].content])
       THEN pc' = [pc EXCEPT ![t] = "swapping"] /\ UNCHANGED <<mutex, stats, ok>>
       ELSE Refuse(t)
  /\ UNCHANGED <<fileVars, mainVars, live, nextVersion, lastSeen, compiled, seen, posts, answered>>

\* swap_and_reclaim(): live from here on, whatever becomes of the grace period.
Swap(t) ==
  /\ Goto(t, "swapping", "counting")
  /\ live' = compiled[t]
  /\ UNCHANGED <<fileVars, mainVars, nextVersion, stats, lastSeen, mutex, compiled, ok, seen, posts,
                 answered>>

Count(t, version) ==
  /\ pc[t] = "counting"
  /\ Return(t, TRUE)
  /\ Tally(0, 1, 0, version)
  /\ UNCHANGED <<fileVars, mainVars, live, nextVersion, lastSeen, compiled, seen, posts, answered>>

\* Mutant: the statistics keep the version they had.
FinishStale(t) == Count(t, stats.version)

Finish(t) == Count(t, compiled[t].version)

Reload(t) == Lock(t) \/ Compile(t) \/ CheckPlans(t) \/ Swap(t) \/ Finish(t)
-----------------------------------------------------------------------------
(* watch_loop() *)

\* Awake, not stopping, and the mtime is neither 0 nor the watermark.
Poll ==
  /\ phase = "running"
  /\ rules_file_mtime \notin {0, lastSeen}
  /\ Goto("watcher", "idle", "locking")
  /\ seen' = rules_file_mtime
  /\ UNCHANGED <<fileVars, mainVars, planeVars, compiled, ok, posts, answered>>

SetWatermark(mtime) ==
  /\ Goto("watcher", "returned", "idle")
  /\ lastSeen' = mtime
  /\ UNCHANGED <<fileVars, mainVars, live, nextVersion, stats, mutex, compiled, ok, seen, posts,
                 answered>>

\* Mutant: the watermark is taken after the reload instead of before it.
WatermarkAfter == SetWatermark(rules_file_mtime)

\* The watermark moves on success and on failure.
Watermark == SetWatermark(seen)

WatcherExit ==
  /\ phase # "running"
  /\ Goto("watcher", "idle", "done")
  /\ UNCHANGED <<fileVars, mainVars, planeVars, compiled, ok, seen, posts, answered>>

-----------------------------------------------------------------------------
(* The admin server: one thread, one request at a time *)

\* serve(): round the loop until stop() has set the flag; a request that is
\* accepted in the meantime is still served.
AdminLoop ==
  /\ \/ phase # "closing" /\ Goto("admin", "idle", "polling")
     \/ Goto("admin", "polling", "idle")
     \/ phase = "closing" /\ Goto("admin", "idle", "done")
  /\ UNCHANGED <<fileVars, mainVars, planeVars, compiled, ok, seen, posts, answered>>

\* handle_reload()
PostReload ==
  /\ posts < MaxPosts
  /\ Goto("admin", "polling", "locking")
  /\ posts' = posts + 1
  /\ UNCHANGED <<fileVars, mainVars, planeVars, compiled, ok, seen, answered>>

\* ... answers 422, or 200 with the version it finds in reload_stats_, which
\* it reads without the mutex.
AnswerReload ==
  /\ Goto("admin", "returned", "idle")
  /\ answered' = IF ok["admin"] THEN stats.version ELSE answered
  /\ UNCHANGED <<fileVars, mainVars, planeVars, compiled, ok, seen, posts>>

\* handle_stats(), handle_metrics(): they format reload_stats_ without the mutex.
ReadStats ==
  /\ Goto("admin", "polling", "reading") \/ Goto("admin", "reading", "idle")
  /\ UNCHANGED <<fileVars, mainVars, planeVars, compiled, ok, seen, posts, answered>>

-----------------------------------------------------------------------------
Ended == phase \in {"stopped", "failed"} /\ UNCHANGED vars

Watcher == Poll \/ Reload("watcher") \/ Watermark \/ WatcherExit
Admin   == AdminLoop \/ PostReload \/ Reload("admin") \/ AnswerReload \/ ReadStats

Next ==
  \/ \E c \in Contents \cup {NoFile} : WriteFile(c)
  \/ InitializeRules \/ InitializeRoster \/ Start \/ Stop
  \/ Watcher \/ Admin
  \/ Ended

Spec == Init /\ [][Next]_vars

\* Every thread keeps running; edits, requests and the signal that stops the
\* server are not owed.
Fairness ==
  /\ WF_vars(InitializeRules) /\ WF_vars(InitializeRoster) /\ WF_vars(Start)
  /\ WF_vars(phase # "running" /\ Stop)
  /\ WF_vars(Watcher)
  /\ WF_vars(Admin)

FairSpec == Spec /\ Fairness

-----------------------------------------------------------------------------
(* Correctness *)

\* The types; in particular every version, watermark and mtime is a natural.
TypeOK ==
  /\ file \in Contents \cup {NoFile} /\ stamp \in Nat \ {0}
  /\ phase \in Phases
  /\ roster \in Seq(PlanNames)
  /\ live \in RuleSet
  /\ nextVersion \in Nat \ {0} /\ lastSeen \in Nat
  /\ stats \in ReloadStats
  /\ mutex \in Threads \cup {"free"}
  /\ pc \in [Threads -> Pcs]
  /\ compiled \in [Threads -> RuleSet]
  /\ ok \in [Threads -> BOOLEAN]
  /\ seen \in Nat /\ posts \in Nat /\ answered \in Nat

Serving == phase \in {"running", "stopping", "closing", "stopped"}

\* While policyd serves, the live rule set compiled, and every plan id a
\* subscriber record can hold still names the plan it named when the record was
\* loaded, through any sequence of edits and reloads by either thread.
PlanIdsKeepTheirMeaning ==
  Serving => /\ live.content \in Contents \ Broken
             /\ LET plans == PlansOf[live.content] IN
                \A id \in DOMAIN roster : id \in DOMAIN plans /\ plans[id] = roster[id]

\* Whenever no reload is in progress the statistics add up and name the live
\* version (test_admin_http.cpp checks the counters after one reload).
StatsAddUp ==
  Serving /\ mutex = "free" =>
    /\ stats.attempts = stats.successes + stats.failures
    /\ stats.version = live.version

\* A policy version, once replaced, never comes back: decisions carry it, so an
\* auditor may order them by it.
VersionsIncrease == [][live' # live => live'.version > live.version]_vars

\* A successful POST /rules/reload answers with the version it made live or a
\* newer one, although it reads the number after it released the mutex.
AnswerIsNotStale ==
  [][AnswerReload /\ ok["admin"] => answered' >= compiled["admin"].version]_vars

\* Would reload_rules() take the file as it is?
Acceptable == Compiles(file) /\ KeepsPlans(PlansOf[live.content], PlansOf[file])

\* As long as the server runs, an edit that is there to stay goes live, unless
\* it does not compile or would move a plan (docs/policy-authoring.md, Reloading).
EditsGoLive ==
  <>[](phase = "running") => []<>(phase = "running" /\ Acceptable => live.content = file)

\* stop() returns: neither thread is stuck on the mutex or in its loop.
ShutdownCompletes == phase = "stopping" ~> phase = "stopped"

\* What ThreadSanitizer would need to see nothing: no thread is inside a handler
\* that reads reload_stats_ while another one is about to write it.
WritesStats(t) ==
  \/ pc[t] = "locking" /\ mutex = "free"
  \/ pc[t] \in {"compiling", "checking", "counting"}

StatsAreNotRaced == pc["admin"] = "reading" => ~WritesStats("watcher")
=============================================================================
