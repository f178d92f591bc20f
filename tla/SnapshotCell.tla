---------------------------- MODULE SnapshotCell ----------------------------
(***************************************************************************)
(* What RcuDomain<RuleSet> promises its callers, with no mention of epochs, *)
(* slots, fences or grace periods: one live snapshot at a time, a reader    *)
(* that acquires holds the snapshot that is live at that instant, and a     *)
(* snapshot is given back to the allocator once, only after it stopped      *)
(* being live and only while no reader holds it.                            *)
(*                                                                          *)
(* Snapshots are numbered in publication order from 1; 0 is "none".         *)
(***************************************************************************)
EXTENDS Naturals

CONSTANTS Readers      \* the threads that may hold a guard

VARIABLES live,        \* the published snapshot, 0 once the cell is destroyed
          holding,     \* [Readers -> snapshot under the reader's guard, or 0]
          freed        \* the set of snapshots deleted so far

cellVars == <<live, holding, freed>>

CellInit ==
  /\ live = 1
  /\ holding = [r \in Readers |-> 0]
  /\ freed = {}

CellPublish ==
  /\ live # 0
  /\ live' = live + 1
  /\ UNCHANGED <<holding, freed>>

CellAcquire(r) ==
  /\ live # 0
  /\ holding[r] = 0
  /\ holding' = [holding EXCEPT ![r] = live]
  /\ UNCHANGED <<live, freed>>

CellRelease(r) ==
  /\ holding[r] # 0
  /\ holding' = [holding EXCEPT ![r] = 0]
  /\ UNCHANGED <<live, freed>>

\* Deletes a set of superseded snapshots that nobody is looking at.
CellReclaim(S) ==
  /\ \A r \in Readers : holding[r] \notin S
  /\ freed' = freed \cup S
  /\ UNCHANGED <<live, holding>>

\* The destructor: nobody is inside, and nothing published is left behind.
CellDestroy ==
  /\ live # 0
  /\ \A r \in Readers : holding[r] = 0
  /\ freed' = 1 .. live
  /\ live' = 0
  /\ UNCHANGED holding

CellNext ==
  \/ CellPublish
  \/ \E r \in Readers : CellAcquire(r) \/ CellRelease(r)
  \/ \E S \in SUBSET ((1 .. (live - 1)) \ freed) : CellReclaim(S)
  \/ CellDestroy

CellSpec == CellInit /\ [][CellNext]_cellVars
=============================================================================
