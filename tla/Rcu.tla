-------------------------------- MODULE Rcu --------------------------------
(***************************************************************************)
(* RcuDomain<RuleSet> (include/policy/rcu.hpp): the snapshot that policyd's *)
(* workers decide against, the reader slots, and the grace period that a    *)
(* reload waits for before it deletes the snapshot it replaced.             *)
(*                                                                          *)
(* The model starts where ControlPlane::initialize leaves the domain: one   *)
(* snapshot published, nobody reading.  Snapshots are numbered in           *)
(* publication order, so a pointer is a number and null (0) never occurs.   *)
(*                                                                          *)
(* Memory.  A store a thread has executed sits in its FIFO store buffer     *)
(* until it drains to memory, and a seq_cst fence waits for the buffer to   *)
(* be empty.  This is what makes the two fences of rcu.hpp matter.  The     *)
(* read side's relaxed load of global_epoch_ may return any value from the  *)
(* last one the thread saw up to the newest in memory.                      *)
(***************************************************************************)
EXTENDS Integers, Sequences

CONSTANTS
  Workers,         \* ingest and HTTP-front threads: they call register_reader()
  ControlReaders,  \* control-plane threads: they read on a slot they never claim
  ControlSlot,     \* the slot each of those reads on
  MaxReaders,      \* slots in the domain
  MaxPublish       \* bound: snapshots ever published

Slots     == 0 .. MaxReaders - 1
Readers   == Workers \cup ControlReaders
Snapshots == 1 .. MaxPublish
kQuiescent == 0

ASSUME DomainAssumption ==
  /\ MaxReaders \in Nat \ {0}
  /\ MaxPublish \in Nat \ {0}
  /\ Workers \cap ControlReaders = {}
  /\ ControlSlot \in [ControlReaders -> Slots]

VARIABLES
  \* shared memory
  current, globalEpoch, slotEpoch, inUse,
  \* reader threads: program counter, slot (the one being tried while
  \* registering), last epoch loaded, snapshot under the guard, store buffer
  rpc, mySlot, myEpoch, held, buffer,
  \* the reloading thread: program counter, its own latest current_ and
  \* global_epoch_, its store buffer, the pointer publish() returned, the slot
  \* synchronize() is looking at, and the last result of swap_and_reclaim()
  wpc, newest, ownEpoch, writes, old, idx, quiesced,
  \* retired_, and how often each snapshot has been deleted
  retired, frees

memVars    == <<current, globalEpoch, slotEpoch, inUse>>
readerVars == <<rpc, mySlot, myEpoch, held, buffer>>
writerVars == <<wpc, newest, ownEpoch, writes, old, idx, quiesced>>
heapVars   == <<retired, frees>>
vars       == <<memVars, readerVars, writerVars, heapVars>>

ReaderPcs == {"registering", "idle", "entering", "holding", "leaving", "done"}
WriterPcs == {"idle", "published", "scanning", "destroyed"}

Init ==
  /\ current = 1 /\ newest = 1
  /\ globalEpoch = 2 /\ ownEpoch = 2
  /\ slotEpoch = [s \in Slots |-> kQuiescent]
  /\ inUse = [s \in Slots |-> FALSE]
  /\ rpc = [r \in Readers |-> IF r \in Workers THEN "registering" ELSE "idle"]
  /\ mySlot = [r \in Readers |-> IF r \in Workers THEN 0 ELSE ControlSlot[r]]
  /\ myEpoch = [r \in Readers |-> 2]
  /\ held = [r \in Readers |-> 0]
  /\ buffer = [r \in Readers |-> <<>>]
  /\ wpc = "idle" /\ writes = <<>> /\ old = 0 /\ idx = 0 /\ quiesced = TRUE
  /\ retired = {}
  /\ frees = [n \in Snapshots |-> 0]

-----------------------------------------------------------------------------
(* Reader threads *)

Goto(r, from, to) == rpc[r] = from /\ rpc' = [rpc EXCEPT ![r] = to]

Store(r, epoch) == buffer' = [buffer EXCEPT ![r] = Append(@, epoch)]

Claim(r) ==
  /\ Goto(r, "registering", "idle")
  /\ mySlot[r] < MaxReaders
  /\ inUse' = [inUse EXCEPT ![mySlot[r]] = TRUE]
  /\ UNCHANGED <<current, globalEpoch, slotEpoch, mySlot, myEpoch, held, buffer,
                 writerVars, heapVars>>

\* Mutant: in_use is loaded and stored instead of compare-exchanged, so the
\* thread may act on a value that is no longer true.
ClaimFreeRacy(r) == Claim(r)

\* One iteration of register_reader()'s scan: the compare-exchange succeeds ...
ClaimFree(r) == mySlot[r] < MaxReaders /\ ~inUse[mySlot[r]] /\ Claim(r)

\* ... or it fails and the scan moves on.
SkipUsed(r) ==
  /\ rpc[r] = "registering" /\ mySlot[r] < MaxReaders
  /\ inUse[mySlot[r]]
  /\ mySlot' = [mySlot EXCEPT ![r] = @ + 1]
  /\ UNCHANGED <<memVars, rpc, myEpoch, held, buffer, writerVars, heapVars>>

\* register_reader() returned SIZE_MAX: the worker logs and returns.
GiveUp(r) ==
  /\ mySlot[r] = MaxReaders
  /\ Goto(r, "registering", "done")
  /\ UNCHANGED <<memVars, mySlot, myEpoch, held, buffer, writerVars, heapVars>>

\* read(), first half: load the epoch, store it in the slot.
EnterEpoch(r) ==
  /\ Goto(r, "idle", "entering")
  /\ \E e \in myEpoch[r] .. globalEpoch :
       Store(r, e) /\ myEpoch' = [myEpoch EXCEPT ![r] = e]
  /\ UNCHANGED <<memVars, mySlot, held, writerVars, heapVars>>

TakeGuard(r) ==
  /\ Goto(r, "entering", "holding")
  /\ held' = [held EXCEPT ![r] = current]
  /\ UNCHANGED <<memVars, mySlot, myEpoch, buffer, writerVars, heapVars>>

\* Mutant: read() without its seq_cst fence.
LoadCurrentUnfenced(r) == TakeGuard(r)

\* read(), second half: the fence has drained the buffer, load the pointer.
LoadCurrent(r) == buffer[r] = <<>> /\ TakeGuard(r)

DropGuard(r) ==
  /\ Goto(r, "holding", "idle")
  /\ held' = [held EXCEPT ![r] = 0]
  /\ UNCHANGED <<memVars, mySlot, myEpoch, writerVars, heapVars>>

\* Mutant: the guard's destructor leaves the epoch in the slot.
LeaveSilently(r) == DropGuard(r) /\ UNCHANGED buffer

\* ~RcuGuard
Leave(r) == DropGuard(r) /\ Store(r, kQuiescent)

\* unregister_reader(): the epoch store ...
Unregister(r) ==
  /\ r \in Workers
  /\ Goto(r, "idle", "leaving")
  /\ Store(r, kQuiescent)
  /\ UNCHANGED <<memVars, mySlot, myEpoch, held, writerVars, heapVars>>

ReleaseSlot(r) ==
  /\ Goto(r, "leaving", "done")
  /\ inUse' = [inUse EXCEPT ![mySlot[r]] = FALSE]
  /\ UNCHANGED <<current, globalEpoch, slotEpoch, mySlot, myEpoch, held, buffer,
                 writerVars, heapVars>>

\* ... and then in_use, a release store behind it in the same buffer.
Unclaim(r) == buffer[r] = <<>> /\ ReleaseSlot(r)

\* A control-plane thread is joined; it has no slot to give back.
StopControlReader(r) ==
  /\ r \in ControlReaders
  /\ Goto(r, "idle", "done")
  /\ UNCHANGED <<memVars, mySlot, myEpoch, held, buffer, writerVars, heapVars>>

\* The oldest store in a reader's buffer reaches its slot.
DrainReader(r) ==
  /\ buffer[r] # <<>>
  /\ slotEpoch' = [slotEpoch EXCEPT ![mySlot[r]] = Head(buffer[r])]
  /\ buffer' = [buffer EXCEPT ![r] = Tail(@)]
  /\ UNCHANGED <<current, globalEpoch, inUse, rpc, mySlot, myEpoch, held,
                 writerVars, heapVars>>

-----------------------------------------------------------------------------
(* The reloading thread: swap_and_reclaim(), one caller at a time *)

PublishInOrder(stores) ==
  /\ wpc = "idle" /\ newest < MaxPublish
  /\ wpc' = "published"
  /\ old' = newest
  /\ newest' = newest + 1
  /\ ownEpoch' = ownEpoch + 1
  /\ writes' = writes \o stores
  /\ UNCHANGED <<memVars, readerVars, idx, quiesced, heapVars>>

\* publish(): exchange current_, then add 1 to global_epoch_ with release order.
Publish == PublishInOrder(<<"current", "epoch">>)

\* The oldest store in the reloading thread's buffer reaches memory.
DrainWriter ==
  /\ writes # <<>>
  /\ writes' = Tail(writes)
  /\ current' = IF Head(writes) = "current" THEN newest ELSE current
  /\ globalEpoch' = IF Head(writes) = "epoch" THEN ownEpoch ELSE globalEpoch
  /\ UNCHANGED <<slotEpoch, inUse, readerVars, wpc, newest, ownEpoch, old, idx,
                 quiesced, heapVars>>

StartScan ==
  /\ wpc = "published" /\ wpc' = "scanning"
  /\ UNCHANGED <<memVars, readerVars, newest, ownEpoch, writes, old, idx, quiesced,
                 heapVars>>

\* Mutant: synchronize() without its seq_cst fence.
SyncUnfenced == StartScan

\* synchronize(): the fence; target is the thread's own latest global_epoch_.
SyncFence == writes = <<>> /\ StartScan

\* What synchronize() accepts in a slot.
Passed(s) == slotEpoch[s] = kQuiescent \/ slotEpoch[s] >= ownEpoch

NextSlot ==
  /\ wpc = "scanning" /\ idx < MaxReaders
  /\ Passed(idx)
  /\ idx' = idx + 1
  /\ UNCHANGED <<memVars, readerVars, wpc, newest, ownEpoch, writes, old,
                 quiesced, heapVars>>

Blocked == wpc = "scanning" /\ idx < MaxReaders /\ ~Passed(idx)

\* swap_and_reclaim() returns its result.
EndSwap(result) ==
  /\ wpc' = "idle" /\ old' = 0 /\ idx' = 0
  /\ quiesced' = result
  /\ UNCHANGED <<memVars, readerVars, newest, ownEpoch, writes>>

\* Mutants: no deadline; a deadline that loses the snapshot.
SyncSpin        == Blocked /\ UNCHANGED vars
SyncTimeoutDrop == Blocked /\ EndSwap(FALSE) /\ UNCHANGED heapVars

\* The deadline passed while a slot was still behind: park the old snapshot.
SyncTimeout ==
  /\ Blocked
  /\ EndSwap(FALSE)
  /\ retired' = retired \cup {old}
  /\ UNCHANGED frees

Delete(S) == frees' = [n \in Snapshots |-> IF n \in S THEN frees[n] + 1 ELSE frees[n]]

AllPassed == wpc = "scanning" /\ idx = MaxReaders

\* Mutants: retired_ is deleted but not cleared; it is forgotten.
ReclaimNoClear == AllPassed /\ EndSwap(TRUE) /\ Delete({old} \cup retired) /\ UNCHANGED retired
ReclaimOnlyOld == AllPassed /\ EndSwap(TRUE) /\ Delete({old}) /\ UNCHANGED retired

\* Every slot passed: delete the old snapshot and the parked ones.
Reclaim ==
  /\ AllPassed
  /\ EndSwap(TRUE)
  /\ Delete({old} \cup retired)
  /\ retired' = {}

\* ~RcuDomain, which main reaches after it has joined every thread.
Destroy ==
  /\ wpc = "idle" /\ wpc' = "destroyed"
  /\ \A r \in Readers : rpc[r] = "done"
  /\ Delete({current} \cup retired)
  /\ UNCHANGED <<memVars, readerVars, newest, ownEpoch, writes, old, idx,
                 quiesced, retired>>

Terminated == wpc = "destroyed" /\ UNCHANGED vars

-----------------------------------------------------------------------------
ReaderStep(r) ==
  \/ ClaimFree(r) \/ SkipUsed(r) \/ GiveUp(r)
  \/ EnterEpoch(r) \/ LoadCurrent(r) \/ Leave(r)
  \/ Unregister(r) \/ Unclaim(r) \/ StopControlReader(r)

WriterStep == Publish \/ SyncFence \/ NextSlot \/ SyncTimeout \/ Reclaim

Next ==
  \/ \E r \in Readers : ReaderStep(r) \/ DrainReader(r)
  \/ WriterStep
  \/ DrainWriter
  \/ Destroy
  \/ Terminated

Spec == Init /\ [][Next]_vars

\* Threads run, and a store buffer does not hold a store for ever.
Fairness ==
  /\ \A r \in Readers : WF_vars(DrainReader(r)) /\ WF_vars(LoadCurrent(r))
                        /\ WF_vars(ClaimFree(r) \/ SkipUsed(r) \/ GiveUp(r))
  /\ WF_vars(DrainWriter)
  /\ WF_vars(SyncFence \/ NextSlot \/ SyncTimeout \/ Reclaim)

FairSpec == Spec /\ Fairness

-----------------------------------------------------------------------------
(* Correctness *)

\* Every variable has its type; in particular the reloading thread's stores are
\* always the pointer and then the epoch of one publish().
TypeOK ==
  /\ current \in Snapshots /\ newest \in Snapshots
  /\ globalEpoch \in Nat \ {0} /\ ownEpoch \in Nat \ {0}
  /\ slotEpoch \in [Slots -> Nat]
  /\ inUse \in [Slots -> BOOLEAN]
  /\ rpc \in [Readers -> ReaderPcs]
  /\ mySlot \in [Readers -> 0 .. MaxReaders]
  /\ myEpoch \in [Readers -> Nat \ {0}]
  /\ held \in [Readers -> Snapshots \cup {0}]
  /\ buffer \in [Readers -> Seq(Nat)]
  /\ wpc \in WriterPcs
  /\ writes \in {<<>>, <<"epoch">>, <<"current", "epoch">>}
  /\ old \in Snapshots \cup {0}
  /\ idx \in 0 .. MaxReaders
  /\ quiesced \in BOOLEAN
  /\ retired \subseteq Snapshots
  /\ frees \in [Snapshots -> Nat]

\* No snapshot is deleted while a reader holds a guard on it (the purpose of
\* synchronize(); tests/test_rcu.cpp NoSnapshotIsFreedWhileAReaderHoldsIt).
NoUseAfterFree ==
  \A r \in Readers : rpc[r] = "holding" => frees[held[r]] = 0

\* Two threads that may store to a slot never use the same one: what
\* register_reader()'s compare-exchange and the control plane's choice of slot
\* indices have to guarantee together.
Occupies(r) == rpc[r] \in {"idle", "entering", "holding", "leaving"}

SlotsAreExclusive ==
  \A r, q \in Readers : r # q /\ Occupies(r) /\ Occupies(q) => mySlot[r] # mySlot[q]

\* swap_and_reclaim() never deletes a snapshot twice, whatever sequence of
\* timed-out and successful grace periods it went through.
FreedAtMostOnce == \A n \in Snapshots : frees[n] <= 1

\* After a swap that reported success only the live snapshot is left: that
\* grace period also covered everything earlier timeouts had parked.
SuccessLeavesOneSnapshot ==
  wpc = "idle" /\ quiesced => \A n \in 1 .. newest - 1 : frees[n] > 0

\* The destructor leaves nothing behind: every snapshot ever published has been
\* deleted, including those parked by a grace period that never completed
\* (tests/test_rcu.cpp EverythingIsFreedWhenTheDomainDies).
DestroyFreesEverything ==
  wpc = "destroyed" => \A n \in 1 .. newest : frees[n] > 0

\* A grace period times out only because of a thread that really is in a read
\* section, or has just left one and its store is still on the way: a slot is
\* never left looking busy by a reader that went away.
TimeoutHasACulprit ==
  [][ wpc = "scanning" /\ quiesced' = FALSE /\ wpc' = "idle" =>
        \E r \in Readers : /\ mySlot[r] = idx
                           /\ rpc[r] \in {"entering", "holding"} \/ buffer[r] # <<>> ]_vars

\* Neither side waits for the other for ever: a thread that started read() gets
\* its guard, one that started register_reader() gets an answer, and
\* swap_and_reclaim() returns even when a reader never leaves its read section.
NobodyIsStuck ==
  /\ \A r \in Readers : /\ rpc[r] = "entering" ~> rpc[r] = "holding"
                        /\ rpc[r] = "registering" ~> rpc[r] # "registering"
  /\ wpc \in {"published", "scanning"} ~> wpc = "idle"

\* Everything above epochs and slots: the domain is a snapshot cell.
Cell == INSTANCE SnapshotCell WITH
          live    <- IF wpc = "destroyed" THEN 0 ELSE current,
          holding <- held,
          freed   <- {n \in Snapshots : frees[n] > 0}

\* Every step of the domain is a step of the abstract cell or invisible to it:
\* a guard is on the snapshot that was live when it was taken, and deletion
\* happens only to superseded snapshots nobody holds.
ImplementsCell == Cell!CellSpec

\* The condition on the deployment under which the properties above hold: the
\* slots the control plane reads on without claiming them are its own, and lie
\* beyond the slots that registering workers can reach: there are fewer workers
\* than slots up to it, so workers on each of those are not all different.
ControlSlotsReserved ==
  /\ \A c, d \in ControlReaders : c # d => ControlSlot[c] # ControlSlot[d]
  /\ \A c \in ControlReaders : \A f \in [0 .. ControlSlot[c] -> Workers] :
       \E i, j \in 0 .. ControlSlot[c] : i # j /\ f[i] = f[j]
=============================================================================
