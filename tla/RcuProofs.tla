----------------------------- MODULE RcuProofs -----------------------------
(***************************************************************************)
(* Proofs about Rcu, for any number of workers, control-plane readers,      *)
(* slots and publications, on the condition that the control plane's slots  *)
(* are reserved for it (ControlSlotsReserved).                              *)
(***************************************************************************)
EXTENDS Rcu, TLAPS

\* How long a leaf may take, and what is tried when it takes longer.
USE SMTT(10), Zenon, SMTT(30), SMTT(60)

\* A thread that may still store to its slot.
Uses(r) == Occupies(r) \/ r \in ControlReaders

\* register_reader(): a claimed slot is marked ...
Marked ==
  \A r \in Workers : Occupies(r) => mySlot[r] < MaxReaders /\ inUse[mySlot[r]]

\* ... a marked slot is claimed ...
Claimed ==
  \A s \in Slots : inUse[s] => \E q \in Workers : Occupies(q) /\ mySlot[q] = s

\* ... and a worker that looks at slot k has found every slot below it taken by
\* a worker that has finished registering.  So no worker gets past slot
\* |Workers| - 1.
Below ==
  \A r \in Workers : \A k \in 0 .. mySlot[r] - 1 :
    \E q \in Workers : rpc[q] # "registering" /\ mySlot[q] = k

\* The control plane's threads stay on their own slots.
OwnSlots ==
  \A c \in ControlReaders : /\ mySlot[c] = ControlSlot[c]
                            /\ rpc[c] \in {"idle", "entering", "holding", "done"}

Claims == Marked /\ Claimed /\ Below /\ OwnSlots

\* Every slot has one user at a time.
Exclusive ==
  \A r, q \in Readers : r # q /\ Uses(r) /\ Uses(q) => mySlot[r] # mySlot[q]

\* The epoch stores a reader may have in flight at each point of its code, and
\* what its slot holds once they have drained.
BufferOK(r) ==
  /\ ~Uses(r) => buffer[r] = <<>>
  /\ rpc[r] \in {"idle", "done"} => buffer[r] \in {<<>>, <<0>>}
  /\ rpc[r] = "leaving" => buffer[r] \in {<<>>, <<0>>, <<0, 0>>}
  /\ rpc[r] = "entering" => buffer[r] \in {<<>>, <<myEpoch[r]>>, <<0, myEpoch[r]>>}
  /\ rpc[r] = "holding" => buffer[r] = <<>>
  /\ rpc[r] \in {"entering", "holding"} /\ buffer[r] = <<>> => slotEpoch[mySlot[r]] = myEpoch[r]

Buffers == \A r \in Readers : BufferOK(r)

\* A nonzero slot is some thread's doing.
Culprits ==
  \A s \in Slots : slotEpoch[s] # kQuiescent =>
    \E r \in Readers : /\ Uses(r) /\ mySlot[r] = s
                       /\ rpc[r] \in {"entering", "holding"} \/ buffer[r] # <<>>

\* A guard is never on a snapshot older than the epoch it announced.
Epochs ==
  \A r \in Readers :
    /\ myEpoch[r] <= globalEpoch
    /\ IF rpc[r] = "holding" THEN held[r] # 0 /\ held[r] <= current /\ myEpoch[r] <= held[r] + 1
                             ELSE held[r] = 0

\* How far the reloading thread's stores have got.
Stores ==
  /\ ownEpoch = newest + 1
  /\ writes = <<>> => current = newest /\ globalEpoch = ownEpoch
  /\ writes = <<"epoch">> => current = newest /\ globalEpoch = newest
  /\ writes = <<"current", "epoch">> => current = newest - 1 /\ globalEpoch = newest
  /\ wpc # "published" => writes = <<>>
  /\ wpc # "scanning" => idx = 0
  /\ wpc \in {"published", "scanning"} => old = newest - 1 /\ old # 0
  /\ wpc = "destroyed" => \A r \in Readers : rpc[r] = "done"

\* The grace period: behind synchronize()'s scan every guard is on the new
\* snapshot.
Grace ==
  wpc = "scanning" =>
    \A r \in Readers : rpc[r] = "holding" /\ mySlot[r] < idx => held[r] = newest

Busy == wpc \in {"published", "scanning"}

\* Which snapshots have been deleted, and how often.
Heap ==
  /\ retired \subseteq 1 .. newest - 1
  /\ Busy => old \notin retired
  /\ wpc = "idle" /\ quiesced => retired = {}
  /\ wpc # "destroyed" =>
       \A n \in Snapshots :
         frees[n] = IF n >= newest \/ n \in retired \/ (Busy /\ n = old) THEN 0 ELSE 1
  /\ wpc = "destroyed" => \A n \in Snapshots : frees[n] = IF n > newest THEN 0 ELSE 1

\* A worker that is still looking for a slot is not looking at the control
\* plane's: what ControlSlotsReserved is for.
OutOfReach ==
  \A r \in Workers : rpc[r] = "registering" =>
    \A c \in ControlReaders : mySlot[r] # ControlSlot[c]

IInv == /\ TypeOK /\ Claims /\ Exclusive /\ Buffers /\ Culprits
        /\ Epochs /\ Stores /\ Grace /\ Heap /\ NoUseAfterFree

-----------------------------------------------------------------------------
\* The buffers of Buffers, and how the two ends of a buffer move.
LEMMA BufferEnds ==
  ASSUME NEW x \in Nat, NEW y \in Nat
  PROVE  /\ Append(<<>>, x) = <<x>> /\ Append(<<x>>, y) = <<x, y>>
         /\ Head(<<x>>) = x /\ Tail(<<x>>) = <<>>
         /\ Head(<<x, y>>) = x /\ Tail(<<x, y>>) = <<y>>
         /\ <<x>> # <<>> /\ <<x, y>> # <<>> /\ Len(<<>>) = 0
         /\ Len(<<x>>) = 1 /\ Len(<<x, y>>) = 2
<1>1. Append(<<>>, x) = <<x>>  OBVIOUS
<1>2. Append(<<x>>, y) = <<x, y>>
  <2>1. Append(<<x>>, y) = [i \in 1 .. 2 |-> Append(<<x>>, y)[i]]  OBVIOUS
  <2>2. <<x, y>> = [i \in 1 .. 2 |-> <<x, y>>[i]]  OBVIOUS
  <2>3. ASSUME NEW i \in 1 .. 2 PROVE Append(<<x>>, y)[i] = <<x, y>>[i]  OBVIOUS
  <2>4. [i \in 1 .. 2 |-> Append(<<x>>, y)[i]] = [i \in 1 .. 2 |-> <<x, y>>[i]]  BY <2>3, Zenon
  <2> QED BY <2>1, <2>2, <2>4, Zenon
<1>3. Head(<<x>>) = x /\ Head(<<x, y>>) = x  OBVIOUS
<1>4. Tail(<<x>>) = <<>>  OBVIOUS
<1>5. Tail(<<x, y>>) = <<y>>  OBVIOUS
<1>6. Len(<<>>) = 0 /\ Len(<<x>>) = 1 /\ Len(<<x, y>>) = 2  OBVIOUS
<1>7. <<x>> # <<>> /\ <<x, y>> # <<>>  BY <1>6
<1> QED BY <1>1, <1>2, <1>3, <1>4, <1>5, <1>6, <1>7

\* A buffer with a store in it is not empty.
LEMMA AppendNotEmpty == ASSUME NEW b \in Seq(Nat) PROVE Append(b, 0) # <<>>
<1>1. Len(Append(b, 0)) = Len(b) + 1 /\ Len(b) \in Nat  OBVIOUS
<1>2. Len(<<>>) = 0  OBVIOUS
<1> QED BY <1>1, <1>2

\* BufferEnds for the buffers of a reader outside its read section.
LEMMA ZeroEnds ==
  Tail(<<0>>) = <<>> /\ Tail(<<0, 0>>) = <<0>> /\ Head(<<0>>) = 0 /\ Head(<<0, 0>>) = 0
BY BufferEnds

\* BufferEnds for a reader that announces epoch e.
LEMMA EnterEnds ==
  ASSUME NEW e \in Nat PROVE Append(<<>>, e) = <<e>> /\ Append(<<0>>, e) = <<0, e>>
BY BufferEnds, Zenon

\* A thread that uses a slot uses one that exists.
LEMMA SlotInRange ==
  ASSUME TypeOK, Claims, NEW r \in Readers, Uses(r)
  PROVE  mySlot[r] \in Slots
<1>1. CASE r \in ControlReaders  BY <1>1, DomainAssumption DEF Claims, OwnSlots
<1>2. CASE r \in Workers /\ Occupies(r)
  BY <1>2, DomainAssumption DEF TypeOK, Claims, Marked, Slots
<1> QED BY <1>1, <1>2 DEF Uses, Readers

\* A store appends a number to a reader's buffer.
LEMMA StoreType ==
  ASSUME buffer \in [Readers -> Seq(Nat)], NEW r \in Readers, NEW e \in Nat, Store(r, e)
  PROVE  buffer' \in [Readers -> Seq(Nat)]
<1>1. Append(buffer[r], e) \in Seq(Nat)  OBVIOUS
<1> QED BY <1>1 DEF Store

\* The same for the reloading thread's buffer.
LEMMA WriteEnds ==
  /\ Head(<<"current", "epoch">>) = "current" /\ Tail(<<"current", "epoch">>) = <<"epoch">>
  /\ Head(<<"epoch">>) = "epoch" /\ Tail(<<"epoch">>) = <<>>
  /\ <<"current", "epoch">> # <<>> /\ <<"epoch">> # <<>> /\ <<"current", "epoch">> # <<"epoch">>
<1>1. Len(<<>>) = 0 /\ Len(<<"epoch">>) = 1 /\ Len(<<"current", "epoch">>) = 2  OBVIOUS
<1>2. Head(<<"current", "epoch">>) = "current" /\ Head(<<"epoch">>) = "epoch"  OBVIOUS
<1>3. Tail(<<"current", "epoch">>) = <<"epoch">>  OBVIOUS
<1>4. Tail(<<"epoch">>) = <<>>  OBVIOUS
<1> QED BY <1>1, <1>2, <1>3, <1>4

-----------------------------------------------------------------------------
\* Each step keeps the types.
LEMMA TypeStep == ASSUME TypeOK, Stores, Next PROVE TypeOK'
<1> USE DomainAssumption DEF Readers, Slots, Snapshots, kQuiescent, ReaderPcs, WriterPcs,
      Goto, memVars, readerVars, writerVars, heapVars
<1>1. ASSUME NEW r \in Readers, ClaimFree(r) PROVE TypeOK'
  BY <1>1, Zenon DEF ClaimFree, Claim, TypeOK
<1>2. ASSUME NEW r \in Readers, SkipUsed(r) PROVE TypeOK'
  <2>0. mySlot[r] + 1 \in 0 .. MaxReaders  BY <1>2 DEF SkipUsed, TypeOK
  <2>1. mySlot' \in [Readers -> 0 .. MaxReaders]  BY <1>2, <2>0 DEF SkipUsed, TypeOK
  <2> QED BY <1>2, <2>1, Zenon DEF SkipUsed, TypeOK
<1>3. ASSUME NEW r \in Readers, GiveUp(r) PROVE TypeOK'
  BY <1>3 DEF GiveUp, TypeOK
<1>4. ASSUME NEW r \in Readers, EnterEpoch(r) PROVE TypeOK'
  <2>1. PICK e \in myEpoch[r] .. globalEpoch :
          Store(r, e) /\ myEpoch' = [myEpoch EXCEPT ![r] = e]
    BY <1>4, Zenon DEF EnterEpoch
  <2>2. e \in Nat \ {0}  BY <2>1 DEF TypeOK
  <2>3. buffer' \in [Readers -> Seq(Nat)]  BY <2>1, <2>2, StoreType, Zenon DEF TypeOK
  <2> QED BY <1>4, <2>1, <2>2, <2>3, Zenon DEF EnterEpoch, TypeOK
<1>5. ASSUME NEW r \in Readers, LoadCurrent(r) PROVE TypeOK'
  BY <1>5, Zenon DEF LoadCurrent, TakeGuard, TypeOK
<1>6. ASSUME NEW r \in Readers, Leave(r) PROVE TypeOK'
  <2>1. buffer' \in [Readers -> Seq(Nat)]  BY <1>6, StoreType, Zenon DEF Leave, TypeOK
  <2> QED BY <1>6, <2>1 DEF Leave, DropGuard, TypeOK
<1>7. ASSUME NEW r \in Readers, Unregister(r) PROVE TypeOK'
  <2>1. buffer' \in [Readers -> Seq(Nat)]  BY <1>7, StoreType, Zenon DEF Unregister, TypeOK
  <2> QED BY <1>7, <2>1, Zenon DEF Unregister, TypeOK
<1>8. ASSUME NEW r \in Readers, Unclaim(r) PROVE TypeOK'
  BY <1>8, Zenon DEF Unclaim, ReleaseSlot, TypeOK
<1>9. ASSUME NEW r \in Readers, StopControlReader(r) PROVE TypeOK'
  BY <1>9, Zenon DEF StopControlReader, TypeOK
<1>10. ASSUME NEW r \in Readers, DrainReader(r) PROVE TypeOK'
  <2>1. buffer[r] \in Seq(Nat) /\ buffer[r] # <<>>  BY <1>10 DEF DrainReader, TypeOK
  <2>2. Head(buffer[r]) \in Nat /\ Tail(buffer[r]) \in Seq(Nat)  BY <2>1
  <2>3. buffer' \in [Readers -> Seq(Nat)]  BY <1>10, <2>2 DEF DrainReader, TypeOK
  <2>4. slotEpoch' \in [Slots -> Nat]  BY <1>10, <2>2, Zenon DEF DrainReader, TypeOK
  <2> QED BY <1>10, <2>3, <2>4, Zenon DEF DrainReader, TypeOK
<1>11. CASE Publish
  <2>1. writes = <<>>  BY <1>11 DEF Publish, PublishInOrder, Stores
  <2>2. writes' = <<"current", "epoch">>
    <3>1. <<>> \o <<"current", "epoch">> = <<"current", "epoch">>  OBVIOUS
    <3> QED BY <1>11, <2>1, <3>1 DEF Publish, PublishInOrder
  <2>3. newest' \in Snapshots /\ ownEpoch' \in Nat \ {0} /\ old' \in Snapshots
    BY <1>11 DEF Publish, PublishInOrder, TypeOK
  <2> QED BY <1>11, <2>2, <2>3, Zenon DEF Publish, PublishInOrder, TypeOK
<1>12. CASE DrainWriter
  <2>1. writes' \in {<<>>, <<"epoch">>, <<"current", "epoch">>}
    BY <1>12, WriteEnds, Zenon DEF DrainWriter, TypeOK
  <2>2. current' \in Snapshots /\ globalEpoch' \in Nat \ {0}
    BY <1>12 DEF DrainWriter, TypeOK
  <2> QED BY <1>12, <2>1, <2>2 DEF DrainWriter, TypeOK
<1>13. CASE SyncFence  BY <1>13 DEF SyncFence, StartScan, TypeOK
<1>14. CASE NextSlot  BY <1>14 DEF NextSlot, TypeOK
<1>15. CASE SyncTimeout
  <2>1. retired' \subseteq Snapshots
    BY <1>15 DEF SyncTimeout, Blocked, TypeOK, Stores
  <2>2. EndSwap(FALSE) /\ UNCHANGED frees  BY <1>15, Zenon DEF SyncTimeout
  <2>3. quiesced' \in BOOLEAN  BY <2>2, Zenon DEF EndSwap
  <2>4. wpc' \in WriterPcs /\ idx' \in 0 .. MaxReaders /\ old' \in Snapshots \cup {0}
    BY <2>2 DEF EndSwap
  <2>5. UNCHANGED <<memVars, readerVars, newest, ownEpoch, writes, frees>>  BY <2>2 DEF EndSwap
  <2> QED BY <2>1, <2>3, <2>4, <2>5 DEF TypeOK
<1>16. CASE Reclaim
  BY <1>16 DEF Reclaim, AllPassed, EndSwap, Delete, TypeOK
<1>17. CASE Destroy  BY <1>17 DEF Destroy, Delete, TypeOK
<1>18. CASE Terminated
  BY <1>18 DEF Terminated, vars, memVars, readerVars, writerVars, heapVars, TypeOK
<1> QED
  BY <1>1, <1>2, <1>3, <1>4, <1>5, <1>6, <1>7, <1>8, <1>9, <1>10, <1>11, <1>12,
     <1>13, <1>14, <1>15, <1>16, <1>17, <1>18 DEF Next, ReaderStep, WriterStep

-----------------------------------------------------------------------------
\* The reloading thread never touches a reader, a slot or in_use.
LEMMA WriterFrame ==
  ASSUME WriterStep \/ DrainWriter \/ Destroy \/ Terminated
  PROVE  UNCHANGED <<slotEpoch, inUse, rpc, mySlot, myEpoch, held, buffer>>
BY DEF WriterStep, Publish, PublishInOrder, SyncFence, StartScan, NextSlot, SyncTimeout, Reclaim,
       EndSwap, DrainWriter, Destroy, Terminated, vars, memVars, readerVars

\* register_reader() and unregister_reader() keep the bookkeeping of slots.
LEMMA ClaimsStep == ASSUME TypeOK, Claims, Exclusive, Next PROVE Claims'
<1> USE DomainAssumption DEF TypeOK, Readers, Slots, ReaderPcs, Goto, Occupies,
      Marked, Claimed, Below, OwnSlots, memVars, readerVars, writerVars, heapVars
<1>1. ASSUME NEW r \in Readers, ClaimFree(r) PROVE Claims'
  <2>1. r \in Workers  BY <1>1, Zenon DEF ClaimFree, Claim, Claims
  <2>2. Marked' /\ OwnSlots'
    <3>1. ASSUME NEW w \in Workers, Occupies(w)' PROVE mySlot'[w] < MaxReaders /\ inUse'[mySlot'[w]]
      <4>1. CASE w = r  BY <1>1, <2>1, <4>1 DEF ClaimFree, Claim
      <4>2. CASE w # r
        <5>1. mySlot[w] \in Slots /\ inUse[mySlot[w]]
          BY <1>1, <3>1, <4>2 DEF ClaimFree, Claim, Claims
        <5> QED BY <1>1, <5>1 DEF ClaimFree, Claim
      <4> QED BY <4>1, <4>2
    <3>2. OwnSlots'  BY <1>1, <2>1 DEF ClaimFree, Claim, Claims
    <3> QED BY <3>1, <3>2
  <2>3. Claimed'  BY <1>1, <2>1 DEF ClaimFree, Claim, Claims
  <2>4. Below'  BY <1>1, <2>1 DEF ClaimFree, Claim, Claims
  <2> QED BY <2>2, <2>3, <2>4 DEF Claims
<1>2. ASSUME NEW r \in Readers, SkipUsed(r) PROVE Claims'
  <2>1. r \in Workers  BY <1>2, Zenon DEF SkipUsed, Claims
  <2>2. PICK q \in Workers : Occupies(q) /\ mySlot[q] = mySlot[r]
    BY <1>2, <2>1 DEF SkipUsed, Claims
  <2>3. q # r  BY <1>2, <2>2 DEF SkipUsed
  <2>4. ASSUME NEW w \in Workers, NEW k \in 0 .. mySlot'[w] - 1
        PROVE  \E p \in Workers : rpc'[p] # "registering" /\ mySlot'[p] = k
    <3>1. CASE w = r /\ k = mySlot[r]  BY <1>2, <2>2, <2>3, <3>1 DEF SkipUsed
    <3>2. CASE ~(w = r /\ k = mySlot[r])
      <4>1. k \in 0 .. mySlot[w] - 1  BY <1>2, <3>2, <2>4 DEF SkipUsed
      <4>2. PICK p \in Workers : rpc[p] # "registering" /\ mySlot[p] = k  BY <4>1 DEF Claims
      <4> QED BY <1>2, <4>2 DEF SkipUsed
    <3> QED BY <3>1, <3>2
  <2> QED BY <1>2, <2>1, <2>4, Zenon DEF SkipUsed, Claims
<1>3. ASSUME NEW r \in Readers, GiveUp(r) PROVE Claims'
  BY <1>3 DEF GiveUp, Claims
<1>4. ASSUME NEW r \in Readers, EnterEpoch(r) PROVE Claims'
  BY <1>4 DEF EnterEpoch, Claims
<1>5. ASSUME NEW r \in Readers, LoadCurrent(r) PROVE Claims'
  BY <1>5, ZenonT(30) DEF LoadCurrent, TakeGuard, Claims
<1>6. ASSUME NEW r \in Readers, Leave(r) PROVE Claims'
  BY <1>6 DEF Leave, DropGuard, Claims
<1>7. ASSUME NEW r \in Readers, Unregister(r) PROVE Claims'
  BY <1>7 DEF Unregister, Claims
<1>8. ASSUME NEW r \in Readers, Unclaim(r) PROVE Claims'
  <2>1. r \in Workers  BY <1>8, Zenon DEF Unclaim, ReleaseSlot, Claims
  <2>2. Marked'
    <3> SUFFICES ASSUME NEW w \in Workers, Occupies(w)'
                 PROVE  mySlot'[w] < MaxReaders /\ inUse'[mySlot'[w]]
      OBVIOUS
    <3>1. w # r /\ Occupies(w)  BY <1>8, <2>1 DEF Unclaim, ReleaseSlot
    <3>2. mySlot[w] # mySlot[r]
      BY <1>8, <2>1, <3>1, Zenon DEF Unclaim, ReleaseSlot, Exclusive, Uses
    <3>3. mySlot[w] \in Slots /\ inUse[mySlot[w]]  BY <3>1 DEF Claims
    <3> QED BY <1>8, <3>2, <3>3 DEF Unclaim, ReleaseSlot
  <2>3. Claimed'  BY <1>8, <2>1 DEF Unclaim, ReleaseSlot, Claims
  <2>4. Below' /\ OwnSlots'  BY <1>8, <2>1, ZenonT(30) DEF Unclaim, ReleaseSlot, Claims
  <2> QED BY <2>2, <2>3, <2>4 DEF Claims
<1>9. ASSUME NEW r \in Readers, StopControlReader(r) PROVE Claims'
  BY <1>9 DEF StopControlReader, Claims
<1>10. CASE UNCHANGED <<rpc, mySlot, inUse>>  BY <1>10 DEF Claims
<1>11. ASSUME NEW r \in Readers, DrainReader(r) PROVE UNCHANGED <<rpc, mySlot, inUse>>
  BY <1>11 DEF DrainReader
<1>12. ASSUME WriterStep \/ DrainWriter \/ Destroy \/ Terminated
       PROVE  UNCHANGED <<rpc, mySlot, inUse>>
  BY <1>12, WriterFrame
<1> QED
  BY <1>1, <1>2, <1>3, <1>4, <1>5, <1>6, <1>7, <1>8, <1>9, <1>10, <1>11, <1>12
  DEF Next, ReaderStep

-----------------------------------------------------------------------------
\* A slot never gets a second user: the compare-exchange keeps workers apart,
\* OutOfReach keeps them off the control plane's slots.
LEMMA ExclusiveStep ==
  ASSUME OutOfReach, TypeOK, Claims, Exclusive, Next PROVE Exclusive'
<1> USE DomainAssumption DEF TypeOK, Readers, Slots, Goto, Uses, Occupies,
      memVars, readerVars, writerVars, heapVars
<1>1. ASSUME NEW r \in Readers, ClaimFree(r) PROVE Exclusive'
  <2>0. ~inUse[mySlot[r]]  BY <1>1 DEF ClaimFree
  <2>1. rpc[r] = "registering" /\ mySlot[r] < MaxReaders  BY <1>1 DEF ClaimFree, Claim
  <2>a. r \in Workers  BY <2>1, Zenon DEF Claims, OwnSlots
  <2>2. ASSUME NEW q \in Readers, q # r, Uses(q) PROVE mySlot[q] # mySlot[r]
    <3>1. CASE q \in Workers
      BY <2>0, <2>2, <3>1 DEF Claims, Marked
    <3>2. CASE q \in ControlReaders
      BY <2>1, <2>a, <3>2 DEF Claims, OwnSlots, OutOfReach
    <3> QED BY <3>1, <3>2
  <2>3. \A q \in Readers : q # r /\ Uses(q)' => Uses(q)  BY <1>1 DEF ClaimFree, Claim
  <2>4. mySlot' = mySlot  BY <1>1 DEF ClaimFree, Claim
  <2> QED BY <2>2, <2>3, <2>4 DEF Exclusive
<1>2. ASSUME NEW r \in Readers, SkipUsed(r) PROVE Exclusive'
  <2>1. r \in Workers  BY <1>2, Zenon DEF SkipUsed, Claims, OwnSlots
  <2> QED BY <1>2, <2>1, Zenon DEF SkipUsed, Exclusive
<1>3. ASSUME NEW r \in Readers, GiveUp(r) PROVE Exclusive'
  BY <1>3 DEF GiveUp, Exclusive
<1>4. ASSUME NEW r \in Readers, EnterEpoch(r) PROVE Exclusive'
  BY <1>4 DEF EnterEpoch, Exclusive
<1>5. ASSUME NEW r \in Readers, LoadCurrent(r) PROVE Exclusive'
  BY <1>5 DEF LoadCurrent, TakeGuard, Exclusive
<1>6. ASSUME NEW r \in Readers, Leave(r) PROVE Exclusive'
  BY <1>6 DEF Leave, DropGuard, Exclusive
<1>7. ASSUME NEW r \in Readers, Unregister(r) PROVE Exclusive'
  BY <1>7 DEF Unregister, Exclusive
<1>8. ASSUME NEW r \in Readers, Unclaim(r) PROVE Exclusive'
  BY <1>8 DEF Unclaim, ReleaseSlot, Exclusive
<1>9. ASSUME NEW r \in Readers, StopControlReader(r) PROVE Exclusive'
  BY <1>9 DEF StopControlReader, Exclusive
<1>10. CASE UNCHANGED <<rpc, mySlot>>  BY <1>10 DEF Exclusive
<1>11. ASSUME NEW r \in Readers, DrainReader(r) PROVE UNCHANGED <<rpc, mySlot>>
  BY <1>11 DEF DrainReader
<1>12. ASSUME WriterStep \/ DrainWriter \/ Destroy \/ Terminated
       PROVE  UNCHANGED <<rpc, mySlot>>
  BY <1>12, WriterFrame
<1> QED
  BY <1>1, <1>2, <1>3, <1>4, <1>5, <1>6, <1>7, <1>8, <1>9, <1>10, <1>11, <1>12
  DEF Next, ReaderStep

\* Each reader's own stores: what is in flight and what has reached its slot.
LEMMA BuffersStep == ASSUME TypeOK, Claims, Exclusive, Buffers, Next PROVE Buffers'
<1> USE DomainAssumption
    DEF TypeOK, Readers, Slots, Goto, Uses, Occupies, kQuiescent, Store,
        memVars, readerVars, writerVars, heapVars
<1> DEFINE Same(q) == /\ rpc'[q] = rpc[q] /\ mySlot'[q] = mySlot[q] /\ myEpoch'[q] = myEpoch[q]
                      /\ buffer'[q] = buffer[q]
<1>0. ASSUME NEW q \in Readers, Same(q), slotEpoch' = slotEpoch PROVE BufferOK(q)'
  BY <1>0, Zenon DEF Buffers, BufferOK
<1>1. ASSUME NEW r \in Readers, ClaimFree(r) PROVE Buffers'
  <2>1. slotEpoch' = slotEpoch /\ \A q \in Readers \ {r} : Same(q)
    BY <1>1 DEF ClaimFree, Claim
  <2>2. BufferOK(r)'  BY <1>1 DEF ClaimFree, Claim, Buffers, BufferOK, Claims, OwnSlots
  <2> QED BY <1>0, <2>1, <2>2, Zenon DEF Buffers
<1>2. ASSUME NEW r \in Readers, SkipUsed(r) PROVE Buffers'
  <2>1. slotEpoch' = slotEpoch /\ \A q \in Readers \ {r} : Same(q)
    BY <1>2 DEF SkipUsed
  <2>2. BufferOK(r)'  BY <1>2 DEF SkipUsed, Buffers, BufferOK
  <2> QED BY <1>0, <2>1, <2>2, Zenon DEF Buffers
<1>3. ASSUME NEW r \in Readers, GiveUp(r) PROVE Buffers'
  <2>1. slotEpoch' = slotEpoch /\ \A q \in Readers \ {r} : Same(q)
    BY <1>3 DEF GiveUp
  <2>2. BufferOK(r)'  BY <1>3 DEF GiveUp, Buffers, BufferOK, Claims, OwnSlots
  <2> QED BY <1>0, <2>1, <2>2, Zenon DEF Buffers
<1>4. ASSUME NEW r \in Readers, EnterEpoch(r) PROVE Buffers'
  <2>1. slotEpoch' = slotEpoch /\ \A q \in Readers \ {r} : Same(q)
    BY <1>4 DEF EnterEpoch
  <2>2. PICK e \in myEpoch[r] .. globalEpoch :
          buffer' = [buffer EXCEPT ![r] = Append(@, e)] /\ myEpoch' = [myEpoch EXCEPT ![r] = e]
    BY <1>4, Zenon DEF EnterEpoch
  <2>3. e \in Nat  BY <2>2
  <2>4. buffer[r] \in {<<>>, <<0>>}  BY <1>4 DEF EnterEpoch, Buffers, BufferOK
  <2>a. Append(<<>>, e) = <<e>> /\ Append(<<0>>, e) = <<0, e>>  BY <2>3, EnterEnds, Zenon
  <2>5. Append(buffer[r], e) \in {<<e>>, <<0, e>>}  BY <2>4, <2>a, Zenon
  <2>6. buffer'[r] \in {<<e>>, <<0, e>>} /\ myEpoch'[r] = e /\ rpc'[r] = "entering"
    BY <1>4, <2>2, <2>5 DEF EnterEpoch
  <2>7. <<e>> # <<>> /\ <<0, e>> # <<>>  BY <2>3, BufferEnds
  <2>8. BufferOK(r)'  BY <2>6, <2>7, Zenon DEF BufferOK
  <2> QED BY <1>0, <2>1, <2>8, Zenon DEF Buffers
<1>5. ASSUME NEW r \in Readers, LoadCurrent(r) PROVE Buffers'
  <2>1. slotEpoch' = slotEpoch /\ \A q \in Readers \ {r} : Same(q)
    BY <1>5 DEF LoadCurrent, TakeGuard
  <2>2. BufferOK(r)'  BY <1>5, Zenon DEF LoadCurrent, TakeGuard, Buffers, BufferOK
  <2> QED BY <1>0, <2>1, <2>2, Zenon DEF Buffers
<1>6. ASSUME NEW r \in Readers, Leave(r) PROVE Buffers'
  <2>1. slotEpoch' = slotEpoch /\ \A q \in Readers \ {r} : Same(q)
    BY <1>6 DEF Leave, DropGuard
  <2>2. buffer'[r] = <<0>> /\ rpc'[r] = "idle"
    BY <1>6, BufferEnds, Zenon DEF Leave, DropGuard, Buffers, BufferOK
  <2>3. BufferOK(r)'  BY <2>2 DEF BufferOK
  <2> QED BY <1>0, <2>1, <2>3, Zenon DEF Buffers
<1>7. ASSUME NEW r \in Readers, Unregister(r) PROVE Buffers'
  <2>1. slotEpoch' = slotEpoch /\ \A q \in Readers \ {r} : Same(q)
    BY <1>7 DEF Unregister
  <2>2. buffer'[r] \in {<<0>>, <<0, 0>>} /\ rpc'[r] = "leaving"
    <3>1. buffer[r] \in {<<>>, <<0>>}  BY <1>7 DEF Unregister, Buffers, BufferOK
    <3>2. Append(buffer[r], 0) \in {<<0>>, <<0, 0>>}  BY <3>1, BufferEnds, ZenonT(30)
    <3> QED BY <1>7, <3>2 DEF Unregister
  <2>3. BufferOK(r)'  BY <2>2 DEF BufferOK
  <2> QED BY <1>0, <2>1, <2>3, Zenon DEF Buffers
<1>8. ASSUME NEW r \in Readers, Unclaim(r) PROVE Buffers'
  <2>1. slotEpoch' = slotEpoch /\ \A q \in Readers \ {r} : Same(q)
    BY <1>8 DEF Unclaim, ReleaseSlot
  <2>2. BufferOK(r)'  BY <1>8 DEF Unclaim, ReleaseSlot, BufferOK
  <2> QED BY <1>0, <2>1, <2>2, Zenon DEF Buffers
<1>9. ASSUME NEW r \in Readers, StopControlReader(r) PROVE Buffers'
  <2>1. slotEpoch' = slotEpoch /\ \A q \in Readers \ {r} : Same(q)
    BY <1>9 DEF StopControlReader
  <2>2. BufferOK(r)'  BY <1>9 DEF StopControlReader, Buffers, BufferOK
  <2> QED BY <1>0, <2>1, <2>2, Zenon DEF Buffers
<1>10. ASSUME NEW r \in Readers, DrainReader(r) PROVE Buffers'
  <2>0. BufferOK(r) /\ buffer[r] # <<>> /\ rpc[r] \in ReaderPcs /\ myEpoch[r] \in Nat
    BY <1>10 DEF DrainReader, Buffers
  <2>a. Uses(r)  BY <2>0, Zenon DEF BufferOK
  <2>b. mySlot[r] \in Slots  BY <2>a, SlotInRange, Zenon
  <2>c. rpc[r] # "registering"  BY <2>a, Zenon DEF Claims, OwnSlots
  <2>1. Uses(r) /\ mySlot[r] \in Slots /\ rpc[r] # "registering"  BY <2>a, <2>b, <2>c, Zenon
  <2>2. ASSUME NEW q \in Readers, q # r PROVE BufferOK(q)'
    <3>1. Same(q)  BY <1>10, <2>2 DEF DrainReader
    <3>2. Uses(q) => mySlot[q] # mySlot[r]  BY <2>1, <2>2 DEF Exclusive
    <3>3. rpc[q] \in {"entering", "holding"} => slotEpoch'[mySlot[q]] = slotEpoch[mySlot[q]]
      BY <1>10, <3>2 DEF DrainReader
    <3> QED BY <3>1, <3>3, Zenon DEF Buffers, BufferOK
  <2>3. BufferOK(r)'
    <3>1. /\ rpc'[r] = rpc[r] /\ mySlot'[r] = mySlot[r] /\ myEpoch'[r] = myEpoch[r]
          /\ buffer'[r] = Tail(buffer[r]) /\ slotEpoch'[mySlot[r]] = Head(buffer[r])
      BY <1>10, <2>1 DEF DrainReader
    <3>2. CASE rpc[r] \in {"idle", "done"}
      <4>1. buffer'[r] = <<>>  BY <2>0, <3>1, <3>2, ZeroEnds, ZenonT(30) DEF BufferOK
      <4> QED BY <3>1, <3>2, <4>1, Zenon DEF BufferOK
    <3>3. CASE rpc[r] = "leaving"
      <4>1. buffer'[r] \in {<<>>, <<0>>}  BY <2>0, <3>1, <3>3, ZeroEnds, Zenon DEF BufferOK
      <4> QED BY <3>1, <3>3, <4>1 DEF BufferOK
    <3>4. CASE rpc[r] = "entering"
      <4>1. CASE buffer[r] = <<myEpoch[r]>>
        <5>1. buffer'[r] = <<>> /\ slotEpoch'[mySlot[r]] = myEpoch[r]
          BY <2>0, <3>1, <4>1, BufferEnds
        <5> QED BY <3>1, <3>4, <5>1, Zenon DEF BufferOK
      <4>2. CASE buffer[r] = <<0, myEpoch[r]>>
        <5>1. buffer'[r] = <<myEpoch[r]>> /\ buffer'[r] # <<>>  BY <2>0, <3>1, <4>2, BufferEnds
        <5> QED BY <3>1, <3>4, <5>1, Zenon DEF BufferOK
      <4> QED BY <2>0, <3>4, <4>1, <4>2 DEF BufferOK
    <3> QED BY <2>0, <2>1, <3>2, <3>3, <3>4 DEF BufferOK, ReaderPcs
  <2> QED BY <2>2, <2>3 DEF Buffers
<1>11. ASSUME WriterStep \/ DrainWriter \/ Destroy \/ Terminated PROVE Buffers'
  BY <1>0, <1>11, WriterFrame, Zenon DEF Buffers
<1> QED
  BY <1>1, <1>2, <1>3, <1>4, <1>5, <1>6, <1>7, <1>8, <1>9, <1>10, <1>11 DEF Next, ReaderStep

\* A slot that looks busy belongs to a thread that is in a read section or has
\* stores on the way.
LEMMA CulpritsStep == ASSUME TypeOK, Claims, Exclusive, Buffers, Culprits, Next PROVE Culprits'
<1> USE DomainAssumption DEF TypeOK, Readers, Goto, Uses, Occupies, kQuiescent, Store,
      memVars, readerVars, writerVars, heapVars
<1> DEFINE Guilty(r, s) == /\ Uses(r) /\ mySlot[r] = s
                           /\ rpc[r] \in {"entering", "holding"} \/ buffer[r] # <<>>
<1>0. ASSUME slotEpoch' = slotEpoch,
             \A r \in Readers : \A s \in Slots : Guilty(r, s) => Guilty(r, s)'
      PROVE  Culprits'
  <2> SUFFICES ASSUME NEW s \in Slots, slotEpoch'[s] # kQuiescent
               PROVE  \E r \in Readers : Guilty(r, s)'
    BY DEF Culprits
  <2>1. PICK r \in Readers : Guilty(r, s)  BY <1>0 DEF Culprits
  <2> QED BY <1>0, <2>1, Zenon
<1>1. ASSUME NEW r \in Readers, ClaimFree(r) PROVE Culprits'
  BY <1>0, <1>1 DEF ClaimFree, Claim
<1>2. ASSUME NEW r \in Readers, SkipUsed(r) PROVE Culprits'
  <2>1. ~Uses(r)  BY <1>2, Zenon DEF SkipUsed, Claims, OwnSlots
  <2> QED BY <1>0, <1>2, <2>1 DEF SkipUsed
<1>3. ASSUME NEW r \in Readers, GiveUp(r) PROVE Culprits'
  BY <1>0, <1>3 DEF GiveUp, Claims, OwnSlots
<1>4. ASSUME NEW r \in Readers, EnterEpoch(r) PROVE Culprits'
  BY <1>0, <1>4 DEF EnterEpoch
<1>5. ASSUME NEW r \in Readers, LoadCurrent(r) PROVE Culprits'
  BY <1>0, <1>5 DEF LoadCurrent, TakeGuard
<1>6. ASSUME NEW r \in Readers, Leave(r) PROVE Culprits'
  <2>1. buffer'[r] = Append(buffer[r], 0) /\ buffer[r] \in Seq(Nat)  BY <1>6 DEF Leave
  <2>2. Append(buffer[r], 0) # <<>>  BY <2>1, AppendNotEmpty, Zenon
  <2> QED BY <1>0, <1>6, <2>1, <2>2 DEF Leave, DropGuard
<1>7. ASSUME NEW r \in Readers, Unregister(r) PROVE Culprits'
  <2>1. buffer'[r] = Append(buffer[r], 0) /\ buffer[r] \in Seq(Nat)  BY <1>7 DEF Unregister
  <2>2. Append(buffer[r], 0) # <<>>  BY <2>1, AppendNotEmpty, Zenon
  <2> QED BY <1>0, <1>7, <2>1, <2>2 DEF Unregister
<1>8. ASSUME NEW r \in Readers, Unclaim(r) PROVE Culprits'
  BY <1>0, <1>8 DEF Unclaim, ReleaseSlot
<1>9. ASSUME NEW r \in Readers, StopControlReader(r) PROVE Culprits'
  BY <1>0, <1>9 DEF StopControlReader
<1>10. ASSUME NEW r \in Readers, DrainReader(r) PROVE Culprits'
  <2>0. BufferOK(r) /\ buffer[r] # <<>> /\ rpc[r] \in ReaderPcs
    BY <1>10 DEF DrainReader, Buffers
  <2>a. Uses(r)  BY <2>0, Zenon DEF BufferOK
  <2>b. mySlot[r] \in Slots  BY <2>a, SlotInRange, Zenon
  <2>c. rpc[r] # "registering"  BY <2>a, Zenon DEF Claims, OwnSlots
  <2>1. Uses(r) /\ mySlot[r] \in Slots /\ rpc[r] # "registering"  BY <2>a, <2>b, <2>c, Zenon
  <2>2. ASSUME NEW s \in Slots, s # mySlot[r], slotEpoch'[s] # kQuiescent
        PROVE  \E q \in Readers : Guilty(q, s)'
    <3>1. slotEpoch[s] # kQuiescent  BY <1>10, <2>2 DEF DrainReader
    <3>2. PICK q \in Readers : Guilty(q, s)  BY <3>1 DEF Culprits
    <3>3. q # r  BY <2>2, <3>2
    <3> QED BY <1>10, <3>2, <3>3 DEF DrainReader
  <2>3. ASSUME slotEpoch'[mySlot[r]] # kQuiescent PROVE Guilty(r, mySlot[r])'
    <3>1. Head(buffer[r]) # 0  BY <1>10, <2>1, <2>3 DEF DrainReader
    <3>2. rpc[r] = "entering"
      BY <2>0, <2>1, <3>1, ZeroEnds DEF BufferOK, ReaderPcs
    <3> QED BY <1>10, <3>2 DEF DrainReader
  <2>4. ASSUME NEW s \in Slots, slotEpoch'[s] # kQuiescent PROVE \E q \in Readers : Guilty(q, s)'
    <3>1. CASE s = mySlot[r]  BY <1>10, <2>3, <2>4, <3>1, Zenon DEF DrainReader
    <3>2. CASE s # mySlot[r]  BY <2>2, <2>4, <3>2, Zenon
    <3> QED BY <3>1, <3>2
  <2> QED BY <2>4 DEF Culprits
<1>11. ASSUME WriterStep \/ DrainWriter \/ Destroy \/ Terminated PROVE Culprits'
  BY <1>0, <1>11, WriterFrame
<1> QED
  BY <1>1, <1>2, <1>3, <1>4, <1>5, <1>6, <1>7, <1>8, <1>9, <1>10, <1>11 DEF Next, ReaderStep

-----------------------------------------------------------------------------
\* The reloading thread's stores reach memory pointer first, one publication
\* at a time.
LEMMA StoresStep == ASSUME TypeOK, Stores, Next PROVE Stores'
<1> USE DomainAssumption DEF TypeOK, Readers, Snapshots, Goto,
      memVars, readerVars, writerVars, heapVars
<1>1. ASSUME NEW r \in Readers, ReaderStep(r) \/ DrainReader(r) PROVE Stores'
  <2>1. UNCHANGED <<current, globalEpoch, writerVars>>
    BY <1>1, ZenonT(30) DEF ReaderStep, DrainReader, ClaimFree, Claim, SkipUsed, GiveUp, EnterEpoch, LoadCurrent,
       TakeGuard, Leave, DropGuard, Unregister, Unclaim, ReleaseSlot, StopControlReader
  <2>2. wpc = "destroyed" => rpc' = rpc
    BY <1>1 DEF Stores, ReaderStep, DrainReader, ClaimFree, Claim, SkipUsed, GiveUp, EnterEpoch,
       LoadCurrent, TakeGuard, Leave, DropGuard, Unregister, Unclaim, ReleaseSlot,
       StopControlReader
  <2> QED BY <2>1, <2>2 DEF Stores
<1>2. CASE Publish
  <2>1. writes = <<>> /\ current = newest /\ globalEpoch = newest + 1
    BY <1>2 DEF Publish, PublishInOrder, Stores
  <2>2. writes' = <<"current", "epoch">>
    <3>1. <<>> \o <<"current", "epoch">> = <<"current", "epoch">>  OBVIOUS
    <3> QED BY <1>2, <2>1, <3>1 DEF Publish, PublishInOrder
  <2> QED BY <1>2, <2>1, <2>2, WriteEnds DEF Publish, PublishInOrder, Stores
<1>3. CASE DrainWriter
  <2>1. CASE writes = <<"epoch">>
    <3>1. writes' = <<>> /\ current' = current /\ globalEpoch' = ownEpoch
      BY <1>3, <2>1, WriteEnds DEF DrainWriter
    <3> QED BY <1>3, <2>1, <3>1, WriteEnds DEF DrainWriter, Stores
  <2>2. CASE writes = <<"current", "epoch">>
    <3>1. writes' = <<"epoch">> /\ current' = newest /\ globalEpoch' = globalEpoch
      BY <1>3, <2>2, WriteEnds DEF DrainWriter
    <3> QED BY <1>3, <2>2, <3>1, WriteEnds DEF DrainWriter, Stores
  <2> QED BY <1>3, <2>1, <2>2 DEF DrainWriter
<1>4. CASE SyncFence  BY <1>4 DEF SyncFence, StartScan, Stores
<1>5. CASE NextSlot  BY <1>5 DEF NextSlot, Stores
<1>6. CASE SyncTimeout  BY <1>6 DEF SyncTimeout, Blocked, EndSwap, Stores
<1>7. CASE Reclaim  BY <1>7 DEF Reclaim, AllPassed, EndSwap, Stores
<1>8. CASE Destroy  BY <1>8 DEF Destroy, Stores
<1>9. CASE Terminated  BY <1>9 DEF Terminated, vars, Stores
<1> QED
  BY <1>1, <1>2, <1>3, <1>4, <1>5, <1>6, <1>7, <1>8, <1>9 DEF Next, WriterStep

\* A guard is on a snapshot at most one epoch behind the announced one.
LEMMA EpochsStep == ASSUME TypeOK, Stores, Epochs, Next PROVE Epochs'
<1> USE DomainAssumption DEF TypeOK, Readers, Snapshots, Goto,
      memVars, readerVars, writerVars, heapVars
<1>0. globalEpoch <= current + 1  BY DEF Stores
<1>1. ASSUME NEW r \in Readers, EnterEpoch(r) PROVE Epochs'
  <2>1. PICK e \in myEpoch[r] .. globalEpoch : myEpoch' = [myEpoch EXCEPT ![r] = e]
    BY <1>1, Zenon DEF EnterEpoch
  <2> QED BY <1>1, <2>1 DEF EnterEpoch, Epochs
<1>2. ASSUME NEW r \in Readers, LoadCurrent(r) PROVE Epochs'
  <2>1. /\ UNCHANGED <<current, globalEpoch, myEpoch>>
        /\ rpc' = [rpc EXCEPT ![r] = "holding"] /\ held' = [held EXCEPT ![r] = current]
    BY <1>2, Zenon DEF LoadCurrent, TakeGuard
  <2> SUFFICES ASSUME NEW q \in Readers
               PROVE  /\ myEpoch[q] <= globalEpoch
                      /\ IF rpc'[q] = "holding"
                           THEN held'[q] # 0 /\ held'[q] <= current /\ myEpoch[q] <= held'[q] + 1
                           ELSE held'[q] = 0
    BY <2>1, Zenon DEF Epochs
  <2>2. CASE q = r
    <3>1. rpc'[r] = "holding" /\ held'[r] = current  BY <2>1, Zenon
    <3>2. myEpoch[r] <= globalEpoch /\ myEpoch[r] \in Nat /\ current \in Nat \ {0}  BY DEF Epochs
    <3> QED BY <1>0, <2>2, <3>1, <3>2
  <2>3. CASE q # r
    <3>1. rpc'[q] = rpc[q] /\ held'[q] = held[q]  BY <2>1, <2>3, Zenon
    <3> QED BY <3>1, Zenon DEF Epochs
  <2> QED BY <2>2, <2>3, Zenon
<1>3. ASSUME NEW r \in Readers, Leave(r) PROVE Epochs'
  BY <1>3 DEF Leave, DropGuard, Epochs
<1>4. ASSUME UNCHANGED <<current, globalEpoch, myEpoch, held>>,
             \A r \in Readers : rpc'[r] = "holding" <=> rpc[r] = "holding"
      PROVE  Epochs'
  BY <1>4 DEF Epochs
<1>5. ASSUME NEW r \in Readers,
             \/ ClaimFree(r) \/ SkipUsed(r) \/ GiveUp(r) \/ Unregister(r) \/ Unclaim(r)
             \/ StopControlReader(r) \/ DrainReader(r)
      PROVE  Epochs'
  BY <1>4, <1>5, Zenon DEF ClaimFree, Claim, SkipUsed, GiveUp, Unregister, Unclaim, ReleaseSlot,
     StopControlReader, DrainReader
<1>6. CASE DrainWriter
  <2>1. UNCHANGED <<rpc, myEpoch, held>>  BY <1>6, WriterFrame
  <2>2. current' >= current /\ globalEpoch' >= globalEpoch
    BY <1>6, WriteEnds DEF DrainWriter, Stores
  <2>3. current' \in Nat /\ globalEpoch' \in Nat  BY <1>6 DEF DrainWriter
  <2> QED BY <2>1, <2>2, <2>3 DEF Epochs
<1>7. ASSUME WriterStep \/ Destroy \/ Terminated PROVE Epochs'
  <2>1. UNCHANGED <<current, globalEpoch>>
    BY <1>7 DEF WriterStep, Publish, PublishInOrder, SyncFence, StartScan, NextSlot, SyncTimeout,
       Reclaim, EndSwap, Destroy, Terminated, vars
  <2> QED BY <1>4, <1>7, <2>1, WriterFrame
<1> QED BY <1>1, <1>2, <1>3, <1>5, <1>6, <1>7 DEF Next, ReaderStep

\* The grace period.  The scan passes a slot only if a reader in it announced
\* the new epoch, and a guard taken during the scan is on the new snapshot.
LEMMA GraceStep == ASSUME TypeOK, Buffers, Epochs, Stores, Grace, Next PROVE Grace'
<1> USE DomainAssumption DEF TypeOK, Readers, Snapshots, Goto,
      memVars, readerVars, writerVars, heapVars
<1>1. ASSUME NEW r \in Readers, LoadCurrent(r) PROVE Grace'
  BY <1>1 DEF LoadCurrent, TakeGuard, Grace, Stores
<1>2. ASSUME NEW r \in Readers, SkipUsed(r) PROVE Grace'
  BY <1>2 DEF SkipUsed, Grace
<1>3. ASSUME UNCHANGED <<wpc, idx, newest, mySlot>>,
             \A r \in Readers : rpc'[r] = "holding" => rpc[r] = "holding" /\ held'[r] = held[r]
      PROVE  Grace'
  BY <1>3 DEF Grace
<1>4. ASSUME NEW r \in Readers,
             \/ ClaimFree(r) \/ GiveUp(r) \/ EnterEpoch(r) \/ Leave(r) \/ Unregister(r)
             \/ Unclaim(r) \/ StopControlReader(r) \/ DrainReader(r)
      PROVE  Grace'
  BY <1>3, <1>4, Zenon DEF ClaimFree, Claim, GiveUp, EnterEpoch, Leave, DropGuard, Unregister, Unclaim,
     ReleaseSlot, StopControlReader, DrainReader
<1>5. CASE NextSlot
  <2> SUFFICES ASSUME NEW r \in Readers, rpc[r] = "holding", mySlot[r] = idx
               PROVE  held[r] = newest
    BY <1>5, WriterFrame DEF WriterStep, NextSlot, Grace
  <2>1. slotEpoch[idx] = myEpoch[r] /\ myEpoch[r] # kQuiescent
    BY DEF Buffers, BufferOK, kQuiescent
  <2>2. myEpoch[r] >= newest + 1 /\ current = newest
    BY <1>5, <2>1 DEF NextSlot, Passed, Stores
  <2> QED BY <2>2 DEF Epochs
<1>6. CASE SyncFence
  <2>1. idx = 0  BY <1>6 DEF SyncFence, StartScan, Stores
  <2> QED BY <1>6, <2>1, WriterFrame DEF WriterStep, SyncFence, StartScan, Grace
<1>7. CASE DrainWriter  BY <1>3, <1>7 DEF DrainWriter
<1>8. ASSUME Publish \/ SyncTimeout \/ Reclaim \/ Destroy PROVE Grace'
  BY <1>8 DEF Publish, PublishInOrder, SyncTimeout, Reclaim, EndSwap, Destroy, Grace
<1>9. CASE Terminated  BY <1>3, <1>9 DEF Terminated, vars
<1> QED BY <1>1, <1>2, <1>4, <1>5, <1>6, <1>7, <1>8, <1>9 DEF Next, ReaderStep, WriterStep

\* Deletion: swap_and_reclaim() deletes the snapshot it replaced and the parked
\* ones, each of them for the first time.
LEMMA HeapStep == ASSUME TypeOK, Stores, Heap, Next PROVE Heap'
<1> USE DomainAssumption DEF TypeOK, Snapshots, Busy, memVars, readerVars, writerVars, heapVars
<1>1. ASSUME UNCHANGED <<wpc, newest, old, quiesced, retired, frees>> PROVE Heap'
  BY <1>1 DEF Heap
<1>2. ASSUME NEW r \in Readers, ReaderStep(r) \/ DrainReader(r) PROVE Heap'
  BY <1>1, <1>2, Zenon DEF ReaderStep, DrainReader, ClaimFree, Claim, SkipUsed, GiveUp, EnterEpoch,
     LoadCurrent, TakeGuard, Leave, DropGuard, Unregister, Unclaim, ReleaseSlot, StopControlReader
<1>3. CASE Publish  BY <1>3 DEF Publish, PublishInOrder, Heap
<1>4. CASE DrainWriter  BY <1>1, <1>4 DEF DrainWriter
<1>5. CASE SyncFence  BY <1>5 DEF SyncFence, StartScan, Heap
<1>6. CASE NextSlot  BY <1>1, <1>6 DEF NextSlot
<1>7. CASE SyncTimeout
  <2>1. EndSwap(FALSE) /\ retired' = retired \cup {old} /\ frees' = frees /\ Busy
    BY <1>7, Zenon DEF SyncTimeout, Blocked
  <2>2. ~quiesced' /\ wpc' = "idle" /\ newest' = newest  BY <2>1 DEF EndSwap
  <2> QED BY <2>1, <2>2 DEF Heap, Stores
<1>8. CASE Reclaim
  <2>1. /\ wpc = "scanning" /\ wpc' = "idle" /\ newest' = newest /\ retired' = {}
        /\ frees' = [n \in Snapshots |-> IF n \in {old} \cup retired THEN frees[n] + 1 ELSE frees[n]]
    BY <1>8 DEF Reclaim, AllPassed, EndSwap, Delete
  <2> QED BY <2>1 DEF Heap, Stores
<1>9. CASE Destroy
  <2>1. /\ wpc = "idle" /\ wpc' = "destroyed" /\ newest' = newest /\ retired' = retired
        /\ current = newest
        /\ frees' = [n \in Snapshots |-> IF n \in {current} \cup retired THEN frees[n] + 1 ELSE frees[n]]
    BY <1>9 DEF Destroy, Delete, Stores
  <2> QED BY <2>1 DEF Heap
<1>10. CASE Terminated  BY <1>1, <1>10 DEF Terminated, vars
<1> QED
  BY <1>2, <1>3, <1>4, <1>5, <1>6, <1>7, <1>8, <1>9, <1>10 DEF Next, WriterStep

\* No deletion reaches a guard: the grace period moved every guard to the new
\* snapshot, and the snapshot a guard is taken on has not been deleted.
LEMMA UseStep ==
  ASSUME TypeOK, Claims, Stores, Grace, Heap, NoUseAfterFree, Next PROVE NoUseAfterFree'
<1> USE DomainAssumption DEF TypeOK, Readers, Snapshots, Goto,
      memVars, readerVars, writerVars, heapVars
<1>1. ASSUME NEW r \in Readers, LoadCurrent(r) PROVE NoUseAfterFree'
  <2>1. frees[current] = 0
    BY <1>1 DEF LoadCurrent, TakeGuard, Stores, Heap, Busy
  <2> QED BY <1>1, <2>1 DEF LoadCurrent, TakeGuard, NoUseAfterFree
<1>2. ASSUME frees' = frees,
             \A r \in Readers : rpc'[r] = "holding" => rpc[r] = "holding" /\ held'[r] = held[r]
      PROVE  NoUseAfterFree'
  BY <1>2, Zenon DEF NoUseAfterFree
<1>3. ASSUME NEW r \in Readers,
             \/ ClaimFree(r) \/ SkipUsed(r) \/ GiveUp(r) \/ EnterEpoch(r) \/ Leave(r)
             \/ Unregister(r) \/ Unclaim(r) \/ StopControlReader(r) \/ DrainReader(r)
      PROVE  NoUseAfterFree'
  BY <1>2, <1>3, Zenon DEF ClaimFree, Claim, SkipUsed, GiveUp, EnterEpoch, Leave, DropGuard, Unregister,
     Unclaim, ReleaseSlot, StopControlReader, DrainReader
<1>4. CASE Reclaim
  <2> SUFFICES ASSUME NEW r \in Readers, rpc[r] = "holding" PROVE frees'[held[r]] = 0
    BY <1>4, WriterFrame DEF WriterStep, NoUseAfterFree
  <2>1. Uses(r)  BY DEF Uses, Occupies
  <2>a. mySlot[r] \in Slots  BY <2>1, SlotInRange
  <2>2. mySlot[r] < MaxReaders  BY <2>a DEF Slots
  <2>3. held[r] = newest  BY <1>4, <2>2 DEF Reclaim, AllPassed, Grace
  <2>4. newest \notin {old} \cup retired  BY <1>4 DEF Reclaim, AllPassed, Stores, Heap
  <2> QED BY <1>4, <2>3, <2>4 DEF Reclaim, Delete, NoUseAfterFree
<1>5. CASE Destroy
  <2>1. \A r \in Readers : rpc'[r] = "done"  BY <1>5 DEF Destroy
  <2> QED BY <2>1 DEF NoUseAfterFree
<1>6. ASSUME Publish \/ DrainWriter \/ SyncFence \/ NextSlot \/ SyncTimeout \/ Terminated
      PROVE  NoUseAfterFree'
  <2>1. frees' = frees
    BY <1>6, Zenon DEF Publish, PublishInOrder, DrainWriter, SyncFence, StartScan, NextSlot, SyncTimeout,
       Terminated, vars
  <2> QED BY <1>2, <1>6, <2>1, WriterFrame DEF WriterStep
<1> QED BY <1>1, <1>3, <1>4, <1>5, <1>6 DEF Next, ReaderStep, WriterStep

-----------------------------------------------------------------------------
\* What the abstract cell sees of the domain.
Live  == IF wpc = "destroyed" THEN 0 ELSE current
Freed == {n \in Snapshots : frees[n] > 0}

\* Every step of the domain is a step of the abstract cell or leaves it alone.
LEMMA CellStep ==
  ASSUME TypeOK, Epochs, Stores, Heap, TypeOK', Heap', NoUseAfterFree', [Next]_vars
  PROVE  [Cell!CellNext]_(Cell!cellVars)
<1> USE DEF Goto, Live, Freed, memVars, readerVars, writerVars, heapVars, Cell!cellVars
<1>t. /\ current \in Nat \ {0} /\ newest \in Nat \ {0} /\ DOMAIN held = Readers
      /\ held = [r \in Readers |-> held[r]] /\ \A r \in Readers : held[r] \in Nat
      /\ frees \in [Snapshots -> Nat] /\ frees' \in [Snapshots -> Nat]
      /\ \A n \in 1 .. newest : n \in Snapshots
  <2>1. current \in Nat \ {0} /\ newest \in Nat \ {0} /\ \A n \in 1 .. newest : n \in Snapshots
    BY DomainAssumption DEF TypeOK, Snapshots
  <2>2. held \in [Readers -> Snapshots \cup {0}]  BY DEF TypeOK
  <2>3. DOMAIN held = Readers /\ held = [r \in Readers |-> held[r]]  BY <2>2, Zenon
  <2>4. \A r \in Readers : held[r] \in Nat  BY <2>2, DomainAssumption DEF Snapshots
  <2>5. frees \in [Snapshots -> Nat] /\ frees' \in [Snapshots -> Nat]  BY DEF TypeOK
  <2> QED BY <2>1, <2>3, <2>4, <2>5
<1>1. ASSUME UNCHANGED <<current, held, frees>>, wpc' = "destroyed" <=> wpc = "destroyed"
      PROVE  UNCHANGED Cell!cellVars
  BY <1>1
<1>2. ASSUME NEW r \in Readers, LoadCurrent(r) PROVE Cell!CellAcquire(r)
  <2>1. /\ rpc[r] = "entering" /\ held' = [held EXCEPT ![r] = current]
        /\ UNCHANGED <<wpc, current, frees>>
    BY <1>2, Zenon DEF LoadCurrent, TakeGuard
  <2>2. wpc # "destroyed" /\ current # 0  BY <1>t, <2>1 DEF Stores
  <2>3. held[r] = 0  BY <2>1 DEF Epochs
  <2> QED BY <2>1, <2>2, <2>3, Zenon DEF Cell!CellAcquire
<1>3. ASSUME NEW r \in Readers, Leave(r) PROVE Cell!CellRelease(r)
  BY <1>t, <1>3 DEF Leave, DropGuard, Epochs, Cell!CellRelease
<1>4. ASSUME NEW r \in Readers,
             \/ ClaimFree(r) \/ SkipUsed(r) \/ GiveUp(r) \/ EnterEpoch(r) \/ Unregister(r)
             \/ Unclaim(r) \/ StopControlReader(r) \/ DrainReader(r)
      PROVE  UNCHANGED Cell!cellVars
  BY <1>1, <1>4, Zenon DEF ClaimFree, Claim, SkipUsed, GiveUp, EnterEpoch, Unregister, Unclaim,
     ReleaseSlot, StopControlReader, DrainReader
<1>5. CASE DrainWriter
  <2>1. wpc = "published" /\ wpc' = wpc /\ held' = held /\ frees' = frees
    BY <1>5 DEF DrainWriter, Stores
  <2>2. current' = current + 1 \/ current' = current
    BY <1>t, <1>5, WriteEnds DEF DrainWriter, Stores, TypeOK
  <2> QED BY <1>t, <2>1, <2>2 DEF Cell!CellNext, Cell!CellPublish
<1>6. CASE Reclaim
  <2> DEFINE S == {old} \cup retired
  <2>1. /\ wpc = "scanning" /\ wpc' = "idle" /\ UNCHANGED <<current, held>>
        /\ frees' = [n \in Snapshots |-> IF n \in S THEN frees[n] + 1 ELSE frees[n]]
    BY <1>6 DEF Reclaim, AllPassed, EndSwap, Delete
  <2>2. current = newest /\ S \subseteq 1 .. newest - 1 /\ \A n \in S : frees[n] = 0
    <3>1. current = newest /\ old = newest - 1 /\ old # 0 /\ old \in Nat /\ Busy
      BY <1>t, <2>1 DEF Stores, Busy
    <3>2. S \subseteq 1 .. newest - 1  BY <1>t, <3>1 DEF Heap
    <3>3. ASSUME NEW n \in S PROVE frees[n] = 0
      <4>1. n \in Snapshots  BY <1>t, <3>2
      <4> QED BY <2>1, <3>1, <4>1 DEF Heap
    <3> QED BY <3>1, <3>2, <3>3
  <2>3. S \in SUBSET ((1 .. (Live - 1)) \ Freed)  BY <2>1, <2>2
  <2>4. Freed' = Freed \cup S
    <3>1. ASSUME NEW n \in Snapshots PROVE frees'[n] > 0 <=> frees[n] > 0 \/ n \in S
      BY <1>t, <2>1, <2>2, <3>1
    <3>2. S \subseteq Snapshots  BY <1>t, <2>2
    <3> QED BY <3>1, <3>2, Zenon
  <2>5. ASSUME NEW r \in Readers PROVE held[r] \notin S
    <3>1. CASE rpc[r] = "holding"
      <4>1. frees'[held[r]] = 0
        BY <1>6, <3>1, WriterFrame, Zenon DEF NoUseAfterFree, WriterStep
      <4> SUFFICES ASSUME held[r] \in S PROVE FALSE  OBVIOUS
      <4>2. held[r] \in 1 .. newest - 1 /\ frees[held[r]] = 0  BY <2>2, Zenon
      <4>3. held[r] \in Snapshots  BY <1>t, <4>2
      <4>4. frees'[held[r]] = frees[held[r]] + 1  BY <2>1, <4>3, Zenon
      <4> QED BY <4>1, <4>2, <4>4
    <3>2. CASE rpc[r] # "holding"  BY <1>t, <2>2, <3>2 DEF Epochs
    <3> QED BY <3>1, <3>2
  <2> HIDE DEF S
  <2>6. \E T \in SUBSET ((1 .. (Live - 1)) \ Freed) : Cell!CellReclaim(T)
    BY <2>1, <2>3, <2>4, <2>5, Zenon DEF Cell!CellReclaim
  <2> QED BY <2>6 DEF Cell!CellNext
<1>7. CASE Destroy
  <2>1. /\ wpc = "idle" /\ wpc' = "destroyed" /\ UNCHANGED <<current, newest, held>>
        /\ \A r \in Readers : rpc[r] = "done"
    BY <1>7 DEF Destroy
  <2>2. \A r \in Readers : held[r] = 0  BY <2>1 DEF Epochs
  <2>3. current = newest /\ current \in Snapshots  BY <1>t, <2>1 DEF Stores
  <2>4. ASSUME NEW n \in Snapshots PROVE frees'[n] > 0 <=> n <= current
    <3>1. frees'[n] = IF n > newest' THEN 0 ELSE 1  BY <2>1 DEF Heap
    <3>2. n \in Nat  BY DomainAssumption DEF Snapshots
    <3> QED BY <1>t, <2>1, <2>3, <3>1, <3>2
  <2>5. Freed' = 1 .. current
    <3>1. 1 .. current \subseteq Snapshots  BY <1>t, <2>3
    <3>2. \A n \in Snapshots : n \in 1 .. current <=> n <= current
      BY DomainAssumption, <2>3 DEF Snapshots
    <3> QED BY <2>4, <3>1, <3>2, Zenon
  <2>6. Cell!CellDestroy  BY <1>t, <2>1, <2>2, <2>3, <2>5 DEF Cell!CellDestroy
  <2> QED BY <2>6 DEF Cell!CellNext
<1>8. ASSUME Publish \/ SyncFence \/ NextSlot \/ SyncTimeout \/ Terminated \/ UNCHANGED vars
      PROVE  UNCHANGED Cell!cellVars
  BY <1>1, <1>8, Zenon DEF Publish, PublishInOrder, SyncFence, StartScan, NextSlot, SyncTimeout, Blocked,
     EndSwap, Terminated, vars
<1> QED
  BY <1>2, <1>3, <1>4, <1>5, <1>6, <1>7, <1>8, Zenon DEF Next, ReaderStep, WriterStep, Cell!CellNext

-----------------------------------------------------------------------------
(* The theorems *)

\* The initial state, as ControlPlane::initialize leaves it, satisfies IInv.
LEMMA InitIInv == ControlSlotsReserved /\ Init => IInv
<1> SUFFICES ASSUME ControlSlotsReserved, Init PROVE IInv  OBVIOUS
<1> USE DomainAssumption DEF Readers, Slots, Snapshots, kQuiescent
<1>1. TypeOK  BY DEF Init, TypeOK, ReaderPcs, WriterPcs
<1>2. Claims  BY DEF Init, Claims, Marked, Claimed, Below, OwnSlots, Occupies
<1>3. Exclusive  BY DEF Init, Exclusive, Uses, Occupies, ControlSlotsReserved
<1>4. Buffers  BY DEF Init, Buffers, BufferOK
<1>5. Culprits  BY Zenon DEF Init, Culprits
<1>6. Epochs  BY DEF Init, Epochs
<1>7. Stores /\ Grace  BY DEF Init, Stores, Grace
<1>8. Heap  BY DEF Init, Heap, Busy
<1>9. NoUseAfterFree  BY DEF Init, NoUseAfterFree
<1> QED BY <1>1, <1>2, <1>3, <1>4, <1>5, <1>6, <1>7, <1>8, <1>9 DEF IInv

\* A worker looking at slot k has seen each slot below it taken by another: as many
\* workers, all different, as slots up to k.
LEMMA Pigeonhole ==
  ASSUME NEW r \in Workers, TypeOK, Claims, rpc[r] = "registering"
  PROVE  \E f \in [0 .. mySlot[r] -> Workers] :
           \A i, j \in 0 .. mySlot[r] : f[i] = f[j] => i = j
<1> DEFINE k == mySlot[r]
           At(j) == CHOOSE q \in Workers : rpc[q] # "registering" /\ mySlot[q] = j
           f == [j \in 0 .. k |-> IF j = k THEN r ELSE At(j)]
<1>1. k \in Nat  BY DEF TypeOK, Readers
<1>2. \A j \in 0 .. k - 1 : At(j) \in Workers /\ rpc[At(j)] # "registering" /\ mySlot[At(j)] = j
  BY DEF Claims, Below
<1> HIDE DEF At, k
<1>3. \A j \in 0 .. k : j = k \/ j \in 0 .. k - 1  BY <1>1
<1>4. f \in [0 .. k -> Workers]  BY <1>2, <1>3
<1>5. ASSUME NEW i \in 0 .. k, NEW j \in 0 .. k, f[i] = f[j] PROVE i = j
  BY <1>2, <1>3, <1>5
<1> HIDE DEF f
<1>6. \A i, j \in 0 .. k : f[i] = f[j] => i = j  BY <1>5
<1> QED BY <1>4, <1>6, Zenon DEF k

\* So register_reader() never reaches the control plane's slots.
LEMMA Reserved == ASSUME ControlSlotsReserved, TypeOK, Claims PROVE OutOfReach
<1> SUFFICES ASSUME NEW r \in Workers, rpc[r] = "registering", NEW c \in ControlReaders,
                    mySlot[r] = ControlSlot[c]
             PROVE  FALSE
  BY DEF OutOfReach
<1>1. PICK f \in [0 .. mySlot[r] -> Workers] : \A i, j \in 0 .. mySlot[r] : f[i] = f[j] => i = j
  BY Pigeonhole
<1>2. f \in [0 .. ControlSlot[c] -> Workers]  BY <1>1, Zenon
<1>3. PICK i \in 0 .. ControlSlot[c], j \in 0 .. ControlSlot[c] : i # j /\ f[i] = f[j]
  BY <1>2, Zenon DEF ControlSlotsReserved
<1> QED BY <1>1, <1>3, Zenon

\* IInv is inductive.
LEMMA NextIInv == ASSUME ControlSlotsReserved, IInv, [Next]_vars PROVE IInv'
<1>1. CASE Next
  BY <1>1, Reserved, TypeStep, ClaimsStep, ExclusiveStep, BuffersStep, CulpritsStep, EpochsStep, StoresStep,
     GraceStep, HeapStep, UseStep DEF IInv
<1>2. CASE UNCHANGED vars
  <2> USE <1>2 DEF vars, memVars, readerVars, writerVars, heapVars, IInv
  <2>1. TypeOK' /\ Stores' /\ Grace'  BY DEF TypeOK, Stores, Grace
  <2>2. Claims'  BY Zenon DEF Claims, Marked, Claimed, Below, OwnSlots, Occupies
  <2>3. Exclusive'  BY DEF Exclusive, Uses, Occupies
  <2>4. Buffers'  BY DEF Buffers, BufferOK, Uses, Occupies
  <2>5. Culprits'  BY Zenon DEF Culprits, Uses, Occupies
  <2>6. Epochs' /\ NoUseAfterFree'  BY DEF Epochs, NoUseAfterFree
  <2>7. Heap'  BY DEF Heap, Busy
  <2> QED BY <2>1, <2>2, <2>3, <2>4, <2>5, <2>6, <2>7
<1> QED BY <1>1, <1>2

\* IInv holds in every reachable state.
THEOREM Invariance == ControlSlotsReserved /\ Spec => []IInv
<1> DEFINE J == ControlSlotsReserved /\ IInv
<1>1. ControlSlotsReserved /\ Init => J  BY InitIInv
<1>2. J /\ [Next]_vars => J'
  <2>1. ControlSlotsReserved' <=> ControlSlotsReserved  BY DEF ControlSlotsReserved
  <2> QED BY <2>1, NextIInv
<1> HIDE DEF J
<1>3. ControlSlotsReserved /\ Spec => []J  BY <1>1, <1>2, PTL DEF Spec
<1>4. J => IInv  BY DEF J
<1> QED BY <1>3, <1>4, PTL

\* The types hold: in particular publish()'s pointer is never overtaken by its
\* epoch.
THEOREM TypeCorrect == ControlSlotsReserved /\ Spec => []TypeOK
<1>1. IInv => TypeOK  BY DEF IInv
<1> QED BY <1>1, Invariance, PTL

\* No snapshot is deleted under a guard, whatever the number of workers, slots,
\* reloads and timeouts and however the stores are delayed.
THEOREM NeverFreedInUse == ControlSlotsReserved /\ Spec => []NoUseAfterFree
<1>1. IInv => NoUseAfterFree  BY DEF IInv
<1> QED BY <1>1, Invariance, PTL

\* No two threads share a reader slot.
THEOREM ExclusiveSlots == ControlSlotsReserved /\ Spec => []SlotsAreExclusive
<1>1. IInv => SlotsAreExclusive  BY DEF IInv, Exclusive, SlotsAreExclusive, Uses
<1> QED BY <1>1, Invariance, PTL

\* The allocator sees each snapshot come back at most once.
THEOREM NoDoubleFree == ControlSlotsReserved /\ Spec => []FreedAtMostOnce
<1>1. IInv => FreedAtMostOnce
  <2> SUFFICES ASSUME IInv, NEW n \in Snapshots PROVE frees[n] <= 1  BY DEF FreedAtMostOnce
  <2>1. frees[n] \in {0, 1}  BY DEF IInv, TypeOK, Heap, WriterPcs
  <2> QED BY <2>1
<1> QED BY <1>1, Invariance, PTL

\* A successful swap leaves only the live snapshot undeleted.
THEOREM NothingDeferredAfterSuccess == ControlSlotsReserved /\ Spec => []SuccessLeavesOneSnapshot
<1>1. IInv => SuccessLeavesOneSnapshot
  <2> SUFFICES ASSUME IInv, wpc = "idle", quiesced, NEW n \in 1 .. newest - 1 PROVE frees[n] > 0
    BY DEF SuccessLeavesOneSnapshot
  <2>1. n \in Snapshots /\ n < newest /\ n \notin retired /\ ~Busy
    BY DomainAssumption DEF IInv, TypeOK, Heap, Snapshots, Busy
  <2> QED BY <2>1 DEF IInv, TypeOK, Heap
<1> QED BY <1>1, Invariance, PTL

\* The destructor leaves nothing behind.
THEOREM NoLeakAtExit == ControlSlotsReserved /\ Spec => []DestroyFreesEverything
<1>1. IInv => DestroyFreesEverything
  <2> SUFFICES ASSUME IInv, wpc = "destroyed", NEW n \in 1 .. newest PROVE frees[n] > 0
    BY DEF DestroyFreesEverything
  <2>1. n \in Snapshots /\ n <= newest  BY DomainAssumption DEF IInv, TypeOK, Snapshots
  <2> QED BY <2>1 DEF IInv, TypeOK, Heap
<1> QED BY <1>1, Invariance, PTL

\* A grace period times out only because of a reader that is in a read section
\* or has a store on the way.
THEOREM TimeoutsAreJustified == ControlSlotsReserved /\ Spec => TimeoutHasACulprit
<1>1. IInv /\ [Next]_vars =>
        [ wpc = "scanning" /\ quiesced' = FALSE /\ wpc' = "idle" =>
            \E r \in Readers : /\ mySlot[r] = idx
                               /\ rpc[r] \in {"entering", "holding"} \/ buffer[r] # <<>> ]_vars
  <2> SUFFICES ASSUME IInv, Next, wpc = "scanning", wpc' = "idle", quiesced' = FALSE
               PROVE  \E r \in Readers : /\ mySlot[r] = idx
                                         /\ rpc[r] \in {"entering", "holding"} \/ buffer[r] # <<>>
    BY Zenon
  <2>1. SyncTimeout
    BY Zenon DEF Next, ReaderStep, WriterStep, ClaimFree, Claim, SkipUsed, GiveUp, EnterEpoch, LoadCurrent,
       TakeGuard, Leave, DropGuard, Unregister, Unclaim, ReleaseSlot, StopControlReader,
       DrainReader, Publish, PublishInOrder, SyncFence, StartScan, NextSlot, Reclaim, EndSwap,
       DrainWriter, Destroy, Terminated, vars, writerVars
  <2>2. idx \in Slots /\ slotEpoch[idx] # kQuiescent
    BY <2>1, DomainAssumption DEF SyncTimeout, Blocked, Passed, IInv, TypeOK, Slots
  <2> QED BY <2>2 DEF IInv, Culprits
<1> QED BY <1>1, Invariance, PTL DEF Spec, TimeoutHasACulprit

\* RcuDomain implements the snapshot cell.
THEOREM RcuImplementsCell == ControlSlotsReserved /\ Spec => ImplementsCell
<1>1. Init => Cell!CellInit
  BY DomainAssumption DEF Init, Cell!CellInit, Snapshots
<1>2. IInv /\ IInv' /\ [Next]_vars => [Cell!CellNext]_(Cell!cellVars)
  BY CellStep DEF IInv
<1> QED BY <1>1, <1>2, Invariance, PTL DEF Spec, ImplementsCell, Cell!CellSpec
=============================================================================
