------------------------- MODULE IoUringReplyProofs -------------------------
(***************************************************************************)
(* The replies of IoUringWorker: where a datagram can be, and that every   *)
(* step keeps each in one place, so that the replies the clients have are  *)
(* right.                                                                  *)
(***************************************************************************)
EXTENDS IoUringProofs

\* How long a leaf may take, and what is tried when it takes longer.
USE SMTT(10), Zenon, SMTT(30), SMTT(60)

\* The receive slots with a datagram that has not been handled, and the send
\* slots with a reply that has not been sent.
Got    == {i \in RecvSlots : \E k \in reaped + 1 .. Len(cq) : cq[k].op = RecvOp(i) /\ cq[k].res >= 0}
Unsent == {s \in SendSlots : SendOp(s) \in StagedOps \cup kernel}

Replies == [to : Clients, about : Datagrams, version : 0 .. MaxVersion]

ReplyType == send_slots \in [SendSlots -> Replies] /\ inbox \in [Clients -> Seq(Replies)]

\* A round never decides by a policy older than that in force on arrival.
Policies ==
  /\ pc # "stopped" => live # 0
  /\ pc = "reaping" =>
       guard[Worker] # 0 /\ guard[Worker] <= live /\ \A d \in Datagrams : since[d] <= guard[Worker]
  /\ pc \in {"starting", "loop", "waiting"} => \A d \in Datagrams : since[d] <= live

Right(r) == r.to = ClientOf[r.about] /\ since[r.about] # 0 /\ since[r.about] <= r.version

\* A datagram that has arrived is in one place: the socket's queue, a receive
\* slot, a send slot, or an answer its client has.
InQueue ==
  /\ IsInjective(queue)
  /\ \A k \in 1 .. Len(queue) : since[queue[k]] # 0

InRecv ==
  \A i \in Got :
    /\ since[recv_slots[i]] # 0 /\ recv_slots[i] \notin Range(queue)
    /\ \A j \in Got : recv_slots[i] = recv_slots[j] => i = j

InSend ==
  \A s \in Unsent :
    /\ Right(send_slots[s]) /\ send_slots[s].about \notin Range(queue)
    /\ \A i \in Got : recv_slots[i] # send_slots[s].about
    /\ \A t \in Unsent : send_slots[s].about = send_slots[t].about => s = t

InInbox ==
  \A c \in Clients : \A k \in 1 .. Len(inbox[c]) :
    LET r == inbox[c][k] IN
    /\ r.to = c /\ Right(r) /\ r.about \notin Range(queue)
    /\ \A i \in Got : recv_slots[i] # r.about
    /\ \A s \in Unsent : send_slots[s].about # r.about
    /\ \A j \in 1 .. Len(inbox[c]) : inbox[c][j].about = r.about => j = k

Idle == pc \in {"starting", "stopped"} => kernel = {} /\ sq = <<>> /\ cq = <<>>

OnePlace == InQueue /\ InRecv /\ InSend /\ InInbox

ReplyInv == RingInv /\ ReplyType /\ Policies /\ Idle /\ OnePlace

\* A receive slot holds a datagram once its receive has completed.
LEMMA GotGains ==
  ASSUME TypeOK, NEW op \in Ops, NEW e \in Int, Complete(op, e), reaped' = reaped
  PROVE  Got' = Got \cup {i \in RecvSlots : op = RecvOp(i) /\ e >= 0}
<1>1. /\ Len(cq) \in Nat /\ Len(cq') = Len(cq) + 1 /\ reaped \in 0 .. Len(cq)
      /\ cq'[Len(cq) + 1] = [op |-> op, res |-> e] /\ \A k \in 1 .. Len(cq) : cq'[k] = cq[k]
  <2>1. [op |-> op, res |-> e] \in [op : Ops, res : Int]
    OBVIOUS
  <2>2. Len(cq) \in Nat /\ Len(cq') = Len(cq) + 1 /\ reaped \in 0 .. Len(cq)
    BY <2>1 DEF TypeOK, Complete
  <2>3. cq'[Len(cq) + 1] = [op |-> op, res |-> e] /\ \A k \in 1 .. Len(cq) : cq'[k] = cq[k]
    BY <2>1 DEF TypeOK, Complete
  <2> QED BY <2>2, <2>3
<1>2. /\ reaped + 1 .. Len(cq') = (reaped + 1 .. Len(cq)) \cup {Len(cq) + 1}
      /\ \A k \in reaped + 1 .. Len(cq) : k \in 1 .. Len(cq)
  BY <1>1
<1>3. /\ cq'[Len(cq) + 1].op = op /\ cq'[Len(cq) + 1].res = e
      /\ \A k \in reaped + 1 .. Len(cq) : cq'[k] = cq[k]
  BY <1>1, <1>2
<1>4. Got' = {i \in RecvSlots : \E k \in reaped + 1 .. Len(cq') : cq'[k].op = RecvOp(i) /\ cq'[k].res >= 0}
  BY DEF Got
<1> QED BY <1>2, <1>3, <1>4 DEF Got

\* It holds none once the completion has been handled.
LEMMA GotLoses ==
  ASSUME TypeOK, Owned, reaped + 1 \in 1 .. Len(cq), cq' = cq, reaped' = reaped + 1
  PROVE  Got' = Got \ {i \in RecvSlots : cq[reaped + 1].op = RecvOp(i)}
<1>1. /\ reaped \in Nat /\ Len(cq) \in Nat
      /\ reaped + 1 .. Len(cq) = (reaped + 2 .. Len(cq)) \cup {reaped + 1}
      /\ reaped + 1 \notin reaped + 2 .. Len(cq) /\ reaped' + 1 = reaped + 2
  <2>1. reaped \in Nat /\ Len(cq) \in Nat
    BY DEF TypeOK
  <2> QED BY <2>1
<1>2. Got' = {i \in RecvSlots : \E k \in reaped + 2 .. Len(cq) : cq[k].op = RecvOp(i) /\ cq[k].res >= 0}
  BY <1>1 DEF Got
<1>3. \A j, k \in reaped + 1 .. Len(cq) : cq[j].op = cq[k].op => j = k
  BY DEF Owned
<1> QED BY <1>1, <1>2, <1>3 DEF Got

\* A slot that holds something is not where the kernel or the worker writes.
LEMMA GotPending ==
  ASSUME TypeOK
  PROVE  \A i \in Got : RecvOp(i) \in PendingOps
BY DEF Got, PendingOps

\* Nothing has arrived at the start.
LEMMA ReplyInit == Init => ReplyInv
<1> SUFFICES ASSUME Init PROVE ReplyInv
  OBVIOUS
<1> USE RingAssumption
<1>1. NoReply \in Replies
  <2>1. 1 \in Datagrams
    BY DEF Datagrams
  <2>2. NoDatagram \in Datagrams
    BY <2>1, Zenon DEF NoDatagram
  <2>3. ClientOf[1] \in Clients
    BY <2>1
  <2>4. (CHOOSE c \in Clients : TRUE) \in Clients
    BY <2>3, Zenon
  <2> QED BY <2>2, <2>4 DEF NoReply, Replies
<1>2. ReplyType
  BY <1>1 DEF ReplyType, Init
<1>3. Got = {} /\ Unsent = {} /\ Range(queue) = {} /\ IsInjective(queue) /\ Len(queue) = 0
  BY DEF Init, Got, Unsent, StagedOps, Range, IsInjective
<1>4. OnePlace
  BY <1>3 DEF OnePlace, InQueue, InRecv, InSend, InInbox, Init
<1> QED BY <1>2, <1>4, RingInit DEF ReplyInv, Policies, Idle, Init, cell!CellInit

\* OnePlace depends on nothing but these.
LEMMA SamePlaces ==
  ASSUME OnePlace, UNCHANGED <<queue, since, inbox, recv_slots, send_slots>>,
         Got' \subseteq Got, Unsent' \subseteq Unsent
  PROVE  OnePlace'
<1>1. \A r : Right(r)' = Right(r)
  BY DEF Right
<1>2. InQueue' /\ InRecv'
  BY DEF OnePlace, InQueue, InRecv
<1>3. InSend'
  BY <1>1 DEF OnePlace, InSend
<1>4. InInbox'
  BY <1>1 DEF OnePlace, InInbox
<1> QED BY <1>2, <1>3, <1>4 DEF OnePlace

\* The kernel moves the head of the queue into a receive slot.
LEMMA ReceivePlaces ==
  ASSUME ReplyInv, NEW i \in RecvSlots, KernelReceive(i)
  PROVE  OnePlace'
<1> USE RingAssumption
<1>0. TypeOK /\ OnePlace /\ ReplyType /\ Running /\ Owned
  <2>1. TypeOK /\ OnePlace /\ ReplyType /\ (Running => Owned) /\ Idle
    BY DEF ReplyInv, RingInv
  <2> QED BY <2>1 DEF Running, Idle, KernelReceive
<1> DEFINE d == Head(queue)
<1>1. /\ queue \in Seq(Datagrams) /\ Len(queue) \in Nat \ {0} /\ d = queue[1] /\ d \in Datagrams
      /\ DOMAIN queue = 1 .. Len(queue) /\ queue' = Tail(queue)
  <2>1. queue \in Seq(Datagrams) /\ queue # <<>> /\ queue' = Tail(queue)
    BY <1>0 DEF TypeOK, KernelReceive
  <2>2. Len(queue) \in Nat /\ Len(queue) # 0 /\ DOMAIN queue = 1 .. Len(queue) /\ d = queue[1]
    BY <2>1
  <2> QED BY <2>1, <2>2
<1>2. /\ IsInjective(queue') /\ Range(queue') = Range(queue) \ {d}
      /\ \A k \in 1 .. Len(queue') : queue'[k] \in Range(queue)
  <2>1. IsInjective(queue)
    BY <1>0 DEF OnePlace, InQueue
  <2>2. Tail(queue) = SubSeq(queue, 2, Len(queue))
    BY <1>1
  <2>3. 1 \in 0 .. Len(queue) /\ {queue[k] : k \in 1 .. 1} = {d}
    BY <1>1
  <2>4. /\ IsInjective(queue') /\ queue' \in Seq(Datagrams)
        /\ Range(queue) = Range(queue') \cup {d} /\ Range(queue') \cap {d} = {}
    <3>1. Tail(queue) = SubSeq(queue, 1 + 1, Len(queue))
      BY <2>2
    <3>2. ASSUME NEW n \in 0 .. Len(queue), n = 1
          PROVE  LET t == SubSeq(queue, n + 1, Len(queue))
                     h == {queue[k] : k \in 1 .. n}
                 IN  /\ t \in Seq(Datagrams) /\ IsInjective(t)
                     /\ Range(queue) = Range(t) \cup h /\ Range(t) \cap h = {}
      BY <1>1, <2>1, CutRange
    <3> HIDE DEF d
    <3> QED BY <1>1, <2>3, <3>1, <3>2, Zenon
  <2>5. \A k \in 1 .. Len(queue') : queue'[k] \in Range(queue')
    BY <2>4 DEF Range
  <2> QED BY <2>4, <2>5
<1>3. /\ d \in Range(queue) /\ since[d] # 0 /\ \A e \in Range(queue) : since[e] # 0
  <2>1. 1 \in 1 .. Len(queue) /\ \A k \in 1 .. Len(queue) : since[queue[k]] # 0
    BY <1>0, <1>1 DEF OnePlace, InQueue
  <2> HIDE DEF d
  <2> QED BY <1>1, <2>1, Zenon DEF Range
<1>4. RecvOp(i) \in kernel /\ RecvOp(i) \in Ops /\ LengthOf[d] \in Nat
  BY <1>1, SlotOps DEF KernelReceive
<1>5. Got' = Got \cup {i} /\ i \notin Got
  <2>1. Got' = Got \cup {j \in RecvSlots : RecvOp(i) = RecvOp(j) /\ LengthOf[d] >= 0}
    BY <1>0, <1>4, GotGains DEF KernelReceive
  <2>2. i \notin Got
    BY <1>0, <1>4, GotPending DEF Owned
  <2> QED BY <1>4, <2>1, <2>2, SlotOps
<1>6. Unsent' \subseteq Unsent /\ UNCHANGED <<since, inbox, send_slots>>
  BY DEF KernelReceive, Complete, Unsent, StagedOps
<1>7. /\ recv_slots'[i] = d /\ \A j \in Got : recv_slots'[j] = recv_slots[j] /\ j # i
  BY <1>0, <1>5, Zenon DEF KernelReceive, TypeOK, Got
<1> HIDE DEF d
<1>8. \A r : Right(r)' = Right(r)
  BY <1>6 DEF Right
<1>9. InQueue'
  BY <1>2, <1>3, <1>6 DEF InQueue
<1>10. InRecv'
  BY <1>0, <1>2, <1>3, <1>5, <1>6, <1>7 DEF OnePlace, InRecv
<1>11. InSend'
  BY <1>0, <1>2, <1>3, <1>5, <1>6, <1>7, <1>8 DEF OnePlace, InSend
<1>12. InInbox'
  BY <1>0, <1>2, <1>3, <1>5, <1>6, <1>7, <1>8 DEF OnePlace, InInbox
<1> QED BY <1>9, <1>10, <1>11, <1>12 DEF OnePlace

\* The kernel sends what a slot holds.
LEMMA SendPlaces ==
  ASSUME ReplyInv, NEW s \in SendSlots, KernelSend(s)
  PROVE  OnePlace' /\ ReplyType'
<1>0. TypeOK /\ OnePlace /\ ReplyType /\ Running /\ Owned
  <2>1. TypeOK /\ OnePlace /\ ReplyType /\ (Running => Owned) /\ Idle
    BY DEF ReplyInv, RingInv
  <2> QED BY <2>1 DEF Running, Idle, KernelSend
<1> DEFINE r == send_slots[s]
<1>1. SendOp(s) \in kernel /\ SendOp(s) \in Ops /\ SendOp(s) \notin StagedOps
  BY <1>0, SlotOps DEF KernelSend, Owned
<1>2. s \in Unsent /\ Unsent' = Unsent \ {s}
  <2>1. kernel' = kernel \ {SendOp(s)} /\ StagedOps' = StagedOps
    BY DEF KernelSend, Complete, StagedOps
  <2> QED BY <1>1, <2>1, SlotOps DEF Unsent
<1>3. Got' = Got
  <2>1. Got' = Got \cup {j \in RecvSlots : SendOp(s) = RecvOp(j) /\ kWireMsgSize >= 0}
    BY <1>0, <1>1, GotGains DEF KernelSend, kWireMsgSize
  <2> QED BY <2>1, SlotOps
<1>4. r \in Replies /\ r.to \in Clients /\ r.about \in Datagrams
  BY <1>0 DEF ReplyType, Replies
<1>5. /\ inbox \in [Clients -> Seq(Replies)] /\ Len(inbox[r.to]) \in Nat
      /\ inbox'[r.to] = Append(inbox[r.to], r)
      /\ \A c \in Clients \ {r.to} : inbox'[c] = inbox[c]
      /\ UNCHANGED <<queue, since, recv_slots, send_slots>>
  BY <1>0, <1>4 DEF ReplyType, KernelSend, slotVars
<1>6. inbox' \in [Clients -> Seq(Replies)]
  <2>1. inbox' = [inbox EXCEPT ![r.to] = Append(inbox[r.to], r)]
    BY Zenon DEF KernelSend
  <2> HIDE DEF r
  <2>2. Append(inbox[r.to], r) \in Seq(Replies)
    BY <1>4, <1>5
  <2> QED BY <1>4, <1>5, <2>1, <2>2
<1>7. /\ Right(r) /\ r.about \notin Range(queue) /\ \A i \in Got : recv_slots[i] # r.about
      /\ \A t \in Unsent : send_slots[t].about = r.about => t = s
  BY <1>0, <1>2 DEF OnePlace, InSend
<1>8. \A c \in Clients : \A k \in 1 .. Len(inbox[c]) : inbox[c][k].about # r.about
  BY <1>0, <1>2 DEF OnePlace, InInbox
<1>9. \A x : Right(x)' = Right(x)
  BY <1>5 DEF Right
<1> HIDE DEF r
<1>10. /\ Len(inbox'[r.to]) = Len(inbox[r.to]) + 1 /\ inbox'[r.to][Len(inbox[r.to]) + 1] = r
       /\ \A k \in 1 .. Len(inbox[r.to]) : inbox'[r.to][k] = inbox[r.to][k]
  BY <1>4, <1>5
<1>11. InQueue' /\ InRecv' /\ InSend'
  BY <1>0, <1>2, <1>3, <1>5, <1>9 DEF OnePlace, InQueue, InRecv, InSend, r
<1>12. InInbox'
  <2> SUFFICES ASSUME NEW c \in Clients, NEW k \in 1 .. Len(inbox'[c])
               PROVE  LET x == inbox'[c][k] IN
                      /\ x.to = c /\ Right(x) /\ x.about \notin Range(queue)
                      /\ \A i \in Got : recv_slots[i] # x.about
                      /\ \A t \in Unsent \ {s} : send_slots[t].about # x.about
                      /\ \A j \in 1 .. Len(inbox'[c]) : inbox'[c][j].about = x.about => j = k
    BY <1>2, <1>3, <1>5, <1>9 DEF InInbox
  <2>1. CASE c # r.to
    BY <1>0, <1>5, <2>1 DEF OnePlace, InInbox
  <2>2. CASE c = r.to
    <3>1. 1 .. Len(inbox'[c]) = (1 .. Len(inbox[c])) \cup {Len(inbox[c]) + 1}
      BY <1>5, <1>10, <2>2
    <3>2. CASE k = Len(inbox[c]) + 1
      <4>1. inbox'[c][k] = r
        BY <1>10, <2>2, <3>2
      <4>2. \A j \in 1 .. Len(inbox'[c]) : inbox'[c][j].about = r.about => j = k
        BY <1>8, <1>10, <2>2, <3>1, <3>2
      <4> QED BY <1>7, <2>2, <4>1, <4>2 DEF r
    <3>3. CASE k \in 1 .. Len(inbox[c])
      <4>1. inbox'[c][k] = inbox[c][k]
        BY <1>10, <2>2, <3>3
      <4>2. \A j \in 1 .. Len(inbox'[c]) : inbox'[c][j].about = inbox[c][k].about => j = k
        <5>1. \A j \in 1 .. Len(inbox[c]) : inbox[c][j].about = inbox[c][k].about => j = k
          BY <1>0, <3>3 DEF OnePlace, InInbox
        <5>2. \A j \in 1 .. Len(inbox[c]) : inbox'[c][j] = inbox[c][j]
          BY <1>10, <2>2
        <5>3. inbox'[c][Len(inbox[c]) + 1].about # inbox[c][k].about
          BY <1>8, <1>10, <2>2, <3>3
        <5> QED BY <3>1, <3>3, <5>1, <5>2, <5>3, Zenon
      <4> QED BY <1>0, <3>3, <4>1, <4>2 DEF OnePlace, InInbox
    <3> QED BY <3>1, <3>2, <3>3
  <2> QED BY <2>1, <2>2
<1> QED BY <1>5, <1>6, <1>0, <1>11, <1>12 DEF OnePlace, ReplyType

\* A new datagram has never arrived before, and so is in no other place.
LEMMA ArrivePlaces ==
  ASSUME ReplyInv, NEW d \in Datagrams, Arrive(d)
  PROVE  OnePlace' /\ Policies'
<1>0. TypeOK /\ OnePlace /\ ReplyType /\ Policies /\ pc # "stopped"
  BY DEF ReplyInv, RingInv, Arrive
<1>1. /\ since[d] = 0 /\ since'[d] = InForce /\ \A e \in Datagrams \ {d} : since'[e] = since[e]
      /\ queue' = Append(queue, d) /\ UNCHANGED <<inbox, recv_slots, send_slots, live, guard, pc>>
  BY <1>0 DEF Arrive, TypeOK, slotVars, cellVars
<1>2. InForce # 0 /\ Policies'
  <2>1. CASE pc = "reaping"
    <3>1. InForce = guard[Worker] /\ guard[Worker] \in Nat /\ guard[Worker] # 0
      BY <1>0, <2>1 DEF InForce, RuleSet, Policies, TypeOK
    <3>2. \A e \in Datagrams : since'[e] <= guard[Worker]
      BY <1>0, <1>1, <2>1, <3>1 DEF Policies
    <3> QED BY <1>0, <1>1, <2>1, <3>1, <3>2 DEF Policies
  <2>2. CASE pc # "reaping"
    <3>1. InForce = live /\ live \in Nat /\ live # 0 /\ pc \in {"starting", "loop", "waiting"}
      BY <1>0, <2>2 DEF InForce, Policies, TypeOK
    <3>2. \A e \in Datagrams : since'[e] <= live
      BY <1>0, <1>1, <3>1 DEF Policies
    <3> QED BY <1>0, <1>1, <2>2, <3>1, <3>2 DEF Policies
  <2> QED BY <2>1, <2>2
<1>3. Got' = Got /\ Unsent' = Unsent
  BY DEF Arrive, ringVars, Got, Unsent, StagedOps
<1>4. /\ \A e \in Range(queue) : since[e] # 0 /\ e \in Datagrams
      /\ IsInjective(queue) /\ queue \in Seq(Datagrams)
  <2>1. queue \in Seq(Datagrams) /\ IsInjective(queue) /\ \A k \in 1 .. Len(queue) : since[queue[k]] # 0
    BY <1>0 DEF OnePlace, InQueue, TypeOK
  <2>2. DOMAIN queue = 1 .. Len(queue) /\ \A k \in 1 .. Len(queue) : queue[k] \in Datagrams
    BY <2>1
  <2> QED BY <2>1, <2>2 DEF Range
<1>5. d \notin Range(queue)
  BY <1>1, <1>4
<1>6. /\ IsInjective(queue') /\ Range(queue') = Range(queue) \cup {d}
      /\ queue' \in Seq(Datagrams)
  BY <1>1, <1>4, <1>5, AppendRange
<1>7. ASSUME NEW r \in Replies, Right(r) PROVE r.about # d /\ Right(r)'
  <2>1. r.about \in Datagrams /\ r.about # d
    BY <1>1, <1>7 DEF Right, Replies
  <2> QED BY <1>1, <1>7, <2>1 DEF Right
<1>8. InQueue'
  <2>1. \A k \in 1 .. Len(queue') : queue'[k] \in Range(queue')
    BY <1>6 DEF Range
  <2> QED BY <1>1, <1>2, <1>4, <1>6, <2>1 DEF InQueue
<1>9. \A i \in Got : recv_slots[i] \in Datagrams /\ since[recv_slots[i]] # 0 /\ recv_slots[i] # d
  <2>1. \A i \in Got : recv_slots[i] \in Datagrams
    BY <1>0 DEF TypeOK, Got
  <2>2. \A i \in Got : since[recv_slots[i]] # 0
    BY <1>0 DEF OnePlace, InRecv
  <2> QED BY <1>1, <2>1, <2>2
<1>10. InRecv'
  BY <1>0, <1>1, <1>3, <1>6, <1>9 DEF OnePlace, InRecv
<1>11. \A s \in Unsent : send_slots[s] \in Replies
  BY <1>0 DEF ReplyType, Unsent
<1>12. InSend'
  BY <1>0, <1>1, <1>3, <1>6, <1>7, <1>11 DEF OnePlace, InSend
<1>13. \A c \in Clients : \A k \in 1 .. Len(inbox[c]) : inbox[c][k] \in Replies
  <2>1. \A c \in Clients : inbox[c] \in Seq(Replies)
    BY <1>0 DEF ReplyType
  <2> QED BY <2>1, ElementOf
<1>14. InInbox'
  BY <1>0, <1>1, <1>3, <1>6, <1>7, <1>13 DEF OnePlace, InInbox
<1> QED BY <1>2, <1>8, <1>10, <1>12, <1>14 DEF OnePlace

-----------------------------------------------------------------------------
(* The worker's steps *)

\* Reaping: a datagram moves from its receive slot into a send slot, or is
\* dropped.
LEMMA ReapPlaces ==
  ASSUME ReplyInv, Reap
  PROVE  OnePlace' /\ ReplyType'
<1> USE RingAssumption
<1>0. /\ TypeOK /\ OnePlace /\ ReplyType /\ Policies /\ Owned /\ pc = "reaping"
      /\ UNCHANGED <<queue, since, inbox, recv_slots, kernel, cq>> /\ reaped' = reaped + 1
  BY DEF ReplyInv, RingInv, Running, Reap, netVars
<1> DEFINE c == cq[reaped + 1]
           x == c.op[2]
<1>1. reaped + 1 \in 1 .. Len(cq) /\ c.op \in Ops
  BY <1>0, ReapShape
<1>2. Got' = Got \ {i \in RecvSlots : c.op = RecvOp(i)}
  BY <1>0, <1>1, GotLoses
<1>3. c.op \in PendingOps /\ c.op \notin StagedOps
  BY <1>0, <1>1, PendingLoses DEF Owned
<1>4. CASE /\ x \in SendSlots /\ c.op = SendOp(x)
           /\ free_send' = Append(free_send, x) /\ UNCHANGED <<sq, send_slots>>
  <2>1. Got' \subseteq Got /\ Unsent' \subseteq Unsent
    BY <1>0, <1>2, <1>4 DEF Unsent, StagedOps
  <2> QED BY <1>0, <1>4, <2>1, SamePlaces DEF ReplyType
<1>5. CASE /\ x \in RecvSlots /\ c.op = RecvOp(x)
           /\ sq' = Stage(sq, RecvOp(x)) /\ UNCHANGED <<free_send, send_slots>>
  <2>1. StagedOps' \subseteq StagedOps \cup {RecvOp(x)}
    <3>1. sq \in Seq(Ops) /\ RecvOp(x) \in Ops
      <4>1. sq \in Seq(Ops)
        BY <1>0 DEF TypeOK
      <4> QED BY <1>5, <4>1, SlotOps
    <3>2. Range(Append(sq, RecvOp(x))) = Range(sq) \cup {RecvOp(x)}
      BY <3>1, AppendRange
    <3> QED BY <1>5, <3>2 DEF Stage, StagedOps
  <2>2. Unsent' \subseteq Unsent /\ Got' \subseteq Got
    BY <1>0, <1>2, <1>5, <2>1, SlotOps DEF Unsent
  <2> QED BY <1>0, <1>5, <2>2, SamePlaces DEF ReplyType
<1>6. CASE /\ x \in RecvSlots /\ c.op = RecvOp(x) /\ c.res >= 0
           /\ free_send # <<>> /\ Decide(x)
  <2> DEFINE d == recv_slots[x]
             r == [to |-> ClientOf[d], about |-> d, version |-> guard[Worker]]
  <2>1. Top \in SendSlots /\ SendOp(Top) \in FreeOps
    <3>1. free_send \in Seq(SendSlots) /\ IsInjective(free_send) /\ free_send # <<>>
      BY <1>0, <1>6 DEF TypeOK, Owned
    <3>2. Top \in SendSlots /\ Top \in Range(free_send)
      BY <3>1, PopRange DEF Top
    <3> QED BY <3>2 DEF FreeOps
  <2>2. x \in Got
    <3>1. reaped + 1 \in reaped + 1 .. Len(cq)
      BY <1>0, <1>1 DEF TypeOK
    <3> QED BY <1>6, <3>1 DEF Got
  <2>3. Got' = Got \ {x}
    BY <1>2, <1>6, SlotOps
  <2>4. Unsent' \subseteq Unsent \cup {Top} /\ Top \notin Unsent
    <3>1. sq \in Seq(Ops) /\ SendOp(Top) \in Ops /\ RecvOp(x) \in Ops
      <4>1. sq \in Seq(Ops)
        BY <1>0 DEF TypeOK
      <4> QED BY <1>6, <2>1, <4>1, SlotOps, Zenon
    <3>2. /\ Append(sq, SendOp(Top)) \in Seq(Ops)
          /\ Range(Append(sq, SendOp(Top))) = Range(sq) \cup {SendOp(Top)}
      BY <3>1, AppendRange
    <3>3. \A q \in Seq(Ops) : Range(Append(q, RecvOp(x))) = Range(q) \cup {RecvOp(x)}
      BY <3>1, AppendRange
    <3>4. sq' = Stage(Stage(sq, SendOp(Top)), RecvOp(x))
      BY <1>6, Zenon DEF Decide
    <3>5. StagedOps' \subseteq StagedOps \cup {SendOp(Top), RecvOp(x)}
      BY <3>1, <3>2, <3>3, <3>4, Zenon DEF Stage, StagedOps
    <3>6. Unsent' \subseteq Unsent \cup {Top}
      BY <1>0, <1>6, <2>1, <3>5, SlotOps DEF Unsent
    <3> QED BY <1>0, <2>1, <3>6 DEF Unsent, Owned
  <2>5. /\ d \in Datagrams /\ since[d] # 0 /\ d \notin Range(queue)
        /\ \A j \in Got \ {x} : recv_slots[j] # d
    <3>1. \A j \in RecvSlots : recv_slots[j] \in Datagrams
      BY <1>0 DEF TypeOK
    <3>2. x \in RecvSlots
      BY <1>6, Zenon
    <3>3. d \in Datagrams
      BY <3>1, <3>2, Zenon
    <3> HIDE DEF x
    <3> QED BY <1>0, <2>2, <3>3 DEF OnePlace, InRecv
  <2>6. \A s \in Unsent : send_slots[s].about # d
    BY <1>0, <2>2 DEF OnePlace, InSend
  <2>7. \A a \in Clients : \A k \in 1 .. Len(inbox[a]) : inbox[a][k].about # d
    BY <1>0, <2>2 DEF OnePlace, InInbox
  <2>8. r \in Replies /\ Right(r) /\ r.about = d
    <3>1. /\ ClientOf[d] \in Clients /\ guard[Worker] \in 0 .. MaxVersion
          /\ since[d] <= guard[Worker]
      <4>1. ClientOf[d] \in Clients
        BY <2>5
      <4>2. guard[Worker] \in 0 .. MaxVersion
        BY <1>0 DEF TypeOK
      <4>3. since[d] <= guard[Worker]
        BY <1>0, <2>5, Zenon DEF Policies
      <4> QED BY <4>1, <4>2, <4>3, Zenon
    <3>2. r.to = ClientOf[d] /\ r.about = d /\ r.version = guard[Worker]
      OBVIOUS
    <3>3. r \in Replies
      <4>1. \A a \in Clients, b \in Datagrams, v \in 0 .. MaxVersion :
              [to |-> a, about |-> b, version |-> v] \in Replies
        BY DEF Replies
      <4> QED BY <2>5, <3>1, <4>1, Zenon
    <3> HIDE DEF r, d
    <3> QED BY <2>5, <3>1, <3>2, <3>3 DEF Right
  <2>9. /\ send_slots'[Top] = r /\ send_slots' \in [SendSlots -> Replies]
        /\ \A s \in Unsent : send_slots'[s] = send_slots[s] /\ s \in SendSlots
    <3>1. send_slots' = [send_slots EXCEPT ![Top] = r]
      BY <1>6, Zenon DEF Decide, RuleSet
    <3> HIDE DEF r
    <3> QED BY <1>0, <2>1, <2>4, <2>8, <3>1 DEF ReplyType, Unsent
  <2>10. \A z : Right(z)' = Right(z)
    BY <1>0 DEF Right
  <2> HIDE DEF r, d, c, x
  <2>11. InQueue' /\ InRecv'
    BY <1>0, <2>3 DEF OnePlace, InQueue, InRecv
  <2>12. InSend'
    BY <1>0, <2>3, <2>4, <2>5, <2>6, <2>8, <2>9, <2>10 DEF OnePlace, InSend
  <2>13. InInbox'
    <3> SUFFICES ASSUME NEW a \in Clients, NEW k \in 1 .. Len(inbox[a])
                 PROVE  LET z == inbox[a][k] IN
                        /\ z.to = a /\ Right(z) /\ z.about \notin Range(queue)
                        /\ \A i \in Got' : recv_slots[i] # z.about
                        /\ \A s \in Unsent' : send_slots'[s].about # z.about
                        /\ \A j \in 1 .. Len(inbox[a]) : inbox[a][j].about = z.about => j = k
      BY <1>0, <2>10 DEF InInbox
    <3>1. \A s \in Unsent' : send_slots'[s].about # inbox[a][k].about
      <4>1. \A s \in Unsent : send_slots'[s].about # inbox[a][k].about
        BY <1>0, <2>9 DEF OnePlace, InInbox
      <4>2. send_slots'[Top].about # inbox[a][k].about
        BY <2>7, <2>8, <2>9
      <4> QED BY <2>4, <4>1, <4>2
    <3>2. \A i \in Got' : recv_slots[i] # inbox[a][k].about
      BY <1>0, <2>3 DEF OnePlace, InInbox
    <3> QED BY <1>0, <3>1, <3>2 DEF OnePlace, InInbox
  <2> QED BY <1>0, <2>9, <2>11, <2>12, <2>13 DEF OnePlace, ReplyType
<1> QED BY <1>0, <1>4, <1>5, <1>6, ReapShape

\* Every step keeps the datagrams in one place.
LEMMA ReplyStep == ReplyInv /\ [Next]_vars => ReplyInv'
<1> SUFFICES ASSUME ReplyInv, [Next]_vars PROVE ReplyInv'
  OBVIOUS
<1>0. /\ TypeOK /\ OnePlace /\ ReplyType /\ Policies /\ Idle /\ RingInv' /\ TypeOK'
      /\ (Running => Owned)
  BY RingStep DEF ReplyInv, RingInv
<1>1. ASSUME Got' \subseteq Got, Unsent' \subseteq Unsent, UNCHANGED <<netVars, recv_slots, send_slots>>
      PROVE  OnePlace' /\ ReplyType'
  BY <1>0, <1>1, SamePlaces DEF netVars, ReplyType
<1>2. CASE Start
  <2>1. Got' \subseteq Got
    BY <1>2 DEF Start, Got
  <2>2. StagedOps' \subseteq StagedOps \cup {RecvOp(i) : i \in RecvSlots} /\ kernel' = kernel
    <3>1. BatchSize \in Nat
      BY RingAssumption
    <3>2. \A k \in 1 .. BatchSize : k - 1 \in RecvSlots
      BY <3>1 DEF RecvSlots
    <3> QED BY <1>2, <3>2, Zenon DEF Start, StagedOps, Range
  <2>3. Unsent' \subseteq Unsent
    BY <2>2, SlotOps DEF Unsent
  <2>4. OnePlace' /\ ReplyType'
    BY <1>1, <1>2, <2>1, <2>3 DEF Start, slotVars
  <2>5. Policies' /\ Idle'
    BY <1>0, <1>2 DEF Start, Goto, Policies, Idle, netVars, cellVars
  <2> QED BY <1>0, <2>4, <2>5 DEF ReplyInv
<1>3. CASE \E n \in 0 .. Len(sq) : Submit(n)
  <2> PICK n \in 0 .. Len(sq) : Submit(n)
    BY <1>3
  <2>1. Got' \subseteq Got
    BY DEF Submit, Got
  <2>2. StagedOps' \cup kernel' \subseteq StagedOps \cup kernel
    <3>1. sq \in Seq(Ops) /\ IsInjective(sq)
      BY <1>0 DEF TypeOK, Owned, Running, Submit, Goto
    <3>2. Range(sq) = Range(sq') \cup {sq[k] : k \in 1 .. n}
      BY <3>1, CutRange DEF Submit
    <3> QED BY <3>2 DEF StagedOps, Submit
  <2>3. Unsent' \subseteq Unsent
    BY <2>2 DEF Unsent
  <2>4. OnePlace' /\ ReplyType'
    BY <1>1, <2>1, <2>3 DEF Submit, slotVars
  <2>5. Policies' /\ Idle'
    BY <1>0 DEF Submit, Goto, Policies, Idle, netVars, cellVars
  <2> QED BY <1>0, <2>4, <2>5 DEF ReplyInv
<1>4. CASE Leave
  <2>1. sq' = <<>> /\ kernel' = {} /\ cq' = <<>> /\ reaped' \in Nat
    BY <1>0, <1>4 DEF Leave, TypeOK
  <2>2. Got' = {} /\ Unsent' = {}
    <3>1. DOMAIN sq' = {} /\ Len(cq') = 0
      BY <2>1
    <3>2. StagedOps' = {}
      BY <3>1 DEF StagedOps, Range
    <3>3. \A k : k \notin reaped' + 1 .. Len(cq')
      BY <2>1, <3>1
    <3>4. Unsent' = {}
      BY <2>1, <3>2 DEF Unsent
    <3> QED BY <3>3, <3>4 DEF Got
  <2>3. OnePlace' /\ ReplyType'
    BY <1>1, <1>4, <2>2 DEF Leave, slotVars
  <2>4. Policies' /\ Idle'
    BY <1>0, <1>4 DEF Leave, Goto, Policies, Idle
  <2> QED BY <1>0, <2>3, <2>4 DEF ReplyInv
<1>5. ASSUME UNCHANGED <<netVars, ringVars, slotVars>>, Policies', Idle'
      PROVE  ReplyInv'
  <2>1. Got' \subseteq Got /\ Unsent' \subseteq Unsent
    BY <1>5 DEF Got, Unsent, StagedOps, ringVars
  <2> QED BY <1>0, <1>1, <1>5, <2>1 DEF ReplyInv, slotVars
<1>6. CASE WaitFails
  BY <1>0, <1>5, <1>6 DEF WaitFails, Goto, Policies, Idle, netVars, cellVars
<1>7. CASE Wake
  <2>1. /\ guard'[Worker] = live /\ live # 0 /\ live' = live /\ live \in Nat /\ pc' = "reaping"
        /\ since' = since /\ \A d \in Datagrams : since[d] <= live
    BY <1>0, <1>7 DEF Wake, Goto, Policies, cell!CellAcquire, netVars, TypeOK
  <2>2. Policies' /\ Idle'
    BY <2>1 DEF Policies, Idle
  <2> QED BY <1>5, <1>7, <2>2 DEF Wake
<1>8. CASE Reap
  <2>1. Policies' /\ Idle'
    BY <1>0, <1>8 DEF Reap, Policies, Idle, netVars, cellVars
  <2> QED BY <1>0, <1>8, <2>1, ReapPlaces DEF ReplyInv
<1>9. CASE EndRound
  <2>1. cq' = <<>> /\ reaped' = 0 /\ UNCHANGED <<sq, kernel>>
    BY <1>9 DEF EndRound
  <2>2. Got' \subseteq Got /\ Unsent' \subseteq Unsent
    BY <2>1 DEF Got, Unsent, StagedOps
  <2>3. OnePlace' /\ ReplyType'
    BY <1>1, <1>9, <2>2 DEF EndRound, slotVars
  <2>4. Policies' /\ Idle'
    <3>1. /\ guard[Worker] \in Nat /\ live \in Nat /\ since \in [Datagrams -> Nat]
          /\ live' = live /\ since' = since /\ pc' = "loop" /\ pc = "reaping"
      BY <1>0, <1>9 DEF EndRound, Goto, cell!CellRelease, TypeOK, netVars
    <3>2. \A d \in Datagrams : since[d] <= live
      BY <1>0, <3>1 DEF Policies
    <3> QED BY <1>0, <3>1, <3>2 DEF Policies, Idle
  <2> QED BY <1>0, <2>3, <2>4 DEF ReplyInv
<1>10. ASSUME UNCHANGED <<pc, since, live, guard, sq>>, kernel # {}
       PROVE  Policies' /\ Idle'
  BY <1>0, <1>10 DEF Policies, Idle
<1>11. ASSUME NEW op \in Ops, NEW e \in Int, op \in kernel, e < 0, Complete(op, e),
              UNCHANGED <<netVars, pc, sq, reaped, slotVars, cellVars>>
       PROVE  ReplyInv'
  <2>1. Got' = Got
    <3>1. reaped' = reaped
      BY <1>11
    <3>2. Got' = Got \cup {i \in RecvSlots : op = RecvOp(i) /\ e >= 0}
      BY <1>0, <1>11, <3>1, GotGains
    <3>3. ~(e >= 0)
      BY <1>11
    <3> HIDE DEF Got
    <3> QED BY <3>2, <3>3
  <2>2. kernel' \subseteq kernel /\ StagedOps' = StagedOps
    BY <1>11 DEF Complete, StagedOps
  <2>3. Unsent' \subseteq Unsent
    BY <2>2 DEF Unsent
  <2>4. Policies' /\ Idle'
    BY <1>10, <1>11 DEF netVars, cellVars
  <2> QED BY <1>0, <1>1, <1>11, <2>1, <2>3, <2>4 DEF ReplyInv, slotVars
<1>12. CASE \E i \in RecvSlots : KernelReceive(i)
  <2> PICK i \in RecvSlots : KernelReceive(i)
    BY <1>12
  <2>1. OnePlace'
    BY ReceivePlaces
  <2>2. Policies' /\ Idle'
    BY <1>10 DEF KernelReceive, cellVars
  <2>3. ReplyType'
    BY <1>0 DEF KernelReceive, ReplyType
  <2> QED BY <1>0, <2>1, <2>2, <2>3 DEF ReplyInv
<1>13. CASE \E i \in RecvSlots : \E e \in {EINTR, EIO} : KernelReceiveFails(i, e)
  <2> PICK i \in RecvSlots, e \in {EINTR, EIO} : KernelReceiveFails(i, e)
    BY <1>13
  <2>1. RecvOp(i) \in Ops /\ e \in Int /\ e < 0
    BY SlotOps DEF EINTR, EIO
  <2> QED BY <1>11, <2>1 DEF KernelReceiveFails
<1>14. CASE \E s \in SendSlots : KernelSend(s)
  <2> PICK s \in SendSlots : KernelSend(s)
    BY <1>14
  <2>1. OnePlace' /\ ReplyType'
    BY SendPlaces
  <2>2. Policies' /\ Idle'
    BY <1>10 DEF KernelSend, cellVars
  <2> QED BY <1>0, <2>1, <2>2 DEF ReplyInv
<1>15. CASE \E s \in SendSlots : \E e \in {EAGAIN, ENOBUFS, EIO} : KernelSendFails(s, e)
  <2> PICK s \in SendSlots, e \in {EAGAIN, ENOBUFS, EIO} : KernelSendFails(s, e)
    BY <1>15
  <2>1. SendOp(s) \in Ops /\ e \in Int /\ e < 0
    BY SlotOps DEF EAGAIN, ENOBUFS, EIO
  <2> QED BY <1>11, <2>1 DEF KernelSendFails
<1>16. CASE \E d \in Datagrams : Arrive(d)
  <2> PICK d \in Datagrams : Arrive(d)
    BY <1>16
  <2>1. OnePlace' /\ Policies'
    BY ArrivePlaces
  <2>2. ReplyType' /\ Idle'
    BY <1>0 DEF Arrive, ReplyType, Idle, slotVars, ringVars
  <2> QED BY <1>0, <2>1, <2>2 DEF ReplyInv
<1>17. CASE Reload
  <2>1. /\ live' = live + 1 /\ live \in Nat /\ UNCHANGED <<guard, since, pc>>
        /\ since \in [Datagrams -> Nat] /\ guard[Worker] \in Nat
    BY <1>0, <1>17 DEF Reload, cell!CellPublish, netVars, TypeOK
  <2>2. Policies'
    BY <1>0, <2>1 DEF Policies
  <2>3. Idle'
    BY <1>0, <1>17 DEF Reload, Idle, ringVars
  <2> QED BY <1>5, <1>17, <2>2, <2>3 DEF Reload
<1>18. CASE RequestStop
  BY <1>0, <1>5, <1>18 DEF RequestStop, Policies, Idle, netVars, ringVars, cellVars
<1>19. CASE Destroy
  BY <1>0, <1>5, <1>19 DEF Destroy, Policies, Idle, ringVars
<1>20. CASE UNCHANGED vars
  BY <1>0, <1>5, <1>20 DEF vars, Policies, Idle, netVars, ringVars, cellVars
<1> QED BY <1>2, <1>3, <1>4, <1>6, <1>7, <1>8, <1>9, <1>12, <1>13, <1>14, <1>15, <1>16,
           <1>17, <1>18, <1>19, <1>20 DEF Next, WorkerStep, KernelStep, Terminated

\* server_iouring.cpp's replies, for every batch size, every traffic and every
\* number of reloads and faults: a reply is to the client whose datagram it
\* answers, no datagram is answered twice although slots and buffers are reused,
\* and the policy that decided is not older than the one in force on arrival.
THEOREM RepliesRight == Spec => []RepliesAreRight
<1>1. ReplyInv => RepliesAreRight
  BY DEF ReplyInv, OnePlace, InInbox, Right, RepliesAreRight
<1> QED BY <1>1, ReplyInit, ReplyStep, PTL DEF Spec
=============================================================================
