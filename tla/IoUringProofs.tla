--------------------------- MODULE IoUringProofs ----------------------------
(***************************************************************************)
(* The ring of IoUringWorker: no operation is lost or owned twice, for any *)
(* batch size, traffic and number of reloads and faults.                   *)
(***************************************************************************)
EXTENDS IoUringWorker, FiniteSetTheorems, TLAPS

\* How long a leaf may take, and what is tried when it takes longer.
USE SMTT(10), Zenon, SMTT(30), SMTT(60)

-----------------------------------------------------------------------------
(* Lemmas on sequences without repetition *)

\* An element of a sequence over S is in S.
LEMMA ElementOf ==
  ASSUME NEW S, NEW s \in Seq(S), NEW k \in 1 .. Len(s)
  PROVE  s[k] \in S
OBVIOUS

\* Appending adds one element, and no repetition if it was not there.
LEMMA AppendRange ==
  ASSUME NEW S, NEW s \in Seq(S), NEW e \in S
  PROVE  /\ Append(s, e) \in Seq(S) /\ Len(Append(s, e)) = Len(s) + 1
         /\ Range(Append(s, e)) = Range(s) \cup {e}
         /\ IsInjective(s) /\ e \notin Range(s) => IsInjective(Append(s, e))
<1>1. /\ Append(s, e) \in Seq(S) /\ Len(Append(s, e)) = Len(s) + 1
      /\ DOMAIN Append(s, e) = 1 .. Len(s) + 1 /\ DOMAIN s = 1 .. Len(s)
      /\ Append(s, e)[Len(s) + 1] = e
      /\ \A k \in 1 .. Len(s) : Append(s, e)[k] = s[k]
  OBVIOUS
<1>2. Range(Append(s, e)) = Range(s) \cup {e}
  BY <1>1 DEF Range
<1>3. ASSUME IsInjective(s), e \notin Range(s) PROVE IsInjective(Append(s, e))
  BY <1>1, <1>3 DEF IsInjective, Range
<1> QED BY <1>1, <1>2, <1>3

\* Cutting a sequence in two.
LEMMA CutRange ==
  ASSUME NEW S, NEW s \in Seq(S), IsInjective(s), NEW n \in 0 .. Len(s)
  PROVE  LET t == SubSeq(s, n + 1, Len(s))
             h == {s[k] : k \in 1 .. n}
         IN  /\ t \in Seq(S) /\ IsInjective(t)
             /\ Range(s) = Range(t) \cup h /\ Range(t) \cap h = {}
<1> DEFINE t == SubSeq(s, n + 1, Len(s))
           h == {s[k] : k \in 1 .. n}
<1>1. /\ t \in Seq(S) /\ Len(t) = Len(s) - n
      /\ DOMAIN t = 1 .. Len(s) - n /\ DOMAIN s = 1 .. Len(s) /\ Len(s) \in Nat
      /\ \A k \in 1 .. Len(s) - n : t[k] = s[n + k]
  OBVIOUS
<1> HIDE DEF t
<1>2. IsInjective(t)
  <2> SUFFICES ASSUME NEW a \in 1 .. Len(s) - n, NEW b \in 1 .. Len(s) - n, t[a] = t[b]
               PROVE  a = b
    BY <1>1 DEF IsInjective
  <2>1. n + a \in DOMAIN s /\ n + b \in DOMAIN s
    BY <1>1
  <2>2. n + a = n + b
    BY <1>1, <2>1, Zenon DEF IsInjective
  <2> QED BY <1>1, <2>2
<1>3. Range(t) = {s[k] : k \in n + 1 .. Len(s)}
  <2>1. ASSUME NEW k \in n + 1 .. Len(s) PROVE s[k] \in Range(t)
    <3>1. k - n \in DOMAIN t /\ t[k - n] = s[k]
      BY <1>1
    <3> QED BY <3>1 DEF Range
  <2>2. ASSUME NEW k \in 1 .. Len(s) - n PROVE t[k] \in {s[j] : j \in n + 1 .. Len(s)}
    <3>1. n + k \in n + 1 .. Len(s) /\ t[k] = s[n + k]
      BY <1>1
    <3> QED BY <3>1
  <2> QED BY <1>1, <2>1, <2>2, Zenon DEF Range
<1>4. Range(s) = Range(t) \cup h
  <2>1. 1 .. Len(s) = (1 .. n) \cup (n + 1 .. Len(s))
    BY <1>1
  <2> QED BY <1>1, <1>3, <2>1, Zenon DEF Range
<1>5. Range(t) \cap h = {}
  <2>1. ASSUME NEW j \in n + 1 .. Len(s), NEW k \in 1 .. n PROVE s[j] # s[k]
    <3>1. j \in DOMAIN s /\ k \in DOMAIN s /\ j # k
      BY <1>1
    <3> QED BY <3>1 DEF IsInjective
  <2> QED BY <1>3, <2>1, Zenon
<1> QED BY <1>1, <1>2, <1>4, <1>5, Zenon DEF t

\* Taking the last element off.
LEMMA PopRange ==
  ASSUME NEW S, NEW s \in Seq(S), IsInjective(s), s # <<>>
  PROVE  LET t == SubSeq(s, 1, Len(s) - 1)
         IN  /\ t \in Seq(S) /\ IsInjective(t)
             /\ s[Len(s)] \in S /\ s[Len(s)] \in Range(s)
             /\ Range(t) = Range(s) \ {s[Len(s)]}
<1> DEFINE t == SubSeq(s, 1, Len(s) - 1)
<1>1. /\ t \in Seq(S) /\ Len(t) = Len(s) - 1
      /\ DOMAIN t = 1 .. Len(s) - 1 /\ DOMAIN s = 1 .. Len(s) /\ Len(s) \in Nat \ {0}
      /\ \A k \in 1 .. Len(s) - 1 : t[k] = s[k]
      /\ s[Len(s)] \in S
  <2>1. Len(s) \in Nat /\ Len(s) # 0 /\ DOMAIN s = 1 .. Len(s)
    OBVIOUS
  <2>2. \A k \in 1 .. Len(s) - 1 : k \in 1 .. Len(s)
    BY <2>1
  <2> QED BY <2>1, <2>2
<1> HIDE DEF t
<1>2. IsInjective(t) /\ s[Len(s)] \in Range(s)
  BY <1>1 DEF IsInjective, Range
<1>3. Range(t) = Range(s) \ {s[Len(s)]}
  BY <1>1 DEF IsInjective, Range
<1> QED BY <1>1, <1>2, <1>3 DEF t

-----------------------------------------------------------------------------
(* The rings and the slots *)

\* Operations without repetition are no more than there are slots, so the
\* submission queue has room for them and more.
LEMMA OpsFit ==
  ASSUME NEW q \in Seq(Ops), IsInjective(q)
  PROVE  Len(q) <= 3 * BatchSize
<1> USE RingAssumption
<1> DEFINE number(op) == IF op[1] = "recv" THEN op[2] ELSE BatchSize + op[2]
           f == [k \in 1 .. Len(q) |-> number(q[k])]
           T == 0 .. 3 * BatchSize - 1
<1>1. Len(q) \in Nat /\ DOMAIN q = 1 .. Len(q) /\ \A k \in 1 .. Len(q) : q[k] \in Ops
  OBVIOUS
<1>a. \A op \in Ops :
        \/ op[1] = "recv" /\ op[2] \in 0 .. BatchSize - 1 /\ op = <<"recv", op[2]>>
        \/ op[1] = "send" /\ op[2] \in 0 .. 2 * BatchSize - 1 /\ op = <<"send", op[2]>>
  BY DEF Ops, RecvOp, SendOp, RecvSlots, SendSlots
<1>2. \A op \in Ops : number(op) \in T
  BY <1>a
<1>3. \A o, p \in Ops : number(o) = number(p) => o = p
  <2> SUFFICES ASSUME NEW o \in Ops, NEW p \in Ops, number(o) = number(p) PROVE o = p
    OBVIOUS
  <2>1. CASE o[1] = "recv" /\ p[1] = "recv"
    <3>1. o[2] = p[2]
      BY <2>1
    <3> QED BY <1>a, <2>1, <3>1, Zenon
  <2>2. CASE o[1] = "send" /\ p[1] = "send"
    <3>1. o[2] = p[2]
      BY <1>a, <2>2
    <3> QED BY <1>a, <2>2, <3>1, Zenon
  <2>3. CASE o[1] = "recv" /\ p[1] = "send"
    BY <1>a, <2>3
  <2>4. CASE o[1] = "send" /\ p[1] = "recv"
    BY <1>a, <2>4
  <2> QED BY <1>a, <2>1, <2>2, <2>3, <2>4
<1> HIDE DEF number, T
<1>4. f \in Injection(1 .. Len(q), T)
  BY <1>1, <1>2, <1>3, Zenon DEF Injection, IsInjective
<1>5. IsFiniteSet(T) /\ Cardinality(T) = 3 * BatchSize
  BY FS_Interval DEF T
<1>6. Cardinality(1 .. Len(q)) = Len(q)
  <2>1. 1 \in Int /\ Len(q) \in Int
    BY <1>1
  <2>2. Cardinality(1 .. Len(q)) = IF 1 > Len(q) THEN 0 ELSE Len(q) - 1 + 1
    BY <2>1, FS_Interval
  <2> QED BY <1>1, <2>2
<1> HIDE DEF f
<1> QED BY <1>4, <1>5, <1>6, FS_Injection

\* An operation is a receive or a send with its slot.
LEMMA OpShape ==
  ASSUME NEW op \in Ops
  PROVE  /\ op[1] = "send" => op[2] \in SendSlots /\ op = SendOp(op[2])
         /\ op[1] # "send" => op[2] \in RecvSlots /\ op = RecvOp(op[2])
BY DEF Ops, RecvOp, SendOp

\* Each slot has its own operation.
LEMMA SlotOps ==
  /\ \A i \in RecvSlots : RecvOp(i) \in Ops
  /\ \A s \in SendSlots : SendOp(s) \in Ops
  /\ \A i \in RecvSlots, s \in SendSlots : RecvOp(i) # SendOp(s)
  /\ \A s, t \in SendSlots : SendOp(s) = SendOp(t) => s = t
  /\ \A i, j \in RecvSlots : RecvOp(i) = RecvOp(j) => i = j
BY DEF Ops, RecvOp, SendOp

\* TypeOK is preserved.
LEMMA TypeStep == TypeOK /\ [Next]_vars => TypeOK'
<1> SUFFICES ASSUME TypeOK, [Next]_vars PROVE TypeOK'
  OBVIOUS
<1> USE RingAssumption, SlotOps
<1>0. /\ MaxVersion \in Nat \ {0} /\ live \in Nat /\ guard[Worker] \in 0 .. MaxVersion
      /\ Len(cq) \in Nat /\ BatchSize \in Nat
  BY DEF TypeOK
<1>1. CASE Start
  <2>1. sq' \in Seq(Ops)
    <3>1. \A k \in 1 .. BatchSize : k - 1 \in RecvSlots
      BY DEF RecvSlots
    <3>2. [k \in 1 .. BatchSize |-> RecvOp(k - 1)] \in [1 .. BatchSize -> Ops]
      BY <3>1
    <3>3. [k \in 1 .. BatchSize |-> RecvOp(k - 1)] \in Seq(Ops)
      BY <1>0, <3>2
    <3> QED BY <1>1, <3>3, Zenon DEF Start, TypeOK
  <2> QED BY <1>1, <2>1 DEF Start, Goto, TypeOK, netVars, slotVars, cellVars
<1>2. CASE \E n \in 0 .. Len(sq) : Submit(n)
  <2> PICK n \in 0 .. Len(sq) : Submit(n)
    BY <1>2
  <2>1. sq' \in Seq(Ops) /\ kernel' \subseteq Ops
    BY DEF Submit, TypeOK
  <2> QED BY <2>1 DEF Submit, Goto, TypeOK, netVars, slotVars, cellVars
<1>3. CASE Leave
  BY <1>3 DEF Leave, Goto, TypeOK, netVars, slotVars, cellVars
<1>4. CASE WaitFails
  BY <1>4 DEF WaitFails, Goto, TypeOK, netVars, slotVars, cellVars, ringVars
<1>5. CASE Wake
  BY <1>5, <1>0 DEF Wake, Goto, TypeOK, netVars, slotVars, ringVars, cell!CellAcquire
<1>6. CASE Reap
  <2> DEFINE c == cq[reaped + 1]
  <2>1. reaped + 1 \in 1 .. Len(cq) /\ c \in [op : Ops, res : Int] /\ reaped' \in 0 .. Len(cq)
    <3>1. reaped \in 0 .. Len(cq) /\ reaped < Len(cq) /\ reaped' = reaped + 1
      BY <1>6 DEF Reap, TypeOK
    <3>2. reaped + 1 \in 1 .. Len(cq) /\ reaped' \in 0 .. Len(cq)
      BY <3>1, <1>0
    <3>3. cq \in Seq([op : Ops, res : Int])
      BY DEF TypeOK
    <3>4. c \in [op : Ops, res : Int]
      BY <3>2, <3>3, ElementOf, Zenon
    <3> QED BY <3>2, <3>4
  <2>2. c.op \in Ops /\ c.res \in Int
    BY <2>1
  <2>3. \A S : Bump(S) => m' \in [Counters -> Nat]
    BY DEF Bump, TypeOK
  <2>4. \A i \in RecvSlots : Stage(sq, RecvOp(i)) \in Seq(Ops)
    BY DEF Stage, TypeOK
  <2> HIDE DEF c
  <2>5. CASE c.op[1] = "send"
    <3>1. c.op[2] \in SendSlots /\ ReapSend(c.op[2], c.res)
      BY <1>6, <2>2, <2>5, OpShape DEF Reap, c
    <3>2. m' \in [Counters -> Nat] /\ sq' \in Seq(Ops) /\ free_send' \in Seq(SendSlots)
      BY <2>3, <3>1 DEF ReapSend, TypeOK
    <3> QED BY <1>6, <2>1, <3>2 DEF Reap, TypeOK, netVars, cellVars
  <2>6. CASE c.op[1] # "send"
    <3> DEFINE i == c.op[2]
    <3>1. i \in RecvSlots /\ ReapRecv(i, c.res)
      BY <1>6, <2>2, <2>6, OpShape DEF Reap, c
    <3> HIDE DEF i
    <3>2. m' \in [Counters -> Nat] /\ sq' \in Seq(Ops) /\ free_send' \in Seq(SendSlots)
      <4>1. CASE c.res < 0
        <5>1. /\ m' = m \/ Bump({"recv_errors"})
              /\ sq' = Stage(sq, RecvOp(i)) /\ free_send' = free_send
          BY <2>2, <3>1, <4>1 DEF ReapRecv
        <5> QED BY <2>3, <2>4, <3>1, <5>1 DEF TypeOK
      <4>2. CASE c.res >= 0 /\ c.res # kWireMsgSize
        <5>1. Bump({"short_datagrams"}) /\ sq' = Stage(sq, RecvOp(i)) /\ free_send' = free_send
          BY <2>2, <3>1, <4>2 DEF ReapRecv
        <5> QED BY <2>3, <2>4, <3>1, <5>1 DEF TypeOK
      <4>3. CASE c.res >= 0 /\ c.res = kWireMsgSize
        <5>1. Decide(i)
          BY <2>2, <3>1, <4>3 DEF ReapRecv
        <5>2. CASE free_send = <<>>
          BY <2>3, <2>4, <3>1, <5>1, <5>2 DEF Decide, TypeOK
        <5>3. CASE free_send # <<>>
          <6>1. free_send \in Seq(SendSlots) /\ Len(free_send) \in Nat \ {0}
            BY <5>3 DEF TypeOK
          <6>2. Top \in SendSlots /\ SubSeq(free_send, 1, Len(free_send) - 1) \in Seq(SendSlots)
            BY <6>1 DEF Top
          <6>3. Stage(Stage(sq, SendOp(Top)), RecvOp(i)) \in Seq(Ops)
            BY <3>1, <6>2 DEF Stage, TypeOK
          <6>4. m' \in [Counters -> Nat]
            BY <2>3, <5>1, <5>3 DEF Decide
          <6>5. free_send' \in Seq(SendSlots)
            BY <5>1, <5>3, <6>1, <6>2, Zenon DEF Decide
          <6> QED BY <5>1, <5>3, <6>3, <6>4, <6>5 DEF Decide
        <5> QED BY <5>2, <5>3
      <4> QED BY <2>2, <4>1, <4>2, <4>3
    <3> QED BY <1>6, <2>1, <3>2 DEF Reap, TypeOK, netVars, cellVars
  <2> QED BY <2>5, <2>6
<1>7. CASE EndRound
  BY <1>7, <1>0 DEF EndRound, Goto, TypeOK, netVars, slotVars, cell!CellRelease
<1>8. ASSUME NEW i \in RecvSlots, KernelReceive(i) PROVE TypeOK'
  <2>1. Head(queue) \in Datagrams /\ Tail(queue) \in Seq(Datagrams)
    BY <1>8 DEF KernelReceive, TypeOK
  <2>2. /\ cq' \in Seq([op : Ops, res : Int]) /\ Len(cq') = Len(cq) + 1
        /\ kernel' \subseteq Ops /\ recv_slots' \in [RecvSlots -> Datagrams]
    <3>1. LengthOf[Head(queue)] \in Int
      BY <2>1
    <3>2. [op |-> RecvOp(i), res |-> LengthOf[Head(queue)]] \in [op : Ops, res : Int]
      BY <3>1
    <3>3. cq' = Append(cq, [op |-> RecvOp(i), res |-> LengthOf[Head(queue)]])
      BY <1>8 DEF KernelReceive, Complete
    <3>4. cq' \in Seq([op : Ops, res : Int]) /\ Len(cq') = Len(cq) + 1
      BY <3>2, <3>3 DEF TypeOK
    <3> QED BY <1>8, <2>1, <3>4, Zenon DEF KernelReceive, Complete, TypeOK
  <2>3. queue' = Tail(queue)
    BY <1>8 DEF KernelReceive
  <2>4. reaped' \in 0 .. Len(cq')
    BY <1>8, <1>0, <2>2 DEF KernelReceive, TypeOK
  <2> QED BY <1>8, <2>1, <2>2, <2>3, <2>4, Zenon DEF KernelReceive, TypeOK, cellVars
<1>9. ASSUME NEW op \in Ops, NEW e \in Int, Complete(op, e),
             UNCHANGED <<queue, since, pc, sq, reaped, slotVars, m, stop, cellVars>>
      PROVE  TypeOK'
  <2>1. cq' \in Seq([op : Ops, res : Int]) /\ Len(cq') = Len(cq) + 1 /\ kernel' \subseteq Ops
    BY <1>9 DEF Complete, TypeOK
  <2> QED BY <1>9, <1>0, <2>1 DEF TypeOK, slotVars, cellVars
<1>10. CASE KernelStep
  <2>1. ASSUME NEW i \in RecvSlots, NEW e \in {EINTR, EIO}, KernelReceiveFails(i, e) PROVE TypeOK'
    BY <1>9, <2>1 DEF KernelReceiveFails, EINTR, EIO, netVars
  <2>2. ASSUME NEW s \in SendSlots, KernelSend(s) PROVE TypeOK'
    BY <1>9, <2>2 DEF KernelSend, kWireMsgSize
  <2>3. ASSUME NEW s \in SendSlots, NEW e \in {EAGAIN, ENOBUFS, EIO}, KernelSendFails(s, e)
        PROVE TypeOK'
    BY <1>9, <2>3 DEF KernelSendFails, EAGAIN, ENOBUFS, EIO, netVars
  <2> QED BY <1>8, <1>10, <2>1, <2>2, <2>3 DEF KernelStep
<1>11. ASSUME NEW d \in Datagrams, Arrive(d) PROVE TypeOK'
  <2>1. InForce \in 0 .. MaxVersion
    BY <1>0 DEF InForce, RuleSet, TypeOK
  <2> QED BY <1>11, <2>1 DEF Arrive, TypeOK, ringVars, slotVars, cellVars
<1>12. CASE Reload
  BY <1>12, <1>0 DEF Reload, TypeOK, netVars, ringVars, slotVars, cell!CellPublish
<1>13. CASE RequestStop
  BY <1>13 DEF RequestStop, TypeOK, netVars, ringVars, slotVars, cellVars
<1>14. CASE Destroy
  BY <1>14, <1>0 DEF Destroy, TypeOK, netVars, ringVars, slotVars, cell!CellDestroy
<1>15. CASE UNCHANGED vars
  BY <1>15 DEF vars, TypeOK, netVars, ringVars, slotVars, cellVars
<1> QED
  BY <1>1, <1>2, <1>3, <1>4, <1>5, <1>6, <1>7, <1>10, <1>11, <1>12, <1>13, <1>14, <1>15
  DEF Next, WorkerStep, Terminated

\* The ways a completion is handled: a slot is freed, a receive is armed again,
\* or a reply is staged first.
LEMMA ReapShape ==
  ASSUME TypeOK, Reap
  PROVE  LET c == cq[reaped + 1]
             x == c.op[2]
         IN  /\ reaped + 1 \in 1 .. Len(cq) /\ c.op \in Ops /\ c.res \in Int
             /\ \/ /\ x \in SendSlots /\ c.op = SendOp(x)
                   /\ free_send' = Append(free_send, x) /\ UNCHANGED <<sq, send_slots>>
                \/ /\ x \in RecvSlots /\ c.op = RecvOp(x)
                   /\ sq' = Stage(sq, RecvOp(x)) /\ UNCHANGED <<free_send, send_slots>>
                \/ /\ x \in RecvSlots /\ c.op = RecvOp(x) /\ c.res >= 0
                   /\ free_send # <<>> /\ Decide(x)
<1> DEFINE c == cq[reaped + 1]
           x == c.op[2]
<1>1. reaped + 1 \in 1 .. Len(cq) /\ cq \in Seq([op : Ops, res : Int])
  <2>1. reaped \in 0 .. Len(cq) /\ reaped < Len(cq) /\ Len(cq) \in Nat
    BY DEF Reap, TypeOK
  <2> QED BY <2>1 DEF TypeOK
<1>2. c \in [op : Ops, res : Int]
  BY <1>1, ElementOf, Zenon
<1>3. c.op \in Ops /\ c.res \in Int
  BY <1>2
<1>4. IF c.op[1] = "send" THEN ReapSend(x, c.res) ELSE ReapRecv(x, c.res)
  BY DEF Reap
<1> HIDE DEF c
<1>5. CASE c.op[1] = "send"
  BY <1>1, <1>3, <1>4, <1>5, OpShape DEF ReapSend, c
<1>6. CASE c.op[1] # "send"
  <2>1. x \in RecvSlots /\ c.op = RecvOp(x) /\ ReapRecv(x, c.res)
    BY <1>3, <1>4, <1>6, OpShape
  <2> HIDE DEF x
  <2>2. CASE c.res >= 0 /\ c.res = kWireMsgSize /\ free_send # <<>>
    <3>1. Decide(x)
      BY <1>3, <2>1, <2>2 DEF ReapRecv
    <3> QED BY <1>1, <1>3, <2>1, <2>2, <3>1 DEF c, x
  <2>3. CASE ~(c.res >= 0 /\ c.res = kWireMsgSize /\ free_send # <<>>)
    <3>1. sq' = Stage(sq, RecvOp(x)) /\ UNCHANGED <<free_send, send_slots>>
      <4>1. CASE c.res < 0
        BY <1>3, <2>1, <4>1 DEF ReapRecv
      <4>2. CASE c.res >= 0 /\ c.res # kWireMsgSize
        BY <1>3, <2>1, <4>2 DEF ReapRecv
      <4>3. CASE c.res >= 0 /\ c.res = kWireMsgSize
        <5>1. Decide(x) /\ free_send = <<>>
          BY <1>3, <2>1, <2>3, <4>3 DEF ReapRecv
        <5> QED BY <5>1 DEF Decide
      <4> QED BY <1>3, <4>1, <4>2, <4>3
    <3> QED BY <1>1, <1>3, <2>1, <3>1 DEF c, x
  <2> QED BY <2>2, <2>3
<1> QED BY <1>5, <1>6

-----------------------------------------------------------------------------
(* The completion queue *)

\* The completion queue gains an operation, or the next one is handled.
LEMMA PendingGains ==
  ASSUME TypeOK, NEW op \in Ops, NEW e \in Int,
         cq' = Append(cq, [op |-> op, res |-> e]), reaped' = reaped
  PROVE  /\ PendingOps' = PendingOps \cup {op}
         /\ /\ op \notin PendingOps
            /\ \A j, k \in reaped + 1 .. Len(cq) : cq[j].op = cq[k].op => j = k
            => (\A j, k \in reaped + 1 .. Len(cq) : cq[j].op = cq[k].op => j = k)'
<1>1. /\ Len(cq) \in Nat /\ Len(cq') = Len(cq) + 1 /\ reaped \in 0 .. Len(cq)
      /\ cq'[Len(cq) + 1].op = op /\ \A k \in 1 .. Len(cq) : cq'[k] = cq[k]
  <2>1. [op |-> op, res |-> e] \in [op : Ops, res : Int]
    OBVIOUS
  <2>2. Len(cq) \in Nat /\ Len(cq') = Len(cq) + 1 /\ reaped \in 0 .. Len(cq)
    BY <2>1 DEF TypeOK
  <2>3. cq'[Len(cq) + 1] = [op |-> op, res |-> e] /\ \A k \in 1 .. Len(cq) : cq'[k] = cq[k]
    BY <2>1 DEF TypeOK
  <2> QED BY <2>2, <2>3
<1>2. /\ reaped + 1 .. Len(cq') = (reaped + 1 .. Len(cq)) \cup {Len(cq) + 1}
      /\ \A k \in reaped + 1 .. Len(cq) : k \in 1 .. Len(cq) /\ k # Len(cq) + 1
  BY <1>1
<1>3. \A k \in reaped + 1 .. Len(cq) : cq'[k].op = cq[k].op
  BY <1>1, <1>2
<1>4. PendingOps' = PendingOps \cup {op}
  BY <1>1, <1>2, <1>3 DEF PendingOps
<1>5. ASSUME op \notin PendingOps, \A j, k \in reaped + 1 .. Len(cq) : cq[j].op = cq[k].op => j = k,
             NEW j \in reaped + 1 .. Len(cq'), NEW k \in reaped + 1 .. Len(cq'),
             cq'[j].op = cq'[k].op
      PROVE  j = k
  <2>1. \A l \in reaped + 1 .. Len(cq) : cq[l].op # op
    BY <1>5 DEF PendingOps
  <2>2. CASE j \in reaped + 1 .. Len(cq) /\ k \in reaped + 1 .. Len(cq)
    BY <1>3, <1>5, <2>2, Zenon
  <2>3. CASE j = Len(cq) + 1 /\ k = Len(cq) + 1
    BY <2>3
  <2>4. CASE j = Len(cq) + 1 /\ k \in reaped + 1 .. Len(cq)
    BY <1>1, <1>3, <1>5, <2>1, <2>4
  <2>5. CASE k = Len(cq) + 1 /\ j \in reaped + 1 .. Len(cq)
    BY <1>1, <1>3, <1>5, <2>1, <2>5
  <2> QED BY <1>2, <2>2, <2>3, <2>4, <2>5
<1> QED BY <1>4, <1>5, Zenon

\* Handling a completion takes its operation out of the queue.
LEMMA PendingLoses ==
  ASSUME TypeOK, reaped + 1 \in 1 .. Len(cq), cq' = cq, reaped' = reaped + 1,
         \A j, k \in reaped + 1 .. Len(cq) : cq[j].op = cq[k].op => j = k
  PROVE  /\ cq[reaped + 1].op \in PendingOps
         /\ PendingOps' = PendingOps \ {cq[reaped + 1].op}
         /\ (\A j, k \in reaped + 1 .. Len(cq) : cq[j].op = cq[k].op => j = k)'
<1>1. /\ reaped \in Nat /\ Len(cq) \in Nat
      /\ reaped + 1 .. Len(cq) = (reaped + 2 .. Len(cq)) \cup {reaped + 1}
      /\ reaped + 1 \notin reaped + 2 .. Len(cq)
  BY DEF TypeOK
<1>2. reaped' + 1 = reaped + 2
  BY <1>1
<1>3. PendingOps' = {cq[k].op : k \in reaped + 2 .. Len(cq)}
  BY <1>2 DEF PendingOps
<1>4. cq[reaped + 1].op \in PendingOps /\ PendingOps' = PendingOps \ {cq[reaped + 1].op}
  BY <1>1, <1>3 DEF PendingOps
<1>5. (\A j, k \in reaped + 1 .. Len(cq) : cq[j].op = cq[k].op => j = k)'
  BY <1>1, <1>2
<1> QED BY <1>4, <1>5

\* What SlotsHaveOneOwner says of a running worker, and its state before the start.
Owned ==
  /\ StagedOps \cup kernel \cup PendingOps \cup FreeOps = Ops
  /\ StagedOps \cap (kernel \cup PendingOps \cup FreeOps) = {}
  /\ kernel \cap (PendingOps \cup FreeOps) = {} /\ PendingOps \cap FreeOps = {}
  /\ IsInjective(sq) /\ IsInjective(free_send)
  /\ \A j, k \in reaped + 1 .. Len(cq) : cq[j].op = cq[k].op => j = k

Fresh ==
  /\ sq = <<>> /\ kernel = {} /\ cq = <<>>
  /\ free_send = [k \in 1 .. 2 * BatchSize |-> 2 * BatchSize - k]

RingInv == TypeOK /\ (Running => Owned) /\ (pc = "starting" => Fresh)

\* The receives are armed and every send slot is free.
LEMMA StartOwned ==
  ASSUME RingInv, Start, Running'
  PROVE  Owned'
<1> USE RingAssumption
<1>1. /\ sq' = [k \in 1 .. BatchSize |-> RecvOp(k - 1)] /\ kernel' = {} /\ cq' = <<>>
      /\ free_send' = [k \in 1 .. 2 * BatchSize |-> 2 * BatchSize - k] /\ reaped' = 0
  BY DEF RingInv, TypeOK, Start, Goto, Running, Fresh, slotVars
<1>2. StagedOps' = {RecvOp(i) : i \in RecvSlots} /\ IsInjective(sq)'
  <2>1. \A k \in 1 .. BatchSize : k - 1 \in RecvSlots
    BY DEF RecvSlots
  <2>2. \A i \in RecvSlots : i + 1 \in 1 .. BatchSize /\ RecvOp(i) = RecvOp((i + 1) - 1)
    BY DEF RecvSlots
  <2>3. DOMAIN sq' = 1 .. BatchSize /\ \A k \in 1 .. BatchSize : sq'[k] = RecvOp(k - 1)
    BY <1>1
  <2>4. Range(sq') = {RecvOp(i) : i \in RecvSlots}
    BY <2>1, <2>2, <2>3, Zenon DEF Range
  <2>5. \A j, k \in 1 .. BatchSize : RecvOp(j - 1) = RecvOp(k - 1) => j = k
    BY DEF RecvOp
  <2> QED BY <2>3, <2>4, <2>5 DEF StagedOps, IsInjective
<1>3. FreeOps' = {SendOp(s) : s \in SendSlots} /\ IsInjective(free_send)'
  <2>1. \A k \in 1 .. 2 * BatchSize : 2 * BatchSize - k \in SendSlots
    BY DEF SendSlots
  <2>2. \A s \in SendSlots : /\ 2 * BatchSize - s \in 1 .. 2 * BatchSize
                             /\ 2 * BatchSize - (2 * BatchSize - s) = s
    BY DEF SendSlots
  <2>3. /\ DOMAIN free_send' = 1 .. 2 * BatchSize
        /\ \A k \in 1 .. 2 * BatchSize : free_send'[k] = 2 * BatchSize - k
    BY <1>1
  <2>4. Range(free_send') = SendSlots
    <3>1. \A k \in DOMAIN free_send' : free_send'[k] \in SendSlots
      BY <2>1, <2>3
    <3>2. \A s \in SendSlots : \E k \in DOMAIN free_send' : free_send'[k] = s
      BY <2>2, <2>3
    <3> QED BY <3>1, <3>2 DEF Range
  <2>5. IsInjective(free_send')
    BY <2>3 DEF IsInjective
  <2> QED BY <2>4, <2>5 DEF FreeOps
<1>4. PendingOps' = {} /\ \A k \in (reaped + 1 .. Len(cq))' : FALSE
  BY <1>1 DEF PendingOps
<1>5. Ops = {RecvOp(i) : i \in RecvSlots} \cup {SendOp(s) : s \in SendSlots}
  BY DEF Ops
<1>6. {RecvOp(i) : i \in RecvSlots} \cap {SendOp(s) : s \in SendSlots} = {}
  BY SlotOps
<1> QED BY <1>1, <1>2, <1>3, <1>4, <1>5, <1>6, Zenon DEF Owned

\* Submitting, completing and the end of a round move operations along.
LEMMA SubmitOwned ==
  ASSUME TypeOK, Owned, NEW n \in 0 .. Len(sq), Submit(n)
  PROVE  Owned'
<1> DEFINE h == {sq[k] : k \in 1 .. n}
<1>1. sq \in Seq(Ops) /\ IsInjective(sq)
  BY DEF TypeOK, Owned
<1>2. /\ IsInjective(sq') /\ Range(sq) = Range(sq') \cup h /\ Range(sq') \cap h = {}
  BY <1>1, CutRange DEF Submit
<1>3. kernel' = kernel \cup h
  BY DEF Submit
<1> HIDE DEF h
<1>4. PendingOps' = PendingOps /\ FreeOps' = FreeOps /\ UNCHANGED <<free_send, reaped, cq>>
  BY DEF Submit, PendingOps, FreeOps, slotVars
<1> QED BY <1>2, <1>3, <1>4 DEF Owned, StagedOps

\* A completion moves an operation from the kernel to the queue.
LEMMA CompleteOwned ==
  ASSUME TypeOK, Owned, NEW op \in kernel, NEW e \in Int, Complete(op, e),
         UNCHANGED <<sq, reaped, free_send>>
  PROVE  Owned'
<1>1. op \in Ops /\ op \notin PendingOps
  BY DEF TypeOK, Owned
<1>2. /\ PendingOps' = PendingOps \cup {op} /\ kernel' = kernel \ {op}
      /\ (\A j, k \in reaped + 1 .. Len(cq) : cq[j].op = cq[k].op => j = k)'
  BY <1>1, PendingGains, Zenon DEF Complete, Owned
<1>3. StagedOps' = StagedOps /\ FreeOps' = FreeOps
  BY DEF StagedOps, FreeOps
<1> QED BY <1>2, <1>3 DEF Owned

\* A round ends with no completion left to handle.
LEMMA EndRoundOwned ==
  ASSUME TypeOK, Owned, EndRound
  PROVE  Owned'
<1>1. /\ reaped = Len(cq) /\ cq' = <<>> /\ reaped' = 0 /\ Len(cq) \in Nat
      /\ UNCHANGED <<sq, kernel, free_send>>
  BY DEF EndRound, TypeOK, slotVars
<1>2. PendingOps = {} /\ PendingOps' = {} /\ \A k \in (reaped + 1 .. Len(cq))' : FALSE
  BY <1>1 DEF PendingOps
<1>3. StagedOps' = StagedOps /\ FreeOps' = FreeOps
  BY <1>1 DEF StagedOps, FreeOps
<1> QED BY <1>1, <1>2, <1>3 DEF Owned

\* Reaping finds room in the submission queue for what it stages: the operation
\* it handles and the free slots are not in the queue.
LEMMA ReapOwned ==
  ASSUME TypeOK, Owned, Reap
  PROVE  Owned'
<1> USE RingAssumption
<1> DEFINE c == cq[reaped + 1]
           x == c.op[2]
<1>1. /\ reaped + 1 \in 1 .. Len(cq) /\ c.op \in Ops
      /\ UNCHANGED <<kernel, cq>> /\ reaped' = reaped + 1
  BY ReapShape DEF Reap
<1>2. /\ c.op \in PendingOps /\ PendingOps' = PendingOps \ {c.op}
      /\ (\A j, k \in reaped + 1 .. Len(cq) : cq[j].op = cq[k].op => j = k)'
  BY <1>1, PendingLoses DEF Owned
<1>3. sq \in Seq(Ops) /\ IsInjective(sq) /\ Len(sq) \in Nat
  BY DEF TypeOK, Owned
<1>4. c.op \notin Range(sq)
  BY <1>2 DEF Owned, StagedOps
<1>5. CASE /\ x \in SendSlots /\ c.op = SendOp(x)
           /\ free_send' = Append(free_send, x) /\ UNCHANGED <<sq, send_slots>>
  <2>1. x \notin Range(free_send)
    BY <1>2, <1>5 DEF Owned, FreeOps
  <2>2. IsInjective(free_send') /\ Range(free_send') = Range(free_send) \cup {x}
    BY <1>5, <2>1, AppendRange DEF TypeOK, Owned
  <2>3. FreeOps' = FreeOps \cup {c.op} /\ StagedOps' = StagedOps
    BY <1>5, <2>2 DEF FreeOps, StagedOps
  <2> HIDE DEF c, x
  <2> QED BY <1>1, <1>2, <1>5, <2>2, <2>3 DEF Owned
<1>6. CASE /\ x \in RecvSlots /\ c.op = RecvOp(x)
           /\ sq' = Stage(sq, RecvOp(x)) /\ UNCHANGED <<free_send, send_slots>>
  <2> DEFINE q == Append(sq, c.op)
  <2>1. q \in Seq(Ops) /\ IsInjective(q) /\ Len(q) = Len(sq) + 1 /\ Range(q) = Range(sq) \cup {c.op}
    BY <1>1, <1>3, <1>4, AppendRange
  <2>2. ~Full(sq)
    BY <1>3, <2>1, OpsFit DEF Full
  <2>3. sq' = q
    BY <1>6, <2>2 DEF Stage
  <2>4. StagedOps' = StagedOps \cup {c.op} /\ FreeOps' = FreeOps /\ IsInjective(sq')
    BY <1>6, <2>1, <2>3 DEF FreeOps, StagedOps
  <2> HIDE DEF c, x
  <2> QED BY <1>1, <1>2, <1>6, <2>4 DEF Owned
<1>7. CASE /\ x \in RecvSlots /\ c.op = RecvOp(x) /\ c.res >= 0
           /\ free_send # <<>> /\ Decide(x)
  <2> DEFINE q == Append(sq, SendOp(Top))
             r == Append(q, c.op)
             f == SubSeq(free_send, 1, Len(free_send) - 1)
  <2>1. /\ Top \in SendSlots /\ Top \in Range(free_send)
        /\ IsInjective(f) /\ Range(f) = Range(free_send) \ {Top}
    BY <1>7, PopRange DEF TypeOK, Owned, Top
  <2>2. SendOp(Top) \in Ops /\ SendOp(Top) \in FreeOps /\ SendOp(Top) # c.op
    BY <1>7, <2>1, SlotOps DEF FreeOps
  <2>3. SendOp(Top) \notin Range(sq)
    BY <2>2 DEF Owned, StagedOps
  <2>4. /\ q \in Seq(Ops) /\ IsInjective(q) /\ Len(q) = Len(sq) + 1
        /\ Range(q) = Range(sq) \cup {SendOp(Top)}
    BY <1>3, <2>2, <2>3, AppendRange
  <2> HIDE DEF q
  <2>5. /\ r \in Seq(Ops) /\ IsInjective(r) /\ Len(r) = Len(q) + 1
        /\ Range(r) = Range(q) \cup {c.op}
    BY <1>1, <1>4, <2>2, <2>4, AppendRange
  <2> HIDE DEF r
  <2>6. Len(sq) + 2 <= 3 * BatchSize
    BY <1>3, <2>4, <2>5, OpsFit
  <2>7. ~Full(sq) /\ ~Full(q)
    BY <1>3, <2>4, <2>6 DEF Full
  <2>8. sq' = r
    BY <1>7, <2>7 DEF Decide, Stage, q, r
  <2>9. free_send' = f
    BY <1>7, <2>7 DEF Decide
  <2>10. FreeOps' = FreeOps \ {SendOp(Top)}
    <3>1. Range(free_send) \subseteq SendSlots
      BY DEF Range, TypeOK
    <3>2. \A t \in Range(free_send) : SendOp(t) = SendOp(Top) => t = Top
      BY <2>1, <3>1, SlotOps
    <3>3. Range(free_send') = Range(free_send) \ {Top}
      BY <2>1, <2>9
    <3> QED BY <3>2, <3>3 DEF FreeOps
  <2>11. StagedOps' = StagedOps \cup {SendOp(Top), c.op} /\ IsInjective(sq') /\ IsInjective(free_send')
    BY <2>1, <2>4, <2>5, <2>8, <2>9 DEF StagedOps
  <2> HIDE DEF c, x, f
  <2> QED BY <1>1, <1>2, <1>7, <2>2, <2>10, <2>11 DEF Owned
<1> QED BY <1>5, <1>6, <1>7, ReapShape

\* Every step keeps the ring in order.
LEMMA RingStep == RingInv /\ [Next]_vars => RingInv'
<1> SUFFICES ASSUME RingInv, [Next]_vars PROVE RingInv'
  OBVIOUS
<1>0. TypeOK /\ TypeOK' /\ (Running => Owned) /\ (pc = "starting" => Fresh)
  BY TypeStep DEF RingInv
<1>1. CASE Start
  BY <1>0, <1>1, StartOwned DEF RingInv, Start, Goto
<1>2. CASE \E n \in 0 .. Len(sq) : Submit(n)
  BY <1>0, <1>2, SubmitOwned DEF RingInv, Submit, Goto, Running
<1>3. CASE Leave
  BY <1>0, <1>3 DEF RingInv, Leave, Goto, Running
<1>4. ASSUME UNCHANGED <<ringVars, slotVars>>, Running' => Running, pc' = "starting" => pc = "starting"
      PROVE  RingInv'
  <2>1. Owned => Owned'
    <3>1. UNCHANGED <<sq, kernel, cq, reaped, free_send>>
      BY <1>4 DEF ringVars, slotVars
    <3>2. UNCHANGED <<StagedOps, PendingOps, FreeOps>>
      BY <3>1 DEF StagedOps, PendingOps, FreeOps
    <3> QED BY <3>1, <3>2 DEF Owned
  <2>2. Fresh => Fresh'
    BY <1>4 DEF Fresh, ringVars, slotVars
  <2> QED BY <1>0, <1>4, <2>1, <2>2 DEF RingInv
<1>5. CASE WaitFails \/ Wake
  BY <1>4, <1>5 DEF WaitFails, Wake, Goto, Running
<1>6. CASE Reap
  BY <1>0, <1>6, ReapOwned DEF RingInv, Reap, Running
<1>7. CASE EndRound
  BY <1>0, <1>7, EndRoundOwned DEF RingInv, EndRound, Goto, Running
<1>8. ASSUME NEW op \in kernel, NEW e \in Int, Complete(op, e), UNCHANGED <<pc, sq, reaped, free_send>>
      PROVE  RingInv'
  BY <1>0, <1>8, CompleteOwned DEF RingInv, Running, Fresh
<1>9. CASE KernelStep
  <2>1. ASSUME NEW i \in RecvSlots, KernelReceive(i) PROVE RingInv'
    <3>1. Head(queue) \in Datagrams /\ LengthOf[Head(queue)] \in Int
      BY <1>0, <2>1, RingAssumption DEF KernelReceive, TypeOK
    <3> QED BY <1>8, <2>1, <3>1 DEF KernelReceive
  <2>2. ASSUME NEW i \in RecvSlots, NEW e \in {EINTR, EIO}, KernelReceiveFails(i, e) PROVE RingInv'
    BY <1>8, <2>2 DEF KernelReceiveFails, EINTR, EIO, slotVars
  <2>3. ASSUME NEW s \in SendSlots, KernelSend(s) PROVE RingInv'
    BY <1>8, <2>3 DEF KernelSend, kWireMsgSize, slotVars
  <2>4. ASSUME NEW s \in SendSlots, NEW e \in {EAGAIN, ENOBUFS, EIO}, KernelSendFails(s, e)
        PROVE RingInv'
    BY <1>8, <2>4 DEF KernelSendFails, EAGAIN, ENOBUFS, EIO, slotVars
  <2> QED BY <1>9, <2>1, <2>2, <2>3, <2>4 DEF KernelStep
<1>10. CASE \/ \E d \in Datagrams : Arrive(d)
            \/ Reload \/ RequestStop \/ Destroy \/ UNCHANGED vars
  BY <1>4, <1>10 DEF Arrive, Reload, RequestStop, Destroy, vars, Running
<1> QED BY <1>1, <1>2, <1>3, <1>5, <1>6, <1>7, <1>9, <1>10 DEF Next, WorkerStep, Terminated

\* The ring starts in order: nothing is armed, and every send slot is free.
LEMMA RingInit == Init => RingInv
<1> SUFFICES ASSUME Init PROVE RingInv
  OBVIOUS
<1> USE RingAssumption
<1>1. NoDatagram \in Datagrams
  <2>1. 1 \in Datagrams
    BY DEF Datagrams
  <2> QED BY <2>1, Zenon DEF NoDatagram
<1>2. [k \in 1 .. 2 * BatchSize |-> 2 * BatchSize - k] \in Seq(SendSlots)
  <2>1. \A k \in 1 .. 2 * BatchSize : 2 * BatchSize - k \in SendSlots
    BY DEF SendSlots
  <2>2. 2 * BatchSize \in Nat
    OBVIOUS
  <2>3. [k \in 1 .. 2 * BatchSize |-> 2 * BatchSize - k] \in [1 .. 2 * BatchSize -> SendSlots]
    BY <2>1
  <2> QED BY <2>2, <2>3
<1>3. TypeOK
  <2>1. queue \in Seq(Datagrams) /\ sq \in Seq(Ops) /\ cq \in Seq([op : Ops, res : Int]) /\ Len(cq) = 0
    BY DEF Init
  <2>2. /\ since \in [Datagrams -> 0 .. MaxVersion] /\ recv_slots \in [RecvSlots -> Datagrams]
        /\ m \in [Counters -> Nat] /\ guard \in [{Worker} -> 0 .. MaxVersion] /\ live \in 0 .. MaxVersion
    BY <1>1 DEF Init, cell!CellInit
  <2>3. free_send \in Seq(SendSlots) /\ kernel \subseteq Ops /\ reaped = 0 /\ stop \in BOOLEAN
    BY <1>2, Zenon DEF Init
  <2>4. pc = "starting" /\ reaped \in 0 .. Len(cq)
    BY <2>1, <2>3 DEF Init
  <2> QED BY <2>1, <2>2, <2>3, <2>4 DEF TypeOK
<1> QED BY <1>3 DEF Init, RingInv, Running, Fresh

\* Every slot always has exactly one owner, and the submission queue never runs
\* out of room, whatever the batch size.
THEOREM OneOwner == Spec => []SlotsHaveOneOwner
<1>1. RingInv => SlotsHaveOneOwner
  BY DEF RingInv, SlotsHaveOneOwner, Owned
<1> QED BY <1>1, RingInit, RingStep, PTL DEF Spec
=============================================================================
