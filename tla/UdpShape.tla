------------------------------ MODULE UdpShape ------------------------------
(***************************************************************************)
(* The inductive invariant of UdpWorker, what each step of a worker and of  *)
(* its environment changes, and the proof that types, bounds, guards and    *)
(* counters are kept.                                                       *)
(***************************************************************************)
EXTENDS UdpWorker, TLAPS

\* How long a leaf may take, and what is tried when it takes longer.
USE SMTT(10), Zenon, SMTT(30), SMTT(60)

-----------------------------------------------------------------------------
(* The inductive invariant *)

\* The datagrams of its batch that a worker has still to decide.
Undecided(w) ==
  IF pc[w] = "received" THEN 1 .. Len(batch[w])
  ELSE IF pc[w] = "deciding" THEN next[w] .. Len(batch[w]) ELSE {}

\* The send slots whose reply has not been given to the kernel.
Unsent(w) == IF pc[w] = "deciding" THEN 1 .. out[w] ELSE {}

\* The datagrams a worker holds.
Hand(w) == {batch[w][i] : i \in Undecided(w)} \cup {slots[w][k].about : k \in Unsent(w)}

\* A datagram is in at most one place: a socket's queue, the batch of a worker,
\* one of its send slots, or the wire.  It is only in the hands of a worker
\* that serves its client's socket.
InQueue ==
  \A s \in Sockets : \A i \in 1 .. Len(queue[s]) :
    LET d == queue[s][i] IN
    /\ since[d] # 0 /\ hashed[ClientOf[d]] = s
    /\ \A j \in 1 .. Len(queue[s]) : queue[s][j] = d => j = i
    /\ \A w \in Workers : d \notin Hand(w)
    /\ \A k \in 1 .. Len(wire) : wire[k].about # d

InBatch ==
  \A w \in Workers : \A i \in Undecided(w) :
    LET d == batch[w][i] IN
    /\ since[d] # 0 /\ hashed[ClientOf[d]] = SocketOf(w)
    /\ \A j \in Undecided(w) : batch[w][j] = d => j = i
    /\ \A k \in Unsent(w) : slots[w][k].about # d

InSlots ==
  \A w \in Workers : \A k \in Unsent(w) :
    LET r == slots[w][k] IN
    /\ r.to = ClientOf[r.about]
    /\ since[r.about] # 0 /\ hashed[r.to] = SocketOf(w)
    /\ \A j \in Unsent(w) : slots[w][j].about = r.about => j = k

InHands ==
  \A w \in Workers :
    /\ \A v \in Workers \ {w} : Hand(w) \cap Hand(v) = {}
    /\ \A k \in 1 .. Len(wire) : wire[k].about \notin Hand(w)

OnWire ==
  \A j \in 1 .. Len(wire) :
    /\ wire[j].to = ClientOf[wire[j].about] /\ since[wire[j].about] # 0
    /\ \A k \in 1 .. Len(wire) : wire[k].about = wire[j].about => k = j

OnePlace == InQueue /\ InBatch /\ InSlots /\ InHands /\ OnWire

\* The worker's loop index and its staged replies stay within the batch, and
\* what it has staged are replies.
InBounds ==
  \A w \in Workers :
    /\ Len(batch[w]) <= BatchSize
    /\ pc[w] = "deciding" => next[w] <= Len(batch[w]) + 1 /\ out[w] < next[w]
    /\ \A k \in Unsent(w) : slots[w][k] \in Replies

\* A worker holds a guard exactly while it decides and sends a batch, and once
\* the server has been joined nobody does.
Guards ==
  /\ \A w \in Workers : guard[w] # 0 <=> pc[w] \in {"deciding", "sent"}
  /\ \A w \in Workers : guard[w] <= live
  /\ live = 0 => ~running
  /\ ~running => \A w \in Workers : pc[w] = "stopped"

\* What has arrived is no newer than the live policy, and what a worker is
\* deciding no newer than its guard; its replies carry the guard's version.
Versions ==
  /\ live # 0 => \A d \in Datagrams : since[d] <= live
  /\ live # 0 => \A j \in 1 .. Len(wire) : wire[j].version <= live
  /\ \A w \in Workers : pc[w] = "deciding" =>
       \A i \in Undecided(w) : since[batch[w][i]] <= guard[w]
  /\ \A w \in Workers : pc[w] = "deciding" =>
       \A k \in Unsent(w) : since[slots[w][k].about] <= guard[w]
  /\ \A w \in Workers : pc[w] \in {"deciding", "sent"} =>
       \A k \in 1 .. out[w] : slots[w][k].version = guard[w]

\* With a socket each, no reply to a client is newer than the guard of the
\* worker that serves the client.
OwnSocket ==
  layout.per_worker => \A j \in 1 .. Len(wire) :
    LET w == hashed[wire[j].to] IN guard[w] # 0 => wire[j].version <= guard[w]

\* The counters of a worker, with what is still in its hands.
ToDecide(w) == IF pc[w] = "received" THEN Len(batch[w])
               ELSE IF pc[w] = "deciding" THEN Len(batch[w]) + 1 - next[w] ELSE 0
ToSend(w) == IF pc[w] = "deciding" THEN out[w] ELSE 0

Balanced(w) ==
  /\ m[w]["batch_datagrams"] =
       m[w]["short_datagrams"] + m[w]["bad_magic"] + m[w]["requests"] + ToDecide(w)
  /\ m[w]["bad_magic"] + m[w]["requests"] =
       m[w]["replies_sent"] + m[w]["send_failures"] + ToSend(w)
  /\ m[w]["send_failures"] =
       m[w]["send_wouldblock"] + m[w]["send_nobufs"] + m[w]["send_errors"]
  /\ m[w]["noted"] = m[w]["bad_magic"] + m[w]["requests"]

Accounts == \A w \in Workers : Balanced(w)

\* The configuration is one of the offered ones.
LayoutOK == layout \in Layouts /\ hashed \in [Clients -> Sockets]

Shape    == LayoutOK /\ TypeOK /\ InBounds /\ Guards
Policies == Versions /\ OwnSocket /\ PolicyNeverGoesBack /\ DecidedByALivePolicy

UdpInv == Shape /\ Accounts /\ OnePlace /\ Policies

-----------------------------------------------------------------------------
(* Types, bounds and guards *)

\* What a configuration gives: threads are workers, and each has a socket.
LEMMA LayoutFacts ==
  ASSUME LayoutOK
  PROVE  /\ Threads \subseteq Workers /\ BatchSize \in Nat \ {0} /\ 0 \in Sockets
         /\ Sockets \subseteq Nat /\ layout.per_worker \in BOOLEAN /\ layout.reader_slots \in Nat
         /\ \A w \in Threads : SocketOf(w) \in Sockets
         /\ \A w \in Workers : w \in Nat
<1>1. /\ layout.worker_threads \in Nat \ {0} /\ layout.per_worker \in BOOLEAN
      /\ layout.batch_size \in Nat \ {0} /\ layout.reader_slots \in Nat
      /\ 0 .. layout.worker_threads - 1 \subseteq Workers /\ Workers \subseteq Nat
  BY UdpAssumption DEF LayoutOK
<1> QED BY <1>1 DEF Threads, BatchSize, Sockets, SocketOf

\* The configuration does not change.
LEMMA LayoutKept ==
  ASSUME LayoutOK, Configured
  PROVE  /\ LayoutOK' /\ Threads' = Threads /\ Sockets' = Sockets /\ BatchSize' = BatchSize
         /\ layout' = layout /\ hashed' = hashed
         /\ \A w : SocketOf(w)' = SocketOf(w)
BY DEF LayoutOK, Configured, Threads, Sockets, BatchSize, SocketOf

\* Adding to a worker's counters changes only that worker's.
LEMMA BumpCounts ==
  ASSUME NEW w \in Workers, m \in [Workers -> [Counters -> Nat]],
         NEW by \in [Counters -> Nat], Bump(w, by)
  PROVE  /\ m' \in [Workers -> [Counters -> Nat]]
         /\ \A c \in Counters : m'[w][c] = m[w][c] + by[c]
         /\ \A v \in Workers \ {w} : m'[v] = m[v]
<1> DEFINE f == [c \in Counters |-> m[w][c] + by[c]]
<1>1. m' = [m EXCEPT ![w] = f]
  BY DEF Bump
<1>2. f \in [Counters -> Nat]
  OBVIOUS
<1>3. \A c \in Counters : f[c] = m[w][c] + by[c]
  OBVIOUS
<1> HIDE DEF f
<1> QED BY <1>1, <1>2, <1>3

\* What a counter step adds is zero or one.
LEMMA OnceType == \A S : Once(S) \in [Counters -> Nat] /\ \A c \in Counters : Once(S)[c] = IF c \in S THEN 1 ELSE 0
BY DEF Once

\* What n datagrams a worker receives and what it leaves in the queue.
Received(w, n) ==
  LET s == SocketOf(w)
      q == queue[s]
  IN
  /\ n \in 1 .. BatchSize /\ n <= Len(q) /\ s \in Sockets /\ q \in Seq(Datagrams)
  /\ pc[w] = "receiving" /\ pc' = [pc EXCEPT ![w] = "received"]
  /\ batch' = [batch EXCEPT ![w] = batch'[w]] /\ batch'[w] \in Seq(Datagrams)
  /\ Len(batch'[w]) = n /\ \A i \in 1 .. n : batch'[w][i] = q[i]
  /\ queue' = [queue EXCEPT ![s] = queue'[s]] /\ queue'[s] \in Seq(Datagrams)
  /\ Len(queue'[s]) = Len(q) - n /\ \A i \in 1 .. Len(q) - n : queue'[s][i] = q[n + i]
  /\ Bump(w, [Once({}) EXCEPT !["batch_datagrams"] = n])
  /\ UNCHANGED <<since, wire, next, out, slots, stop, running, live, guard, freed>>

\* recv_batch(): the head of a queue becomes the batch, and is counted.
LEMMA ReceiveFacts ==
  ASSUME Shape, Configured, NEW w \in Threads, Receive(w)
  PROVE  \E n : Received(w, n)
<1> DEFINE s == SocketOf(w)
           q == queue[s]
<1>1. /\ s \in Sockets /\ BatchSize \in Nat \ {0} /\ w \in Workers
      /\ q \in Seq(Datagrams) /\ batch \in [Workers -> Seq(Datagrams)]
      /\ queue \in [Sockets -> Seq(Datagrams)]
  BY LayoutFacts DEF Shape, TypeOK
<1>2. PICK n \in 1 .. BatchSize :
        /\ n <= Len(q)
        /\ batch' = [batch EXCEPT ![w] = SubSeq(q, 1, n)]
        /\ queue' = [queue EXCEPT ![s] = SubSeq(q, n + 1, Len(q))]
        /\ Bump(w, [Once({}) EXCEPT !["batch_datagrams"] = n])
  BY Zenon DEF Receive, TakeBatch
<1>3. /\ pc[w] = "receiving" /\ pc' = [pc EXCEPT ![w] = "received"]
      /\ UNCHANGED <<since, wire, next, out, slots, stop, running, live, guard, freed>>
  BY DEF Receive, TakeBatch, Goto, cellVars
<1>4. /\ SubSeq(q, 1, n) \in Seq(Datagrams) /\ Len(SubSeq(q, 1, n)) = n
      /\ \A i \in 1 .. n : SubSeq(q, 1, n)[i] = q[i]
      /\ SubSeq(q, n + 1, Len(q)) \in Seq(Datagrams)
      /\ Len(SubSeq(q, n + 1, Len(q))) = Len(q) - n
      /\ \A i \in 1 .. Len(q) - n : SubSeq(q, n + 1, Len(q))[i] = q[n + i]
  <2>1. n \in 1 .. Len(q) /\ Len(q) \in Nat
    BY <1>1, <1>2
  <2> HIDE DEF q
  <2> QED BY <1>1, <2>1
<1>5. batch'[w] = SubSeq(q, 1, n) /\ queue'[s] = SubSeq(q, n + 1, Len(q))
  <2> HIDE DEF q, s
  <2> QED BY <1>1, <1>2
<1>6. Received(w, n)
  <2> HIDE DEF q, s
  <2> QED BY <1>1, <1>2, <1>3, <1>4, <1>5 DEF Received, q, s
<1> QED BY <1>6

\* Deciding a datagram: it is dropped, or its reply is staged in the next slot.
Decided(w, d) ==
  /\ pc[w] = "deciding" /\ next[w] \in 1 .. Len(batch[w]) /\ d = batch[w][next[w]]
  /\ d \in Datagrams
  /\ next' = [next EXCEPT ![w] = next[w] + 1]
  /\ UNCHANGED <<queue, since, wire, pc, batch, stop, running, live, guard, freed>>

Staging(w, d, r) ==
  /\ r = [to |-> ClientOf[d], about |-> d, version |-> guard[w]] /\ r \in Replies
  /\ out[w] + 1 \in 1 .. BatchSize
  /\ slots' = [slots EXCEPT ![w] = [slots[w] EXCEPT ![out[w] + 1] = r]]
  /\ out' = [out EXCEPT ![w] = out[w] + 1]

\* stage_reply(): the reply takes the next send slot, or nothing is staged.
LEMMA StagingFacts ==
  ASSUME LayoutOK, TypeOK, NEW w \in Workers, NEW d, NEW r, Staging(w, d, r)
  PROVE  /\ out'[w] = out[w] + 1 /\ slots'[w][out[w] + 1] = r
         /\ \A k \in 1 .. out[w] : slots'[w][k] = slots[w][k]
         /\ r.to = ClientOf[d] /\ r.about = d /\ r.version = guard[w]
<1>1. /\ BatchSize \in Nat /\ out[w] \in 0 .. BatchSize /\ out \in [Workers -> 0 .. BatchSize]
      /\ slots \in [Workers -> [1 .. BatchSize -> Replies \cup {NoReply}]]
      /\ out[w] + 1 \in 1 .. BatchSize
  BY LayoutFacts DEF TypeOK, Staging
<1>2. out'[w] = out[w] + 1
  BY <1>1 DEF Staging
<1>3. slots'[w] = [slots[w] EXCEPT ![out[w] + 1] = r]
  BY <1>1 DEF Staging
<1>4. slots'[w][out[w] + 1] = r /\ \A k \in 1 .. out[w] : slots'[w][k] = slots[w][k]
  BY <1>1, <1>3
<1>5. r.to = ClientOf[d] /\ r.about = d /\ r.version = guard[w]
  BY DEF Staging
<1> QED BY <1>2, <1>4, <1>5

\* One datagram of the batch: dropped and counted, or decided and staged.
LEMMA DecideFacts ==
  ASSUME Shape, Configured, NEW w \in Threads, Decide(w)
  PROVE  \E d, r :
           /\ Decided(w, d)
           /\ \/ Bump(w, Once({"short_datagrams"})) /\ UNCHANGED <<out, slots>>
              \/ Bump(w, Once(Classify(d))) /\ Staging(w, d, r)
<1> DEFINE d == batch[w][next[w]]
           r == [to |-> ClientOf[d], about |-> d, version |-> guard[w]]
<1>1. /\ w \in Workers /\ BatchSize \in Nat /\ batch[w] \in Seq(Datagrams)
      /\ next[w] \in 1 .. BatchSize + 1 /\ out[w] \in 0 .. BatchSize
      /\ guard[w] \in 0 .. MaxVersion /\ Len(batch[w]) <= BatchSize
      /\ slots \in [Workers -> [1 .. BatchSize -> Replies \cup {NoReply}]]
  BY LayoutFacts DEF Shape, TypeOK, InBounds
<1>2. pc[w] = "deciding" /\ next[w] <= Len(batch[w])
  BY DEF Decide
<1>3. out[w] < next[w] /\ guard[w] # 0
  BY <1>1, <1>2 DEF Shape, InBounds, Guards
<1>4. next[w] \in 1 .. Len(batch[w])
  BY <1>1, <1>2
<1>5. d \in Datagrams
  BY <1>1, <1>4
<1>6. next' = [next EXCEPT ![w] = next[w] + 1]
  BY DEF Decide
<1>7. Decided(w, d)
  BY <1>2, <1>4, <1>5, <1>6 DEF Decide, Decided, netVars, cellVars
<1>8. r \in Replies
  <2>1. ClientOf[d] \in Clients
    BY <1>5, UdpAssumption
  <2>2. guard[w] \in 1 .. MaxVersion
    BY <1>1, <1>3, UdpAssumption
  <2> HIDE DEF d
  <2> QED BY <1>5, <2>1, <2>2 DEF Replies
<1>9. out[w] + 1 \in 1 .. BatchSize
  BY <1>1, <1>2, <1>3
<1>10. CASE RecvLen(d) # kWireMsgSize
  <2>1. Bump(w, Once({"short_datagrams"})) /\ UNCHANGED <<out, slots>>
    BY <1>10 DEF Decide
  <2> HIDE DEF d, r
  <2> QED BY <1>7, <2>1
<1>11. CASE RecvLen(d) = kWireMsgSize
  <2>1. /\ Bump(w, Once(Classify(d))) /\ StageReply(w, d)
        /\ out' = [out EXCEPT ![w] = out[w] + 1]
    BY <1>11 DEF Decide
  <2>2. slots' = [slots EXCEPT ![w] = [slots[w] EXCEPT ![out[w] + 1] = r]]
    <3> HIDE DEF d
    <3> QED BY <1>1, <2>1 DEF StageReply, RuleSetOf
  <2>3. Staging(w, d, r)
    <3> HIDE DEF d
    <3> QED BY <1>8, <1>9, <2>1, <2>2 DEF Staging
  <2> HIDE DEF d, r
  <2> QED BY <1>7, <2>1, <2>3
<1> QED BY <1>10, <1>11

\* Concatenation, element by element.
LEMMA ConcatElements ==
  ASSUME NEW S, NEW s \in Seq(S), NEW t \in Seq(S)
  PROVE  /\ s \o t \in Seq(S) /\ Len(s \o t) = Len(s) + Len(t)
         /\ \A j \in 1 .. Len(s) : (s \o t)[j] = s[j]
         /\ \A k \in 1 .. Len(t) : (s \o t)[Len(s) + k] = t[k]
<1>1. s \o t \in Seq(S) /\ Len(s \o t) = Len(s) + Len(t)
  OBVIOUS
<1>2. ASSUME NEW j \in 1 .. Len(s) PROVE (s \o t)[j] = s[j]
  OBVIOUS
<1>3. ASSUME NEW k \in 1 .. Len(t) PROVE (s \o t)[Len(s) + k] = t[k]
  OBVIOUS
<1> QED BY <1>1, <1>2, <1>3

\* Sending: the wire grows by the first n staged replies.
Sending(w, n) ==
  /\ pc[w] = "deciding" /\ pc' = [pc EXCEPT ![w] = "sent"]
  /\ next[w] > Len(batch[w]) /\ n \in 0 .. out[w]
  /\ wire' \in Seq(Replies) /\ Len(wire') = Len(wire) + n
  /\ \A j \in 1 .. Len(wire) : wire'[j] = wire[j]
  /\ \A k \in 1 .. n : wire'[Len(wire) + k] = slots[w][k] /\ k \in Unsent(w)
  /\ UNCHANGED <<queue, since, batch, next, out, slots, stop, running, live, guard, freed>>

\* send_batch(): a prefix of the staged replies goes to their clients.
LEMMA SendFacts ==
  ASSUME Shape, Configured, NEW w \in Threads, SendBatch(w)
  PROVE  \E n, cause :
           /\ Sending(w, n) /\ cause \in Causes
           /\ Bump(w, [c \in Counters |-> IF c = "replies_sent" THEN n
                                          ELSE IF c \in CountedAs(cause) THEN Staged(w) - n
                                          ELSE 0])
<1>1. PICK n \in 0 .. out[w], cause \in Causes :
        /\ wire' = wire \o [k \in 1 .. n |-> slots[w][k]]
        /\ Bump(w, [c \in Counters |-> IF c = "replies_sent" THEN n
                                          ELSE IF c \in CountedAs(cause) THEN Staged(w) - n
                                          ELSE 0])
  BY DEF SendBatch, Staged, Deliver
<1>2. /\ w \in Workers /\ out[w] \in Nat /\ wire \in Seq(Replies)
  BY LayoutFacts DEF Shape, TypeOK
<1>3. /\ pc[w] = "deciding" /\ pc' = [pc EXCEPT ![w] = "sent"] /\ next[w] > Len(batch[w])
      /\ UNCHANGED <<queue, since, batch, next, out, slots, stop, running, live, guard, freed>>
  BY DEF SendBatch, Goto, cellVars
<1>4. \A k \in 1 .. n : slots[w][k] \in Replies /\ k \in Unsent(w)
  BY <1>2, <1>3 DEF Unsent, Shape, InBounds
<1> DEFINE t == [k \in 1 .. n |-> slots[w][k]]
<1>5. t \in Seq(Replies) /\ Len(t) = n /\ \A k \in 1 .. n : t[k] = slots[w][k]
  BY <1>2, <1>4
<1>6. /\ wire' \in Seq(Replies) /\ Len(wire') = Len(wire) + n
      /\ \A j \in 1 .. Len(wire) : wire'[j] = wire[j]
      /\ \A k \in 1 .. n : wire'[Len(wire) + k] = slots[w][k]
  <2>1. wire' = wire \o t
    BY <1>1
  <2> HIDE DEF t
  <2> QED BY <1>2, <1>5, <2>1, ConcatElements
<1>7. Sending(w, n)
  BY <1>3, <1>4, <1>6 DEF Sending
<1> QED BY <1>1, <1>7, Zenon

\* The steps of the loop outside a batch only move the program counter.
Resting(w) ==
  /\ pc[w] \in {"starting", "loop", "receiving", "parked"}
  /\ \E to \in {"loop", "receiving", "parked", "stopped"} : pc' = [pc EXCEPT ![w] = to]
  /\ UNCHANGED <<netVars, batch, next, out, slots, m, stop, running, cellVars>>

\* The steps that only move a worker's program counter.
LEMMA RestFacts ==
  ASSUME NEW w, Register(w) \/ LoopTop(w) \/ EmptyPoll(w) \/ Wake(w)
  PROVE  Resting(w)
BY DEF Register, LoopTop, EmptyPoll, Wake, Goto, Resting

\* Taking and releasing the guard.
Taking(w) ==
  /\ pc[w] = "received" /\ pc' = [pc EXCEPT ![w] = "deciding"]
  /\ live # 0 /\ guard' = [guard EXCEPT ![w] = live] /\ UNCHANGED <<live, freed>>
  /\ next' = [next EXCEPT ![w] = 1] /\ out' = [out EXCEPT ![w] = 0]
  /\ UNCHANGED <<queue, since, wire, batch, slots, m, stop, running>>

Ending(w) ==
  /\ pc[w] = "sent" \/ (pc[w] = "deciding" /\ next[w] > Len(batch[w]) /\ out[w] = 0)
  /\ pc' = [pc EXCEPT ![w] = "loop"]
  /\ guard' = [guard EXCEPT ![w] = 0] /\ UNCHANGED <<live, freed>>
  /\ UNCHANGED <<queue, since, wire, batch, next, out, slots, m, stop, running>>

\* Taking and releasing the guard of a batch.
LEMMA GuardFacts ==
  ASSUME NEW w
  PROVE  /\ TakeGuard(w) => Taking(w)
         /\ EndBatch(w) => Ending(w)
BY DEF TakeGuard, EndBatch, Goto, cell!CellAcquire, cell!CellRelease, Taking, Ending, netVars

\* A worker's step keeps types, bounds, and who holds a guard.
LEMMA ShapeKept ==
  ASSUME Shape, Configured, NEW w \in Threads, WorkerStep(w)
  PROVE  Shape'
<1>0. /\ LayoutOK' /\ Threads' = Threads /\ Sockets' = Sockets /\ BatchSize' = BatchSize
      /\ w \in Workers /\ BatchSize \in Nat \ {0} /\ MaxVersion \in Nat \ {0}
  BY LayoutKept, LayoutFacts, UdpAssumption DEF Shape
<1>1. TypeOK /\ InBounds /\ Guards
  BY DEF Shape
<1>2. CASE Resting(w)
  <2>1. PICK to \in {"loop", "receiving", "parked", "stopped"} : pc' = [pc EXCEPT ![w] = to]
    BY <1>2, Zenon DEF Resting
  <2>2. UNCHANGED <<netVars, batch, next, out, slots, m, stop, running, cellVars>>
    BY <1>2 DEF Resting
  <2>3. TypeOK'
    BY <1>0, <1>1, <2>1, <2>2 DEF TypeOK, netVars, cellVars
  <2>4. InBounds'
    BY <1>0, <1>1, <2>1, <2>2 DEF TypeOK, InBounds, Unsent
  <2>5. Guards'
    BY <1>0, <1>1, <1>2, <2>1, <2>2 DEF TypeOK, Guards, cellVars, Resting
  <2> QED BY <1>0, <2>3, <2>4, <2>5 DEF Shape
<1>3. CASE Receive(w)
  <2>1. PICK n : Received(w, n)
    BY <1>3, ReceiveFacts
  <2>2. m' \in [Workers -> [Counters -> Nat]]
    <3>1. n \in Nat /\ Once({}) \in [Counters -> Nat]
      BY <1>0, <2>1, OnceType DEF Received
    <3>2. [Once({}) EXCEPT !["batch_datagrams"] = n] \in [Counters -> Nat]
      BY <3>1, Zenon
    <3> QED BY <1>0, <1>1, <2>1, <3>2, BumpCounts, Zenon DEF Received, TypeOK
  <2>3. batch' \in [Workers -> Seq(Datagrams)] /\ queue' \in [Sockets -> Seq(Datagrams)]
    BY <1>1, <2>1, Zenon DEF Received, TypeOK
  <2>4. pc' \in [Workers -> {"starting", "loop", "receiving", "parked", "received",
                        "deciding", "sent", "stopped"}]
    BY <1>1, <2>1, Zenon DEF Received, TypeOK
  <2>5. TypeOK'
    BY <1>0, <1>1, <2>1, <2>2, <2>3, <2>4, Zenon DEF Received, TypeOK
  <2>6. InBounds'
    <3>1. /\ batch'[w] \in Seq(Datagrams) /\ Len(batch'[w]) <= BatchSize /\ pc'[w] = "received"
          /\ \A v \in Workers \ {w} : batch'[v] = batch[v] /\ pc'[v] = pc[v]
          /\ UNCHANGED <<next, out, slots>>
      BY <1>0, <1>1, <2>1 DEF Received, TypeOK
    <3> QED BY <1>0, <1>1, <3>1 DEF InBounds, Unsent
  <2>7. Guards'
    BY <1>0, <1>1, <2>1 DEF Received, TypeOK, Guards
  <2> QED BY <1>0, <2>5, <2>6, <2>7 DEF Shape
<1>4. CASE TakeGuard(w)
  <2>0. Taking(w)
    BY <1>4, GuardFacts
  <2>1. TypeOK'
    BY <1>0, <1>1, <2>0 DEF TypeOK, Taking
  <2>2. InBounds'
    BY <1>0, <1>1, <2>0 DEF TypeOK, InBounds, Unsent, Taking
  <2>3. Guards'
    BY <1>0, <1>1, <2>0 DEF TypeOK, Guards, Taking
  <2> QED BY <1>0, <2>1, <2>2, <2>3 DEF Shape
<1>5. CASE Decide(w)
  <2>1. PICK d, r :
           /\ Decided(w, d)
           /\ \/ Bump(w, Once({"short_datagrams"})) /\ UNCHANGED <<out, slots>>
              \/ Bump(w, Once(Classify(d))) /\ Staging(w, d, r)
    BY <1>5, DecideFacts
  <2>2. m' \in [Workers -> [Counters -> Nat]]
    BY <1>0, <1>1, <2>1, BumpCounts, OnceType, Zenon DEF TypeOK
  <2>3. /\ slots' \in [Workers -> [1 .. BatchSize -> Replies \cup {NoReply}]]
        /\ out' \in [Workers -> 0 .. BatchSize]
    <3>1. CASE UNCHANGED <<out, slots>>
      BY <1>1, <3>1 DEF TypeOK
    <3>2. CASE Staging(w, d, r)
      BY <1>0, <1>1, <3>2 DEF TypeOK, Staging
    <3> QED BY <2>1, <3>1, <3>2
  <2>4. next' \in [Workers -> 1 .. BatchSize + 1]
    <3>1. next' = [next EXCEPT ![w] = next[w] + 1] /\ next[w] \in 1 .. Len(batch[w])
      BY <2>1 DEF Decided
    <3>2. next \in [Workers -> 1 .. BatchSize + 1] /\ batch[w] \in Seq(Datagrams)
      BY <1>0, <1>1 DEF TypeOK
    <3>3. Len(batch[w]) <= BatchSize
      BY <1>0, <1>1 DEF InBounds
    <3>4. next[w] + 1 \in 1 .. BatchSize + 1
      BY <1>0, <3>1, <3>2, <3>3
    <3> QED BY <3>1, <3>2, <3>4, Zenon
  <2>5. TypeOK'
    BY <1>0, <1>1, <2>1, <2>2, <2>3, <2>4, Zenon DEF TypeOK, Decided
  <2>6. InBounds'
    <3> SUFFICES ASSUME NEW v \in Workers
                 PROVE  /\ Len(batch'[v]) <= BatchSize'
                        /\ pc'[v] = "deciding" => next'[v] <= Len(batch'[v]) + 1 /\ out'[v] < next'[v]
                        /\ \A k \in Unsent(v)' : slots'[v][k] \in Replies
      BY DEF InBounds
    <3>1. CASE v # w
      <4>1. next'[v] = next[v] /\ out'[v] = out[v] /\ slots'[v] = slots[v]
        BY <1>1, <2>1, <3>1 DEF TypeOK, Decided, Staging
      <4> QED BY <1>0, <1>1, <2>1, <4>1 DEF InBounds, Decided, Unsent
    <3>2. CASE v = w /\ UNCHANGED <<out, slots>>
      <4>1. next'[w] = next[w] + 1 /\ next[w] \in Nat /\ out[w] \in Nat
        BY <1>0, <1>1, <2>1 DEF TypeOK, Decided
      <4>2. Len(batch'[w]) <= BatchSize' /\ next'[w] <= Len(batch'[w]) + 1 /\ out'[w] < next'[w]
        BY <1>0, <1>1, <2>1, <3>2, <4>1 DEF Decided, InBounds
      <4> QED BY <1>1, <2>1, <3>2, <4>2 DEF Decided, InBounds, Unsent
    <3>3. CASE v = w /\ Staging(w, d, r)
      <4>1. /\ next'[w] = next[w] + 1 /\ out'[w] = out[w] + 1 /\ slots'[w][out[w] + 1] = r
            /\ \A k \in 1 .. out[w] : slots'[w][k] = slots[w][k]
            /\ next[w] \in Nat /\ out[w] \in Nat
        BY <1>0, <1>1, <2>1, <3>3 DEF TypeOK, Decided, Staging
      <4>2. Len(batch'[w]) <= BatchSize' /\ next'[w] <= Len(batch'[w]) + 1 /\ out'[w] < next'[w]
        BY <1>0, <1>1, <2>1, <4>1 DEF Decided, InBounds
      <4>3. \A k \in 1 .. out[w] + 1 : slots'[w][k] \in Replies
        BY <1>1, <2>1, <3>3, <4>1 DEF Decided, InBounds, Staging, Unsent
      <4> QED BY <3>3, <4>1, <4>2, <4>3 DEF Unsent
    <3> QED BY <2>1, <3>1, <3>2, <3>3
  <2>7. Guards'
    BY <1>1, <2>1 DEF Guards, Decided
  <2> QED BY <1>0, <2>5, <2>6, <2>7 DEF Shape
<1>6. CASE SendBatch(w)
  <2>1. PICK n, cause :
           /\ Sending(w, n) /\ cause \in Causes
           /\ Bump(w, [c \in Counters |-> IF c = "replies_sent" THEN n
                                          ELSE IF c \in CountedAs(cause) THEN Staged(w) - n
                                          ELSE 0])
    BY <1>6, SendFacts
  <2>2. m' \in [Workers -> [Counters -> Nat]]
    <3>1. n \in Nat /\ Staged(w) - n \in Nat
      BY <1>0, <1>1, <2>1 DEF TypeOK, Sending, Staged
    <3>2. [c \in Counters |-> IF c = "replies_sent" THEN n
             ELSE IF c \in CountedAs(cause) THEN Staged(w) - n ELSE 0] \in [Counters -> Nat]
      BY <3>1
    <3> QED BY <1>0, <1>1, <2>1, <3>2, BumpCounts, Zenon DEF TypeOK
  <2>3. TypeOK'
    BY <1>0, <1>1, <2>1, <2>2, Zenon DEF TypeOK, Sending
  <2>4. InBounds'
    BY <1>0, <1>1, <2>1 DEF TypeOK, InBounds, Sending, Unsent
  <2>5. Guards'
    BY <1>0, <1>1, <2>1 DEF TypeOK, Guards, Sending
  <2> QED BY <1>0, <2>3, <2>4, <2>5 DEF Shape
<1>7. CASE EndBatch(w)
  <2>0. Ending(w)
    BY <1>7, GuardFacts
  <2>1. TypeOK'
    BY <1>0, <1>1, <2>0 DEF TypeOK, Ending
  <2>2. InBounds'
    BY <1>0, <1>1, <2>0 DEF TypeOK, InBounds, Unsent, Ending
  <2>3. Guards'
    BY <1>0, <1>1, <2>0 DEF TypeOK, Guards, Ending
  <2> QED BY <1>0, <2>1, <2>2, <2>3 DEF Shape
<1> QED BY <1>2, <1>3, <1>4, <1>5, <1>6, <1>7, RestFacts DEF WorkerStep

\* The steps of the clients, of the control plane and of main.
EnvStep ==
  \/ \E d \in Datagrams : Arrive(d)
  \/ Reload \/ Reclaim \/ RequestStop \/ Join \/ Destroy \/ Terminated

\* What clients, reloads and main change.
LEMMA EnvFacts ==
  ASSUME Shape, EnvStep
  PROVE  /\ UNCHANGED <<pc, batch, next, out, slots, m, guard, wire>>
         /\ \/ UNCHANGED live
            \/ live # 0 /\ live < MaxVersion /\ live' = live + 1
            \/ live' = 0 /\ ~running
         /\ \/ UNCHANGED queue \/ (Join /\ queue' = [s \in Sockets |-> <<>>])
            \/ \E d \in Datagrams : Arrive(d)
         /\ UNCHANGED since \/ \E d \in Datagrams : Arrive(d)
<1>1. CASE \E d \in Datagrams : Arrive(d)
  BY <1>1, Zenon DEF Arrive, workVars, cellVars
<1>2. CASE Reload
  BY <1>2 DEF Reload, netVars, workVars, cell!CellPublish
<1>3. CASE Reclaim
  BY <1>3 DEF Reclaim, netVars, workVars, cell!CellReclaim
<1>4. CASE RequestStop
  BY <1>4 DEF RequestStop, netVars, workVars, cellVars
<1>5. CASE Join
  BY <1>5 DEF Join, netVars, workVars, cellVars
<1>6. CASE Destroy
  BY <1>6 DEF Destroy, netVars, workVars, cell!CellDestroy
<1>7. CASE Terminated
  BY <1>7 DEF Terminated, netVars, workVars, cellVars
<1> QED BY <1>1, <1>2, <1>3, <1>4, <1>5, <1>6, <1>7 DEF EnvStep

\* Clients, reloads and main keep types, bounds, and who holds a guard.
LEMMA ShapeKeptByEnv ==
  ASSUME Shape, Configured, EnvStep
  PROVE  Shape'
<1>0. /\ LayoutOK' /\ Threads' = Threads /\ Sockets' = Sockets /\ BatchSize' = BatchSize
      /\ BatchSize \in Nat \ {0} /\ MaxVersion \in Nat \ {0} /\ TypeOK /\ InBounds /\ Guards
      /\ hashed \in [Clients -> Sockets] /\ ClientOf \in [Datagrams -> Clients]
  BY LayoutKept, LayoutFacts, UdpAssumption DEF Shape, LayoutOK
<1>1. UNCHANGED <<pc, batch, next, out, slots, m, guard, wire>>
  BY EnvFacts
<1>2. InBounds'
  BY <1>0, <1>1 DEF InBounds, Unsent
<1>3. /\ next' \in [Workers -> 1 .. BatchSize + 1] /\ out' \in [Workers -> 0 .. BatchSize]
      /\ slots' \in [Workers -> [1 .. BatchSize -> Replies \cup {NoReply}]]
      /\ m' \in [Workers -> [Counters -> Nat]] /\ batch' \in [Workers -> Seq(Datagrams)]
      /\ pc' \in [Workers -> {"starting", "loop", "receiving", "parked", "received",
                        "deciding", "sent", "stopped"}]
      /\ guard' \in [Workers -> 0 .. MaxVersion] /\ wire' \in Seq(Replies)
  BY <1>0, <1>1 DEF TypeOK
<1>4. /\ queue' \in [Sockets -> Seq(Datagrams)] /\ since' \in [Datagrams -> 0 .. MaxVersion]
      /\ stop' \in BOOLEAN /\ running' \in BOOLEAN
      /\ live' \in 0 .. MaxVersion /\ freed' \subseteq 1 .. MaxVersion /\ Guards'
  <2>0. /\ queue \in [Sockets -> Seq(Datagrams)] /\ since \in [Datagrams -> 0 .. MaxVersion]
        /\ stop \in BOOLEAN /\ running \in BOOLEAN
        /\ live \in 0 .. MaxVersion /\ freed \subseteq 1 .. MaxVersion
        /\ \A w \in Workers : guard[w] \in 0 .. MaxVersion
    BY <1>0 DEF TypeOK
  <2>1. CASE \E d \in Datagrams : Arrive(d)
    <3>0. PICK d \in Datagrams : Arrive(d)
      BY <2>1
    <3>1. hashed[ClientOf[d]] \in Sockets
      BY <1>0
    <3>2. queue' \in [Sockets -> Seq(Datagrams)]
      BY <2>0, <3>0, <3>1 DEF Arrive
    <3> QED BY <1>0, <1>1, <2>0, <3>0, <3>2 DEF Arrive, cellVars, Guards
  <2>2. CASE Reload
    BY <1>0, <1>1, <2>0, <2>2 DEF Reload, netVars, cell!CellPublish, Guards
  <2>3. CASE Reclaim
    BY <1>0, <1>1, <2>0, <2>3 DEF Reclaim, netVars, cell!CellReclaim, Guards
  <2>4. CASE RequestStop
    BY <1>0, <1>1, <2>0, <2>4 DEF RequestStop, netVars, cellVars, Guards
  <2>5. CASE Join
    <3>1. /\ queue' = [s \in Sockets |-> <<>>] /\ running' = FALSE
          /\ \A w \in Workers : pc[w] = "stopped"
          /\ UNCHANGED <<since, stop, live, freed>>
      BY <2>5 DEF Join, cellVars
    <3>2. queue' \in [Sockets -> Seq(Datagrams)]
      BY <3>1
    <3> QED BY <1>0, <1>1, <2>0, <3>1, <3>2, Zenon DEF Guards
  <2>6. CASE Destroy
    BY <1>0, <1>1, <2>0, <2>6 DEF Destroy, netVars, cell!CellDestroy, Guards
  <2>7. CASE Terminated
    BY <1>0, <1>1, <2>0, <2>7 DEF Terminated, netVars, cellVars, Guards
  <2> QED BY <2>1, <2>2, <2>3, <2>4, <2>5, <2>6, <2>7 DEF EnvStep
<1> QED BY <1>0, <1>2, <1>3, <1>4 DEF Shape, TypeOK

\* A worker's step leaves the other workers' variables alone.
LEMMA OthersKept ==
  ASSUME Shape, Configured, NEW w \in Threads, WorkerStep(w), NEW v \in Workers \ {w}
  PROVE  /\ pc'[v] = pc[v] /\ batch'[v] = batch[v] /\ next'[v] = next[v] /\ out'[v] = out[v]
         /\ slots'[v] = slots[v] /\ m'[v] = m[v] /\ guard'[v] = guard[v]
<1>0. w \in Workers /\ TypeOK
  BY LayoutFacts DEF Shape
<1>b. ASSUME NEW by, Bump(w, by) PROVE m'[v] = m[v]
  BY <1>0, <1>b DEF Bump, TypeOK
<1>1. CASE Resting(w)
  BY <1>0, <1>1 DEF Resting, TypeOK, netVars, cellVars
<1>2. CASE Receive(w)
  <2>1. PICK n : Received(w, n)
    BY <1>2, ReceiveFacts
  <2> QED BY <1>0, <1>b, <2>1 DEF Received, TypeOK
<1>3. CASE TakeGuard(w) \/ EndBatch(w)
  <2>1. Taking(w) \/ Ending(w)
    BY <1>3, GuardFacts
  <2> QED BY <1>0, <2>1 DEF Taking, Ending, TypeOK
<1>4. CASE Decide(w)
  <2>1. PICK d, r :
           /\ Decided(w, d)
           /\ \/ Bump(w, Once({"short_datagrams"})) /\ UNCHANGED <<out, slots>>
              \/ Bump(w, Once(Classify(d))) /\ Staging(w, d, r)
    BY <1>4, DecideFacts
  <2>2. m'[v] = m[v]
    BY <1>b, <2>1
  <2> QED BY <1>0, <2>1, <2>2 DEF Decided, Staging, TypeOK
<1>5. CASE SendBatch(w)
  <2>1. PICK n, by : Sending(w, n) /\ Bump(w, by)
    BY <1>5, SendFacts, Zenon
  <2> QED BY <1>0, <1>b, <2>1 DEF Sending, TypeOK
<1> QED BY <1>1, <1>2, <1>3, <1>4, <1>5, RestFacts DEF WorkerStep

-----------------------------------------------------------------------------
(* The counters *)

\* What each counter that is balanced becomes.
Added(w, by) ==
  /\ m[w]["batch_datagrams"] \in Int /\ by["batch_datagrams"] \in Int
  /\ m'[w]["batch_datagrams"] = m[w]["batch_datagrams"] + by["batch_datagrams"]
  /\ m[w]["short_datagrams"] \in Int /\ by["short_datagrams"] \in Int
  /\ m'[w]["short_datagrams"] = m[w]["short_datagrams"] + by["short_datagrams"]
  /\ m[w]["bad_magic"] \in Int /\ by["bad_magic"] \in Int
  /\ m'[w]["bad_magic"] = m[w]["bad_magic"] + by["bad_magic"]
  /\ m[w]["requests"] \in Int /\ by["requests"] \in Int
  /\ m'[w]["requests"] = m[w]["requests"] + by["requests"]
  /\ m[w]["noted"] \in Int /\ by["noted"] \in Int
  /\ m'[w]["noted"] = m[w]["noted"] + by["noted"]
  /\ m[w]["replies_sent"] \in Int /\ by["replies_sent"] \in Int
  /\ m'[w]["replies_sent"] = m[w]["replies_sent"] + by["replies_sent"]
  /\ m[w]["send_failures"] \in Int /\ by["send_failures"] \in Int
  /\ m'[w]["send_failures"] = m[w]["send_failures"] + by["send_failures"]
  /\ m[w]["send_wouldblock"] \in Int /\ by["send_wouldblock"] \in Int
  /\ m'[w]["send_wouldblock"] = m[w]["send_wouldblock"] + by["send_wouldblock"]
  /\ m[w]["send_nobufs"] \in Int /\ by["send_nobufs"] \in Int
  /\ m'[w]["send_nobufs"] = m[w]["send_nobufs"] + by["send_nobufs"]
  /\ m[w]["send_errors"] \in Int /\ by["send_errors"] \in Int
  /\ m'[w]["send_errors"] = m[w]["send_errors"] + by["send_errors"]

\* The counters of a worker after a step that adds to them.
LEMMA BumpAdds ==
  ASSUME NEW w \in Workers, TypeOK, NEW by \in [Counters -> Nat], Bump(w, by)
  PROVE  Added(w, by)
<1>1. m \in [Workers -> [Counters -> Nat]]
  BY DEF TypeOK
<1>2. /\ \A c \in Counters : m'[w][c] = m[w][c] + by[c]
      /\ \A c \in Counters : m[w][c] \in Nat /\ by[c] \in Nat
  BY <1>1, BumpCounts
<1>3. \A c \in Counters : m[w][c] \in Int /\ by[c] \in Int
  BY <1>2
<1> QED BY <1>2, <1>3 DEF Added, Counters

\* The balances after such a step, from what it added and what is in hand.
LEMMA AddedBalance ==
  ASSUME NEW w, NEW by, Added(w, by), Balanced(w),
         ToDecide(w) \in Int, ToDecide(w)' \in Int, ToSend(w) \in Int, ToSend(w)' \in Int,
         by["batch_datagrams"] + ToDecide(w) =
           by["short_datagrams"] + by["bad_magic"] + by["requests"] + ToDecide(w)',
         by["bad_magic"] + by["requests"] + ToSend(w) =
           by["replies_sent"] + by["send_failures"] + ToSend(w)',
         by["send_failures"] = by["send_wouldblock"] + by["send_nobufs"] + by["send_errors"],
         by["noted"] = by["bad_magic"] + by["requests"]
  PROVE  Balanced(w)'
<1>1. m'[w]["batch_datagrams"] =
        m'[w]["short_datagrams"] + m'[w]["bad_magic"] + m'[w]["requests"] + ToDecide(w)'
  <2>1. /\ m[w]["batch_datagrams"] \in Int /\ by["batch_datagrams"] \in Int /\ m'[w]["batch_datagrams"] = m[w]["batch_datagrams"] + by["batch_datagrams"]
        /\ m[w]["short_datagrams"] \in Int /\ by["short_datagrams"] \in Int /\ m'[w]["short_datagrams"] = m[w]["short_datagrams"] + by["short_datagrams"]
        /\ m[w]["bad_magic"] \in Int /\ by["bad_magic"] \in Int /\ m'[w]["bad_magic"] = m[w]["bad_magic"] + by["bad_magic"]
        /\ m[w]["requests"] \in Int /\ by["requests"] \in Int /\ m'[w]["requests"] = m[w]["requests"] + by["requests"]
    BY DEF Added
  <2>2. m[w]["batch_datagrams"] =
          m[w]["short_datagrams"] + m[w]["bad_magic"] + m[w]["requests"] + ToDecide(w)
    BY DEF Balanced
  <2> DEFINE S == m[w]["short_datagrams"] + m[w]["bad_magic"] + m[w]["requests"]
             B == by["short_datagrams"] + by["bad_magic"] + by["requests"]
  <2>3. S \in Int /\ B \in Int /\ S' = S + B
    BY <2>1
  <2>4. m'[w]["batch_datagrams"] = S + ToDecide(w) + by["batch_datagrams"]
    BY <2>1, <2>2, <2>3
  <2>5. by["batch_datagrams"] + ToDecide(w) = B + ToDecide(w)'
    BY <2>1
  <2>6. m'[w]["batch_datagrams"] = S' + ToDecide(w)'
    <3>1. by["batch_datagrams"] \in Int
      BY <2>1
    <3> HIDE DEF S, B
    <3>2. S + ToDecide(w) + by["batch_datagrams"] = S + (by["batch_datagrams"] + ToDecide(w))
      BY <2>3, <3>1
    <3>3. S + (B + ToDecide(w)') = S' + ToDecide(w)'
      BY <2>3
    <3> QED BY <2>4, <2>5, <3>2, <3>3, Zenon
  <2> QED BY <2>6
<1>2. m'[w]["bad_magic"] + m'[w]["requests"] =
        m'[w]["replies_sent"] + m'[w]["send_failures"] + ToSend(w)'
  <2>1. /\ m[w]["bad_magic"] \in Int /\ by["bad_magic"] \in Int /\ m'[w]["bad_magic"] = m[w]["bad_magic"] + by["bad_magic"]
        /\ m[w]["requests"] \in Int /\ by["requests"] \in Int /\ m'[w]["requests"] = m[w]["requests"] + by["requests"]
        /\ m[w]["replies_sent"] \in Int /\ by["replies_sent"] \in Int /\ m'[w]["replies_sent"] = m[w]["replies_sent"] + by["replies_sent"]
        /\ m[w]["send_failures"] \in Int /\ by["send_failures"] \in Int /\ m'[w]["send_failures"] = m[w]["send_failures"] + by["send_failures"]
    BY DEF Added
  <2>2. m[w]["bad_magic"] + m[w]["requests"] =
          m[w]["replies_sent"] + m[w]["send_failures"] + ToSend(w)
    BY DEF Balanced
  <2> QED BY <2>1, <2>2
<1>3. m'[w]["send_failures"] =
        m'[w]["send_wouldblock"] + m'[w]["send_nobufs"] + m'[w]["send_errors"]
  <2>1. /\ m[w]["send_failures"] \in Int /\ by["send_failures"] \in Int /\ m'[w]["send_failures"] = m[w]["send_failures"] + by["send_failures"]
        /\ m[w]["send_wouldblock"] \in Int /\ by["send_wouldblock"] \in Int /\ m'[w]["send_wouldblock"] = m[w]["send_wouldblock"] + by["send_wouldblock"]
        /\ m[w]["send_nobufs"] \in Int /\ by["send_nobufs"] \in Int /\ m'[w]["send_nobufs"] = m[w]["send_nobufs"] + by["send_nobufs"]
        /\ m[w]["send_errors"] \in Int /\ by["send_errors"] \in Int /\ m'[w]["send_errors"] = m[w]["send_errors"] + by["send_errors"]
    BY DEF Added
  <2>2. m[w]["send_failures"] =
          m[w]["send_wouldblock"] + m[w]["send_nobufs"] + m[w]["send_errors"]
    BY DEF Balanced
  <2> QED BY <2>1, <2>2
<1>4. m'[w]["noted"] = m'[w]["bad_magic"] + m'[w]["requests"]
  <2>1. /\ m[w]["noted"] \in Int /\ by["noted"] \in Int /\ m'[w]["noted"] = m[w]["noted"] + by["noted"]
        /\ m[w]["bad_magic"] \in Int /\ by["bad_magic"] \in Int /\ m'[w]["bad_magic"] = m[w]["bad_magic"] + by["bad_magic"]
        /\ m[w]["requests"] \in Int /\ by["requests"] \in Int /\ m'[w]["requests"] = m[w]["requests"] + by["requests"]
    BY DEF Added
  <2>2. m[w]["noted"] = m[w]["bad_magic"] + m[w]["requests"]
    BY DEF Balanced
  <2> QED BY <2>1, <2>2
<1> QED BY <1>1, <1>2, <1>3, <1>4 DEF Balanced

\* A worker's step keeps its counters balanced.
LEMMA AccountsKept ==
  ASSUME Shape, Accounts, Configured, NEW w \in Threads, WorkerStep(w)
  PROVE  Accounts'
<1>0. /\ w \in Workers /\ TypeOK /\ InBounds /\ BatchSize \in Nat
  BY LayoutFacts DEF Shape
<1>1. SUFFICES Balanced(w)'
  <2>1. \A v \in Workers \ {w} : Balanced(v)'
    <3> SUFFICES ASSUME NEW v \in Workers \ {w} PROVE Balanced(v)'
      OBVIOUS
    <3>1. /\ pc'[v] = pc[v] /\ batch'[v] = batch[v] /\ next'[v] = next[v] /\ out'[v] = out[v]
          /\ m'[v] = m[v]
      BY OthersKept
    <3>2. ToDecide(v)' = ToDecide(v) /\ ToSend(v)' = ToSend(v)
      BY <3>1 DEF ToDecide, ToSend
    <3> QED BY <3>1, <3>2 DEF Accounts, Balanced
  <2> QED BY <2>1 DEF Accounts
<1>2. next[w] \in Nat /\ out[w] \in Nat /\ Len(batch[w]) \in Nat
  BY <1>0 DEF TypeOK
<1>b. Balanced(w)
  BY <1>0 DEF Accounts
<1>3. CASE Resting(w)
  <2>1. m' = m /\ pc'[w] \notin {"received", "deciding"} /\ pc[w] \notin {"received", "deciding"}
    BY <1>0, <1>3 DEF Resting, TypeOK
  <2>2. ToDecide(w)' = ToDecide(w) /\ ToSend(w)' = ToSend(w)
    BY <2>1 DEF ToDecide, ToSend
  <2> QED BY <1>b, <2>1, <2>2 DEF Balanced
<1>4. CASE Receive(w)
  <2>1. PICK n : Received(w, n)
    BY <1>4, ReceiveFacts
  <2> DEFINE by == [Once({}) EXCEPT !["batch_datagrams"] = n]
  <2>2. n \in Nat /\ Bump(w, by)
    BY <1>0, <2>1 DEF Received
  <2>3. by \in [Counters -> Nat]
    BY <2>2, OnceType, Zenon
  <2>4. /\ by["batch_datagrams"] = n /\ by["short_datagrams"] = 0 /\ by["bad_magic"] = 0
        /\ by["requests"] = 0 /\ by["noted"] = 0 /\ by["replies_sent"] = 0
        /\ by["send_failures"] = 0 /\ by["send_wouldblock"] = 0 /\ by["send_nobufs"] = 0
        /\ by["send_errors"] = 0
    BY <2>2 DEF Counters, Once
  <2>5. Added(w, by)
    <3> HIDE DEF by
    <3> QED BY <1>0, <2>2, <2>3, BumpAdds
  <2>6. pc[w] = "receiving" /\ pc'[w] = "received" /\ Len(batch'[w]) = n
    BY <1>0, <2>1 DEF Received, TypeOK
  <2> HIDE DEF by
  <2>7. ToDecide(w) = 0 /\ ToDecide(w)' = n /\ ToSend(w) = 0 /\ ToSend(w)' = 0
    BY <2>6 DEF ToDecide, ToSend
  <2>8. /\ by["batch_datagrams"] + ToDecide(w) =
             by["short_datagrams"] + by["bad_magic"] + by["requests"] + ToDecide(w)'
        /\ by["bad_magic"] + by["requests"] + ToSend(w) =
             by["replies_sent"] + by["send_failures"] + ToSend(w)'
        /\ by["send_failures"] = by["send_wouldblock"] + by["send_nobufs"] + by["send_errors"]
        /\ by["noted"] = by["bad_magic"] + by["requests"]
    BY <2>2, <2>4, <2>7
  <2> QED BY <1>b, <2>2, <2>5, <2>7, <2>8, AddedBalance
<1>5. CASE TakeGuard(w) \/ EndBatch(w)
  <2>1. Taking(w) \/ Ending(w)
    BY <1>5, GuardFacts
  <2>2. CASE Taking(w)
    <3>1. /\ m' = m /\ batch' = batch /\ pc[w] = "received" /\ pc'[w] = "deciding"
          /\ next'[w] = 1 /\ out'[w] = 0
      BY <1>0, <2>2 DEF Taking, TypeOK
    <3>2. ToSend(w)' = ToSend(w)
      BY <3>1 DEF ToSend
    <3>3. ToDecide(w)' = ToDecide(w)
      BY <1>2, <3>1 DEF ToDecide
    <3> QED BY <1>b, <3>1, <3>2, <3>3 DEF Balanced
  <2>3. CASE Ending(w)
    <3>1. /\ m' = m /\ pc'[w] = "loop"
          /\ pc[w] = "sent" \/ (pc[w] = "deciding" /\ next[w] > Len(batch[w]) /\ out[w] = 0)
      BY <1>0, <2>3 DEF Ending, TypeOK
    <3>2. pc[w] = "deciding" => next[w] <= Len(batch[w]) + 1
      BY <1>0 DEF InBounds
    <3>3. ToDecide(w)' = ToDecide(w) /\ ToSend(w)' = ToSend(w)
      <4>1. CASE pc[w] = "sent"
        BY <3>1, <4>1 DEF ToDecide, ToSend
      <4>2. CASE pc[w] = "deciding"
        BY <1>2, <3>1, <3>2, <4>2 DEF ToDecide, ToSend
      <4> QED BY <3>1, <4>1, <4>2
    <3> QED BY <1>b, <3>1, <3>3 DEF Balanced
  <2> QED BY <2>1, <2>2, <2>3
<1>6. CASE Decide(w)
  <2>1. PICK d, r :
           /\ Decided(w, d)
           /\ \/ Bump(w, Once({"short_datagrams"})) /\ UNCHANGED <<out, slots>>
              \/ Bump(w, Once(Classify(d))) /\ Staging(w, d, r)
    BY <1>6, DecideFacts
  <2>2. pc' = pc /\ pc[w] = "deciding" /\ batch' = batch /\ next'[w] = next[w] + 1
    BY <1>0, <2>1 DEF Decided, TypeOK
  <2>3. CASE Bump(w, Once({"short_datagrams"})) /\ UNCHANGED <<out, slots>>
    <3> DEFINE by == Once({"short_datagrams"})
    <3>1. /\ by["batch_datagrams"] = 0 /\ by["short_datagrams"] = 1 /\ by["bad_magic"] = 0
          /\ by["requests"] = 0 /\ by["noted"] = 0 /\ by["replies_sent"] = 0
          /\ by["send_failures"] = 0 /\ by["send_wouldblock"] = 0 /\ by["send_nobufs"] = 0
          /\ by["send_errors"] = 0
      BY DEF Counters, Once
    <3>2. Added(w, by)
      BY <1>0, <2>3, OnceType, BumpAdds
    <3> HIDE DEF by
    <3>3. /\ ToDecide(w) \in Int /\ ToDecide(w)' = ToDecide(w) - 1
          /\ ToSend(w) \in Int /\ ToSend(w)' = ToSend(w)
      <4>1. /\ ToDecide(w) = Len(batch[w]) + 1 - next[w]
            /\ ToDecide(w)' = Len(batch[w]) + 1 - (next[w] + 1)
        BY <2>2 DEF ToDecide
      <4>2. ToSend(w) = out[w] /\ ToSend(w)' = out[w]
        BY <2>2, <2>3 DEF ToSend
      <4>3. ToDecide(w) \in Int /\ ToDecide(w)' = ToDecide(w) - 1
        BY <1>2, <4>1
      <4> QED BY <1>2, <4>2, <4>3
    <3>4. /\ by["batch_datagrams"] + ToDecide(w) =
               by["short_datagrams"] + by["bad_magic"] + by["requests"] + ToDecide(w)'
          /\ by["bad_magic"] + by["requests"] + ToSend(w) =
               by["replies_sent"] + by["send_failures"] + ToSend(w)'
          /\ by["send_failures"] = by["send_wouldblock"] + by["send_nobufs"] + by["send_errors"]
          /\ by["noted"] = by["bad_magic"] + by["requests"]
      BY <3>1, <3>3
    <3> QED BY <1>b, <3>2, <3>3, <3>4, AddedBalance
  <2>4. CASE Bump(w, Once(Classify(d))) /\ Staging(w, d, r)
    <3>0. out'[w] = out[w] + 1
      BY <1>0, <2>4 DEF Staging, TypeOK
    <3> DEFINE by == Once(Classify(d))
    <3>1. /\ by["batch_datagrams"] = 0 /\ by["short_datagrams"] = 0
          /\ by["bad_magic"] \in Nat /\ by["requests"] \in Nat
          /\ by["bad_magic"] + by["requests"] = 1 /\ by["noted"] = 1
          /\ by["replies_sent"] = 0 /\ by["send_failures"] = 0 /\ by["send_wouldblock"] = 0
          /\ by["send_nobufs"] = 0 /\ by["send_errors"] = 0
      <4>1. CASE IsRequest[d]
        BY <4>1 DEF Counters, Once, Classify
      <4>2. CASE ~IsRequest[d]
        BY <4>2 DEF Counters, Once, Classify
      <4> QED BY <4>1, <4>2
    <3>2. Added(w, by)
      BY <1>0, <2>4, OnceType, BumpAdds
    <3> HIDE DEF by
    <3>3. /\ ToDecide(w) \in Int /\ ToDecide(w)' = ToDecide(w) - 1
          /\ ToSend(w) \in Int /\ ToSend(w)' = ToSend(w) + 1
      <4>1. /\ ToDecide(w) = Len(batch[w]) + 1 - next[w]
            /\ ToDecide(w)' = Len(batch[w]) + 1 - (next[w] + 1)
        BY <2>2 DEF ToDecide
      <4>2. ToSend(w) = out[w] /\ ToSend(w)' = out[w] + 1
        BY <2>2, <3>0 DEF ToSend
      <4>3. ToDecide(w) \in Int /\ ToDecide(w)' = ToDecide(w) - 1
        BY <1>2, <4>1
      <4> QED BY <1>2, <4>2, <4>3
    <3>4. /\ by["batch_datagrams"] + ToDecide(w) =
               by["short_datagrams"] + by["bad_magic"] + by["requests"] + ToDecide(w)'
          /\ by["bad_magic"] + by["requests"] + ToSend(w) =
               by["replies_sent"] + by["send_failures"] + ToSend(w)'
          /\ by["send_failures"] = by["send_wouldblock"] + by["send_nobufs"] + by["send_errors"]
          /\ by["noted"] = by["bad_magic"] + by["requests"]
      BY <3>1, <3>3
    <3> QED BY <1>b, <3>2, <3>3, <3>4, AddedBalance
  <2> QED BY <2>1, <2>3, <2>4
<1>7. CASE SendBatch(w)
  <2>1. PICK n, cause :
           /\ Sending(w, n) /\ cause \in Causes
           /\ Bump(w, [c \in Counters |-> IF c = "replies_sent" THEN n
                                          ELSE IF c \in CountedAs(cause) THEN Staged(w) - n
                                          ELSE 0])
    BY <1>7, SendFacts
  <2>2. n \in Nat /\ out[w] - n \in Nat /\ Staged(w) = out[w]
    BY <1>2, <2>1 DEF Sending, Staged
  <2> DEFINE by == [c \in Counters |-> IF c = "replies_sent" THEN n
                      ELSE IF c \in CountedAs(cause) THEN Staged(w) - n ELSE 0]
  <2>3. by \in [Counters -> Nat]
    BY <2>2
  <2>4. /\ by["batch_datagrams"] = 0 /\ by["short_datagrams"] = 0 /\ by["bad_magic"] = 0
        /\ by["requests"] = 0 /\ by["noted"] = 0 /\ by["replies_sent"] = n
        /\ by["send_failures"] = out[w] - n
        /\ by["send_wouldblock"] + by["send_nobufs"] + by["send_errors"] = out[w] - n
    BY <2>1, <2>2 DEF Counters, Causes, CountedAs
  <2>5. Added(w, by)
    <3> HIDE DEF by
    <3> QED BY <1>0, <2>1, <2>3, BumpAdds DEF by
  <2>6. pc[w] = "deciding" /\ pc'[w] = "sent" /\ next[w] > Len(batch[w])
    BY <1>0, <2>1 DEF Sending, TypeOK
  <2>7. next[w] <= Len(batch[w]) + 1
    BY <1>0, <2>6 DEF InBounds
  <2> HIDE DEF by
  <2>8. ToDecide(w) = 0 /\ ToDecide(w)' = 0 /\ ToSend(w) = out[w] /\ ToSend(w)' = 0
    <3>1. Len(batch[w]) + 1 - next[w] = 0
      BY <1>2, <2>6, <2>7
    <3> QED BY <2>6, <3>1 DEF ToDecide, ToSend
  <2>9. /\ by["batch_datagrams"] + ToDecide(w) =
             by["short_datagrams"] + by["bad_magic"] + by["requests"] + ToDecide(w)'
        /\ by["bad_magic"] + by["requests"] + ToSend(w) =
             by["replies_sent"] + by["send_failures"] + ToSend(w)'
        /\ by["send_failures"] = by["send_wouldblock"] + by["send_nobufs"] + by["send_errors"]
        /\ by["noted"] = by["bad_magic"] + by["requests"]
    <3>1. 0 + 0 = 0 /\ 0 + out[w] = out[w] /\ n + (out[w] - n) + 0 = out[w]
      BY <1>2, <2>2
    <3> QED BY <1>2, <2>2, <2>4, <2>8, <3>1
  <2>10. ToDecide(w) \in Int /\ ToDecide(w)' \in Int /\ ToSend(w) \in Int /\ ToSend(w)' \in Int
    BY <1>2, <2>8
  <2> QED BY <1>b, <2>5, <2>9, <2>10, AddedBalance, Zenon
<1> QED BY <1>3, <1>4, <1>5, <1>6, <1>7, RestFacts DEF WorkerStep

=============================================================================
