----------------------------- MODULE UdpPlaces -----------------------------
(***************************************************************************)
(* Where each datagram is, in UdpWorker: the proof that a worker's step, a   *)
(* client's or main's keeps every datagram in one place.                    *)
(***************************************************************************)
EXTENDS UdpShape

\* How long a leaf may take, and what is tried when it takes longer.
USE SMTT(10), Zenon, SMTT(30), SMTT(60)

(* Where the datagrams are *)

\* Steps that move no datagram forward keep each in one place.
LEMMA SamePlaces ==
  ASSUME Shape, OnePlace, Configured, UNCHANGED <<queue, since, wire, batch, slots>>,
         \A v \in Workers : Undecided(v)' \subseteq Undecided(v) /\ Unsent(v)' \subseteq Unsent(v)
  PROVE  OnePlace'
<1>0. Sockets' = Sockets /\ hashed' = hashed /\ \A w : SocketOf(w)' = SocketOf(w)
  BY LayoutKept DEF Shape
<1>1. \A v \in Workers : Hand(v)' \subseteq Hand(v)
  BY DEF Hand
<1>2. InQueue'
  BY <1>0, <1>1 DEF OnePlace, InQueue
<1>3. InBatch'
  BY <1>0, <1>1 DEF OnePlace, InBatch
<1>4. InSlots'
  BY <1>0, <1>1 DEF OnePlace, InSlots
<1>5. InHands'
  BY <1>0, <1>1 DEF OnePlace, InHands
<1>6. OnWire'
  BY DEF OnePlace, OnWire
<1> QED BY <1>2, <1>3, <1>4, <1>5, <1>6 DEF OnePlace

\* A worker's step leaves what the others hold alone.
LEMMA OtherHands ==
  ASSUME Shape, Configured, NEW w \in Threads, WorkerStep(w), NEW v \in Workers \ {w}
  PROVE  /\ Undecided(v)' = Undecided(v) /\ Unsent(v)' = Unsent(v) /\ Hand(v)' = Hand(v)
         /\ batch'[v] = batch[v] /\ slots'[v] = slots[v]
<1>1. /\ pc'[v] = pc[v] /\ batch'[v] = batch[v] /\ next'[v] = next[v] /\ out'[v] = out[v]
      /\ slots'[v] = slots[v]
  BY OthersKept
<1>2. Undecided(v)' = Undecided(v) /\ Unsent(v)' = Unsent(v)
  BY <1>1 DEF Undecided, Unsent
<1> QED BY <1>1, <1>2 DEF Hand

\* Receiving moves the head of a queue into a batch.
LEMMA ReceivePlaces ==
  ASSUME Shape, OnePlace, Configured, NEW w \in Threads, Receive(w)
  PROVE  OnePlace'
<1>0. /\ Sockets' = Sockets /\ hashed' = hashed /\ (\A v : SocketOf(v)' = SocketOf(v))
      /\ TypeOK /\ w \in Workers /\ BatchSize \in Nat
  BY LayoutKept, LayoutFacts DEF Shape
<1>1. PICK n : Received(w, n)
  BY ReceiveFacts
<1> DEFINE s == SocketOf(w)
           q == queue[s]
<1>2. /\ n \in Nat /\ n <= Len(q) /\ Len(q) \in Nat /\ s \in Sockets
      /\ Undecided(w) = {} /\ Unsent(w) = {} /\ Hand(w) = {}
      /\ Undecided(w)' = 1 .. n /\ Unsent(w)' = {}
      /\ \A i \in 1 .. n : batch'[w][i] = q[i] /\ i \in 1 .. Len(q)
      /\ since' = since /\ wire' = wire
      /\ Len(queue'[s]) = Len(q) - n
      /\ \A i \in 1 .. Len(q) - n : queue'[s][i] = q[n + i] /\ n + i \in 1 .. Len(q)
      /\ \A t \in Sockets \ {s} : queue'[t] = queue[t]
  <2>1. n \in Nat /\ n <= Len(q) /\ Len(q) \in Nat /\ s \in Sockets
    BY <1>0, <1>1 DEF Received
  <2>2. pc[w] = "receiving" /\ pc'[w] = "received" /\ Len(batch'[w]) = n
    BY <1>0, <1>1 DEF Received, TypeOK
  <2>3. Undecided(w) = {} /\ Unsent(w) = {} /\ Undecided(w)' = 1 .. n /\ Unsent(w)' = {}
    BY <2>2 DEF Undecided, Unsent
  <2>4. Hand(w) = {}
    BY <2>3 DEF Hand
  <2>5. /\ \A i \in 1 .. n : batch'[w][i] = q[i] /\ i \in 1 .. Len(q)
        /\ since' = since /\ wire' = wire /\ Len(queue'[s]) = Len(q) - n
        /\ \A i \in 1 .. Len(q) - n : queue'[s][i] = q[n + i] /\ n + i \in 1 .. Len(q)
    BY <2>1, <1>1 DEF Received
  <2>6. \A t \in Sockets \ {s} : queue'[t] = queue[t]
    BY <1>0, <1>1 DEF Received, TypeOK
  <2> QED BY <2>1, <2>3, <2>4, <2>5, <2>6
<1>3. Hand(w)' = {q[i] : i \in 1 .. n}
  <2>1. /\ \A i \in 1 .. n : batch'[w][i] = q[i]
        /\ Undecided(w)' = 1 .. n /\ Unsent(w)' = {}
    BY <1>2
  <2> HIDE DEF q
  <2>2. Hand(w)' = {batch'[w][i] : i \in 1 .. n}
    BY <2>1 DEF Hand
  <2> QED BY <2>1, <2>2, Zenon
<1>4. \A v \in Workers \ {w} :
        /\ Undecided(v)' = Undecided(v) /\ Unsent(v)' = Unsent(v) /\ Hand(v)' = Hand(v)
        /\ batch'[v] = batch[v] /\ slots'[v] = slots[v]
  BY OtherHands DEF WorkerStep
<1>q. \A i \in 1 .. Len(q) :
        /\ since[q[i]] # 0 /\ hashed[ClientOf[q[i]]] = s
        /\ \A j \in 1 .. Len(q) : q[j] = q[i] => j = i
        /\ \A v \in Workers : q[i] \notin Hand(v)
        /\ \A k \in 1 .. Len(wire) : wire[k].about # q[i]
  BY <1>2 DEF OnePlace, InQueue
<1> HIDE DEF s, q
<1>5. InQueue'
  <2> SUFFICES ASSUME NEW t \in Sockets, NEW i \in 1 .. Len(queue'[t])
               PROVE  LET d == queue'[t][i] IN
                      /\ since[d] # 0 /\ hashed[ClientOf[d]] = t
                      /\ \A j \in 1 .. Len(queue'[t]) : queue'[t][j] = d => j = i
                      /\ \A v \in Workers : d \notin Hand(v)'
                      /\ \A k \in 1 .. Len(wire) : wire[k].about # d
    BY <1>0, <1>2 DEF InQueue
  <2>1. CASE t = s
    <3>1. queue'[s][i] = q[n + i] /\ n + i \in 1 .. Len(q) /\ i \in Nat
      BY <1>2, <2>1
    <3>2. \A j \in 1 .. Len(queue'[s]) : queue'[s][j] = q[n + i] => j = i
      <4> SUFFICES ASSUME NEW j \in 1 .. Len(queue'[s]), queue'[s][j] = q[n + i] PROVE j = i
        OBVIOUS
      <4>1. q[n + j] = q[n + i] /\ n + j \in 1 .. Len(q) /\ j \in Nat
        BY <1>2
      <4>2. n + j = n + i
        BY <1>q, <3>1, <4>1, Zenon
      <4> QED BY <1>2, <3>1, <4>1, <4>2
    <3>3. q[n + i] \notin Hand(w)'
      <4> SUFFICES ASSUME NEW k \in 1 .. n, q[k] = q[n + i] PROVE FALSE
        BY <1>3
      <4>1. k = n + i
        BY <1>2, <1>q, <3>1, Zenon
      <4> QED BY <1>2, <2>1, <4>1
    <3>4. \A v \in Workers : q[n + i] \notin Hand(v)'
      BY <1>4, <1>q, <3>1, <3>3
    <3> QED BY <1>q, <2>1, <3>1, <3>2, <3>4
  <2>2. CASE t # s
    <3>1. queue'[t] = queue[t]
      BY <1>2, <2>2
    <3> DEFINE d == queue[t][i]
    <3>2. /\ since[d] # 0 /\ hashed[ClientOf[d]] = t
          /\ \A j \in 1 .. Len(queue[t]) : queue[t][j] = d => j = i
          /\ \A v \in Workers : d \notin Hand(v)
          /\ \A k \in 1 .. Len(wire) : wire[k].about # d
      BY <3>1 DEF OnePlace, InQueue
    <3>3. d \notin Hand(w)'
      BY <1>2, <1>3, <1>q, <2>2, <3>2
    <3> HIDE DEF d
    <3>4. \A v \in Workers : d \notin Hand(v)'
      BY <1>4, <3>2, <3>3
    <3> QED BY <3>1, <3>2, <3>4 DEF d
  <2> QED BY <2>1, <2>2
<1>6. InBatch'
  <2> SUFFICES ASSUME NEW v \in Workers, NEW i \in Undecided(v)'
               PROVE  LET d == batch'[v][i] IN
                      /\ since[d] # 0 /\ hashed[ClientOf[d]] = SocketOf(v)
                      /\ \A j \in Undecided(v)' : batch'[v][j] = d => j = i
                      /\ \A k \in Unsent(v)' : slots'[v][k].about # d
    BY <1>0, <1>2 DEF InBatch
  <2>1. CASE v = w
    BY <1>2, <1>q, <2>1 DEF s
  <2>2. CASE v # w
    BY <1>4, <2>2 DEF OnePlace, InBatch
  <2> QED BY <2>1, <2>2
<1>7. InSlots'
  <2> SUFFICES ASSUME NEW v \in Workers, NEW k \in Unsent(v)'
               PROVE  LET r == slots'[v][k] IN
                      /\ r.to = ClientOf[r.about] /\ since[r.about] # 0 /\ hashed[r.to] = SocketOf(v)
                      /\ \A j \in Unsent(v)' : slots'[v][j].about = r.about => j = k
    BY <1>0, <1>2 DEF InSlots
  <2>1. v # w
    BY <1>2
  <2> QED BY <1>4, <2>1 DEF OnePlace, InSlots
<1>8. InHands'
  <2>1. \A v \in Workers \ {w} : Hand(w)' \cap Hand(v)' = {}
    BY <1>2, <1>3, <1>4, <1>q
  <2>2. \A k \in 1 .. Len(wire) : wire[k].about \notin Hand(w)'
    BY <1>2, <1>3, <1>q
  <2>3. \A v \in Workers \ {w} :
          /\ \A u \in Workers \ {v, w} : Hand(v)' \cap Hand(u)' = {}
          /\ \A k \in 1 .. Len(wire) : wire[k].about \notin Hand(v)'
    BY <1>4 DEF OnePlace, InHands
  <2> QED BY <1>2, <2>1, <2>2, <2>3 DEF InHands
<1>9. OnWire'
  BY <1>2 DEF OnePlace, OnWire
<1> QED BY <1>5, <1>6, <1>7, <1>8, <1>9 DEF OnePlace

\* Deciding moves a datagram from the batch to a send slot, or drops it.
LEMMA DecidePlaces ==
  ASSUME Shape, OnePlace, Configured, NEW w \in Threads, Decide(w)
  PROVE  OnePlace'
<1>0. /\ Sockets' = Sockets /\ hashed' = hashed /\ (\A v : SocketOf(v)' = SocketOf(v))
      /\ TypeOK /\ w \in Workers /\ BatchSize \in Nat
  BY LayoutKept, LayoutFacts DEF Shape
<1>1. PICK d, r :
        /\ Decided(w, d)
        /\ \/ Bump(w, Once({"short_datagrams"})) /\ UNCHANGED <<out, slots>>
           \/ Bump(w, Once(Classify(d))) /\ Staging(w, d, r)
  BY DecideFacts
<1>2. \A v \in Workers \ {w} :
        /\ Undecided(v)' = Undecided(v) /\ Unsent(v)' = Unsent(v) /\ Hand(v)' = Hand(v)
        /\ batch'[v] = batch[v] /\ slots'[v] = slots[v]
  BY OtherHands DEF WorkerStep
<1>3. /\ pc[w] = "deciding" /\ pc' = pc /\ batch' = batch /\ next'[w] = next[w] + 1
      /\ next[w] \in 1 .. Len(batch[w]) /\ d = batch[w][next[w]] /\ d \in Datagrams
      /\ out[w] \in Nat /\ next[w] \in Nat /\ Len(batch[w]) \in Nat
      /\ UNCHANGED <<queue, since, wire>>
  BY <1>0, <1>1 DEF Decided, TypeOK
<1>4. /\ next[w] \in Undecided(w) /\ Unsent(w) = 1 .. out[w]
      /\ Undecided(w)' = Undecided(w) \ {next[w]}
  BY <1>3 DEF Undecided, Unsent
<1>5. CASE UNCHANGED <<out, slots>>
  <2>1. Unsent(w)' = Unsent(w)
    BY <1>3, <1>5 DEF Unsent
  <2> QED BY <1>2, <1>3, <1>4, <1>5, <2>1, SamePlaces
<1>6. CASE Staging(w, d, r)
  <2> DEFINE e == out[w] + 1
  <2>1. /\ slots'[w][e] = r /\ \A k \in 1 .. out[w] : slots'[w][k] = slots[w][k]
        /\ r.to = ClientOf[d] /\ r.about = d
    BY <1>0, <1>3, <1>6 DEF Staging, TypeOK
  <2>2. Unsent(w)' = Unsent(w) \cup {e} /\ e \notin Unsent(w)
    <3>1. out'[w] = out[w] + 1
      BY <1>0, <1>6 DEF Staging, TypeOK
    <3> QED BY <1>3, <3>1 DEF Unsent
  <2> HIDE DEF e
  <2>3. /\ since[d] # 0 /\ hashed[ClientOf[d]] = SocketOf(w)
        /\ \A j \in Undecided(w) : batch[w][j] = d => j = next[w]
        /\ \A k \in Unsent(w) : slots[w][k].about # d
    BY <1>0, <1>3, <1>4 DEF OnePlace, InBatch
  <2>4. d \in Hand(w)
    BY <1>3, <1>4 DEF Hand
  <2>5. Hand(w)' \subseteq Hand(w)
    <3> SUFFICES ASSUME NEW x \in Hand(w)' PROVE x \in Hand(w)
      OBVIOUS
    <3>1. CASE \E i \in Undecided(w)' : x = batch'[w][i]
      BY <1>3, <1>4, <3>1 DEF Hand
    <3>2. CASE \E k \in Unsent(w)' : x = slots'[w][k].about
      BY <1>4, <2>1, <2>2, <2>4, <3>2 DEF Hand
    <3> QED BY <3>1, <3>2 DEF Hand
  <2>h. \A v \in Workers : Hand(v)' \subseteq Hand(v)
    BY <1>2, <2>5
  <2>6. InQueue'
    BY <1>0, <1>3, <2>h DEF OnePlace, InQueue
  <2>7. InHands'
    <3> SUFFICES ASSUME NEW v \in Workers
                 PROVE  /\ \A x \in Workers \ {v} : Hand(v)' \cap Hand(x)' = {}
                        /\ \A k \in 1 .. Len(wire) : wire[k].about \notin Hand(v)'
      BY <1>3 DEF InHands
    <3>1. /\ \A x \in Workers \ {v} : Hand(v) \cap Hand(x) = {}
          /\ \A k \in 1 .. Len(wire) : wire[k].about \notin Hand(v)
      BY DEF OnePlace, InHands
    <3> QED BY <2>h, <3>1
  <2>8. OnWire'
    BY <1>3 DEF OnePlace, OnWire
  <2>9. InBatch'
    <3> SUFFICES ASSUME NEW v \in Workers, NEW i \in Undecided(v)'
                 PROVE  LET x == batch[v][i] IN
                        /\ since[x] # 0 /\ hashed[ClientOf[x]] = SocketOf(v)
                        /\ \A j \in Undecided(v)' : batch[v][j] = x => j = i
                        /\ \A k \in Unsent(v)' : slots'[v][k].about # x
      BY <1>0, <1>3 DEF InBatch
    <3>1. CASE v = w
      <4>1. i \in Undecided(w) /\ i # next[w]
        BY <1>4, <3>1
      <4>2. batch[w][i] # d
        BY <2>3, <4>1
      <4>3. LET x == batch[w][i] IN
            /\ since[x] # 0 /\ hashed[ClientOf[x]] = SocketOf(w)
            /\ \A j \in Undecided(w) : batch[w][j] = x => j = i
            /\ \A k \in Unsent(w) : slots[w][k].about # x
        BY <1>0, <4>1 DEF OnePlace, InBatch
      <4>4. \A k \in Unsent(w)' : slots'[w][k].about # batch[w][i]
        BY <1>4, <2>1, <2>2, <4>2, <4>3
      <4> QED BY <1>4, <3>1, <4>3, <4>4
    <3>2. CASE v # w
      BY <1>2, <3>2 DEF OnePlace, InBatch
    <3> QED BY <3>1, <3>2
  <2>10. InSlots'
    <3> SUFFICES ASSUME NEW v \in Workers, NEW k \in Unsent(v)'
                 PROVE  LET z == slots'[v][k] IN
                        /\ z.to = ClientOf[z.about] /\ since[z.about] # 0
                        /\ hashed[z.to] = SocketOf(v)
                        /\ \A j \in Unsent(v)' : slots'[v][j].about = z.about => j = k
      BY <1>0, <1>3 DEF InSlots
    <3>1. CASE v = w /\ k = e
      BY <1>4, <2>1, <2>2, <2>3, <3>1
    <3>2. CASE v = w /\ k # e
      <4>1. k \in Unsent(w) /\ slots'[w][k] = slots[w][k]
        BY <1>4, <2>1, <2>2, <3>2
      <4>2. LET z == slots[w][k] IN
            /\ z.to = ClientOf[z.about] /\ since[z.about] # 0 /\ hashed[z.to] = SocketOf(w)
            /\ z.about # d
            /\ \A j \in Unsent(w) : slots[w][j].about = z.about => j = k
        BY <1>0, <2>3, <4>1 DEF OnePlace, InSlots
      <4>3. \A j \in Unsent(w)' : slots'[w][j].about = slots[w][k].about => j = k
        BY <1>4, <2>1, <2>2, <4>2
      <4> QED BY <3>2, <4>1, <4>2, <4>3
    <3>3. CASE v # w
      BY <1>2, <3>3 DEF OnePlace, InSlots
    <3> QED BY <3>1, <3>2, <3>3
  <2> QED BY <2>6, <2>7, <2>8, <2>9, <2>10 DEF OnePlace
<1> QED BY <1>1, <1>5, <1>6

\* A reply on the wire was there before, or comes from a send slot.
LEMMA SentFrom ==
  ASSUME TypeOK, NEW w, NEW n, Sending(w, n), NEW j \in 1 .. Len(wire')
  PROVE  \/ j \in 1 .. Len(wire) /\ wire'[j] = wire[j]
         \/ \E k \in Unsent(w) :
              /\ j = Len(wire) + k /\ k \in Nat /\ wire'[j] = slots[w][k]
              /\ wire'[j].about \in Hand(w)
<1>1. wire \in Seq(Replies) /\ Len(wire) \in Nat /\ Len(wire') = Len(wire) + n
  BY DEF TypeOK, Sending
<1>2. CASE j \in 1 .. Len(wire)
  BY <1>2 DEF Sending
<1>3. CASE j \notin 1 .. Len(wire)
  <2>1. n \in Int
    BY DEF Sending
  <2>2. j - Len(wire) \in 1 .. n /\ j = Len(wire) + (j - Len(wire))
    BY <1>1, <1>3, <2>1
  <2>3. j - Len(wire) \in Unsent(w) /\ wire'[j] = slots[w][j - Len(wire)]
    BY <2>2 DEF Sending
  <2>4. wire'[j].about \in Hand(w)
    BY <2>3 DEF Hand
  <2> QED BY <2>1, <2>2, <2>3, <2>4
<1> QED BY <1>2, <1>3

\* Sending moves replies from the send slots to the wire.
LEMMA SendPlaces ==
  ASSUME Shape, OnePlace, Configured, NEW w \in Threads, SendBatch(w)
  PROVE  OnePlace'
<1>0. /\ Sockets' = Sockets /\ hashed' = hashed /\ (\A v : SocketOf(v)' = SocketOf(v))
      /\ TypeOK /\ w \in Workers
  BY LayoutKept, LayoutFacts DEF Shape
<1>w. wire \in Seq(Replies) /\ Len(wire) \in Nat
  BY <1>0 DEF TypeOK
<1>1. PICK n : Sending(w, n)
  BY SendFacts, Zenon
<1>2. \A v \in Workers \ {w} :
        /\ Undecided(v)' = Undecided(v) /\ Unsent(v)' = Unsent(v) /\ Hand(v)' = Hand(v)
        /\ batch'[v] = batch[v] /\ slots'[v] = slots[v]
  BY OtherHands DEF WorkerStep
<1>3. UNCHANGED <<queue, since, batch, slots>> /\ n \in Nat /\ Len(wire') = Len(wire) + n
  BY <1>0, <1>w, <1>1 DEF Sending, TypeOK
<1>4. Undecided(w)' = {} /\ Unsent(w)' = {} /\ Hand(w)' = {}
  <2>1. pc'[w] = "sent"
    BY <1>0, <1>1 DEF Sending, TypeOK
  <2>2. Undecided(w)' = {} /\ Unsent(w)' = {}
    BY <2>1 DEF Undecided, Unsent
  <2> QED BY <2>2 DEF Hand
<1>5. \A j \in 1 .. Len(wire') :
        \/ j \in 1 .. Len(wire) /\ wire'[j] = wire[j]
        \/ \E k \in Unsent(w) : j = Len(wire) + k /\ k \in Nat /\ wire'[j] = slots[w][k]
                                /\ wire'[j].about \in Hand(w)
  BY <1>0, <1>1, SentFrom
<1>6. InQueue'
  <2>1. ASSUME NEW t \in Sockets, NEW i \in 1 .. Len(queue[t])
        PROVE  /\ \A v \in Workers : queue[t][i] \notin Hand(v)'
               /\ \A k \in 1 .. Len(wire') : wire'[k].about # queue[t][i]
    <3> DEFINE d == queue[t][i]
    <3>1. /\ \A v \in Workers : d \notin Hand(v)
          /\ \A k \in 1 .. Len(wire) : wire[k].about # d
      BY DEF OnePlace, InQueue
    <3> HIDE DEF d
    <3>2. \A v \in Workers : d \notin Hand(v)'
      BY <1>2, <1>4, <3>1
    <3>3. \A k \in 1 .. Len(wire') : wire'[k].about # d
      BY <1>0, <1>5, <3>1
    <3> QED BY <3>2, <3>3 DEF d
  <2>2. ASSUME NEW t \in Sockets, NEW i \in 1 .. Len(queue[t])
        PROVE  /\ since[queue[t][i]] # 0 /\ hashed[ClientOf[queue[t][i]]] = t
               /\ \A j \in 1 .. Len(queue[t]) : queue[t][j] = queue[t][i] => j = i
    BY DEF OnePlace, InQueue
  <2> SUFFICES ASSUME NEW t \in Sockets, NEW i \in 1 .. Len(queue[t])
               PROVE  LET d == queue[t][i] IN
                      /\ since[d] # 0 /\ hashed[ClientOf[d]] = t
                      /\ \A j \in 1 .. Len(queue[t]) : queue[t][j] = d => j = i
                      /\ \A v \in Workers : d \notin Hand(v)'
                      /\ \A k \in 1 .. Len(wire') : wire'[k].about # d
    BY <1>0, <1>3 DEF InQueue
  <2> QED BY <2>1, <2>2, Zenon
<1>7. InBatch' /\ InSlots'
  <2>1. InBatch'
    BY <1>0, <1>2, <1>3, <1>4 DEF OnePlace, InBatch
  <2>2. InSlots'
    BY <1>0, <1>2, <1>3, <1>4 DEF OnePlace, InSlots
  <2> QED BY <2>1, <2>2
<1>8. InHands'
  <2>1. \A v \in Workers \ {w} :
          /\ \A u \in Workers \ {v} : Hand(v)' \cap Hand(u)' = {}
          /\ \A k \in 1 .. Len(wire') : wire'[k].about \notin Hand(v)'
    <3> SUFFICES ASSUME NEW v \in Workers, v # w
                 PROVE  /\ \A u \in Workers \ {v} : Hand(v)' \cap Hand(u)' = {}
                        /\ \A k \in 1 .. Len(wire') : wire'[k].about \notin Hand(v)'
      OBVIOUS
    <3>1. /\ \A u \in Workers \ {v} : Hand(v) \cap Hand(u) = {}
          /\ \A k \in 1 .. Len(wire) : wire[k].about \notin Hand(v)
          /\ Hand(v)' = Hand(v)
      BY <1>2 DEF OnePlace, InHands
    <3>2. \A u \in Workers \ {v} : Hand(v)' \cap Hand(u)' = {}
      BY <1>2, <1>4, <3>1
    <3>3. \A k \in 1 .. Len(wire') : wire'[k].about \notin Hand(v)'
      BY <1>0, <1>5, <3>1
    <3> QED BY <3>2, <3>3
  <2> QED BY <1>4, <2>1 DEF InHands
<1>9. OnWire'
  <2> SUFFICES ASSUME NEW j \in 1 .. Len(wire')
               PROVE  /\ wire'[j].to = ClientOf[wire'[j].about] /\ since[wire'[j].about] # 0
                      /\ \A k \in 1 .. Len(wire') : wire'[k].about = wire'[j].about => k = j
    BY <1>3 DEF OnWire
  <2>0. \A k \in 1 .. Len(wire) : wire[k].about \notin Hand(w)
    BY <1>0 DEF OnePlace, InHands
  <2>1. CASE j \in 1 .. Len(wire) /\ wire'[j] = wire[j]
    <3>1. /\ wire[j].to = ClientOf[wire[j].about] /\ since[wire[j].about] # 0
          /\ \A k \in 1 .. Len(wire) : wire[k].about = wire[j].about => k = j
      BY <2>1 DEF OnePlace, OnWire
    <3>2. \A k \in 1 .. Len(wire') : wire'[k].about = wire[j].about => k = j
      BY <1>5, <2>0, <2>1, <3>1
    <3> QED BY <2>1, <3>1, <3>2
  <2>2. CASE \E a \in Unsent(w) : j = Len(wire) + a /\ a \in Nat /\ wire'[j] = slots[w][a]
                                  /\ wire'[j].about \in Hand(w)
    <3>1. PICK a \in Unsent(w) : j = Len(wire) + a /\ a \in Nat /\ wire'[j] = slots[w][a]
                                 /\ wire'[j].about \in Hand(w)
      BY <2>2
    <3>2. LET r == slots[w][a] IN
          /\ r.to = ClientOf[r.about] /\ since[r.about] # 0
          /\ \A k \in Unsent(w) : slots[w][k].about = r.about => k = a
      BY <1>0 DEF OnePlace, InSlots
    <3>3. \A k \in 1 .. Len(wire') : wire'[k].about = wire'[j].about => k = j
      <4> SUFFICES ASSUME NEW k \in 1 .. Len(wire'), wire'[k].about = wire'[j].about PROVE k = j
        OBVIOUS
      <4>1. ~(k \in 1 .. Len(wire) /\ wire'[k] = wire[k])
        BY <2>0, <3>1
      <4>2. PICK b \in Unsent(w) : k = Len(wire) + b /\ b \in Nat /\ wire'[k] = slots[w][b]
        BY <1>5, <4>1, Zenon
      <4>3. b = a
        BY <3>1, <3>2, <4>2
      <4> QED BY <3>1, <4>2, <4>3
    <3> QED BY <3>1, <3>2, <3>3
  <2> QED BY <1>5, <2>1, <2>2
<1> QED BY <1>6, <1>7, <1>8, <1>9 DEF OnePlace

\* A worker's step keeps each datagram in one place.
LEMMA PlacesKept ==
  ASSUME Shape, OnePlace, Configured, NEW w \in Threads, WorkerStep(w)
  PROVE  OnePlace'
<1>0. TypeOK /\ w \in Workers
  BY LayoutFacts DEF Shape
<1>1. ASSUME UNCHANGED <<queue, since, wire, batch, slots>>,
             Undecided(w)' \subseteq Undecided(w), Unsent(w)' \subseteq Unsent(w)
      PROVE  OnePlace'
  <2>1. \A v \in Workers \ {w} : Undecided(v)' = Undecided(v) /\ Unsent(v)' = Unsent(v)
    BY OtherHands
  <2> QED BY <1>1, <2>1, SamePlaces
<1>2. CASE Resting(w)
  <2>1. pc'[w] \notin {"received", "deciding"} /\ UNCHANGED <<queue, since, wire, batch, slots>>
    BY <1>0, <1>2 DEF Resting, TypeOK, netVars
  <2> QED BY <1>1, <2>1 DEF Undecided, Unsent
<1>3. CASE TakeGuard(w)
  <2>1. Taking(w)
    BY <1>3, GuardFacts
  <2>2. /\ pc[w] = "received" /\ next'[w] = 1 /\ out'[w] = 0 /\ pc'[w] = "deciding"
        /\ UNCHANGED <<queue, since, wire, batch, slots>>
    BY <1>0, <2>1 DEF Taking, TypeOK
  <2>3. Undecided(w)' = Undecided(w) /\ Unsent(w)' = {}
    BY <2>2 DEF Undecided, Unsent
  <2> QED BY <1>1, <2>2, <2>3
<1>4. CASE EndBatch(w)
  <2>1. Ending(w)
    BY <1>4, GuardFacts
  <2>2. pc'[w] = "loop" /\ UNCHANGED <<queue, since, wire, batch, slots>>
    BY <1>0, <2>1 DEF Ending, TypeOK
  <2> QED BY <1>1, <2>2 DEF Undecided, Unsent
<1> QED BY <1>2, <1>3, <1>4, ReceivePlaces, DecidePlaces, SendPlaces, RestFacts DEF WorkerStep

\* A datagram that arrives is nowhere yet, and closing the sockets loses what
\* is queued; the other steps of the environment move none.
LEMMA PlacesKeptByEnv ==
  ASSUME Shape, OnePlace, Configured, EnvStep
  PROVE  OnePlace'
<1>0. /\ Sockets' = Sockets /\ hashed' = hashed /\ (\A v : SocketOf(v)' = SocketOf(v))
      /\ TypeOK /\ hashed \in [Clients -> Sockets] /\ ClientOf \in [Datagrams -> Clients]
  BY LayoutKept, UdpAssumption DEF Shape, LayoutOK
<1>1. UNCHANGED <<pc, batch, next, out, slots, wire>>
  BY EnvFacts
<1>2. \A v : Undecided(v)' = Undecided(v) /\ Unsent(v)' = Unsent(v) /\ Hand(v)' = Hand(v)
  BY <1>1 DEF Undecided, Unsent, Hand
<1>3. CASE UNCHANGED <<queue, since>>
  BY <1>1, <1>2, <1>3, SamePlaces
<1>4. CASE Join
  <2>1. queue' = [s \in Sockets |-> <<>>] /\ since' = since
    BY <1>4 DEF Join
  <2>2. InQueue'
    BY <1>0, <2>1 DEF InQueue
  <2>3. InBatch'
    BY <1>0, <1>1, <1>2, <2>1 DEF OnePlace, InBatch
  <2>4. InSlots'
    BY <1>0, <1>1, <1>2, <2>1 DEF OnePlace, InSlots
  <2>5. InHands' /\ OnWire'
    BY <1>0, <1>1, <1>2, <2>1 DEF OnePlace, InHands, OnWire
  <2> QED BY <2>2, <2>3, <2>4, <2>5 DEF OnePlace
<1>5. CASE \E d \in Datagrams : Arrive(d)
  <2>1. PICK d \in Datagrams : Arrive(d)
    BY <1>5
  <2> DEFINE s == hashed[ClientOf[d]]
  <2>2. /\ s \in Sockets /\ since[d] = 0 /\ queue' = [queue EXCEPT ![s] = Append(queue[s], d)]
        /\ since' = [since EXCEPT ![d] = live] /\ live # 0
    BY <1>0, <2>1 DEF Arrive, Shape, Guards
  <2>3. /\ queue[s] \in Seq(Datagrams) /\ Len(queue[s]) \in Nat
        /\ since'[d] # 0 /\ \A x \in Datagrams \ {d} : since'[x] = since[x]
    BY <1>0, <2>2 DEF TypeOK
  <2> HIDE DEF s
  <2>4. /\ Len(queue'[s]) = Len(queue[s]) + 1 /\ queue'[s][Len(queue[s]) + 1] = d
        /\ \A i \in 1 .. Len(queue[s]) : queue'[s][i] = queue[s][i]
        /\ \A t \in Sockets \ {s} : queue'[t] = queue[t]
    <3>1. queue'[s] = Append(queue[s], d) /\ \A t \in Sockets \ {s} : queue'[t] = queue[t]
      BY <1>0, <2>2 DEF TypeOK
    <3> QED BY <2>3, <3>1
  <2>5. \A v \in Workers : d \notin Hand(v)
    <3>1. \A v \in Workers : \A i \in Undecided(v) : batch[v][i] # d
      BY <2>2 DEF OnePlace, InBatch
    <3>2. \A v \in Workers : \A k \in Unsent(v) : slots[v][k].about # d
      BY <2>2 DEF OnePlace, InSlots
    <3> QED BY <3>1, <3>2 DEF Hand
  <2>6. \A k \in 1 .. Len(wire) : wire[k].about # d
    BY <2>2 DEF OnePlace, OnWire
  <2>7. \A t \in Sockets : \A i \in 1 .. Len(queue[t]) : queue[t][i] # d /\ queue[t][i] \in Datagrams
    <3>1. \A t \in Sockets : queue[t] \in Seq(Datagrams)
      BY <1>0 DEF TypeOK
    <3> QED BY <2>2, <3>1 DEF OnePlace, InQueue
  <2>8. \A x : since[x] # 0 /\ x \in Datagrams => since'[x] # 0
    BY <2>3
  <2>9. InQueue'
    <3> SUFFICES ASSUME NEW t \in Sockets, NEW i \in 1 .. Len(queue'[t])
                 PROVE  LET x == queue'[t][i] IN
                        /\ since'[x] # 0 /\ hashed[ClientOf[x]] = t
                        /\ \A j \in 1 .. Len(queue'[t]) : queue'[t][j] = x => j = i
                        /\ \A v \in Workers : x \notin Hand(v)
                        /\ \A k \in 1 .. Len(wire) : wire[k].about # x
      BY <1>0, <1>1, <1>2 DEF InQueue
    <3>1. ASSUME i \in 1 .. Len(queue[t])
          PROVE  LET x == queue[t][i] IN
                 /\ since'[x] # 0 /\ hashed[ClientOf[x]] = t
                 /\ \A j \in 1 .. Len(queue[t]) : queue[t][j] = x => j = i
                 /\ \A v \in Workers : x \notin Hand(v)
                 /\ \A k \in 1 .. Len(wire) : wire[k].about # x
      BY <2>7, <2>8, <3>1 DEF OnePlace, InQueue
    <3>2. CASE t # s
      BY <2>4, <3>1, <3>2
    <3>3. CASE t = s /\ i = Len(queue[s]) + 1
      <4>1. queue'[t][i] = d
        BY <2>4, <3>3
      <4>2. hashed[ClientOf[d]] = t
        BY <3>3 DEF s
      <4>3. \A j \in 1 .. Len(queue'[s]) : queue'[s][j] = d => j = Len(queue[s]) + 1
        BY <2>2, <2>3, <2>4, <2>7
      <4> QED BY <2>3, <2>5, <2>6, <3>3, <4>1, <4>2, <4>3
    <3>4. CASE t = s /\ i # Len(queue[s]) + 1
      <4>1. i \in 1 .. Len(queue[s]) /\ queue'[s][i] = queue[s][i]
        BY <2>3, <2>4, <3>4
      <4>2. \A j \in 1 .. Len(queue'[s]) : queue'[s][j] = queue[s][i] => j = i
        BY <2>2, <2>3, <2>4, <2>7, <3>1, <3>4, <4>1
      <4> QED BY <3>1, <3>4, <4>1, <4>2
    <3> QED BY <3>2, <3>3, <3>4
  <2>10. InBatch'
    <3>1. \A v \in Workers : \A i \in Undecided(v) : batch[v][i] \in Datagrams
      <4> SUFFICES ASSUME NEW v \in Workers, NEW i \in Undecided(v) PROVE batch[v][i] \in Datagrams
        OBVIOUS
      <4>1. batch[v] \in Seq(Datagrams) /\ next[v] \in Nat \ {0}
        BY <1>0, LayoutFacts DEF TypeOK, Shape
      <4>2. i \in 1 .. Len(batch[v])
        BY <4>1 DEF Undecided
      <4> QED BY <4>1, <4>2
    <3> QED BY <1>0, <1>1, <1>2, <2>8, <3>1 DEF OnePlace, InBatch
  <2>11. InSlots'
    <3>1. \A v \in Workers : \A k \in Unsent(v) : slots[v][k].about \in Datagrams
      BY DEF Shape, InBounds, Replies
    <3> SUFFICES ASSUME NEW v \in Workers, NEW k \in Unsent(v)
                 PROVE  LET r == slots[v][k] IN
                        /\ r.to = ClientOf[r.about]
                        /\ since'[r.about] # 0 /\ hashed[r.to] = SocketOf(v)
                        /\ \A j \in Unsent(v) : slots[v][j].about = r.about => j = k
      BY <1>0, <1>1, <1>2 DEF InSlots
    <3>2. LET r == slots[v][k] IN
          /\ r.to = ClientOf[r.about]
          /\ since[r.about] # 0 /\ hashed[r.to] = SocketOf(v)
          /\ \A j \in Unsent(v) : slots[v][j].about = r.about => j = k
      BY DEF OnePlace, InSlots
    <3> QED BY <2>8, <3>1, <3>2
  <2>12. InHands'
    BY <1>1, <1>2 DEF OnePlace, InHands
  <2>13. OnWire'
    <3>1. \A k \in 1 .. Len(wire) : wire[k].about \in Datagrams
      <4>1. \A k \in 1 .. Len(wire) : wire[k] \in Replies
        BY <1>0 DEF TypeOK
      <4> QED BY <4>1 DEF Replies
    <3> QED BY <1>1, <2>8, <3>1 DEF OnePlace, OnWire
  <2> QED BY <2>9, <2>10, <2>11, <2>12, <2>13 DEF OnePlace
<1> QED BY <1>3, <1>4, <1>5, EnvFacts

=============================================================================
