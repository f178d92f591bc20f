-------------------------- MODULE UdpWorkerProofs --------------------------
(***************************************************************************)
(* The safety properties of UdpWorker, for any number of workers, clients,  *)
(* datagrams and reloads and any configuration: replies, policy versions,   *)
(* guards and counters.                                                     *)
(***************************************************************************)
EXTENDS UdpPlaces

\* How long a leaf may take, and what is tried when it takes longer.
USE SMTT(10), Zenon, SMTT(30), SMTT(60)

-----------------------------------------------------------------------------
(* Policy versions *)

\* A worker's step neither publishes nor accepts anything new.
LEMMA SinceKept ==
  ASSUME Shape, Configured, NEW w \in Threads, WorkerStep(w)
  PROVE  UNCHANGED <<live, since>>
<1>1. CASE Receive(w)
  BY <1>1, ReceiveFacts, Zenon DEF Received
<1>2. CASE Decide(w)
  BY <1>2, DecideFacts DEF Decided
<1>3. CASE SendBatch(w)
  BY <1>3, SendFacts, Zenon DEF Sending
<1> QED BY <1>1, <1>2, <1>3, RestFacts, GuardFacts
        DEF WorkerStep, Resting, Taking, Ending, netVars, cellVars

\* A worker's step keeps the versions of guards, slots and replies in order.
LEMMA VersionsKept ==
  ASSUME Shape, OnePlace, Versions, Configured, NEW w \in Threads, WorkerStep(w)
  PROVE  Versions'
<1>0. /\ TypeOK /\ InBounds /\ Guards /\ w \in Workers
  BY LayoutFacts DEF Shape
<1>1. /\ live \in Nat /\ (\A v \in Workers : guard[v] \in Nat /\ guard[v] <= live)
      /\ \A d \in Datagrams : since[d] \in Nat
  BY <1>0, UdpAssumption DEF TypeOK, Guards
<1>2. UNCHANGED <<live, since>>
  BY SinceKept
<1> DEFINE ok(v) ==
      /\ pc[v] = "deciding" => \A i \in Undecided(v) : since[batch[v][i]] <= guard[v]
      /\ pc[v] = "deciding" => \A k \in Unsent(v) : since[slots[v][k].about] <= guard[v]
      /\ pc[v] \in {"deciding", "sent"} => \A k \in 1 .. out[v] : slots[v][k].version = guard[v]
<1>3. ok(w)
  BY <1>0 DEF Versions
<1>4. SUFFICES ASSUME TRUE
               PROVE  /\ ok(w)'
                      /\ live # 0 => \A j \in 1 .. Len(wire') : wire'[j].version <= live
  <2>1. \A v \in Workers \ {w} : ok(v)'
    <3> SUFFICES ASSUME NEW v \in Workers, v # w PROVE ok(v)'
      OBVIOUS
    <3>1. /\ Undecided(v)' = Undecided(v) /\ Unsent(v)' = Unsent(v) /\ pc'[v] = pc[v]
          /\ batch'[v] = batch[v] /\ slots'[v] = slots[v] /\ guard'[v] = guard[v] /\ out'[v] = out[v]
      BY OtherHands, OthersKept
    <3>2. ok(v)
      BY DEF Versions
    <3> QED BY <1>2, <3>1, <3>2
  <2> HIDE DEF ok
  <2>2. \A v \in Workers : ok(v)'
    BY <1>4, <2>1
  <2> QED BY <1>2, <1>4, <2>2 DEF Versions, ok
<1>5. CASE Resting(w)
  <2>1. pc'[w] \notin {"deciding", "sent"} /\ wire' = wire
    BY <1>0, <1>5 DEF Resting, TypeOK, netVars
  <2> QED BY <2>1 DEF Versions
<1>6. CASE Receive(w)
  <2>1. PICK n : Received(w, n)
    BY <1>6, ReceiveFacts
  <2>2. pc'[w] \notin {"deciding", "sent"} /\ wire' = wire
    BY <1>0, <2>1 DEF Received, TypeOK
  <2> QED BY <2>2 DEF Versions
<1>7. CASE EndBatch(w)
  <2>1. Ending(w)
    BY <1>7, GuardFacts
  <2>2. pc'[w] \notin {"deciding", "sent"} /\ wire' = wire
    BY <1>0, <2>1 DEF Ending, TypeOK
  <2> QED BY <2>2 DEF Versions
<1>8. CASE TakeGuard(w)
  <2>1. Taking(w)
    BY <1>8, GuardFacts
  <2>2. /\ pc'[w] = "deciding" /\ next'[w] = 1 /\ out'[w] = 0 /\ guard'[w] = live /\ live # 0
        /\ UNCHANGED <<batch, slots, wire>>
    BY <1>0, <2>1 DEF Taking, TypeOK
  <2>3. Undecided(w)' = 1 .. Len(batch[w]) /\ Unsent(w)' = {}
    BY <2>2 DEF Undecided, Unsent
  <2>4. \A i \in 1 .. Len(batch[w]) : batch[w][i] \in Datagrams
    BY <1>0 DEF TypeOK
  <2> QED BY <1>2, <2>2, <2>3, <2>4 DEF Versions
<1>9. CASE Decide(w)
  <2>1. PICK d, r :
           /\ Decided(w, d)
           /\ \/ Bump(w, Once({"short_datagrams"})) /\ UNCHANGED <<out, slots>>
              \/ Bump(w, Once(Classify(d))) /\ Staging(w, d, r)
    BY <1>9, DecideFacts
  <2>2. /\ pc[w] = "deciding" /\ pc' = pc /\ batch' = batch /\ next'[w] = next[w] + 1
        /\ next[w] \in 1 .. Len(batch[w]) /\ d = batch[w][next[w]]
        /\ out[w] \in Nat /\ next[w] \in Nat /\ Len(batch[w]) \in Nat
        /\ UNCHANGED <<wire, guard>>
    BY <1>0, <2>1 DEF Decided, TypeOK
  <2>3. /\ next[w] \in Undecided(w) /\ Unsent(w) = 1 .. out[w]
        /\ Undecided(w)' \subseteq Undecided(w)
    BY <2>2 DEF Undecided, Unsent
  <2>4. since[d] <= guard[w]
    BY <1>3, <2>2, <2>3
  <2>5. CASE UNCHANGED <<out, slots>>
    <3>1. Unsent(w)' = Unsent(w)
      BY <2>2, <2>5 DEF Unsent
    <3>2. ok(w)'
      BY <1>2, <1>3, <2>2, <2>3, <2>5, <3>1
    <3> QED BY <2>2, <3>2 DEF Versions
  <2>6. CASE Staging(w, d, r)
    <3>1. /\ out'[w] = out[w] + 1 /\ slots'[w][out[w] + 1] = r
          /\ \A k \in 1 .. out[w] : slots'[w][k] = slots[w][k]
          /\ r.about = d /\ r.version = guard[w]
      BY <1>0, <2>6, StagingFacts DEF Shape
    <3>2. Unsent(w)' = 1 .. out[w] + 1
      BY <2>2, <3>1 DEF Unsent
    <3>3. \A k \in 1 .. out[w] + 1 :
            since[slots'[w][k].about] <= guard[w] /\ slots'[w][k].version = guard[w]
      <4>1. \A k \in 1 .. out[w] :
              since[slots'[w][k].about] <= guard[w] /\ slots'[w][k].version = guard[w]
        BY <1>3, <2>2, <2>3, <3>1
      <4>2. \A k \in 1 .. out[w] + 1 : k \in 1 .. out[w] \/ k = out[w] + 1
        BY <2>2
      <4>3. since[slots'[w][out[w] + 1].about] <= guard[w] /\ slots'[w][out[w] + 1].version = guard[w]
        BY <2>4, <3>1
      <4> QED BY <4>1, <4>2, <4>3, Zenon
    <3>4. ok(w)'
      BY <1>2, <1>3, <2>2, <2>3, <3>1, <3>2, <3>3
    <3> QED BY <2>2, <3>4 DEF Versions
  <2> QED BY <2>1, <2>5, <2>6
<1>10. CASE SendBatch(w)
  <2>1. PICK n : Sending(w, n)
    BY <1>10, SendFacts, Zenon
  <2>2. /\ pc[w] = "deciding" /\ pc'[w] = "sent" /\ UNCHANGED <<batch, out, slots, guard>>
    BY <1>0, <2>1 DEF Sending, TypeOK
  <2>3. ok(w)'
    BY <1>3, <2>2
  <2>4. ASSUME live # 0, NEW j \in 1 .. Len(wire') PROVE wire'[j].version <= live
    <3>1. guard[w] \in Nat /\ live \in Nat /\ guard[w] <= live
      BY <1>0, UdpAssumption DEF TypeOK, Guards
    <3>2. CASE j \in 1 .. Len(wire) /\ wire'[j] = wire[j]
      BY <2>4, <3>2 DEF Versions
    <3>3. ASSUME NEW k \in Unsent(w), wire'[j] = slots[w][k] PROVE wire'[j].version <= live
      <4>1. slots[w][k].version = guard[w]
        BY <1>0, <2>2, <3>3 DEF Versions, Unsent
      <4> QED BY <3>1, <3>3, <4>1
    <3> QED BY <1>0, <2>1, <2>4, <3>2, <3>3, SentFrom
  <2> QED BY <2>3, <2>4
<1> QED BY <1>5, <1>6, <1>7, <1>8, <1>9, <1>10, RestFacts DEF WorkerStep

\* The socket that serves a client has one worker, whose guards only get newer.
LEMMA OwnSocketKept ==
  ASSUME Shape, OnePlace, Versions, OwnSocket, Configured, NEW w \in Threads, WorkerStep(w)
  PROVE  OwnSocket'
<1>0. /\ TypeOK /\ Guards /\ w \in Workers /\ layout' = layout /\ hashed' = hashed
  BY LayoutFacts, LayoutKept DEF Shape
<1>1. SUFFICES ASSUME layout.per_worker, NEW j \in 1 .. Len(wire'), guard'[hashed[wire'[j].to]] # 0
               PROVE  wire'[j].version <= guard'[hashed[wire'[j].to]]
  BY <1>0 DEF OwnSocket
<1>2. \A v \in Workers \ {w} : guard'[v] = guard[v]
  BY OthersKept
<1>3. \A c \in Clients : hashed[c] \in Workers
  BY <1>1, LayoutFacts DEF Shape, LayoutOK, Sockets
<1>4. \A k \in 1 .. Len(wire) : wire[k].to \in Clients /\ wire[k].version \in Nat
  <2>1. \A k \in 1 .. Len(wire) : wire[k] \in Replies
    BY <1>0 DEF TypeOK
  <2> QED BY <2>1, UdpAssumption DEF Replies
<1>5. CASE guard' = guard /\ wire' = wire
  BY <1>1, <1>5 DEF OwnSocket
<1>6. CASE TakeGuard(w)
  <2>1. Taking(w)
    BY <1>6, GuardFacts
  <2>2. guard'[w] = live /\ live # 0 /\ wire' = wire
    BY <1>0, <2>1 DEF Taking, TypeOK
  <2>3. wire[j].version <= live
    BY <2>2 DEF Versions
  <2>4. CASE hashed[wire[j].to] = w
    BY <2>2, <2>3, <2>4
  <2>5. CASE hashed[wire[j].to] # w
    BY <1>1, <1>2, <1>3, <1>4, <2>2, <2>5 DEF OwnSocket
  <2> QED BY <2>4, <2>5
<1>7. CASE EndBatch(w)
  <2>1. Ending(w)
    BY <1>7, GuardFacts
  <2>2. guard'[w] = 0 /\ wire' = wire
    BY <1>0, <2>1 DEF Ending, TypeOK
  <2>3. hashed[wire[j].to] # w
    BY <1>1, <2>2
  <2> QED BY <1>1, <1>2, <1>3, <1>4, <2>2, <2>3 DEF OwnSocket
<1>8. CASE SendBatch(w)
  <2>1. PICK n : Sending(w, n)
    BY <1>8, SendFacts, Zenon
  <2>2. guard' = guard /\ pc[w] = "deciding"
    BY <2>1 DEF Sending
  <2>3. CASE j \in 1 .. Len(wire) /\ wire'[j] = wire[j]
    BY <1>1, <2>2, <2>3 DEF OwnSocket
  <2>4. CASE \E k \in Unsent(w) : wire'[j] = slots[w][k]
    <3>1. PICK k \in Unsent(w) : wire'[j] = slots[w][k]
      BY <2>4
    <3>2. hashed[slots[w][k].to] = w
      <4>1. SocketOf(w) = w
        BY <1>1 DEF SocketOf
      <4> QED BY <1>0, <4>1 DEF OnePlace, InSlots
    <3>3. slots[w][k].version = guard[w] /\ guard[w] \in Nat
      BY <1>0, <2>2, UdpAssumption DEF Versions, Unsent, TypeOK
    <3> QED BY <2>2, <3>1, <3>2, <3>3
  <2> QED BY <1>0, <2>1, <2>3, <2>4, SentFrom
<1>9. CASE Receive(w)
  BY <1>5, <1>9, ReceiveFacts, Zenon DEF Received
<1>10. CASE Decide(w)
  BY <1>5, <1>10, DecideFacts DEF Decided
<1>11. CASE Resting(w)
  BY <1>5, <1>11 DEF Resting, netVars, cellVars
<1> QED BY <1>6, <1>7, <1>8, <1>9, <1>10, <1>11, RestFacts DEF WorkerStep

\* A reload only raises the live version; arrivals carry the live version.
LEMMA PoliciesKeptByEnv ==
  ASSUME Shape, OnePlace, Policies, Configured, EnvStep
  PROVE  Policies'
<1>0. /\ TypeOK /\ InBounds /\ Guards /\ Versions /\ OwnSocket /\ layout' = layout /\ hashed' = hashed
  BY LayoutKept DEF Shape, Policies
<1>1. UNCHANGED <<pc, batch, next, out, slots, guard, wire>>
  BY EnvFacts
<1>2. OwnSocket' /\ PolicyNeverGoesBack'
  BY <1>0, <1>1 DEF OwnSocket, PolicyNeverGoesBack, Policies
<1>3. \A v : Undecided(v)' = Undecided(v) /\ Unsent(v)' = Unsent(v)
  BY <1>1 DEF Undecided, Unsent
<1>4. /\ live \in Nat /\ (\A d \in Datagrams : since[d] \in Nat)
      /\ \A k \in 1 .. Len(wire) : wire[k].version \in Nat
  <2>1. \A k \in 1 .. Len(wire) : wire[k] \in Replies
    BY <1>0 DEF TypeOK
  <2>2. \A k \in 1 .. Len(wire) : wire[k].version \in Nat
    BY <2>1, UdpAssumption DEF Replies
  <2>3. live \in Nat /\ \A d \in Datagrams : since[d] \in Nat
    BY <1>0, UdpAssumption DEF TypeOK
  <2> QED BY <2>2, <2>3
<1>5. /\ live' # 0 => live # 0 /\ live' \in Nat /\ live <= live'
  BY <1>4, EnvFacts
<1>6. \A j \in 1 .. Len(wire) : live' # 0 => wire[j].version <= live'
  BY <1>0, <1>4, <1>5 DEF Versions
<1>7. CASE UNCHANGED since
  <2>1. live' # 0 => \A d \in Datagrams : since[d] <= live'
    BY <1>0, <1>4, <1>5 DEF Versions
  <2>2. Versions'
    BY <1>0, <1>1, <1>3, <1>6, <1>7, <2>1 DEF Versions
  <2>3. DecidedByALivePolicy'
    BY <1>1, <1>7 DEF Policies, DecidedByALivePolicy
  <2> QED BY <1>2, <2>2, <2>3 DEF Policies
<1>8. CASE \E d \in Datagrams : Arrive(d)
  <2>1. PICK d \in Datagrams : Arrive(d)
    BY <1>8
  <2>2. since[d] = 0 /\ live' = live /\ since' = [since EXCEPT ![d] = live]
    BY <2>1 DEF Arrive, cellVars
  <2>3. since'[d] = live /\ \A x : x # d => since'[x] = since[x]
    BY <1>0, <2>2 DEF TypeOK
  <2>4. live' # 0 => \A x \in Datagrams : since'[x] <= live'
    BY <1>0, <1>4, <2>2, <2>3 DEF Versions
  <2>5. \A v \in Workers : \A i \in Undecided(v) : batch[v][i] # d
    BY <2>2 DEF OnePlace, InBatch
  <2>6. \A v \in Workers : \A k \in Unsent(v) : slots[v][k].about # d
    BY <2>2 DEF OnePlace, InSlots
  <2>7. Versions'
    BY <1>0, <1>1, <1>3, <1>6, <2>3, <2>4, <2>5, <2>6 DEF Versions
  <2>8. \A j \in 1 .. Len(wire) : wire[j].about # d
    BY <2>2 DEF OnePlace, OnWire
  <2>9. DecidedByALivePolicy'
    BY <1>1, <2>3, <2>8 DEF Policies, DecidedByALivePolicy
  <2> QED BY <1>2, <2>7, <2>9 DEF Policies
<1> QED BY <1>7, <1>8, EnvFacts

\* A reply is decided by a policy no older than its request.
LEMMA LivePolicyKept ==
  ASSUME Shape, OnePlace, Policies, Configured, NEW w \in Threads, WorkerStep(w)
  PROVE  DecidedByALivePolicy'
<1>0. /\ TypeOK /\ Guards /\ Versions /\ w \in Workers /\ since' = since
  BY LayoutFacts, SinceKept DEF Shape, Policies
<1>1. CASE wire' = wire
  BY <1>0, <1>1 DEF Policies, DecidedByALivePolicy
<1>2. CASE SendBatch(w)
  <2>1. PICK n : Sending(w, n)
    BY <1>2, SendFacts, Zenon
  <2>2. pc[w] = "deciding" /\ guard[w] # 0
    BY <1>0, <2>1 DEF Sending, Guards
  <2>3. \A a \in Unsent(w) : /\ slots[w][a].version = guard[w]
                             /\ since[slots[w][a].about] <= guard[w]
    BY <1>0, <2>2 DEF Versions, Unsent
  <2> SUFFICES ASSUME NEW j \in 1 .. Len(wire')
               PROVE  wire'[j].version # 0 /\ since[wire'[j].about] <= wire'[j].version
    BY <1>0 DEF DecidedByALivePolicy
  <2>4. CASE j \in 1 .. Len(wire) /\ wire'[j] = wire[j]
    BY <2>4 DEF Policies, DecidedByALivePolicy
  <2>5. CASE \E a \in Unsent(w) : wire'[j] = slots[w][a]
    BY <2>2, <2>3, <2>5
  <2> QED BY <1>0, <2>1, <2>4, <2>5, SentFrom
<1>3. CASE Receive(w)
  BY <1>1, <1>3, ReceiveFacts, Zenon DEF Received
<1>4. CASE Decide(w)
  BY <1>1, <1>4, DecideFacts DEF Decided
<1>5. CASE Resting(w) \/ TakeGuard(w) \/ EndBatch(w)
  BY <1>1, <1>5, GuardFacts DEF Resting, Taking, Ending, netVars
<1> QED BY <1>2, <1>3, <1>4, <1>5, RestFacts DEF WorkerStep

\* A reply is no older than the replies its client already has.
LEMMA NeverBackKept ==
  ASSUME Shape, OnePlace, Policies, Configured, NEW w \in Threads, WorkerStep(w)
  PROVE  PolicyNeverGoesBack'
<1>0. /\ TypeOK /\ Guards /\ Versions /\ w \in Workers /\ layout' = layout
  BY LayoutFacts, LayoutKept DEF Shape, Policies
<1>1. CASE wire' = wire
  BY <1>0, <1>1 DEF Policies, PolicyNeverGoesBack
<1>2. CASE SendBatch(w)
  <2>1. PICK n : Sending(w, n)
    BY <1>2, SendFacts, Zenon
  <2>2. SUFFICES ASSUME layout.per_worker, NEW j \in 1 .. Len(wire'), NEW k \in 1 .. Len(wire'),
                        j <= k, wire'[j].to = wire'[k].to
                 PROVE  wire'[j].version <= wire'[k].version
    BY <1>0 DEF PolicyNeverGoesBack
  <2>3. pc[w] = "deciding" /\ guard[w] \in Nat /\ guard[w] # 0 /\ out[w] \in Nat /\ Len(wire) \in Nat
    BY <1>0, <2>1, UdpAssumption DEF Sending, TypeOK, Guards
  <2>4. \A a \in Unsent(w) : slots[w][a].version = guard[w] /\ hashed[slots[w][a].to] = w
    <3>1. SocketOf(w) = w
      BY <2>2 DEF SocketOf
    <3>2. \A a \in Unsent(w) : slots[w][a].version = guard[w]
      BY <1>0, <2>3 DEF Versions, Unsent
    <3> QED BY <1>0, <3>1, <3>2 DEF OnePlace, InSlots
  <2>5. CASE k \in 1 .. Len(wire) /\ wire'[k] = wire[k]
    <3>1. j \in 1 .. Len(wire)
      BY <2>2, <2>3, <2>5
    <3>2. wire'[j] = wire[j]
      BY <2>1, <3>1 DEF Sending
    <3> QED BY <2>2, <2>5, <3>1, <3>2 DEF Policies, PolicyNeverGoesBack
  <2>6. CASE \E a \in Unsent(w) : wire'[k] = slots[w][a]
    <3>1. wire'[k].version = guard[w] /\ hashed[wire'[k].to] = w
      BY <2>4, <2>6
    <3>2. CASE j \in 1 .. Len(wire) /\ wire'[j] = wire[j]
      BY <2>2, <2>3, <3>1, <3>2 DEF Policies, OwnSocket
    <3>3. CASE \E a \in Unsent(w) : wire'[j] = slots[w][a]
      BY <2>3, <2>4, <3>1, <3>3
    <3> QED BY <1>0, <2>1, <3>2, <3>3, SentFrom
  <2> QED BY <1>0, <2>1, <2>5, <2>6, SentFrom
<1>3. CASE Receive(w)
  BY <1>1, <1>3, ReceiveFacts, Zenon DEF Received
<1>4. CASE Decide(w)
  BY <1>1, <1>4, DecideFacts DEF Decided
<1>5. CASE Resting(w) \/ TakeGuard(w) \/ EndBatch(w)
  BY <1>1, <1>5, GuardFacts DEF Resting, Taking, Ending, netVars
<1> QED BY <1>2, <1>3, <1>4, <1>5, RestFacts DEF WorkerStep

-----------------------------------------------------------------------------
(* The theorems *)

\* The invariant holds before start().
LEMMA UdpInit == Init => UdpInv
<1> SUFFICES ASSUME Init PROVE UdpInv
  OBVIOUS
<1>1. LayoutOK
  BY DEF Init, LayoutOK
<1>2. /\ BatchSize \in Nat \ {0} /\ MaxVersion \in Nat \ {0} /\ live = 1 /\ freed = {}
      /\ guard = [w \in Workers |-> 0] /\ wire = <<>>
      /\ pc = [w \in Workers |-> IF w \in Threads THEN "starting" ELSE "stopped"]
  BY <1>1, LayoutFacts, UdpAssumption DEF Init, cell!CellInit
<1>3. \A w \in Workers : /\ pc[w] \in {"starting", "stopped"} /\ batch[w] = <<>> /\ out[w] = 0
                         /\ m[w] = [c \in Counters |-> 0] /\ guard[w] = 0
  BY <1>2 DEF Init
<1>4. \A w \in Workers : Undecided(w) = {} /\ Unsent(w) = {} /\ Hand(w) = {}
  <2>1. \A w \in Workers : Undecided(w) = {} /\ Unsent(w) = {}
    BY <1>3 DEF Undecided, Unsent
  <2> QED BY <2>1 DEF Hand
<1>5. TypeOK
  <2>1. /\ queue \in [Sockets -> Seq(Datagrams)] /\ since \in [Datagrams -> 0 .. MaxVersion]
        /\ wire \in Seq(Replies) /\ batch \in [Workers -> Seq(Datagrams)]
    BY <1>2 DEF Init
  <2>2. pc \in [Workers -> {"starting", "loop", "receiving", "parked", "received",
                        "deciding", "sent", "stopped"}]
    BY <1>2
  <2>n. next \in [Workers -> 1 .. BatchSize + 1] /\ out \in [Workers -> 0 .. BatchSize]
    BY <1>2 DEF Init
  <2>m. m \in [Workers -> [Counters -> Nat]]
    BY DEF Init
  <2>s. slots \in [Workers -> [1 .. BatchSize -> Replies \cup {NoReply}]]
    BY DEF Init
  <2>3. stop \in BOOLEAN /\ running \in BOOLEAN
    BY Zenon DEF Init
  <2>4. /\ live \in 0 .. MaxVersion
        /\ guard \in [Workers -> 0 .. MaxVersion] /\ freed \subseteq 1 .. MaxVersion
    BY <1>2
  <2> QED BY <2>1, <2>2, <2>n, <2>m, <2>s, <2>3, <2>4, Zenon DEF TypeOK
<1>6. InBounds /\ Guards
  BY <1>2, <1>3, <1>4 DEF Init, InBounds, Guards
<1>7. Accounts
  BY <1>3 DEF Accounts, Balanced, ToDecide, ToSend, Counters
<1>8. OnePlace
  <2>1. InQueue
    BY DEF Init, InQueue
  <2>2. InBatch /\ InSlots /\ InHands /\ OnWire
    BY <1>2, <1>4 DEF InBatch, InSlots, InHands, OnWire
  <2> QED BY <2>1, <2>2 DEF OnePlace
<1>9. Policies
  <2>1. \A d \in Datagrams : since[d] = 0
    BY DEF Init
  <2> QED BY <1>2, <1>3, <1>4, <2>1
          DEF Policies, Versions, OwnSocket, PolicyNeverGoesBack, DecidedByALivePolicy
<1> QED BY <1>1, <1>5, <1>6, <1>7, <1>8, <1>9 DEF UdpInv, Shape

\* Every step keeps the invariant.
LEMMA UdpStep == UdpInv /\ [Next]_vars => UdpInv'
<1> SUFFICES ASSUME UdpInv, [Next]_vars PROVE UdpInv'
  OBVIOUS
<1>0. Shape /\ Accounts /\ OnePlace /\ Policies /\ Versions /\ OwnSocket
  BY DEF UdpInv, Policies
<1>1. CASE UNCHANGED vars
  <2>1. UNCHANGED <<queue, since, wire, pc, batch, next, out, slots, m, stop, running,
                    live, guard, freed, layout, hashed>>
    BY <1>1 DEF vars, netVars, workVars, cellVars
  <2>2. /\ Threads' = Threads /\ Sockets' = Sockets /\ BatchSize' = BatchSize
        /\ \A w : SocketOf(w)' = SocketOf(w)
    BY <2>1 DEF Threads, Sockets, BatchSize, SocketOf
  <2>3. \A w : /\ Undecided(w)' = Undecided(w) /\ Unsent(w)' = Unsent(w) /\ Hand(w)' = Hand(w)
               /\ ToDecide(w)' = ToDecide(w) /\ ToSend(w)' = ToSend(w)
    BY <2>1 DEF Undecided, Unsent, Hand, ToDecide, ToSend
  <2>4. Shape'
    BY <1>0, <2>1, <2>2, <2>3 DEF Shape, LayoutOK, TypeOK, InBounds, Guards
  <2>5. Accounts'
    BY <1>0, <2>1, <2>3 DEF Accounts, Balanced
  <2>6. OnePlace'
    BY <1>0, <2>1, <2>3, SamePlaces DEF Configured
  <2>7. Policies'
    <3>1. Versions'
      BY <1>0, <2>1, <2>3 DEF Versions
    <3>2. OwnSocket'
      BY <1>0, <2>1 DEF OwnSocket
    <3>3. PolicyNeverGoesBack' /\ DecidedByALivePolicy'
      BY <1>0, <2>1 DEF Policies, PolicyNeverGoesBack, DecidedByALivePolicy
    <3> QED BY <3>1, <3>2, <3>3 DEF Policies
  <2> QED BY <2>4, <2>5, <2>6, <2>7 DEF UdpInv
<1>2. ASSUME NEW w \in Threads, WorkerStep(w), Configured PROVE UdpInv'
  BY <1>0, <1>2, ShapeKept, AccountsKept, PlacesKept, VersionsKept, OwnSocketKept, NeverBackKept,
     LivePolicyKept DEF UdpInv, Policies
<1>3. ASSUME EnvStep, Configured PROVE UdpInv'
  <2>1. Accounts'
    <3>1. UNCHANGED <<pc, batch, next, out, m>>
      BY <1>0, <1>3, EnvFacts
    <3> QED BY <1>0, <3>1 DEF Accounts, Balanced, ToDecide, ToSend
  <2> QED BY <1>0, <1>3, <2>1, ShapeKeptByEnv, PlacesKeptByEnv, PoliciesKeptByEnv DEF UdpInv
<1> QED BY <1>1, <1>2, <1>3 DEF Next, EnvStep

\* UdpInv holds in every reachable state: what the worker loops of
\* src/server_udp.cpp keep true between any two steps.
THEOREM ServerInvariant == Spec => []UdpInv
BY UdpInit, UdpStep, PTL DEF Spec

\* The invariant gives the properties of the replies.
LEMMA UdpInvGives ==
  UdpInv => /\ AnsweredOnceToSender /\ DecidedByALivePolicy /\ OneVersionPerBatch
            /\ PolicyNeverGoesBack /\ IdleWorkersHoldNoGuard /\ CountersBalance
<1> SUFFICES ASSUME UdpInv
             PROVE  /\ AnsweredOnceToSender /\ DecidedByALivePolicy /\ OneVersionPerBatch
                    /\ PolicyNeverGoesBack /\ IdleWorkersHoldNoGuard /\ CountersBalance
  OBVIOUS
<1>0. TypeOK /\ OnePlace /\ Policies /\ Guards /\ Accounts
  BY DEF UdpInv, Shape
<1>1. AnsweredOnceToSender
  BY <1>0 DEF AnsweredOnceToSender, OnePlace, OnWire
<1>2. DecidedByALivePolicy
  BY <1>0 DEF Policies
<1>3. OneVersionPerBatch
  BY <1>0 DEF OneVersionPerBatch, Policies, Versions
<1>4. IdleWorkersHoldNoGuard
  BY <1>0 DEF IdleWorkersHoldNoGuard, Guards, Between
<1>5. CountersBalance
  <2> SUFFICES ASSUME NEW w \in Workers, Between(w)
               PROVE  /\ m[w]["batch_datagrams"] =
                           m[w]["short_datagrams"] + m[w]["bad_magic"] + m[w]["requests"]
                      /\ m[w]["bad_magic"] + m[w]["requests"] =
                           m[w]["replies_sent"] + m[w]["send_failures"]
                      /\ m[w]["send_failures"] =
                           m[w]["send_wouldblock"] + m[w]["send_nobufs"] + m[w]["send_errors"]
                      /\ m[w]["noted"] = m[w]["bad_magic"] + m[w]["requests"]
    BY DEF CountersBalance
  <2>1. ToDecide(w) = 0 /\ ToSend(w) = 0 /\ Balanced(w)
    BY <1>0 DEF Between, Accounts, ToDecide, ToSend
  <2>2. \A c \in Counters : m[w][c] \in Nat
    BY <1>0 DEF TypeOK
  <2>3. /\ m[w]["short_datagrams"] \in Nat /\ m[w]["bad_magic"] \in Nat
        /\ m[w]["requests"] \in Nat /\ m[w]["replies_sent"] \in Nat
        /\ m[w]["send_failures"] \in Nat
    BY <2>2 DEF Counters
  <2> QED BY <2>1, <2>3 DEF Balanced
<1> QED BY <1>0, <1>1, <1>2, <1>3, <1>4, <1>5 DEF Policies

\* A datagram is answered at most once and to its sender, whatever batches,
\* drops, partial sends and reloads do (stage_reply(), send_batch()).
THEOREM AnsweredOnce == Spec => []AnsweredOnceToSender
BY ServerInvariant, UdpInvGives, PTL

\* No request is decided by a policy older than the one that was live when it
\* arrived (rules.read() comes after recv_batch()).
THEOREM LivePolicy == Spec => []DecidedByALivePolicy
BY ServerInvariant, UdpInvGives, PTL

\* The replies of a batch carry one policy version: the guard spans the batch.
THEOREM OneVersion == Spec => []OneVersionPerBatch
BY ServerInvariant, UdpInvGives, PTL

\* With a socket per worker the policy a client sees never goes back.
THEOREM NeverGoesBack == Spec => []PolicyNeverGoesBack
BY ServerInvariant, UdpInvGives, PTL

\* A waiting or finished worker holds no guard: every way out of an iteration
\* releases it.
THEOREM IdleHoldsNone == Spec => []IdleWorkersHoldNoGuard
BY ServerInvariant, UdpInvGives, PTL

\* Between batches the counters of a worker balance.
THEOREM CountersAddUp == Spec => []CountersBalance
BY ServerInvariant, UdpInvGives, PTL
=============================================================================
