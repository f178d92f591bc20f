----------------------------- MODULE UdpWorker -----------------------------
(***************************************************************************)
(* UdpServer (src/server_udp.cpp) with its BatchIo (src/net.cpp): worker    *)
(* threads that receive a batch of datagrams, decide each against one       *)
(* snapshot of the rules, stage the replies and send them, while reloads    *)
(* publish new snapshots and main asks for a shutdown.                      *)
(*                                                                          *)
(* The rules are the abstract snapshot cell that Rcu implements.  Snapshot  *)
(* numbers stand for policy versions: each reload publishes the next one.   *)
(* A datagram is an identifier with a sender, a length, and whether its     *)
(* first bytes are a request and name a known subscriber.                   *)
(***************************************************************************)
EXTENDS Integers, Sequences, FiniteSets

CONSTANTS
  Workers,           \* worker threads, numbered from 0
  Layouts,           \* the ways a server may be configured, see layout
  Datagrams,         \* what clients send
  Clients,
  ClientOf,          \* the sender of each datagram
  LengthOf,          \* its length on the wire
  IsRequest,         \* it begins with the magic and version decode() accepts
  IsKnown,           \* its subscriber is in the store
  MaxVersion         \* bound: snapshots ever published

kWireMsgSize == 64
kSlotSize    == kWireMsgSize

Counters == {"batch_datagrams", "requests", "bad_magic", "short_datagrams",
             "unknown_subscriber", "noted", "replies_sent", "send_failures",
             "send_wouldblock", "send_nobufs", "send_errors"}

ASSUME UdpAssumption ==
  /\ Workers \subseteq Nat
  /\ MaxVersion \in Nat \ {0}
  /\ Layouts \subseteq [worker_threads : Nat \ {0}, per_worker : BOOLEAN, batch_size : Nat \ {0},
                        reader_slots : Nat, offered : SUBSET Datagrams]
  /\ \A l \in Layouts : 0 .. l.worker_threads - 1 \subseteq Workers
  /\ ClientOf \in [Datagrams -> Clients]
  /\ LengthOf \in [Datagrams -> Nat]
  /\ IsRequest \in [Datagrams -> BOOLEAN]
  /\ IsKnown \in [Datagrams -> BOOLEAN]

Replies == [to : Clients, about : Datagrams, version : 1 .. MaxVersion]
NoReply == [to      |-> CHOOSE c \in Clients : TRUE,
            about   |-> CHOOSE d \in Datagrams : TRUE,
            version |-> 0]

VARIABLES
  layout,  \* the configuration: worker_threads, per_worker (whether
           \* have_per_worker_sockets()), batch_size, the reader slots that
           \* are left for the workers, and the traffic offered
  hashed,  \* the kernel's choice of socket for each client
  queue,   \* each socket's receive queue
  since,   \* history: the version that was live when a datagram arrived, 0 before
  wire,    \* the replies the kernel has taken, in order
  pc, batch, next,  \* each worker: program counter, received datagrams, loop index i
  out,     \* replies staged in this batch
  slots,   \* BatchIo's send slots, reused from batch to batch
  m,       \* WorkerMetrics
  stop,    \* stop_
  running, \* running_
  live, guard, freed  \* the rules: published version, each worker's guard, deleted

Threads   == 0 .. layout.worker_threads - 1
Sockets   == IF layout.per_worker THEN Threads ELSE {0}
BatchSize == layout.batch_size

cell == INSTANCE SnapshotCell WITH Readers <- Workers, holding <- guard

netVars  == <<queue, since, wire>>
workVars == <<pc, batch, next, out, slots, m>>
cellVars == <<live, guard, freed>>
vars     == <<layout, hashed, netVars, workVars, stop, running, cellVars>>

Init ==
  /\ layout \in Layouts
  /\ hashed \in [Clients -> Sockets]
  /\ queue = [s \in Sockets |-> <<>>]
  /\ since = [d \in Datagrams |-> 0]
  /\ wire = <<>>
  /\ pc = [w \in Workers |-> IF w \in Threads THEN "starting" ELSE "stopped"]
  /\ batch = [w \in Workers |-> <<>>]
  /\ next = [w \in Workers |-> 1]
  /\ out = [w \in Workers |-> 0]
  /\ slots = [w \in Workers |-> [k \in 1 .. BatchSize |-> NoReply]]
  /\ m = [w \in Workers |-> [c \in Counters |-> 0]]
  /\ stop = FALSE /\ running = TRUE
  /\ cell!CellInit

-----------------------------------------------------------------------------
Goto(w, from, to) == pc[w] = from /\ pc' = [pc EXCEPT ![w] = to]

\* Adds by[c] to each counter c of a worker's block.
Bump(w, by) == m' = [m EXCEPT ![w] = [c \in Counters |-> @[c] + by[c]]]

Once(S) == [c \in Counters |-> IF c \in S THEN 1 ELSE 0]

\* Mutant: every worker is given the first socket.
FirstSocket(w) == 0

\* The socket a worker's thread is started with.
SocketOf(w) == IF layout.per_worker THEN w ELSE 0

\* register_reader() finds a slot, or the thread logs and returns.
Register(w) ==
  /\ Goto(w, "starting",
          IF Cardinality({v \in Workers : pc[v] \notin {"starting", "stopped"}}) < layout.reader_slots
            THEN "loop" ELSE "stopped")
  /\ UNCHANGED <<netVars, batch, next, out, slots, m, stop, running, cellVars>>

\* The head of the loop: go on, or unregister and return.
LoopTop(w) ==
  /\ Goto(w, "loop", IF stop THEN "stopped" ELSE "receiving")
  /\ UNCHANGED <<netVars, batch, next, out, slots, m, stop, running, cellVars>>

\* recv_batch() returned nothing: no datagram, or an error.  The worker spins,
\* or parks in wait_readable().
EmptyPoll(w) ==
  /\ \E to \in {"loop", "parked"} : Goto(w, "receiving", to)
  /\ UNCHANGED <<netVars, batch, next, out, slots, m, stop, running, cellVars>>

\* Mutant: poll() has no timeout.
WakeOnData(w) ==
  /\ queue[SocketOf(w)] # <<>>
  /\ Goto(w, "parked", "loop")
  /\ UNCHANGED <<netVars, batch, next, out, slots, m, stop, running, cellVars>>

\* wait_readable() returns: something to read, or 1 ms has passed.
Wake(w) ==
  /\ Goto(w, "parked", "loop")
  /\ UNCHANGED <<netVars, batch, next, out, slots, m, stop, running, cellVars>>

TakeBatch(w, sizes) ==
  LET q == queue[SocketOf(w)] IN
  /\ Goto(w, "receiving", "received")
  /\ \E n \in sizes :
       /\ n <= Len(q)
       /\ batch' = [batch EXCEPT ![w] = SubSeq(q, 1, n)]
       /\ queue' = [queue EXCEPT ![SocketOf(w)] = SubSeq(q, n + 1, Len(q))]
       /\ Bump(w, [Once({}) EXCEPT !["batch_datagrams"] = n])
  /\ UNCHANGED <<since, wire, next, out, slots, stop, running, cellVars>>

\* Mutant: the worker waits until the batch is full.
ReceiveFull(w) == TakeBatch(w, {BatchSize})

\* recv_batch() filled the first n receive slots, with what there was.
Receive(w) == TakeBatch(w, 1 .. BatchSize)

\* rules.read(): one guard for the whole batch.
TakeGuard(w) ==
  /\ Goto(w, "received", "deciding")
  /\ cell!CellAcquire(w)
  /\ next' = [next EXCEPT ![w] = 1]
  /\ out' = [out EXCEPT ![w] = 0]
  /\ UNCHANGED <<netVars, batch, slots, m, stop, running>>

\* The length the kernel reports for a datagram: it has been cut to the slot.
RecvLen(d) == IF LengthOf[d] > kSlotSize THEN kSlotSize ELSE LengthOf[d]

\* Mutants: a snapshot kept from before the loop; one looked up per request.
RuleSetAtStart(w) == 1
RuleSetNow(w)     == live

\* The rule set a request is decided against.
RuleSetOf(w) == guard[w]

\* Mutant: the reply is addressed by its own slot number.
StageBySlot(w, d) ==
  slots' = [slots EXCEPT ![w][out[w] + 1] =
              [to |-> ClientOf[batch[w][out[w] + 1]], about |-> d, version |-> RuleSetOf(w)]]

\* stage_reply(out, i, reply): reply d goes to the sender of receive slot i.
StageReply(w, d) ==
  slots' = [slots EXCEPT ![w][out[w] + 1] =
              [to |-> ClientOf[d], about |-> d, version |-> RuleSetOf(w)]]

\* What a datagram of the right length is counted as.
Classify(d) ==
  IF ~IsRequest[d] THEN {"bad_magic", "noted"}
  ELSE {"requests", "noted"} \cup IF IsKnown[d] THEN {} ELSE {"unknown_subscriber"}

\* One iteration over the batch.
Decide(w) ==
  LET d == batch[w][next[w]] IN
  /\ pc[w] = "deciding" /\ next[w] <= Len(batch[w])
  /\ next' = [next EXCEPT ![w] = @ + 1]
  /\ IF RecvLen(d) # kWireMsgSize
       THEN Bump(w, Once({"short_datagrams"})) /\ UNCHANGED <<out, slots>>
       ELSE /\ Bump(w, Once(Classify(d)))
            /\ StageReply(w, d)
            /\ out' = [out EXCEPT ![w] = @ + 1]
  /\ UNCHANGED <<netVars, pc, batch, stop, running, cellVars>>

\* The kernel takes the first n send slots, in order.
Deliver(w, n) == wire' = wire \o [k \in 1 .. n |-> slots[w][k]]

\* What errno says of the replies that were not sent.
Causes == {"send_wouldblock", "send_nobufs", "send_errors"}

\* Mutant: the total is not counted, only the cause.
CountedAsCause(cause) == {cause}

\* The counters a dropped reply adds to.
CountedAs(cause) == {"send_failures", cause}

\* How many replies send_batch() is asked to send.
Staged(w) == out[w]

\* send_batch(): the kernel takes the first of the staged replies, and the rest
\* are dropped.
SendBatch(w) ==
  /\ next[w] > Len(batch[w]) /\ out[w] > 0
  /\ Goto(w, "deciding", "sent")
  /\ \E delivered \in 0 .. Staged(w), cause \in Causes :
       /\ Deliver(w, delivered)
       /\ Bump(w, [c \in Counters |-> IF c = "replies_sent" THEN delivered
                                      ELSE IF c \in CountedAs(cause) THEN Staged(w) - delivered
                                      ELSE 0])
  /\ UNCHANGED <<queue, since, batch, next, out, slots, stop, running, cellVars>>

\* Mutant: the guard is declared before the loop and outlives the iteration.
EndBatchGuarded(w) ==
  /\ pc[w] = "sent" \/ (pc[w] = "deciding" /\ next[w] > Len(batch[w]) /\ out[w] = 0)
  /\ pc' = [pc EXCEPT ![w] = "loop"]
  /\ UNCHANGED <<netVars, batch, next, out, slots, m, stop, running, cellVars>>

\* The end of the iteration, with or without replies: the guard is released.
EndBatch(w) ==
  /\ pc[w] = "sent" \/ (pc[w] = "deciding" /\ next[w] > Len(batch[w]) /\ out[w] = 0)
  /\ pc' = [pc EXCEPT ![w] = "loop"]
  /\ cell!CellRelease(w)
  /\ UNCHANGED <<netVars, batch, next, out, slots, m, stop, running>>

-----------------------------------------------------------------------------
\* A client sends a datagram and the kernel queues it.
Arrive(d) ==
  /\ running /\ since[d] = 0 /\ d \in layout.offered
  /\ since' = [since EXCEPT ![d] = live]
  /\ queue' = [queue EXCEPT ![hashed[ClientOf[d]]] = Append(@, d)]
  /\ UNCHANGED <<wire, workVars, stop, running, cellVars>>

\* A reload publishes a snapshot, and deletes some that nobody holds.
Reload ==
  /\ live # 0 /\ live < MaxVersion /\ cell!CellPublish
  /\ UNCHANGED <<netVars, workVars, stop, running>>

Reclaim ==
  /\ \E S \in SUBSET ((1 .. (live - 1)) \ freed) : S # {} /\ cell!CellReclaim(S)
  /\ UNCHANGED <<netVars, workVars, stop, running>>

RequestStop ==
  /\ ~stop /\ stop' = TRUE
  /\ UNCHANGED <<netVars, workVars, running, cellVars>>

\* join(): every thread has returned; the sockets are closed.
Join ==
  /\ stop /\ running /\ \A w \in Workers : pc[w] = "stopped"
  /\ running' = FALSE
  /\ queue' = [s \in Sockets |-> <<>>]
  /\ UNCHANGED <<since, wire, workVars, stop, cellVars>>

\* main returns and the control plane's rules are deleted.
Destroy ==
  /\ ~running /\ cell!CellDestroy
  /\ UNCHANGED <<netVars, workVars, stop, running>>

Terminated == live = 0 /\ UNCHANGED <<netVars, workVars, stop, running, cellVars>>

WorkerStep(w) ==
  \/ Register(w) \/ LoopTop(w) \/ EmptyPoll(w) \/ Wake(w) \/ Receive(w)
  \/ TakeGuard(w) \/ Decide(w) \/ SendBatch(w) \/ EndBatch(w)

\* The configuration is read once, at the start.
Configured == UNCHANGED <<layout, hashed>>

Next ==
  /\ \/ \E w \in Threads : WorkerStep(w)
     \/ \E d \in Datagrams : Arrive(d)
     \/ Reload \/ Reclaim \/ RequestStop \/ Join \/ Destroy \/ Terminated
  /\ Configured

Spec == Init /\ [][Next]_vars

\* Threads are scheduled, a socket that stays readable is not in error for
\* ever, and main goes on to join and return once it has asked for the stop.
Fairness ==
  /\ \A w \in Workers :
       /\ WF_vars(w \in Threads /\ WorkerStep(w) /\ Configured)
       /\ SF_vars(w \in Threads /\ Receive(w) /\ Configured)
  /\ WF_vars((Join \/ Destroy) /\ Configured)

FairSpec == Spec /\ Fairness

-----------------------------------------------------------------------------
(* Correctness *)

\* Every variable has its type; a guard is on a snapshot that exists.
TypeOK ==
  /\ queue \in [Sockets -> Seq(Datagrams)]
  /\ since \in [Datagrams -> 0 .. MaxVersion]
  /\ wire \in Seq(Replies)
  /\ pc \in [Workers -> {"starting", "loop", "receiving", "parked", "received",
                        "deciding", "sent", "stopped"}]
  /\ batch \in [Workers -> Seq(Datagrams)]
  /\ next \in [Workers -> 1 .. BatchSize + 1]
  /\ out \in [Workers -> 0 .. BatchSize]
  /\ slots \in [Workers -> [1 .. BatchSize -> Replies \cup {NoReply}]]
  /\ m \in [Workers -> [Counters -> Nat]]
  /\ stop \in BOOLEAN /\ running \in BOOLEAN
  /\ live \in 0 .. MaxVersion /\ guard \in [Workers -> 0 .. MaxVersion]
  /\ freed \subseteq 1 .. MaxVersion

\* A datagram is answered at most once, and the answer goes to its sender:
\* reused send slots never leak an earlier batch's reply, and gaps that dropped
\* datagrams leave in a batch never shift a reply to a neighbour.
AnsweredOnceToSender ==
  \A j \in 1 .. Len(wire) :
    /\ wire[j].to = ClientOf[wire[j].about]
    /\ \A k \in 1 .. Len(wire) : wire[j].about = wire[k].about => j = k

\* A request is decided by a policy at least as new as the one that was live
\* when it arrived, and never by one that was not published.
DecidedByALivePolicy ==
  \A j \in 1 .. Len(wire) :
    wire[j].version # 0 /\ since[wire[j].about] <= wire[j].version

\* All the replies of a batch carry one policy version (README.md: "every request
\* in a batch is decided against one policy version").
OneVersionPerBatch ==
  \A w \in Workers : \A j, k \in 1 .. out[w] :
    pc[w] \in {"deciding", "sent"} => slots[w][j].version = slots[w][k].version

\* With a socket per worker a client never sees the policy go back to an older
\* version.
PolicyNeverGoesBack ==
  layout.per_worker =>
    \A j, k \in 1 .. Len(wire) :
      j <= k /\ wire[j].to = wire[k].to => wire[j].version <= wire[k].version

Between(w) == pc[w] \in {"loop", "receiving", "parked", "stopped"}

\* A worker that is waiting for traffic, or has left, holds no guard: it never
\* makes a reload's grace period wait for the next datagram.
IdleWorkersHoldNoGuard == \A w \in Workers : Between(w) => guard[w] = 0

\* Between batches a worker's counters balance: every datagram received is
\* counted under one heading, every reply staged was sent or counted as a
\* failure, every failure has one cause, and every decision was noted.
CountersBalance ==
  \A w \in Workers : Between(w) =>
    /\ m[w]["batch_datagrams"] =
         m[w]["short_datagrams"] + m[w]["bad_magic"] + m[w]["requests"]
    /\ m[w]["bad_magic"] + m[w]["requests"] = m[w]["replies_sent"] + m[w]["send_failures"]
    /\ m[w]["send_failures"] =
         m[w]["send_wouldblock"] + m[w]["send_nobufs"] + m[w]["send_errors"]
    /\ m[w]["noted"] = m[w]["bad_magic"] + m[w]["requests"]

\* A datagram too long for a receive slot gets no reply (include/policy/net.hpp:
\* "truncated, which makes its length != 64 and gets it dropped").
OversizedIsDropped ==
  \A j \in 1 .. Len(wire) : LengthOf[wire[j].about] <= kSlotSize

\* Once asked to stop, every worker returns and the process ends, even if no
\* datagram ever arrives again.
StopCompletes == stop ~> live = 0

\* Some worker that has its reader slot receives from the socket.
Served(s) == \E w \in Threads : SocketOf(w) = s /\ pc[w] \notin {"starting", "stopped"}

Backlog == {s \in Sockets : Served(s) /\ queue[s] # <<>>}

\* While the server runs, the receive queue of every socket that has a worker
\* is emptied, however its batches fall and even if another worker of that
\* socket found no reader slot.
QueuesAreServed == (Backlog # {}) ~> (stop \/ Backlog = {})
=============================================================================
