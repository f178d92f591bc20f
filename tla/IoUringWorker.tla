--------------------------- MODULE IoUringWorker ---------------------------
(***************************************************************************)
(* One worker of IoUringServer (src/server_iouring.cpp): batch_size receives *)
(* kept in flight, a stack of send slots twice as large, and a loop that     *)
(* submits what is staged, waits, and reaps the completions under one guard  *)
(* on the rules.  Workers share the rules and the stop flag and nothing      *)
(* else, each having its own socket, ring and slots, so one is modelled.     *)
(*                                                                           *)
(* The kernel carries out what was submitted in any order and at any time,   *)
(* reading a send slot and writing a receive slot when it does so.           *)
(***************************************************************************)
EXTENDS Integers, Sequences, FiniteSets, Functions

CONSTANTS
  BatchSize,         \* cfg_.batch_size
  Entries,           \* next_pow2(batch * 4): room in the submission queue
  Traffic,           \* how many datagrams clients send, numbered as they arrive
  Clients,
  ClientOf,          \* the sender of each datagram
  LengthOf,          \* the length the kernel reports for it
  IsRequest,         \* it begins with the magic and version decode() accepts
  MaxVersion,        \* bound: snapshots ever published
  MaxFaults          \* bound: operations that the kernel fails

kWireMsgSize == 64

EAGAIN  == -11
EINTR   == -4
ENOBUFS == -105
EIO     == -5      \* any other error

Errors == {EAGAIN, EINTR, ENOBUFS, EIO}

Datagrams == 1 .. Traffic

ASSUME RingAssumption ==
  /\ Traffic \in Nat \ {0}
  /\ BatchSize \in Nat \ {0} /\ MaxVersion \in Nat \ {0} /\ MaxFaults \in Nat
  /\ Entries \in Nat /\ Entries >= 4 * BatchSize
  /\ ClientOf \in [Datagrams -> Clients]
  /\ LengthOf \in [Datagrams -> Nat]
  /\ IsRequest \in [Datagrams -> BOOLEAN]

RecvSlots == 0 .. BatchSize - 1
SendSlots == 0 .. 2 * BatchSize - 1

\* What the user data of an operation says: its kind and its slot.
RecvOp(i) == <<"recv", i>>
SendOp(s) == <<"send", s>>
Ops       == {RecvOp(i) : i \in RecvSlots} \cup {SendOp(s) : s \in SendSlots}

Counters == {"requests", "bad_magic", "short_datagrams", "noted", "recv_errors",
             "replies_sent", "send_failures", "send_wouldblock", "send_nobufs",
             "send_errors"}

\* What a slot holds before it is first used.
NoDatagram == CHOOSE d \in Datagrams : TRUE
NoReply    == [to |-> CHOOSE c \in Clients : TRUE, about |-> NoDatagram, version |-> 0]

VARIABLES
  queue,     \* the socket's receive queue
  since,     \* history: the version in force when a datagram arrived, 0 before
  inbox,     \* the replies each client was sent, in order
  pc,
  sq,        \* operations staged and not submitted
  kernel,    \* operations submitted and not completed
  cq,        \* completions: an operation and its result
  faults,    \* how many operations the kernel has failed so far
  reaped,    \* how many of them this round has handled
  recv_slots, send_slots,  \* the buffers
  free_send, \* the stack of free send slots, its top last
  m,         \* WorkerMetrics
  stop,      \* stop_
  live, guard, freed  \* the rules: published version, the worker's guard, deleted

Worker == "worker"

cell == INSTANCE SnapshotCell WITH Readers <- {Worker}, holding <- guard

netVars  == <<queue, since, inbox>>
ringVars == <<sq, kernel, cq, faults, reaped>>
slotVars == <<recv_slots, send_slots, free_send>>
cellVars == <<live, guard, freed>>
vars     == <<netVars, pc, ringVars, slotVars, m, stop, cellVars>>

Init ==
  /\ queue = <<>>
  /\ since = [d \in Datagrams |-> 0]
  /\ inbox = [c \in Clients |-> <<>>]
  /\ pc = "starting"
  /\ sq = <<>> /\ kernel = {} /\ cq = <<>> /\ faults = 0 /\ reaped = 0
  /\ recv_slots = [i \in RecvSlots |-> NoDatagram]
  /\ send_slots = [s \in SendSlots |-> NoReply]
  /\ free_send = [k \in 1 .. 2 * BatchSize |-> 2 * BatchSize - k]
  /\ m = [c \in Counters |-> 0]
  /\ stop = FALSE
  /\ cell!CellInit

-----------------------------------------------------------------------------
Goto(from, to) == pc = from /\ pc' = to

Bump(S) == m' = [c \in Counters |-> IF c \in S THEN m[c] + 1 ELSE m[c]]

\* Mutant: room for the receives only.
FullWithReceives(q) == Len(q) >= BatchSize

\* io_uring_get_sqe() has none left.
Full(q) == Len(q) >= Entries

\* Stages an operation if there is room for it.
Stage(q, op) == IF Full(q) THEN q ELSE Append(q, op)

\* The start of worker_loop(): every receive is armed, and the worker claims a
\* reader slot; without a ring or a reader slot it returns.
Start ==
  /\ \/ /\ Goto("starting", "loop")
        /\ sq' = [k \in 1 .. BatchSize |-> RecvOp(k - 1)]
     \/ Goto("starting", "stopped") /\ UNCHANGED sq
  /\ UNCHANGED <<netVars, kernel, cq, faults, reaped, slotVars, m, stop, cellVars>>

\* The head of the loop.  Going on, io_uring_submit_and_wait_timeout() hands the
\* kernel the first n staged operations, none if it fails, and waits.
Submit(n) ==
  /\ ~stop /\ Goto("loop", "waiting")
  /\ sq' = SubSeq(sq, n + 1, Len(sq))
  /\ kernel' = kernel \cup {sq[k] : k \in 1 .. n}
  /\ UNCHANGED <<netVars, cq, faults, reaped, slotVars, m, stop, cellVars>>

\* Otherwise the worker unregisters, and io_uring_queue_exit() gives up what is
\* in flight.
Leave ==
  /\ stop /\ Goto("loop", "stopped")
  /\ sq' = <<>> /\ kernel' = {} /\ cq' = <<>>
  /\ UNCHANGED <<netVars, faults, reaped, slotVars, m, stop, cellVars>>

\* The wait failed with an error that is neither a timeout nor a signal.
WaitFails ==
  /\ Goto("waiting", "loop")
  /\ UNCHANGED <<netVars, ringVars, slotVars, m, stop, cellVars>>

\* Mutant: the wait has no timeout.
WakeOnCompletion ==
  /\ cq # <<>> /\ Goto("waiting", "reaping")
  /\ cell!CellAcquire(Worker)
  /\ UNCHANGED <<netVars, ringVars, slotVars, m, stop>>

\* The wait is over, with a completion or after 50 ms: rules.read().
Wake ==
  /\ Goto("waiting", "reaping")
  /\ cell!CellAcquire(Worker)
  /\ UNCHANGED <<netVars, ringVars, slotVars, m, stop>>

\* Mutant: only the cause is counted.
CountedAsCause(res) ==
  {CASE res = ENOBUFS -> "send_nobufs"
     [] res = EAGAIN  -> "send_wouldblock"
     [] OTHER         -> "send_errors"}

\* What a negative result of a send is counted as.
CountedAs(res) ==
  {"send_failures", CASE res = ENOBUFS -> "send_nobufs"
                      [] res = EAGAIN  -> "send_wouldblock"
                      [] OTHER         -> "send_errors"}

\* A send has completed: its slot is free again.
ReapSend(s, res) ==
  /\ Bump(IF res < 0 THEN CountedAs(res) ELSE {"replies_sent"})
  /\ free_send' = Append(free_send, s)
  /\ UNCHANGED <<sq, send_slots>>

\* The rule set of this round.
RuleSet == guard[Worker]

Decided(d) == IF IsRequest[d] THEN "requests" ELSE "bad_magic"

\* Mutant: the slot that is filled is not the one taken off the stack.
Bottom == free_send[1]

\* The slot a reply is put in.
Top == free_send[Len(free_send)]

\* A datagram of the right length: it is decided, the reply is staged in the
\* topmost free slot if there is one and if the submission queue has room, and
\* the receive is armed again.
Decide(i) ==
  LET d == recv_slots[i] IN
  IF free_send = <<>>
    THEN /\ Bump({Decided(d), "noted"} \cup CountedAs(EAGAIN))
         /\ sq' = Stage(sq, RecvOp(i))
         /\ UNCHANGED <<free_send, send_slots>>
    ELSE /\ send_slots' = [send_slots EXCEPT ![Top] =
                             [to |-> ClientOf[d], about |-> d, version |-> RuleSet]]
         /\ IF Full(sq)
              THEN /\ Bump({Decided(d), "noted"} \cup CountedAs(EAGAIN))
                   /\ UNCHANGED free_send
              ELSE /\ Bump({Decided(d), "noted"})
                   /\ free_send' = SubSeq(free_send, 1, Len(free_send) - 1)
         /\ sq' = Stage(Stage(sq, SendOp(Top)), RecvOp(i))

\* Mutant: a datagram of the wrong length is dropped and its receive forgotten.
ReapRecvForgetful(i, res) ==
  CASE res < 0 ->
         /\ IF res \in {EAGAIN, EINTR} THEN UNCHANGED m ELSE Bump({"recv_errors"})
         /\ sq' = Stage(sq, RecvOp(i)) /\ UNCHANGED <<free_send, send_slots>>
    [] res >= 0 /\ res # kWireMsgSize ->
         /\ Bump({"short_datagrams"})
         /\ UNCHANGED <<sq, free_send, send_slots>>
    [] OTHER -> Decide(i)

\* A receive has completed: an error, a datagram of the wrong length, or one to
\* decide.  Each way the receive is armed again.
ReapRecv(i, res) ==
  CASE res < 0 ->
         /\ IF res \in {EAGAIN, EINTR} THEN UNCHANGED m ELSE Bump({"recv_errors"})
         /\ sq' = Stage(sq, RecvOp(i)) /\ UNCHANGED <<free_send, send_slots>>
    [] res >= 0 /\ res # kWireMsgSize ->
         /\ Bump({"short_datagrams"})
         /\ sq' = Stage(sq, RecvOp(i)) /\ UNCHANGED <<free_send, send_slots>>
    [] OTHER -> Decide(i)

\* One iteration of io_uring_for_each_cqe, which looks at the tail again each
\* time.  Left out: the drop of every datagram while no rules are loaded (main
\* loads them before it starts a worker), and the counters that describe the
\* rounds and not the datagrams (batches, batch_datagrams, full_batches,
\* idle_spins).
Reap ==
  /\ pc = "reaping" /\ reaped < Len(cq)
  /\ LET c == cq[reaped + 1] IN
       IF c.op[1] = "send" THEN ReapSend(c.op[2], c.res) ELSE ReapRecv(c.op[2], c.res)
  /\ reaped' = reaped + 1
  /\ UNCHANGED <<netVars, pc, kernel, cq, faults, recv_slots, stop, cellVars>>

\* No completion is left: cq_advance(), and the guard goes out of scope.
EndRound ==
  /\ reaped = Len(cq) /\ Goto("reaping", "loop")
  /\ cq' = <<>> /\ reaped' = 0
  /\ cell!CellRelease(Worker)
  /\ UNCHANGED <<netVars, sq, kernel, faults, slotVars, m, stop>>

-----------------------------------------------------------------------------
Complete(op, res) ==
  /\ kernel' = kernel \ {op}
  /\ cq' = Append(cq, [op |-> op, res |-> res])

Fault == faults < MaxFaults /\ faults' = faults + 1

\* The kernel carries out a submitted receive or send, or fails to.
KernelReceive(i) ==
  /\ RecvOp(i) \in kernel /\ queue # <<>>
  /\ recv_slots' = [recv_slots EXCEPT ![i] = Head(queue)]
  /\ queue' = Tail(queue)
  /\ Complete(RecvOp(i), LengthOf[Head(queue)])
  /\ UNCHANGED <<since, inbox, pc, sq, faults, reaped, send_slots, free_send, m, stop, cellVars>>

KernelReceiveFails(i, e) ==
  /\ RecvOp(i) \in kernel
  /\ Fault /\ Complete(RecvOp(i), e)
  /\ UNCHANGED <<netVars, pc, sq, reaped, slotVars, m, stop, cellVars>>

KernelSend(s) ==
  LET r == send_slots[s] IN
  /\ SendOp(s) \in kernel
  /\ inbox' = [inbox EXCEPT ![r.to] = Append(@, r)]
  /\ Complete(SendOp(s), kWireMsgSize)
  /\ UNCHANGED <<queue, since, pc, sq, faults, reaped, slotVars, m, stop, cellVars>>

KernelSendFails(s, e) ==
  /\ SendOp(s) \in kernel
  /\ Fault /\ Complete(SendOp(s), e)
  /\ UNCHANGED <<netVars, pc, sq, reaped, slotVars, m, stop, cellVars>>

\* The oldest version that may decide a datagram arriving now: a round under way
\* still picks it up, under the guard it has.
InForce == IF pc = "reaping" THEN RuleSet ELSE live

\* A client sends a datagram and the kernel queues it.
Arrive(d) ==
  /\ pc # "stopped" /\ since[d] = 0 /\ \A e \in 1 .. d - 1 : since[e] # 0
  /\ since' = [since EXCEPT ![d] = InForce]
  /\ queue' = Append(queue, d)
  /\ UNCHANGED <<inbox, pc, ringVars, slotVars, m, stop, cellVars>>

\* A reload publishes a snapshot.
Reload ==
  /\ live < MaxVersion /\ cell!CellPublish
  /\ UNCHANGED <<netVars, pc, ringVars, slotVars, m, stop>>

RequestStop ==
  /\ ~stop /\ stop' = TRUE
  /\ UNCHANGED <<netVars, pc, ringVars, slotVars, m, cellVars>>

\* join() returns, and main goes on to delete the rules.
Destroy ==
  /\ stop /\ pc = "stopped" /\ cell!CellDestroy
  /\ UNCHANGED <<netVars, pc, ringVars, slotVars, m, stop>>

Terminated == live = 0 /\ UNCHANGED vars

WorkerStep ==
  \/ Start \/ Leave \/ WaitFails \/ Wake \/ Reap \/ EndRound
  \/ \E n \in 0 .. Len(sq) : Submit(n)

KernelStep ==
  \/ \E i \in RecvSlots : KernelReceive(i) \/ \E e \in {EINTR, EIO} : KernelReceiveFails(i, e)
  \/ \E s \in SendSlots : KernelSend(s) \/ \E e \in {EAGAIN, ENOBUFS, EIO} : KernelSendFails(s, e)

Next ==
  \/ WorkerStep \/ KernelStep
  \/ \E d \in Datagrams : Arrive(d)
  \/ Reload \/ RequestStop \/ Destroy \/ Terminated

Spec == Init /\ [][Next]_vars

\* The worker is scheduled, submitting and waiting do not fail for ever (nor need
\* they ever fail), the kernel carries out a receive when there is a datagram for
\* it, and main goes on once the worker has returned.
Fairness ==
  /\ WF_vars(Start \/ Leave \/ Reap \/ EndRound)
  /\ SF_vars(Wake) /\ SF_vars(Submit(Len(sq)))
  /\ SF_vars(\E i \in RecvSlots : KernelReceive(i))
  /\ WF_vars(Destroy)

FairSpec == Spec /\ Fairness

-----------------------------------------------------------------------------
(* Correctness *)

\* Every variable has its type.
TypeOK ==
  /\ queue \in Seq(Datagrams)
  /\ since \in [Datagrams -> 0 .. MaxVersion]
  /\ pc \in {"starting", "loop", "waiting", "reaping", "stopped"}
  /\ sq \in Seq(Ops) /\ kernel \subseteq Ops
  /\ cq \in Seq([op : Ops, res : Int]) /\ reaped \in 0 .. Len(cq)
  /\ pc # "reaping" => reaped = 0
  /\ recv_slots \in [RecvSlots -> Datagrams]
  /\ free_send \in Seq(SendSlots)
  /\ m \in [Counters -> Nat]
  /\ stop \in BOOLEAN
  /\ live \in 0 .. MaxVersion /\ guard \in [{Worker} -> 0 .. MaxVersion]

Running == pc \notin {"starting", "stopped"}

\* Where an operation can be: staged, in the kernel, completed and not handled
\* yet or, for a send, on the stack of free slots.
StagedOps  == Range(sq)
PendingOps == {cq[k].op : k \in reaped + 1 .. Len(cq)}
FreeOps    == {SendOp(s) : s \in Range(free_send)}

\* Every receive slot is in exactly one place (staged, in the kernel, or
\* completed and not handled yet), and so is every send slot, unless it is on the
\* free stack, and then once: no buffer is touched while the kernel owns it,
\* and no receive is ever lost because the submission queue was full
\* (server_iouring.cpp: "so a full round of re-arms never finds the submission
\* queue full").
SlotsHaveOneOwner ==
  Running =>
    /\ StagedOps \cup kernel \cup PendingOps \cup FreeOps = Ops
    /\ StagedOps \cap (kernel \cup PendingOps \cup FreeOps) = {}
    /\ kernel \cap (PendingOps \cup FreeOps) = {} /\ PendingOps \cap FreeOps = {}
    /\ IsInjective(sq) /\ IsInjective(free_send)
    /\ \A j, k \in reaped + 1 .. Len(cq) : cq[j].op = cq[k].op => j = k

\* A reply reaches the client that sent the datagram, once, although send slots
\* are reused as completions allow; and it was decided by a policy not older than
\* the one in force when the datagram arrived.
RepliesAreRight ==
  \A c \in Clients :
    /\ \A k \in 1 .. Len(inbox[c]) :
         LET r == inbox[c][k] IN
           ClientOf[r.about] = c /\ since[r.about] <= r.version
    /\ \A j, k \in 1 .. Len(inbox[c]) : inbox[c][j].about = inbox[c][k].about => j = k

SendsInFlight == {s \in SendSlots : SendOp(s) \in StagedOps \cup kernel \cup PendingOps}
Waiting       == {k \in reaped + 1 .. Len(cq) : cq[k].op[1] = "recv" /\ cq[k].res >= 0}

\* Every datagram that left the socket is counted under one heading or waits in
\* the completion queue; every decision's reply was sent, was counted as a
\* failure with one cause, or is still in flight.
NothingUnaccounted ==
  Running =>
    /\ Cardinality({d \in Datagrams : since[d] # 0}) - Len(queue) =
         m["short_datagrams"] + m["bad_magic"] + m["requests"] + Cardinality(Waiting)
    /\ m["noted"] = m["bad_magic"] + m["requests"]
    /\ m["noted"] = m["replies_sent"] + m["send_failures"] + Cardinality(SendsInFlight)
    /\ m["send_failures"] = m["send_wouldblock"] + m["send_nobufs"] + m["send_errors"]

\* A worker that runs empties its socket: failed receives, datagrams of the wrong
\* length and a full send pool never use up the receives.
QueueIsServed == (Running /\ queue # <<>>) ~> (stop \/ queue = <<>>)

\* A stop is noticed although nothing arrives and nothing completes, and the
\* process then ends with no guard left.
StopCompletes == stop ~> live = 0
=============================================================================
