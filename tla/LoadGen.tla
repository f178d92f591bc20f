------------------------------- MODULE LoadGen -------------------------------
(***************************************************************************)
(* One sender thread of the load generator, bench/loadgen.cpp: the open    *)
(* loop over UDP or over a pool of HTTP connections, the closed loop, the  *)
(* final drain, and the merge of its result with the other threads'.       *)
(*                                                                         *)
(* Time is a clock that ticks between any two steps; the code reads it     *)
(* where the actions do.  The schedule starts at 0 and never skips a slot, *)
(* so request r is scheduled at r * Interval and carries that time as its  *)
(* client_ts_ns.  The server and the network are external: they answer in  *)
(* any order, late or never, and MaxFaults times misbehave.                *)
(*                                                                         *)
(* A send() that takes part of an HTTP request is a failed send here; the  *)
(* part stays in front of the next request on that connection, which the   *)
(* server may then answer with an error, a fault of its own.               *)
(***************************************************************************)
EXTENDS HdrHistogram, Sequences, Bags

CONSTANTS Modes,         \* subset of {"udp", "http", "closed"}
          Interval, Warmup, Duration, Timeout,
          max_inflight,  \* size of the in-flight table
          connections,   \* size of the HTTP pool
          MaxBurst,      \* 256 in the code
          batch_recv,
          Horizon,       \* bound on the clock
          MaxSends,      \* bound on the closed loop, which time does not pace
          MaxFaults,
          Others         \* what another thread may have measured: bags

ASSUME LoadAssumption ==
    /\ Modes \subseteq {"udp", "http", "closed"}
    /\ {Interval, Timeout, connections, MaxBurst, batch_recv} \subseteq Nat \ {0}
    /\ {Warmup, Duration, MaxFaults} \subseteq Nat
    /\ max_inflight * Interval >= 2 * Timeout
    /\ Horizon >= Warmup + Duration

VARIABLES mode, clock, faults, pc,
          now,       \* the clock as read at the top of the iteration
          seq, burst, sweep_at, deadline,
          left,      \* UDP: receives left in this pass
          ready,     \* HTTP: connections poll() reported and not yet visited
          inflight,  \* UDP: the table of outstanding requests
          conns,     \* HTTP: the pool, and the bytes waiting in each socket
          cursor,
          server,    \* requests the server has and has not answered
          socket,    \* UDP: replies waiting, each the request answered or Garbled
          result, latency,
          samples,   \* history: the true latencies of the replies measured
          hungup,    \* history: the peer has closed a connection or filled its buffer
          other, total

generator == <<now, seq, burst, sweep_at, deadline, left, cursor>>
outcome == <<result, latency, samples>>
tables == <<inflight, conns>>
peer == <<faults, hungup>>
vars == <<mode, clock, peer, pc, generator, ready, tables, server, socket, outcome, other, total>>

end == Warmup + Duration
Scheduled(r) == r * Interval
Garbled == -1

Slots == 0..(max_inflight - 1)
Conns == 0..(connections - 1)

\* A slot or a connection at rest; what the code leaves in the fields of one
\* that is not live or busy is never read.
Idle == [live |-> FALSE, seq |-> 0, sent |-> 0]
Connected ==
    [open |-> TRUE, busy |-> FALSE, seq |-> 0, issued |-> 0,
     in   |-> "none",  \* what recv() has taken of a response
     wire |-> "none",  \* what the socket holds, and
     of   |-> 0]       \* the request it answers
Closed == [Connected EXCEPT !.open = FALSE]

HistogramOf(bag) ==
    FoldSet(LAMBDA v, h : record_n(h, v, bag[v]), NewHistogram, DOMAIN bag)

Init ==
    /\ mode \in Modes
    /\ clock = 0 /\ faults = 0 /\ hungup = FALSE
    /\ pc = "top"
    /\ now = 0 /\ seq = 0 /\ burst = 0 /\ sweep_at = Timeout /\ deadline = 0
    /\ left = 0 /\ ready = {} /\ cursor = 0
    /\ inflight = [s \in Slots |-> Idle]
    /\ conns = [c \in Conns |-> Connected]
    /\ server = {} /\ socket = <<>>
    /\ result = [sent |-> 0, received |-> 0, lost |-> 0, bad |-> 0]
    /\ latency = NewHistogram /\ samples = EmptyBag
    /\ other = EmptyBag
    /\ total = NewHistogram

Running == pc \notin {"done", "killed"}

Goto(l) == pc' = l

Count(field) == result' = [result EXCEPT ![field] = @ + 1]

Misbehave == faults < MaxFaults /\ faults' = faults + 1

Fault == Misbehave /\ UNCHANGED hungup

HangUp == Misbehave /\ hungup' = TRUE

measuring == now >= Warmup

\* complete: a reply counts, and inside the window its latency is recorded
\* from the scheduled time; truly is the request the reply really answers.
complete(scheduled, truly) ==
    /\ Count("received")
    /\ IF measuring
       THEN /\ latency' = record(latency, clock - scheduled)
            /\ samples' = samples (+) SetToBag({clock - Scheduled(truly)})
       ELSE UNCHANGED <<latency, samples>>

-----------------------------------------------------------------------------
(* The open loop: one iteration is top, send, drain, sweep. *)

\* The clock is read once; the window may be over, or g_stop may be set.
Top ==
    /\ pc = "top" /\ mode # "closed"
    /\ \/ /\ clock < end
          /\ Goto("send")
          /\ now' = clock /\ burst' = 0 /\ left' = batch_recv
          /\ UNCHANGED deadline
       \/ /\ Goto("tail")
          /\ deadline' = clock + Timeout
          /\ UNCHANGED <<now, burst, left>>
    /\ UNCHANGED <<mode, clock, peer, seq, sweep_at, cursor, ready, tables, server, socket,
                   outcome, other, total>>

Due == now >= Scheduled(seq) /\ burst < MaxBurst

\* A request in the server's hands.  Over UDP there is one socket.
Asked(c, r) == [conn |-> c, seq |-> r]

Advance ==
    /\ seq' = seq + 1
    /\ burst' = burst + 1

\* Mutant: the request in the slot is forgotten.
NotCounted(s) == 0

\* The slot of the sequence number is taken over: an unanswered request in
\* it is counted as lost.
Overwritten(s) == IF inflight[s].live THEN 1 ELSE 0

SendUdp ==
    LET s == seq % max_inflight IN
    /\ pc = "send" /\ mode = "udp" /\ Due
    /\ inflight' = [inflight EXCEPT ![s] = [live |-> TRUE, seq |-> seq, sent |-> clock]]
    /\ result' = [result EXCEPT !.sent = @ + 1, !.lost = @ + Overwritten(s)]
    /\ server' = server \cup {Asked(0, seq)}
    /\ Advance
    /\ UNCHANGED <<mode, clock, peer, pc, now, sweep_at, deadline, left, cursor, ready, conns, socket,
                   latency, samples, other, total>>

Free == {c \in Conns : conns[c].open /\ ~ conns[c].busy}

\* The first free connection from the cursor on.
Claimed ==
    CHOOSE c \in Free : \A d \in Free :
        (c + connections - cursor) % connections <= (d + connections - cursor) % connections

\* A connection that the peer has closed still takes the request, and no one
\* reads it.
SendHttp ==
    /\ pc = "send" /\ mode = "http" /\ Due /\ Free # {}
    /\ conns[Claimed].wire \in {"none", "eof"}
    /\ conns' = [conns EXCEPT ![Claimed] =
                    [@ EXCEPT !.busy = TRUE, !.seq = seq, !.issued = clock]]
    /\ server' = IF conns[Claimed].wire = "eof" THEN server ELSE server \cup {Asked(Claimed, seq)}
    /\ cursor' = (Claimed + 1) % connections
    /\ Count("sent")
    /\ Advance
    /\ UNCHANGED <<mode, clock, peer, pc, now, sweep_at, deadline, left, ready, inflight, socket,
                   latency, samples, other, total>>

\* poll() without a wait, over the busy connections.
Poll ==
    ready' = {c \in Conns : conns[c].open /\ conns[c].busy /\ conns[c].wire # "none"}

\* send() takes nothing: the schedule stays where it is, and the pool's cursor
\* has moved on.
SendFails ==
    /\ pc = "send" /\ Due /\ (mode = "http" => Free # {} /\ conns[Claimed].wire = "none")
    /\ Fault
    /\ Goto("drain") /\ Poll
    /\ cursor' = IF mode = "http" THEN (Claimed + 1) % connections ELSE cursor
    /\ UNCHANGED <<mode, clock, now, seq, burst, sweep_at, deadline, left, tables, server, socket,
                   outcome, other, total>>

\* On a connection that was reset the first send() reports it, and issue()
\* leaves the connection in the pool; the next raises SIGPIPE, which nothing
\* handles.
SendToReset ==
    /\ pc = "send" /\ mode = "http" /\ Due /\ Free # {} /\ conns[Claimed].wire = "reset"
    /\ conns' = [conns EXCEPT ![Claimed].wire = "pipe"]
    /\ Goto("drain") /\ Poll
    /\ cursor' = (Claimed + 1) % connections
    /\ UNCHANGED <<mode, clock, peer, now, seq, burst, sweep_at, deadline, left, inflight, server,
                   socket, outcome, other, total>>

Killed ==
    /\ pc = "send" /\ mode = "http" /\ Due /\ Free # {} /\ conns[Claimed].wire = "pipe"
    /\ Goto("killed")
    /\ UNCHANGED <<mode, clock, peer, generator, ready, tables, server, socket, outcome, other, total>>

\* Nothing more is due, the burst is over, or every connection is busy.
SendsDone ==
    /\ pc = "send"
    /\ Due => mode = "http" /\ Free = {}
    /\ Goto("drain") /\ Poll
    /\ UNCHANGED <<mode, clock, peer, generator, tables, server, socket, outcome, other, total>>

\* Mutant: the slot alone decides, as in the final drain.
SlotIsLive(slot, r) == slot.live

\* A reply that is not for the request now in its slot is stale.
Answers(slot, r) == slot.live /\ Scheduled(slot.seq) = Scheduled(r)

Drain ==
    LET r == Head(socket)
        slot == inflight[r % max_inflight]
    IN
    /\ pc = "drain" /\ mode = "udp" /\ left > 0 /\ socket # <<>>
    /\ socket' = Tail(socket)
    /\ left' = left - 1
    /\ \/ /\ r = Garbled
          /\ Count("bad")
          /\ UNCHANGED <<inflight, latency, samples>>
       \/ /\ r # Garbled /\ ~ Answers(slot, r)
          /\ UNCHANGED <<inflight, result, latency, samples>>
       \/ /\ r # Garbled /\ Answers(slot, r)
          /\ inflight' = [inflight EXCEPT ![r % max_inflight] = Idle]
          /\ complete(Scheduled(slot.seq), r)
    /\ UNCHANGED <<mode, clock, peer, pc, now, seq, burst, sweep_at, deadline, cursor, ready,
                   conns, server, other, total>>

\* HttpPool::drain, one connection: wire is what recv() finds.  The caller's
\* on_complete gets a whole response.
Whole(conn) == conn.wire \in {"verdict", "error"}

Visit(c) ==
    /\ ready' = ready \ {c}
    /\ \/ /\ conns[c].wire = "part"
          /\ conns' = [conns EXCEPT ![c].in = "part", ![c].wire = "none"]
       \/ /\ conns[c].wire \in {"eof", "huge"}
          /\ conns' = [conns EXCEPT ![c] = Closed]
       \/ /\ Whole(conns[c])
          /\ conns' = [conns EXCEPT ![c] = Connected]

FirstReady == CHOOSE c \in ready : \A d \in ready : c <= d

\* A body without a verdict is a bad reply, and not received.
InWindow(conn) ==
    CASE conn.wire = "verdict" -> complete(Scheduled(conn.seq), conn.of)
      [] conn.wire = "error"   -> Count("bad") /\ UNCHANGED <<latency, samples>>
      [] OTHER                 -> UNCHANGED <<result, latency, samples>>

DrainHttp ==
    /\ pc = "drain" /\ mode = "http" /\ ready # {}
    /\ Visit(FirstReady) /\ InWindow(conns[FirstReady])
    /\ UNCHANGED <<mode, clock, peer, pc, generator, inflight, server, socket, other, total>>

Drained ==
    /\ pc = "drain"
    /\ IF mode = "udp" THEN left = 0 \/ socket = <<>> ELSE ready = {}
    /\ Goto("sweep")
    /\ UNCHANGED <<mode, clock, peer, generator, ready, tables, server, socket, outcome,
                   other, total>>

Expired(sent) == clock > sent /\ clock - sent > Timeout

\* Every Timeout the table is swept, with a clock reading of its own.
SweepUdp ==
    /\ inflight' = [s \in Slots |->
                      IF Expired(inflight[s].sent) THEN Idle ELSE inflight[s]]
    /\ result' = [result EXCEPT !.lost = @ +
                      Cardinality({s \in Slots : inflight[s].live /\ Expired(inflight[s].sent)})]
    /\ UNCHANGED <<conns, server, peer>>

\* Mutant: the stream is used again, with the late response still to come.
KeepStream(cs) == server

\* Closing a connection takes what the server would still have sent on it.
NewStream(cs) == {q \in server : q.conn \notin cs}

Hung == {c \in Conns : conns[c].open /\ conns[c].busy /\ Expired(conns[c].issued)}

\* A connection that timed out, or was found closed, is opened again; down is
\* the set of those whose connect() fails.
SweepHttp ==
    LET reopened == Hung \cup {c \in Conns : ~ conns[c].open} IN
    /\ \E down \in SUBSET reopened :
          /\ conns' = [c \in Conns |-> IF c \in down THEN Closed
                                       ELSE IF c \in reopened THEN Connected ELSE conns[c]]
          /\ IF down = {} THEN UNCHANGED peer ELSE Fault
    /\ result' = [result EXCEPT !.lost = @ + Cardinality(Hung)]
    /\ server' = NewStream(Hung)
    /\ UNCHANGED inflight

\* The end of an iteration: its locals are gone.
Sweep ==
    /\ pc = "sweep"
    /\ Goto("top")
    /\ now' = 0 /\ burst' = 0 /\ left' = 0
    /\ IF now >= sweep_at
       THEN /\ sweep_at' = clock + Timeout
            /\ IF mode = "udp" THEN SweepUdp ELSE SweepHttp
       ELSE UNCHANGED <<sweep_at, tables, result, server, peer>>
    /\ UNCHANGED <<mode, clock, seq, deadline, cursor, ready, socket, latency, samples, other, total>>

-----------------------------------------------------------------------------
(* drain_tail: what is still out when the window closes gets one timeout. *)

Outstanding ==
    IF mode = "http" THEN {c \in Conns : conns[c].busy} ELSE {s \in Slots : inflight[s].live}

\* Here the slot alone decides: the reply's timestamp is not compared.
TailRecv ==
    LET r == Head(socket)
        settles == r # Garbled /\ inflight[r % max_inflight].live
    IN
    /\ pc = "tail" /\ mode = "udp" /\ clock < deadline /\ Outstanding # {} /\ socket # <<>>
    /\ socket' = Tail(socket)
    /\ IF settles THEN /\ inflight' = [inflight EXCEPT ![r % max_inflight] = Idle]
                       /\ Count("received")
       ELSE UNCHANGED <<inflight, result>>
    /\ UNCHANGED <<mode, clock, peer, pc, generator, ready, conns, server, latency, samples,
                   other, total>>

TailPoll ==
    /\ pc = "tail" /\ mode = "http" /\ clock < deadline
    /\ Poll /\ ready' # {}
    /\ Goto("tail_drain")
    /\ UNCHANGED <<mode, clock, peer, generator, tables, server, socket, outcome, other, total>>

\* Any whole response counts as received, whatever its body.
InTail(conn) ==
    /\ IF Whole(conn) THEN Count("received") ELSE UNCHANGED result
    /\ UNCHANGED <<latency, samples>>

TailDrain ==
    /\ pc = "tail_drain"
    /\ Visit(FirstReady) /\ InTail(conns[FirstReady])
    /\ Goto(IF ready' = {} THEN "tail" ELSE pc)
    /\ UNCHANGED <<mode, clock, peer, generator, inflight, server, socket, other, total>>

TailEnd ==
    /\ pc = "tail" /\ (clock >= deadline \/ Outstanding = {})
    /\ result' = [result EXCEPT !.lost = @ + Cardinality(Outstanding)]
    /\ Goto("merge")
    /\ UNCHANGED <<mode, clock, peer, generator, ready, tables, server, socket, latency, samples,
                   other, total>>

-----------------------------------------------------------------------------
(* The closed loop: send, then wait for whatever comes back. *)

ClosedSend ==
    /\ pc = "top" /\ mode = "closed" /\ clock < end /\ seq < MaxSends
    /\ now' = clock
    /\ \/ /\ Count("sent")
          /\ seq' = seq + 1
          /\ server' = server \cup {Asked(0, seq)}
          /\ deadline' = clock + Timeout
          /\ Goto("await")
          /\ UNCHANGED peer
       \/ /\ seq' = seq + 1
          /\ Fault
          /\ UNCHANGED <<result, server, deadline, pc>>
    /\ UNCHANGED <<mode, clock, burst, sweep_at, left, cursor, ready, tables, socket, latency,
                   samples, other, total>>

\* The first reply there is taken for this request's, and timed from its send.
ClosedRecv ==
    /\ pc = "await" /\ socket # <<>>
    /\ socket' = Tail(socket)
    /\ Goto("top")
    /\ Count(IF Head(socket) = Garbled THEN "bad" ELSE "received")
    /\ latency' = IF Head(socket) # Garbled /\ measuring
                  THEN record(latency, clock - (deadline - Timeout)) ELSE latency
    /\ UNCHANGED <<mode, clock, peer, generator, ready, tables, server, samples, other, total>>

ClosedTimeout ==
    /\ pc = "await" /\ socket = <<>> /\ clock >= deadline
    /\ Count("lost")
    /\ Goto("top")
    /\ UNCHANGED <<mode, clock, peer, generator, ready, tables, server, socket, latency, samples,
                   other, total>>

ClosedEnd ==
    /\ pc = "top" /\ mode = "closed"
    /\ Goto("merge")
    /\ UNCHANGED <<mode, clock, peer, generator, ready, tables, server, socket, outcome,
                   other, total>>

\* After the join the threads' histograms are added to an empty one.
Merge ==
    /\ pc = "merge"
    /\ other' \in Others
    /\ total' = add(add(NewHistogram, latency), HistogramOf(other'))
    /\ Goto("done")
    /\ UNCHANGED <<mode, clock, peer, generator, ready, tables, server, socket, outcome>>

-----------------------------------------------------------------------------
(* The clock, the network and the server: external. *)

Tick ==
    /\ Running
    /\ clock < Horizon \/ (pc \in {"tail", "tail_drain", "await"} /\ clock < deadline)
    /\ clock' = clock + 1
    /\ UNCHANGED <<mode, peer, pc, generator, ready, tables, server, socket, outcome, other, total>>

\* A datagram comes back: the reply, once or twice, or something else.
Reply(q) ==
    /\ mode # "http" /\ Running
    /\ \/ /\ socket' = Append(socket, q.seq) /\ server' = server \ {q} /\ UNCHANGED peer
       \/ /\ socket' = Append(socket, q.seq) /\ UNCHANGED server /\ Fault
       \/ /\ socket' = Append(socket, Garbled) /\ server' = server \ {q} /\ Fault
    /\ UNCHANGED <<mode, clock, pc, generator, ready, tables, outcome, other, total>>

\* Bytes come back on a connection: the response, the first part of it, one
\* with an error in it, one larger than the buffer, or the end of the stream.
Respond(q, what) ==
    /\ mode = "http" /\ Running
    /\ conns[q.conn].open /\ conns[q.conn].busy
    /\ what = "part" => conns[q.conn].in = "none" /\ conns[q.conn].wire = "none"
    /\ what = "eof" => conns[q.conn].wire = "none"
    /\ conns' = [conns EXCEPT ![q.conn].wire = what, ![q.conn].of = q.seq]
    /\ server' = IF what = "part" THEN server ELSE server \ {q}
    /\ CASE what \in {"part", "verdict"} -> UNCHANGED peer
         [] what = "error"               -> Fault
         [] what \in {"huge", "eof"}     -> HangUp
    /\ UNCHANGED <<mode, clock, pc, generator, ready, inflight, socket, outcome, other, total>>

\* The peer closes or resets a connection that has nothing outstanding.
CloseIdle(c, how) ==
    /\ mode = "http" /\ Running
    /\ conns[c].open /\ ~ conns[c].busy /\ conns[c].wire = "none"
    /\ conns' = [conns EXCEPT ![c].wire = how]
    /\ HangUp
    /\ UNCHANGED <<mode, clock, pc, generator, ready, inflight, server, socket, outcome, other, total>>

Network ==
    \/ \E q \in server : Reply(q)
    \/ \E q \in server, what \in {"part", "verdict", "error", "huge", "eof"} : Respond(q, what)
    \/ \E c \in Conns, how \in {"eof", "reset"} : CloseIdle(c, how)

Generator ==
    \/ Top \/ SendUdp \/ SendHttp \/ SendFails \/ SendToReset \/ Killed \/ SendsDone
    \/ Drain \/ DrainHttp \/ Drained \/ Sweep
    \/ TailRecv \/ TailPoll \/ TailDrain \/ TailEnd
    \/ ClosedSend \/ ClosedRecv \/ ClosedTimeout \/ ClosedEnd
    \/ Merge

Terminated == ~ Running /\ UNCHANGED vars

Next == Generator \/ Network \/ Tick \/ Terminated

Spec == Init /\ [][Next]_vars

\* The sender is a thread that never blocks for longer than a bounded poll,
\* and time passes.  The server owes nothing.
FairSpec == Spec /\ WF_vars(Generator) /\ WF_vars(Tick)

-----------------------------------------------------------------------------
(* Properties *)

\* The value at a rank of the sorted samples, by definition.
ExactPercentile(bag, p) ==
    Min({v \in DOMAIN bag :
           MapThenSumSet(LAMBDA u : bag[u], {u \in DOMAIN bag : u <= v})
               >= Target(p, BagCardinality(bag))})

Capped(v) == IF v > highest_ THEN highest_ ELSE v

Describes(h, bag) ==
    /\ h.total = BagCardinality(bag) /\ h.negative = 0
    /\ bag # EmptyBag =>
          /\ h.min = Capped(Min(DOMAIN bag)) /\ h.max = Capped(Max(DOMAIN bag))
          /\ \A p \in {0, 50, 99, 100} :
                LET v == Capped(ExactPercentile(bag, p))
                IN value_at_percentile(h, p) \in v..highest_equivalent_value(v)

\* What the open loop reports is the time from the scheduled send to the reply
\* of that very request, waits for a socket or a connection included: no late
\* or duplicate reply is taken for another request, none is measured twice,
\* and the percentiles of the merged histogram lie within one bucket above
\* the exact ones of all the samples.
SamplesAreTrue ==
    mode # "closed" =>
        /\ Describes(latency, samples)
        /\ pc = "done" => Describes(total, samples (+) other)

Settled == result.received + result.lost + (IF mode = "udp" THEN 0 ELSE result.bad)

\* Every request sent has been counted once, as received or lost or, over a
\* stream, as a bad reply.
Balanced == result.sent = Settled

\* Whatever the server does the run comes to its end, with no request counted
\* twice.  As long as the peer closes no connection and fills no buffer it is
\* the end of the program, with every request counted: replies that cross
\* their timeout, overwritten slots and the final drain lose none.
RunEndsBalanced ==
    <>[]IF hungup THEN ~ Running /\ Settled <= result.sent
        ELSE pc = "done" /\ Balanced

\* "the peer closed; the caller counts it as loss": a run that gets to its end
\* has counted every request it sent.
LossesAreCounted == pc = "done" => Balanced

=============================================================================
