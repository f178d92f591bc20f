----------------------------- MODULE HttpFront -----------------------------
(***************************************************************************)
(* One worker of HttpFrontServer (src/http_front.cpp): non-blocking          *)
(* connections in a vector, one poll() per round, and a walk over the vector *)
(* that flushes or reads each connection, answers at most one request on it  *)
(* and closes it by swap-remove.  Each worker has its own connections; they  *)
(* share only the rules and the stop flag.                                   *)
(*                                                                           *)
(* Bytes travel in fragments: a request is one or more of them, of which the *)
(* last holds the empty line, and a response is kResponseParts.              *)
(***************************************************************************)
EXTENDS DecideQuery, FiniteSets

CONSTANTS
  Clients,        \* the connections, named by the client that opens each
  Requests,       \* what clients can ask, a sequence
  Scripts,        \* which of these each client sends, in order: the possibilities
  Pipelines,      \* the clients that send without waiting for answers
  Breaks,         \* the clients whose connection may break
  HomePlmn,       \* the home network of each subscriber, 0 for one not provisioned
  kMaxConnectionsPerWorker,
  kRequestBuffer, \* fragments that fit c.in
  kAcceptBatch,   \* accepts per round
  MaxVersion      \* bound: snapshots ever published

kResponseParts == 2

\* A request has a number of fragments; a request line that is well formed or
\* not, with path, method and query; whether its head says "close"; and whether a
\* message about its query fits the response buffer.
WellFormed(r) ==
  /\ DOMAIN r = {"parts", "line", "decide", "get", "query", "close", "fits"}
  /\ r.parts \in Nat \ {0}
  /\ {r.line, r.decide, r.get, r.close, r.fits} \subseteq BOOLEAN

ASSUME FrontAssumption ==
  /\ \A q \in 1 .. Len(Requests) : WellFormed(Requests[q])
  /\ Scripts \subseteq [Clients -> Seq(1 .. Len(Requests))]
  /\ Pipelines \subseteq Clients /\ Breaks \subseteq Clients
  /\ {kMaxConnectionsPerWorker, kRequestBuffer, kAcceptBatch, MaxVersion} \subseteq Nat \ {0}

VARIABLES
  script,   \* what each client asks
  todo,     \* what each client has still to send
  wire,     \* sent and not read
  gone,     \* the client's side of the connection: "no", "closed" or "reset"
  got,      \* the fragments of responses that each client was sent
  phase,    \* "new", "backlog", "open" or "closed"
  backlog,  \* connections to accept, oldest first
  conns,    \* w.conns
  pfds,     \* w.pfds without the listener
  revents,  \* what poll() reported for them
  size, walked,  \* the walk: w.conns.size() when it began, positions passed
  visits,   \* history: how often each connection was visited in this round
  in, out, close_after_write,  \* the fields of each connection
  stats,    \* w.stats
  pc, stop,
  live, guard, freed  \* the rules: published version, the worker's guard, deleted

Worker == "worker"

cell == INSTANCE SnapshotCell WITH Readers <- {Worker}, holding <- guard

peerVars == <<script, todo, wire, gone, got>>
connVars == <<in, out, close_after_write>>
walkVars == <<pfds, revents, size, walked, visits>>
cellVars == <<live, guard, freed>>
vars     == <<peerVars, phase, backlog, conns, connVars, walkVars, stats, pc, stop, cellVars>>

Stats == {"connections_accepted", "connections_closed", "requests", "bad_requests", "not_found"}

\* The stream of a client: fragments <<place in the script, is it the last>>.
Stream(requests) ==
  FlattenSeq([k \in 1 .. Len(requests) |->
                LET n == Requests[requests[k]].parts IN [f \in 1 .. n |-> <<k, f = n>>]])

Init ==
  /\ script \in Scripts
  /\ todo = [c \in Clients |-> Stream(script[c])]
  /\ wire = [c \in Clients |-> <<>>]
  /\ gone = [c \in Clients |-> "no"]
  /\ got = [c \in Clients |-> <<>>]
  /\ phase = [c \in Clients |-> "new"]
  /\ backlog = <<>> /\ conns = <<>>
  /\ pfds = <<>> /\ revents = [c \in Clients |-> {}] /\ size = 0 /\ walked = 0
  /\ visits = [c \in Clients |-> 0]
  /\ in = [c \in Clients |-> <<>>]
  /\ out = [c \in Clients |-> <<>>]
  /\ close_after_write = [c \in Clients |-> FALSE]
  /\ stats = [s \in Stats |-> 0]
  /\ pc = "starting" /\ stop = FALSE
  /\ cell!CellInit

-----------------------------------------------------------------------------
(* The clients *)

Connect(c) ==
  /\ phase[c] = "new" /\ pc # "stopped"
  /\ phase' = [phase EXCEPT ![c] = "backlog"]
  /\ backlog' = Append(backlog, c)
  /\ UNCHANGED <<peerVars, conns, connVars, walkVars, stats, pc, stop, cellVars>>

\* How many requests the client has been answered in full.
Answered(c) == Len(got[c]) \div kResponseParts

\* A client that does not pipeline sends its next request after the answer.
SendFragment(c) ==
  /\ phase[c] \in {"backlog", "open"} /\ gone[c] = "no" /\ todo[c] # <<>>
  /\ c \in Pipelines \/ Head(todo[c])[1] = Answered(c) + 1
  /\ wire' = [wire EXCEPT ![c] = Append(@, Head(todo[c]))]
  /\ todo' = [todo EXCEPT ![c] = Tail(@)]
  /\ UNCHANGED <<script, gone, got, phase, backlog, conns, connVars, walkVars, stats, pc, stop, cellVars>>

\* The client closes its side when it has sent everything, or the connection
\* breaks.
HangUp(c) ==
  /\ phase[c] = "open" /\ gone[c] = "no"
  /\ \/ todo[c] = <<>> /\ gone' = [gone EXCEPT ![c] = "closed"]
     \/ c \in Breaks /\ gone' = [gone EXCEPT ![c] = "reset"]
  /\ UNCHANGED <<script, todo, wire, got, phase, backlog, conns, connVars, walkVars, stats, pc, stop, cellVars>>

-----------------------------------------------------------------------------
(* The worker *)

Counted(S) == [s \in Stats |-> IF s \in S THEN stats[s] + 1 ELSE stats[s]]

\* The start of worker_loop(): a reader slot, or the thread returns.
Register ==
  /\ pc = "starting" /\ pc' \in {"polling", "stopped"}
  /\ UNCHANGED <<peerVars, phase, backlog, conns, connVars, walkVars, stats, stop, cellVars>>

\* Mutant: a connection is read although a response is pending.
EventsRead(c) ==
  IF gone[c] = "reset" THEN {{"ERR"}}
  ELSE IF wire[c] # <<>> \/ gone[c] = "closed" THEN {{"IN"}}
  ELSE IF out[c] # <<>> THEN {{"OUT"}, {}}
  ELSE {{}}

\* What poll() may report for a connection: errors, room to write if a response
\* is pending, and otherwise something to read.
Events(c) ==
  IF gone[c] = "reset" THEN {{"ERR"}}
  ELSE IF out[c] # <<>> THEN {{"OUT"}, {}}
  ELSE IF wire[c] # <<>> \/ gone[c] = "closed" THEN {{"IN"}}
  ELSE {{}}

\* The head of a round: poll, accept what is pending, rules.read().
Poll ==
  LET n   == Min({Len(backlog), kAcceptBatch, kMaxConnectionsPerWorker - Len(conns)})
      new == SubSeq(backlog, 1, n)
  IN
  /\ pc = "polling" /\ ~stop /\ pc' = "walking"
  /\ pfds' = conns
  /\ revents' \in {f \in [Clients -> {{}, {"ERR"}, {"OUT"}, {"IN"}}] :
                     \A c \in Clients : f[c] \in IF c \in ToSet(conns) THEN Events(c) ELSE {{}}}
  /\ conns' = conns \o new /\ size' = Len(conns) + n /\ walked' = 0
  /\ backlog' = SubSeq(backlog, n + 1, Len(backlog))
  /\ phase' = [c \in Clients |-> IF c \in ToSet(new) THEN "open" ELSE phase[c]]
  /\ stats' = [stats EXCEPT !["connections_accepted"] = @ + n]
  /\ cell!CellAcquire(Worker)
  /\ UNCHANGED <<peerVars, connVars, visits, stop>>

\* Mutant: the walk goes upwards.
IndexUp == walked + 1

\* The position the walk has come to: it goes downwards.
Index == size - walked

\* The element of the vector there.
This == conns[Index]

\* It was in the poll set of this round; a connection accepted since was not.
Polled == Index \in 1 .. Min({Len(pfds), Len(conns)}) /\ pfds[Index] = conns[Index]

Visiting == pc = "walking" /\ walked < size /\ Polled

\* close_conn(): the last connection takes the place of this one.
SwapRemove(s, k) == SubSeq([s EXCEPT ![k] = s[Len(s)]], 1, Len(s) - 1)

\* The end of a visit: what the buffers hold now, whether the connection is
\* closed, and what was counted.
EndVisit(input, output, closing, counters) ==
  /\ walked' = walked + 1 /\ visits' = [visits EXCEPT ![This] = @ + 1]
  /\ conns' = IF closing THEN SwapRemove(conns, Index) ELSE conns
  /\ phase' = IF closing THEN [phase EXCEPT ![This] = "closed"] ELSE phase
  /\ in' = [in EXCEPT ![This] = IF closing THEN <<>> ELSE input]
  /\ out' = [out EXCEPT ![This] = IF closing THEN <<>> ELSE output]
  /\ stats' = Counted(counters \cup IF closing THEN {"connections_closed"} ELSE {})
  /\ UNCHANGED <<script, todo, gone, backlog, pfds, revents, size, pc, stop, cellVars>>

Skip ==
  /\ pc = "walking" /\ walked < size /\ ~Polled
  /\ walked' = walked + 1
  /\ UNCHANGED <<peerVars, phase, backlog, conns, connVars, pfds, revents, size, visits, stats, pc, stop, cellVars>>

\* POLLERR, POLLHUP or POLLNVAL.
CloseBroken ==
  /\ Visiting /\ "ERR" \in revents[This]
  /\ EndVisit(<<>>, <<>>, TRUE, {})
  /\ UNCHANGED <<wire, got, close_after_write>>

Transfer(n) == got' = [got EXCEPT ![This] = @ \o SubSeq(out[This], 1, n)]

\* send() takes n fragments of a pending response; 0 stands for EAGAIN.
Flush(n) ==
  /\ Visiting /\ revents[This] = {"OUT"} /\ gone[This] # "reset" /\ n <= Len(out[This])
  /\ LET rest == SubSeq(out[This], n + 1, Len(out[This])) IN
       EndVisit(in[This], rest, rest = <<>> /\ close_after_write[This], {})
  /\ Transfer(n)
  /\ UNCHANGED <<wire, close_after_write>>

\* Mutant: the timeout does not apply while a response is pending.
RestPending(timeout) ==
  /\ Visiting /\ revents[This] = {} /\ (timeout => out[This] = <<>>)
  /\ EndVisit(in[This], out[This], timeout, {})
  /\ UNCHANGED <<wire, got, close_after_write>>

\* Nothing to do for this connection, which may have been idle for too long.
Rest(timeout) ==
  /\ Visiting /\ revents[This] = {}
  /\ EndVisit(in[This], out[This], timeout, {})
  /\ UNCHANGED <<wire, got, close_after_write>>

\* send() or recv() fails, or recv() finds that the client has closed.
CloseFailed ==
  /\ Visiting
  /\ \/ revents[This] \in {{"IN"}, {"OUT"}} /\ gone[This] = "reset"
     \/ revents[This] = {"IN"} /\ gone[This] = "closed" /\ wire[This] = <<>>
  /\ EndVisit(<<>>, <<>>, TRUE, {})
  /\ UNCHANGED <<wire, got, close_after_write>>

-----------------------------------------------------------------------------
\* What recv() leaves in c.in: as much as fits.
Taken(c)  == Min({Len(wire[c]), kRequestBuffer - Len(in[c])})
Filled(c) == in[c] \o SubSeq(wire[c], 1, Taken(c))

\* The fragment with the first empty line, 0 if there is none.
HeadEnd(buffer) == SelectInSeq(buffer, LAMBDA f : f[2])

Reading == Visiting /\ revents[This] = {"IN"} /\ gone[This] # "reset" /\ wire[This] # <<>>

Receive == wire' = [wire EXCEPT ![This] = SubSeq(@, Taken(This) + 1, Len(@))]

\* No complete head yet: wait for more, unless the buffer is full.
ReadPart ==
  /\ Reading /\ HeadEnd(Filled(This)) = 0 /\ Receive
  /\ LET full == Len(Filled(This)) >= kRequestBuffer IN
       EndVisit(Filled(This), <<>>, full, IF full THEN {"bad_requests"} ELSE {})
  /\ UNCHANGED <<got, close_after_write>>

\* The request that is decided: a network that was not given is the home network.
Completed(req) == IF req["plmn"] = 0 THEN [req EXCEPT !["plmn"] = HomePlmn[req["imsi"]]] ELSE req

\* The status of the answer, what is decided and what is counted.  The 503 for
\* a worker without rules is left out: main loads them before it starts one and
\* deletes them after it has joined it.
Respond(r) ==
  LET req == parse_decide_query(r.query) IN
  CASE ~r.line       -> [status |-> 400, req |-> Refused, counted |-> "bad_requests"]
    [] r.line /\ ~r.decide -> [status |-> 404, req |-> Refused, counted |-> "not_found"]
    [] r.line /\ r.decide /\ ~r.get -> [status |-> 405, req |-> Refused, counted |-> "bad_requests"]
    [] OTHER -> IF req = Refused
                  THEN [status |-> 400, req |-> Refused, counted |-> "bad_requests"]
                  ELSE [status |-> 200, req |-> Completed(req), counted |-> "requests"]

\* That for every request.
Responses == [q \in 1 .. Len(Requests) |-> Respond(Requests[q])]

\* The response to the k-th request of a client, in fragments; none if it does
\* not fit c.out.
Response(c, k) ==
  LET r == Requests[script[c][k]]
      a == Responses[script[c][k]]
  IN  IF a.status = 400 /\ r.line /\ ~r.fits THEN <<>>
      ELSE [p \in 1 .. kResponseParts |-> [of |-> k, part |-> p, status |-> a.status, req |-> a.req]]

\* What is left of the buffer without its first request.
Consumed(buffer) == SubSeq(buffer, HeadEnd(buffer) + 1, Len(buffer))

\* One request, start to finish: it is answered, and of the response as much as
\* send() takes at once is sent; or send() fails.
Answer(n, fails) ==
  LET c == This
      k == Filled(c)[HeadEnd(Filled(c))][1]
      r == Requests[script[c][k]]
      response == Response(c, k)
  IN
  /\ Reading /\ HeadEnd(Filled(c)) # 0 /\ Receive
  /\ n <= Len(response) /\ (fails => n = 0 /\ response # <<>>)
  /\ close_after_write' = [close_after_write EXCEPT ![c] = r.close]
  /\ got' = [got EXCEPT ![c] = @ \o SubSeq(response, 1, n)]
  /\ EndVisit(Consumed(Filled(c)), SubSeq(response, n + 1, Len(response)),
              fails \/ (r.close /\ response # <<>> /\ n = Len(response)), {Responses[script[c][k]].counted})

\* The end of the round: the guard goes out of scope.
EndRound ==
  /\ pc = "walking" /\ walked = size /\ pc' = "polling"
  /\ pfds' = <<>> /\ revents' = [c \in Clients |-> {}] /\ size' = 0 /\ walked' = 0
  /\ visits' = [c \in Clients |-> 0]
  /\ cell!CellRelease(Worker)
  /\ UNCHANGED <<peerVars, phase, backlog, conns, connVars, stats, stop>>

\* The loop ends: every connection is closed.
Leave ==
  /\ pc = "polling" /\ stop /\ pc' = "stopped"
  /\ phase' = [c \in Clients |-> IF c \in ToSet(conns) THEN "closed" ELSE phase[c]]
  /\ conns' = <<>>
  /\ UNCHANGED <<peerVars, backlog, connVars, walkVars, stats, stop, cellVars>>

-----------------------------------------------------------------------------
RequestStop ==
  /\ ~stop /\ stop' = TRUE
  /\ UNCHANGED <<peerVars, phase, backlog, conns, connVars, walkVars, stats, pc, cellVars>>

\* A reload publishes a snapshot.
Reload ==
  /\ live < MaxVersion /\ cell!CellPublish
  /\ UNCHANGED <<peerVars, phase, backlog, conns, connVars, walkVars, stats, pc, stop>>

\* join() has returned, and main goes on to delete the rules.
Destroy ==
  /\ stop /\ pc = "stopped" /\ cell!CellDestroy
  /\ UNCHANGED <<peerVars, phase, backlog, conns, connVars, walkVars, stats, pc, stop>>

Terminated == live = 0 /\ UNCHANGED vars

Visit ==
  \/ CloseBroken \/ CloseFailed \/ ReadPart
  \/ \E timeout \in BOOLEAN : Rest(timeout)
  \/ \E n \in 0 .. kResponseParts :
       \/ Flush(n)
       \/ \E fails \in BOOLEAN : Answer(n, fails)

WorkerStep == Register \/ Poll \/ Visit \/ Skip \/ EndRound \/ Leave

ClientStep == \E c \in Clients : Connect(c) \/ SendFragment(c) \/ HangUp(c)

Next == WorkerStep \/ ClientStep \/ RequestStop \/ Reload \/ Destroy \/ Terminated

Spec == Init /\ [][Next]_vars

\* The worker is scheduled, a client that waits for an answer reads it or is
\* timed out, and main goes on once the worker has returned.
Fairness ==
  /\ WF_vars(WorkerStep)
  /\ \A c \in Clients \ Pipelines :
       /\ SF_vars(Visiting /\ This = c /\ \E n \in 1 .. kResponseParts : Flush(n))
       /\ SF_vars(Visiting /\ This = c /\ Rest(TRUE))
  /\ WF_vars(Destroy)

FairSpec == Spec /\ Fairness

-----------------------------------------------------------------------------
(* Correctness *)

\* The answer that a request calls for, read off its text.  Anything malformed
\* gets "a 400 that says what was wrong rather than a plausible decision built
\* from defaults" (http_front.hpp:49); a well-formed query gets a decision about
\* the last value given for each parameter, or its default.
Due(r) ==
  LET Given(key) == {j \in 1 .. Len(r.query) : r.query[j][1] = key}
      Value(j)   == ValueOf(r.query[j][1], r.query[j][2])
      Valid      == /\ \A j \in 1 .. Len(r.query) : Value(j) # Bad
                    /\ Given("imsi") # {}
      Field(key) == IF Given(key) = {} THEN Defaults[key] ELSE Value(Max(Given(key)))
      Status == IF ~r.line THEN 400 ELSE IF ~r.decide THEN 404 ELSE IF ~r.get THEN 405
                ELSE IF ~Valid THEN 400 ELSE 200
      Meant(f) == CASE f \in Flags -> IF \E j \in Given(f) : Value(j) = 1 THEN 1 ELSE 0
                    [] f = "usage_valid" -> IF Given("usage") = {} THEN 0 ELSE 1
                    [] f = "plmn" /\ Field(f) = 0 -> HomePlmn[Field("imsi")]
                    [] OTHER -> Field(f)
  IN  [status |-> Status,
       req    |-> IF Status = 200 THEN [f \in DOMAIN Defaults |-> Meant(f)] ELSE Refused]

Dues == [q \in 1 .. Len(Requests) |-> Due(Requests[q])]

\* The answers to a sequence of requests, in fragments.
Expected(requests) ==
  FlattenSeq([k \in 1 .. Len(requests) |->
    [p \in 1 .. kResponseParts |->
       [of |-> k, part |-> p, status |-> Dues[requests[k]].status, req |-> Dues[requests[k]].req]]])

ExpectedBy == [s \in Scripts |-> [c \in Clients |-> Expected(s[c])]]

\* What a client has been sent is a beginning of the answers that its requests
\* call for, in the order of the requests, each whole before the next begins,
\* whatever the splits of reads and writes, the pipelining, and the closing of
\* other connections.
AnswersInOrder == \A c \in Clients : IsPrefix(got[c], ExpectedBy[script][c])

\* A round visits every connection it polled, once, and no other, although
\* closing one moves another into its place; and every open connection is in
\* the vector, once, and accounted for.
RoundsAreComplete ==
  /\ \A c \in Clients : visits[c] <= 1 /\ (visits[c] = 1 => c \in ToSet(pfds))
  /\ pc = "walking" /\ walked = size => \A c \in ToSet(pfds) : visits[c] = 1
  /\ ToSet(conns) = {c \in Clients : phase[c] = "open"}
  /\ Cardinality(ToSet(conns)) = Len(conns)
  /\ pc # "stopped" =>
       stats["connections_accepted"] - stats["connections_closed"] = Len(conns)

\* How many whole requests a client has sent.
Asked(c) == Len(script[c]) - Cardinality({j \in 1 .. Len(todo[c]) : todo[c][j][2]})

\* A client that sends one request at a time gets its answer, or its connection
\* is closed.
RequestsAreAnswered ==
  \A c \in Clients \ Pipelines :
    Asked(c) > Answered(c) ~> (Asked(c) = Answered(c) \/ phase[c] = "closed" \/ stop \/ pc = "stopped")

\* The whole requests of a client that the worker has read.
Read(c) ==
  SubSeq(script[c], 1, Asked(c) - Cardinality({j \in 1 .. Len(wire[c]) : wire[c][j][2]}))

\* A connection that has no response pending is closed as idle only when every
\* whole request that was read from it has had the answer it calls for: a
\* malformed query the 400 of http_front.hpp:49, a pipelined request, which is
\* "kept rather than discarded" (http_front.cpp:505), its own.
IdleMeansAnswered ==
  [][\A c \in Clients :
       (Visiting /\ This = c /\ out[c] = <<>> /\ Rest(TRUE)) => got[c] = Expected(Read(c))]_vars
=============================================================================
