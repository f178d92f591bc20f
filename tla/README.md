# TLA+ verification of policyd

policyd answers policy requests (may this subscriber do this, with which QoS and
quota?) over UDP, io_uring or HTTP, against a rule set that is reloaded while the
workers run. This directory holds TLA+ models of the service, the TLC runs that
check them on small instances, and TLAPS proofs of the results that should hold
for every size. Paths below are relative to the repository (`src/`).

## 1. The system

| part | state | operations | what makes it hard | what correct means |
|---|---|---|---|---|
| RCU domain, `include/policy/rcu.hpp` | live snapshot, global epoch, one slot per reader, parked snapshots | register, read, leave, unregister; publish, synchronize, reclaim; destroy | readers and the reloading thread race without locks, their stores are delayed, grace periods time out, slots change hands | nothing is deleted under a guard, twice, or never; readers never wait |
| control plane, `src/control_plane.cpp`, `src/main.cpp` | rules file, versions, statistics, watermark, reload mutex | initialize, start, stop; reload by the watcher and by `POST /rules/reload` | two threads reload one file that is edited at any moment; each step can fail | plan ids keep their meaning, versions only grow, statistics add up, edits go live, stop returns |
| UDP ingest, `src/server_udp.cpp`, `src/net.cpp` | sockets, receive and send slots, counters, stop flag | receive, park, decide, stage, send, stop, join | reused send slots, gaps in a batch, partial sends, reloads during a batch, stop while parked | one answer, to the sender, by one current policy per batch; counters balance |
| io_uring ingest, `src/server_iouring.cpp` | armed receives, stack of send slots, submission and completion queues | arm, submit, wait, reap, decide, stage, stop | completions in any order, slots reused while a send is in flight, a full submission queue | a slot is never reused early, receives are always re-armed |
| HTTP front, `src/http_front.cpp` | a vector of connections with input and output buffers | poll, accept, read, parse, answer, flush, close | closing during the walk moves connections; split and pipelined requests, partial writes | answers in request order, each connection served once per round |
| rule compiler, `src/rules.cpp` | tables, pairs of the current rule, interned windows and thresholds | compile conditions to (mask, value), sort, lint | expansion of alternatives, negation, ties | the compiled rules mean what the source rules say |
| decision engine, `src/engine.cpp` | none | features, first match, default | permille arithmetic, time windows | first match by priority |
| subscriber store, `src/subscriber_store.cpp`, `flat_set.hpp` | open-addressing table | upsert, find, grow, add usage, reset | growth, probing, usage updates against readers | it is a map |
| histogram, `include/policy/hdr_histogram.hpp` | counts per bucket, totals, extremes | record, merge, percentile | bucket boundaries, values out of range, merging with an empty one | percentiles within one bucket of the exact ones |
| load generator, `bench/loadgen.cpp` | in-flight table or connection pool, schedule, results | open loop, closed loop, sweep, tail, merge | replies late, twice, never; a table that wraps; connections that hang | a latency is that of its own request; every request is accounted for |
| admin server, `src/admin_http.cpp` | routes, one thread | accept, dispatch, stop | shutdown during a request | every request is answered |
| wire format, YAML parser, configuration, clocks, metrics scrape, logging, tools | - | - | - | see section 7 |

The parts meet in three places. Ingest and HTTP workers take a guard on the RCU
domain for each batch or round and control-plane threads take one for each handler. Reloads publish into
the same domain under the control plane's mutex. `main` starts and joins
everything and then lets the domain's destructor run.

## 2. Modules

| module | models | lines of code it follows |
|---|---|---|
| `SnapshotCell` | what the RCU domain promises: one live snapshot, guards, deletion of what nobody holds | abstract specification |
| `Rcu` | `RcuDomain<RuleSet>` with slots, epochs, fences and store buffers | `rcu.hpp` |
| `ControlPlane` | the rules file, `initialize`, `start`, `stop`, `reload_rules`, `watch_loop`, the admin thread | `control_plane.cpp`, `admin_http.cpp` (`serve`), `main.cpp` |
| `UdpWorker` | `UdpServer` and `BatchIo`, composed with `SnapshotCell` | `server_udp.cpp`, `net.cpp` |
| `IoUringWorker` | a worker of `IoUringServer` with its ring, composed with `SnapshotCell` | `server_iouring.cpp` |
| `DecideQuery` | the parser of `GET /decide` | `http_front.cpp` (`parse_decide_query`) |
| `HttpFront` | a worker of `HttpFrontServer`, composed with `SnapshotCell` | `http_front.cpp` |
| `Identifiers` | IMSI, IMEI and PLMN as the two text formats give them | `imsi.hpp` |
| `Roster` | a row of the subscriber file | `subscriber_store.cpp` (`load_csv`) |
| `SubscriberMap` | what the store promises: a map, and a bulk load with a report | abstract specification |
| `ProbeTable` | linear probing | `subscriber_store.cpp`, `flat_set.hpp` |
| `SubscriberStore` | the store and `FlatSet64` | `subscriber_store.cpp`, `flat_set.hpp` |
| `HdrHistogram` | the histogram as operators on a record | `hdr_histogram.hpp` |
| `LoadGen` | a sender thread, its server, the network and the clock | `bench/loadgen.cpp` |
| `RuleEngine` | the compiled rule set and `evaluate()` | `engine.cpp`, `rules.hpp` |
| `RuleCompiler` | class `Compiler`, from a parsed file to the rule set, and a decision against it | `rules.cpp` |
| `MC...` | TLC instances | - |
| `RcuProofs` | inductive invariant and theorems of `Rcu` | - |
| `ControlPlaneProofs`, `RuleCompilerProofs` | the same for `ControlPlane` and `RuleCompiler` | - |
| `IoUringProofs`, `IoUringReplyProofs` | `IoUringWorker`: the ring's invariant and theorem; where a datagram can be, and the theorem on replies | - |
| `UdpShape`, `UdpPlaces`, `UdpWorkerProofs` | `UdpWorker`: the invariant, its types, guards and counters; where a datagram can be; policy versions and the theorems | - |

`Rcu` implements `SnapshotCell`; `UdpWorker`, `IoUringWorker` and `HttpFront` use
`SnapshotCell` through `INSTANCE ... WITH`, so what they show about batches rests on
the refinement and not on epochs. `SubscriberStore` implements `SubscriberMap`. `PROJECT.json` maps every definition to the lines it models.
Definitions commented `Mutant:` are plausible bugs. No specification uses them;
they exist to show that each property can fail.

### Rcu

Snapshots are numbered in publication order, so a pointer is a number.

*Memory.* A store a thread has executed sits in that thread's FIFO buffer until
`DrainReader` or `DrainWriter` moves it to memory. A `seq_cst` fence
(`LoadCurrent`, `SyncFence`) waits for an empty buffer. Release stores are
ordered by the FIFO. This is the reordering x86 has; on it, dropping either
fence breaks `NoUseAfterFree`. The read side's relaxed load of `global_epoch_`
may also return an old value. Reorderings that only weaker machines make (a load
before an earlier load, stores of one thread out of order) are not modelled.

*Threads.* `Workers` register and unregister; `ControlReaders` read on a fixed
slot they never claim, as the admin handlers do on slot `max_readers - 3`. The
reloading thread is one process, because the reload mutex admits one at a time.
`publish()`, the scan of each slot, the timeout and the deletion are separate
steps. A timeout is possible whenever the scan waits at a slot: the model does
not count milliseconds.

### ControlPlane

A rules file is an abstract content that compiles or not and has a list of plan
names, which is all `reload_rules()` looks at. Every edit gets a new mtime; two
edits within one tick of the file system's clock are outside the model. Both
threads run the same `reload_rules()`, one step per point where another thread
can see a difference: lock, compile, check, swap, count. Swapping is atomic here
because `Rcu` refines the cell.

### UdpWorker

A datagram is an identifier with a sender, a length, and whether it decodes and
names a known subscriber. A send slot holds the reply staged in it last, and
keeps it from batch to batch as `send_buf_` does. Receiving takes any nonempty
prefix of the socket's queue up to the batch size, and sending delivers any
prefix of what is staged. A datagram the kernel drops on arrival is one that was
never sent. `batches`, `full_batches`, `idle_spins`, `blocking_waits`,
`recv_errors` and the histogram are left out: no property tells them apart. The
branch for a null rule set (`server_udp.cpp:160`) is left out too, since `main`
starts the server only after `initialize()` has published one. The same holds for the
drop in the io_uring worker and for the 503 of the HTTP front.

The configuration (worker count, a socket per worker or one for all, batch size,
reader slots left, traffic offered) is chosen in the initial state, so one run covers
several servers.

### IoUringWorker

Workers share only the rules and the stop flag, so one is modelled. The submission
queue, the operations the kernel has and the completion queue are explicit; the
kernel carries out what was submitted in any order, and reads a send slot or writes a
receive slot when it does so. A submission hands over any prefix of what is staged.
A reply staged when the queue is full is lost and its slot stays free, and a receive
that finds no room is lost for good, as in the code: that neither can happen is a
property, not an assumption. A datagram that arrives while a round is under way may
still be decided under that round's guard, because the reaping loop looks at the
completion queue again; `since` records the policy accordingly. Counters that only
describe the shape of the loop (batches, spins) are left out.

### HttpFront and DecideQuery

Bytes travel in fragments. A request is one or more, the last with the empty line; a
response is two, so that a partial write exists. `conns` is the vector, `pfds` the
poll set built from it; the walk goes downwards by index and `close_conn` is
swap-removal, as in the code. A visit is one step: no other thread touches a
connection, and what a client does during a visit it may as well do before or after.
The buffer limit is in fragments. The query parser works on keys with values given by
digit count and value, or as text. `stats` are the code's counters.

### SubscriberStore, Roster, Identifiers

The table is a function on slot numbers, the hash an arbitrary function: nothing may
rest on `splitmix64` spreading well. `upsert`, `grow` and `load_csv` are operators on
the table, folded over the slots or the lines. The load factor is a percentage, which
for power-of-two capacities compares as the double does. Usage counters wrap at
`kU64`. A field of the file is text, a number with its digit count, or a PLMN with a
dash. Readers of the store take no lock and the code lets only one thread write it, at
start-up and in tests; there is no concurrency to model.

### HdrHistogram and LoadGen

Shifts are products and quotients by powers of two. The generator is one thread with a
clock that may tick between any two of its steps. The server and the network are
external: they answer in any order, late, twice, garbled or never. The peer may close
a connection with a request outstanding, close or reset one that is idle, send more than
the buffer takes, or refuse a connection. A response carries the request it really
answers (`of`), which the program does not see, and what an old stream would still
bring is gone once the connection is reopened. A request sent on a connection that the
peer has closed is taken by the socket and read by nobody; on one that was reset the
first `send()` fails and the next raises SIGPIPE, which the generator does not handle
(`Killed`). Counters that no property reads (bytes, timeouts by kind, the per-second
series) are left out. A `send()` that takes part of an HTTP request is a failed send;
the part it leaves on the stream is not modelled.

### RuleEngine and RuleCompiler

A feature word, a mask or a value is the set of its bits, with the code's bit
numbers. The thresholds start at `kTimeWindowBase + kMaxTimeWindows`, which is bit
48 for the code's limit of 8, so that a small limit still has a neighbour to run
into. A file arrives as the YAML parser leaves it: a mapping is a function on the
keys present, and `Bad` stands for any value that the conversion of its key
refuses. The compiler goes on after an error, as in the code, but only whether
there was one is kept, since a file with an error is refused as a whole; a table
with an error is therefore left empty. One action per condition lets the meaning of
the pairs be stated between conditions. Besides the shadow lint, warnings are left
out. `Holds` and `Applies` give the meaning of the source text without bits; they
share with the model only the facts of a request. An empty list restricts nothing,
in the code as in `Holds`.

`DecidesLikeTheFile` and `PairsMeanTheConditions` are stated for `Consistent` rules,
in which no condition asks for what another excludes; section 6 has the others.

## 3. Runs

Run one with `tlc -workers 2 -config <cfg> <module>`. State counts are distinct
states.

| run | instance | properties | states |
|---|---|---|---|
| `rcu` | two workers, the admin reader, 3 slots, one reload; two workers that use one slot in turn, three reloads; fair | `NoUseAfterFree`, `SlotsAreExclusive`, `FreedAtMostOnce`, `SuccessLeavesOneSnapshot`, `DestroyFreesEverything`, `TimeoutHasACulprit`, `ImplementsCell`, `NobodyIsStuck` | 172,855 |
| `rcu_http_front` | two ingest and two HTTP workers in 2 + 4 slots | `NoUseAfterFree` is violated | - |
| `control_reload` | five rule files, two edits after start-up, two posts, fair | `PlanIdsKeepTheirMeaning`, `StatsAddUp`, `VersionsIncrease`, `AnswerIsNotStale`, `EditsGoLive`, `ShutdownCompletes` | 207,284 |
| `udp` | one worker with batches of up to 3; two workers with a socket each; two on one socket; two on one socket with one reader slot; each with one reload, fair | `AnsweredOnceToSender`, `OneVersionPerBatch`, `IdleWorkersHoldNoGuard`, `CountersBalance`, `PolicyNeverGoesBack`, `DecidedByALivePolicy`, `StopCompletes`, `QueuesAreServed` | 206,785 |
| `iouring` | one receive and two send slots in flight, four datagrams, one fault, one reload, fair | `SlotsHaveOneOwner`, `RepliesAreRight`, `NothingUnaccounted`, `QueueIsServed`, `StopCompletes` | 223,252 |
| `http_front` | a client that pipelines and one that waits, eight conversations over ten requests, breaks, timeouts, a reload, fair | `AnswersInOrder`, `RoundsAreComplete`, `RequestsAreAnswered` | 184,662 |
| `http_unanswered` | three conversations: two requests sent at once, an unknown parameter with a long name, a `seq` that is no number; fair | `IdleMeansAnswered` is violated | - |
| `rules_files` | seven headers, files of up to three of twenty rules, six requests, five subscribers | `PairsMeanTheConditions`, `DecidesLikeTheFile`, `WarnedPairsNeverFire`, `CreditIsWhatIsLeft`, `ReplyIsAsWritten` | 121,189 |
| `rules_lint` | a rule for one DNN and a later one for two | `WarnedRulesNeverFire` is violated | - |
| `store` | nine subscribers whose hashes collide and wrap, load factors of 10, 50 and 100 percent, three files | `TableIsSound`, `MembershipIsTheList`, `ImplementsMap` | 11,422 |
| `loadgen` | three scheduled requests over UDP or HTTP, or the closed loop; a table of 2, a pool of 2, one fault, fair | `SamplesAreTrue`, `RunEndsBalanced` | 407,633 |
| `loadgen_closed` | the HTTP mode of `loadgen` | `LossesAreCounted` is violated | - |

**Why these bounds are enough.** The RCU algorithm compares a slot with one
reload's epoch, so one reload and two workers already give every race between a
guard and a grace period. Three reloads are needed for a parked snapshot to
survive one timeout and be freed by a later success. One slot shared in time is
the smallest hand-over. One run has both: it starts either as the server does, and
then reloads once, or in `OneFreeSlot`, where threads that never act hold the other
slots and the admin thread has ended, and then reloads up to three times. The second
stands for a server whose other workers are idle. The proofs in section 5 remove these
bounds and start from `Init` alone. For the
control plane, the five files are the cases `reload_rules()` tells apart (grows
the plan list, swaps two plans, drops one, does not compile) plus the missing
file; two edits let the second arrive during the reload of the first. Edits
during start-up are left out of the run (`WritesDuringStart = FALSE`), because one of
them is never noticed (section 6); the proofs of the safety properties hold with and
without them. For UDP, a
batch of three holds a reply, a gap and a reply in every order and leaves stale
replies in the slots for the next, shorter batch; two versions, that is one
reload, suffice to tell the policies of a batch, of a guard and of two replies to a
client apart. For
io_uring, one receive slot and two send slots already let a send be in flight while
the next datagram is decided into the other slot and the free stack changes order, and
four datagrams let every slot be reused; the proof covers other batch sizes. For the
HTTP front, two connections suffice for a swap-removal to move one, and the third
fragment of the buffer makes it fill exactly. For the store, eight rows in an 8-slot
table force growth at every load factor, and the hashes make a chain that wraps. For
the load generator, a table of two slots wraps within three requests, and the
histogram has 0 and 1 in buckets of their own, 2 and 3 in one, and 3 for its highest
value; requests that wait long enough are measured at 2 and at 3, and the other thread
has measured a value out of range. For the compiler, three rules give an order among equal priorities
with a rule of another priority in between; the limits are 2 windows, 2 thresholds,
4 expansions and 6 compiled rules, and each of them is reached and passed.

No run uses symmetry.

**Bounds as constants.** `MaxPublish`, `MaxWrites`, `MaxPosts` and `MaxVersion`
cap the number of reloads, edits and requests; `Datagrams`, `Traffic`, `Scripts` and
`MaxSends` cap traffic, `MaxFaults` what the kernel or the network does wrong, and
`Horizon` the clock. They
stop a behaviour from going on, they do not cut a step short. 64-bit counters and
versions do not overflow in any realistic run and are natural numbers.

`rcu_http_front` switches off deadlock checking: its specification keeps the
bystanders from moving, so it may stop. So do `rules_files` and `rules_lint` (compilation ends) and
`store` (a store with no matching operation rests).

## 4. Fairness

- *Rcu*: a thread in `read()` or `register_reader()` is scheduled, a store buffer
  drains, and the reloading thread is scheduled. Nothing is assumed about readers
  leaving their read sections, about new reads, or about reloads: that a reload
  returns (`NobodyIsStuck`) rests on the timeout.
- *ControlPlane*: each thread is scheduled (weak fairness per thread) and `main`
  goes on with start-up and, once it has begun, with the shutdown. Edits, requests
  and the signal are not owed. For the admin thread this assumes that the blocking
  `write_all` (`src/admin_http.cpp:51`) returns, that is, that an HTTP client reads its
  response or goes away: a client that does neither can hold up that thread, and with
  it the shutdown.
- *UdpWorker*: each worker is scheduled. `Receive` has strong fairness: a readable
  socket may report an error now and then, or another worker may be quicker, but
  `recvmmsg` on a socket with a datagram does not fail for ever. `Join` and
  `Destroy` follow `request_stop()` in `main`. Traffic, reloads and the stop are
  not owed.
- *IoUringWorker*: the worker is scheduled; strong fairness for submitting everything
  and for the wait to end other than with an error, since either may fail now and then
  but not for ever; neither is ever owed a failure; the kernel completes some receive when a datagram is queued. Sends
  are not owed a completion, and neither are traffic, reloads or the stop.
- *HttpFront*: the worker is scheduled. For a client that waits for its answers, a
  socket that stays writable takes bytes in the end, and a connection that stays idle
  is idle for longer than the timeout in the end (both strong, since the walk visits
  other connections in between). Clients owe nothing.
- *LoadGen*: the sender is scheduled and time passes. The server and the network owe
  nothing.

## 5. Proofs

Checked with `tlapm` on `RcuProofs`, `ControlPlaneProofs`, `RuleCompilerProofs`,
`IoUringProofs`, `IoUringReplyProofs`, `UdpShape`, `UdpPlaces` and
`UdpWorkerProofs`. The io_uring proofs are one development in two modules and the UDP
proofs one in three, because `tlapm` slows down as a module grows.

**Rcu**, for any number of workers, control-plane readers, slots and
publications. Assumptions: `DomainAssumption` (constants have their types) and, as a
hypothesis of every theorem, `ControlSlotsReserved`: control-plane threads read on
distinct slots whose index is at least the number of workers, stated as there being no
way to fill the slots up to it with distinct workers. The second holds for the ingest workers alone
and fails when the HTTP front doubles the registering threads, which is the
finding of `rcu_http_front`.

Theorems: `TypeCorrect`, `NeverFreedInUse`, `ExclusiveSlots`, `NoDoubleFree`,
`NothingDeferredAfterSuccess`, `NoLeakAtExit`, `TimeoutsAreJustified`, and
`RcuImplementsCell`, the refinement.

`NoUseAfterFree` alone is not inductive: whether a deletion is safe depends on
what the scan saw, that on what readers stored, and that on who owns each slot.
The invariant `IInv` says each in turn:

1. `Claims`, `Exclusive`: marked slots are claimed slots, and a worker at slot k
   has seen the slots below it taken. A pigeonhole argument then keeps workers out
   of the control plane's slots, so each slot has one user.
2. `Buffers`: which stores a reader may have in flight at each point; with an empty
   buffer its slot shows its epoch. This is what the read-side fence buys.
3. `Epochs`, `Stores`: the epoch a guard announced is never newer than its snapshot,
   and the pointer reaches memory before the epoch.
4. `Grace`: behind the scan, every guard is on the new snapshot. It is preserved
   when a reader takes a guard late because the writer's fence has made the new
   pointer visible before the scan starts.
5. `Heap`: exactly the snapshots before the live one, less the parked ones, have
   been deleted, once. `Culprits`: a nonzero slot belongs to somebody.

**ControlPlane**, for any rule files, plan lists and numbers of edits and
requests, from `ContentsAssumption` (types of the constants). Theorems:
`TypeCorrect`, `PlanIdsKept`, `StatsConsistent`, `VersionsOrdered`,
`AnswersAreFresh`. The invariant adds to the types: `Locking` (a thread inside
`reload_rules()` is the one that owns the mutex), `Building` (what it has compiled
is newer than the live set and, once checked, keeps its plans), `Policy` (the live
set keeps the plans of the roster) and `Counting` (the statistics between their
updates). `PlanIdsKept` needs that keeping plans is transitive along any chain of
reloads (`KeepsPlansTransitive`); `VersionsOrdered` needs the mutex.

**RuleCompiler**, for any headers, rules, requests, subscribers and capacity
limits, from `LimitsAssumption` and `CompilerAssumption` (limits are positive, and there
are no more DNNs than bits for them), `TextsAssumption` and `HeadersAssumption` (lists
in the file are sequences, and what converts has its type) and `RecordsAssumption`
(types of requests and subscribers). `CapacityKept`: no expansion, table or list passes
its limit. `WarningsAreTrue`: a (mask, value) pair that the lint reported does not
decide, because an earlier pair of the rule named in the warning matches whatever it
matches. The first needs that every way of
adding a condition keeps the pairs well formed and short enough (`AddBitOk`,
`AddNoneOfOk`, `AddOneOfOk`, `InternFits`). The second needs that the lint was
computed on the sorted table that is served (`Linted`), that a shadowing rule matches
whatever the shadowed one matches (`ShadowMatchesMore`), and that the scan returns
the least index that matches (`FirstMatchIsFirst`). That there is a least one comes
from well-foundedness of the naturals (`LeastNatural`).

**IoUringWorker**, for any batch size, traffic and number of reloads and faults, from
`RingAssumption` (types of the constants, at least four ring entries per receive slot,
as `worker_loop` asks for). `OneOwner`: every operation is in one place and none is
ever lost to a full submission queue. Its invariant `RingInv` is the types, the
ownership of every operation while the worker runs, and the state before the first
arming. That staging always finds room is a counting argument (`OpsFit`): the queue has
no repetition and there are three operations per receive slot. `RepliesRight`: no
datagram is answered twice or to another client, or by a policy older than the one in
force when it arrived. `ReplyInv` adds to `RingInv` that a datagram that has arrived is
in one place (`OnePlace`: the socket's queue, a receive slot, a send slot or an inbox)
and that a round's guard is not older than any arrival (`Policies`). It needs the first
theorem: a send slot may be filled because it is owned by the free stack and not by the
kernel.

**UdpWorker**, for any number of workers, clients, datagrams and reloads, and any
configuration `validate_config` accepts, from `UdpAssumption` (types of the constants; a
configuration's threads are workers). `AnsweredOnce`, `LivePolicy`, `OneVersion`,
`NeverGoesBack`, `IdleHoldsNone` and `CountersAddUp` are all the safety properties of
run `udp`. They follow from one inductive invariant, `UdpInv` (theorem
`ServerInvariant`):

1. `Shape`: types, the loop index and the staged replies stay within the batch, and a
   worker holds a guard exactly while it decides and sends.
2. `Accounts`: each balance of counters holds at every step once what is still to be
   decided and still to be sent is added. Between batches nothing is, which gives
   `CountersBalance`.
3. `OnePlace`: a datagram is in one place: a socket's queue, the undecided part of a
   batch, an unsent slot or the wire. `stage_reply` leaves no gap for a dropped datagram
   and `send_batch` never sends a slot twice, and both are needed here.
4. `Policies`: an arrival is no newer than the live policy, what a worker decides no
   newer than its guard, and with a socket per worker no reply to a client is newer
   than the guard of the worker that serves it. The last is what `PolicyNeverGoesBack`
   lacks to be inductive: a worker's next guard is at least its last one.

**Only model-checked**:

- every liveness property (`NobodyIsStuck`, `EditsGoLive`, `ShutdownCompletes`, both
  `StopCompletes`, `QueuesAreServed`, `QueueIsServed`, `RequestsAreAnswered`,
  `RunEndsBalanced`): the prover does not reason about fairness;
- `PairsMeanTheConditions` and `DecidesLikeTheFile`, `SubscriberStore` and the
  histogram: they are about what a fold over a list computes, which is an induction
  over data that the prover cannot do;
- `CreditIsWhatIsLeft`, `ReplyIsAsWritten`, `NothingUnaccounted` and everything about
  `HttpFront` and the rest of `LoadGen`: no proof has been written.

## 6. Where the code and its documentation disagree

1. **The HTTP front overruns the reader slots** (`rcu_http_front`,
   `src/control_plane.cpp:57`). The domain has `worker_threads + 4` slots, but the
   HTTP front registers `worker_threads` more threads. One of them can get the slot
   that the admin handlers use unclaimed. When the admin guard ends it marks the
   slot quiescent under the worker's guard, and a reload deletes the worker's
   snapshot.
2. **The lint reports rules that fire** (`rules_lint`, `src/rules.cpp:772`). It compares
   compiled rules, of which a rule with a list has several, and reports the id of the
   source rule when one of them is covered. `docs/policy-authoring.md:214` says that a
   reported rule "can never fire", and the test `NonShadowedRulesAreNotReported`
   (`tests/test_rules.cpp:253`) calls anything else a "false shadow warning". A rule
   for `dnn: [internet, ims]` after one for `internet` is reported and then decides for
   `ims`. Of the compiled rule itself the warning is true (`WarnedPairsNeverFire`).
3. **Requests are left without their answer** (`http_unanswered`).
   `include/policy/http_front.hpp:49` promises that anything malformed gets a 400. A
   `seq` that is no number is ignored instead (`src/http_front.cpp:147`). A message too
   long for the response buffer is not sent at all (`src/http_front.cpp:497`). And the
   comment at `src/http_front.cpp:504` says that what follows a request is the next one
   and is kept; it is, but the buffer is only searched after a `recv()`, and `poll()`
   reports nothing when the client has no more to say (`src/http_front.cpp:394`). In
   each case the connection is closed as idle with an answer wrong or missing. The run
   has a conversation for each, and each violates the property alone. The conversations
   of `http_front` have none of the three, so `AnswersInOrder` holds there against what
   the header promises.
4. **A closed connection's request is not counted** (`loadgen_closed`,
   `bench/loadgen.cpp:312`). The comment says "the peer closed; the caller counts it as
   loss"; neither caller does. The run ends with a request that is neither received nor
   bad nor lost, and the exit status (`bench/loadgen.cpp:1108`) is computed without it.
   `RunEndsBalanced` shows that requests are never counted twice, and that all are
   counted when the peer closes nothing.

Four more have a property that states them and no run of their own. Change the
configuration as described and TLC shows the counterexample.

5. **An edit during start-up is never noticed** (`src/control_plane.cpp:85`).
   `docs/policy-authoring.md:229` says "Write the file and either touch it (the control
   plane polls mtime) or:". `initialize()` compiles first and takes the mtime
   afterwards; the watcher takes it before, which is right: `EditsGoLive`,
   `MCControlPlane_reload.cfg` with `WritesDuringStart = TRUE` and `MaxWrites = 1`.
6. **`reload_stats_` is read without the mutex** (`src/control_plane.cpp:416`) while
   the watcher writes it, including a string: `StatsAreNotRaced`,
   `MCControlPlane_reload.cfg`.
7. **A long datagram is answered** (`src/net.cpp:187`). `include/policy/net.hpp:128`
   says truncation changes the length; the reported length is that of the slot, 64, so
   it does not: `OversizedIsDropped`, `MCUdpWorker.cfg`.
8. **An exclusion loses against a list** (`src/rules.cpp:417`).
   `docs/policy-authoring.md:141` says `not_dnn` means "none of these". A rule with
   `dnn: [internet, ims]` and `not_dnn: [ims]` still fires for `ims`, because the
   exclusion only sets a mask bit that the list has already set in mask and value:
   `NotMeansNoneOfThese`, `MCRuleCompiler_files.cfg` with `Texts <- ContradictoryTexts`.

Smaller ones, met on the way and built into the models as the code has them:

- `include/policy/rules.hpp:191` says the table is sorted by priority and then id; the
  sort is stable on priority alone, as `rules.cpp:754` says, and `BeforeById` is the
  mutant that breaks `DecidesLikeTheFile`.
- `parse_u64_sv` in `src/http_front.cpp` wraps at 64 bits, so that a number with too
  many digits is taken for another one (`DecideQuery`).
- `include/policy/subscriber_store.hpp:101` says a store never rehashes at its expected
  size; an update of a subscriber already there grows a table that is at its limit
  (`upsert`). Line 148 calls the header required, `subscriber_store.cpp:212` does not.
  `loaded` counts a subscriber listed twice twice.
- `hdr_histogram.hpp:158` says p100 is the maximum; it is the upper end of the
  maximum's bucket.
- `bench/loadgen.cpp:274` sends without `MSG_NOSIGNAL`, and unlike the server
  (`src/main.cpp:98`) the generator does not ignore SIGPIPE: a server that resets an idle
  connection ends the run without a report (`Killed`). The final drain and the closed
  loop take a late reply without comparing its timestamp.

## 7. Not modelled, and why

- *Metrics scrape, coarse clock*: sums of relaxed atomics read one by one, of which
  nothing is promised together, and one word stored by one thread.
- *Admin dispatch*: one connection at a time, text in and text out. Its thread and
  shutdown are in `ControlPlane`.
- *Wire layout, YAML parser*: byte- and character-level conversions without state.
  Their outcomes are inputs of the models.
- *Choosing between io_uring and UDP* (`make_server`): a probe of the kernel.
- *Configuration*: command-line parsing. Its validated bounds appear as
  assumptions on constants.
- *Affinity, cycle counter, logging, SHA-256*: calls into the platform.
- *Golden files, data generators, micro-benchmarks*: sequential tools, not the service.
- *The permille fallback without a 128-bit type* (`engine.cpp:59`): not what the
  supported compilers build.
- *Load generator*: options, the report and the probes of the server's statistics.
- *Handlers that only read* (`/rules`, `/subscriber`, `/explain`): their guards are
  the `ControlReaders` of `Rcu`; the rest is text.
- *Time*: timeouts and polling intervals are choices, not clocks.

## 8. What could follow

Every part of the server with state of its own has a module. Next in value would be
proofs for the walk of `HttpFront`.
