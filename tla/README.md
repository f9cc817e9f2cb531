# NetScope-DPI-Lite: specifications and proofs

TLA+ modules for the packet inspection engine in `src/`, the TLC configurations
that check them, and TLAPS proofs. Paths below are relative to the repository.

* [The system](#the-system)
* [Plan](#plan)
* [The modules](#the-modules)
* [The runs](#the-runs)
* [Where code and documentation disagree](#where-code-and-documentation-disagree)
* [Fairness](#fairness)
* [The proofs](#the-proofs)
* [What is only model-checked](#what-is-only-model-checked)
* [What is not checked](#what-is-not-checked)
* [What is not modelled](#what-is-not-modelled)

## The system

The engine reads a capture file, follows the flows in it, classifies them by the
host name found in their payload (TLS SNI, HTTP Host, DNS query), and writes to
another capture the packets that no rule blocks. It is a pipeline of threads
connected by bounded queues:

    main (reader) -> input queue -> load balancer -> a queue per worker
                  -> fast-path workers -> output queue -> writer -> file

while another thread serves the shared counters to a metrics scraper.

### Components

| Component | State | Operations | Must hold |
|---|---|---|---|
| `ThreadSafeQueue` (`include/thread_safe_queue.h`) | deque, atomic `size_`, `shutdown_`, mutex, two condition variables | `push`, `tryPush`, `pop`, `popWithTimeout`, `shutdown`, `size`, `empty` | FIFO, bounded, no lost wakeup, nobody left waiting by shutdown |
| main (`main.cpp`) | `output_queue`, writer thread, `writer_running`, statistics | reader loop, writer loop, shutdown sequence | the shutdown order loses nothing silently and cannot block |
| `LoadBalancer` | `input_queue_`, `running_`, `dispatched_` | `start`, `stop`, `run` | a flow always goes to the same worker, in order |
| `FastPathWorker` thread | `input_queue_`, `running_`, `processed_` | `start`, `stop`, `run` | every packet is counted once and dropped or put in the output queue |
| `FastPathWorker` decision | the flow's `Connection` | `processPacket`, `classifyFlow` | a blocked flow stays blocked; a flow still open obeys the rules |
| `ConnectionTracker` | table of connections per worker | `getOrCreate`, `cleanupStale`, `find` (never called) | one entry per connection, kept while its flow goes on |
| `RuleManager` | sets of addresses, ports, applications, domain patterns | `loadRules`, the setters, `shouldBlock` | every line of the file takes effect and nothing else does |
| application names (`types.cpp`) | none | `appTypeToString`, `sniToAppType` | an application's own host names are its own |
| `PacketParser` | none | `parse` | reads inside the packet only; the payload is a part of it |
| extractors (`sni_extractor.cpp`) | none | `extract`, `extractQuery` | the same, for any nesting of lengths; every loop ends |
| `PcapReader`, `PcapWriter` | file, byte order | `open`, `readNextPacket`, `writePacket` | records are taken whole or not at all, and read back from the output as they were |
| `MetricsServer` | atomic counters, queue sizes, listening socket, `running_` | the counters, `start`, `stop`, server loop, `renderMetrics` | a page is consistent, a scraper that stays is answered, `stop` returns |
| `Logger` | mutex, level | `log` | lines are whole and in order |
| command line and report (`main.cpp`) | options | parsing, the order of start and end, printing | rules are complete before the first packet |

### How they interact

* **Queues.** main pushes to the balancer's queue, the balancer to a worker's, a
  worker to the output queue; each push may wait for room and each ignores
  whether it was refused. The three consuming loops use `popWithTimeout`, and
  look at a running flag between two pops. The writer also asks `empty()`, which
  reads `size_` without the lock.
* **Flags and joins.** Each `stop()` clears a running flag, shuts the queue down
  and joins the thread. main calls them in the order of the pipeline, after a
  fixed sleep of 500 ms.
* **Shared counters.** Workers add to atomic counters, in `DPIStats` and in
  `MetricsServer`, one at a time and in relaxed order; main reads the first
  after joining everyone, and the server thread reads the second at any time.
* **Ownership.** A worker's connection table is its own: packets are routed by the
  hash of the five-tuple. The rules are written before the threads start.
* **Start and end.** main opens the capture, loads the rules, starts the metrics
  server, opens the output, and only then starts the threads; a capture or an output
  that cannot be opened ends the run, a rules file or a port that cannot does not.

### What is hard

* lost wakeups, with `notify_one` and two kinds of waiters, timed and untimed;
  `shutdown` notifying after the mutex is released; `size_` lagging the deque;
* the shutdown order over four kinds of threads and three kinds of queues, each
  possibly full; the fixed delay; the writer's two reads before it ends;
* the order of a flow's packets through threads that overtake one another;
* a flow whose application is known only some packets after it was first
  forwarded, or after it was blocked for another reason; two directions that hash
  to different workers; entries that expire;
* counters added to and read one at a time;
* a server thread that one failed accept ends, and a scraper that hangs up;
* lengths in a packet that claim more than there is;
* rules files with wrong lines among right ones; conversions that could make one
  address or port into another; captures cut short or in the other byte order.

`PROJECT.json` lists each of these at its line, with the property that is about it.

## Plan

The order is that of importance to the engine: first what every thread relies on,
then the threads, then what they decide, then the components beside them.

1. *Queue* - `BoundedQueue` (abstract), `ThreadSafeQueue` (code), refinement. **Done**, proved.
2. *Pipeline* - `FlowFilter` (abstract), `Pipeline` (threads and shutdown) over the
   operations of `BoundedQueue`, refinement. **Done**, safety proved, and of its
   termination all but the scheduling.
3. *Decision* - `FlowEngine`. **Done**, proved.
4. *Metrics* - `MetricsServer`. **Done**, safety proved.
5. *Bytes* - `PacketInspection`. **Done**, proved; of its termination, the measure.
6. *Files* - `AppNames`, `RuleManager`, `CaptureFile`, and `Engine`, which puts them
   around what 2 and 3 promise. **Done**, proved.
7. *Left* - for the proofs, that the pipeline's uses of a queue are steps of
   `BoundedQueue`, which its module only says; for the models, `Logger`, on which no other component depends, and the parsing of the
   options, a loop over strings.

## The modules

| Module | Models | Depends on |
|---|---|---|
| `QueueInterface` | the names of the queue's operations, who may call which | |
| `BoundedQueue` | what the queue promises: operations take effect one at a time | `QueueInterface` |
| `ThreadSafeQueue` | the queue's code, at each lock, wait, notify and atomic | `QueueInterface`, instantiates `BoundedQueue` |
| `FlowFilter` | what the pipeline promises: a filter per flow | |
| `Pipeline` | main, balancer, workers, writer | instantiates `FlowFilter` |
| `FlowEngine` | routing, connection table, classification, rules, verdict | |
| `MetricsServer` | counters, queue sizes, server thread, start and stop, scrapers | |
| `PacketInspection` | one packet's bytes: record, headers, TLS, HTTP, DNS | extends `Descent` |
| `Descent` | tuples of numbers that get smaller, for what has to end | |
| `AppNames` | applications, their names, which a host name is taken for | |
| `RuleManager` | `loadRules` and `shouldBlock` | extends `AppNames` |
| `CaptureFile` | the capture read and the capture written | |
| `Engine` | a run from files to file: main's order, rules, capture, output | extends `RuleManager`, `CaptureFile` |
| `*_proofs` | the theorems about the module they are named after (`ThreadSafeQueueWakeups_proofs` and `PipelineCounts_proofs`: further ones about `ThreadSafeQueue` and `Pipeline`) | |
| `MC*` | constants for TLC | |

Definitions named as mutants in their comment are deliberate errors beside the
action they alter: putting one in the place of the original must break the
property it is listed with.

**`ThreadSafeQueue`.** `pc[t]` is the point thread `t` has reached in a member
function (the list is in the module's header). `Acquire` takes the mutex, both at
the beginning and inside `wait`; `Ready` is the wait's predicate and is tested
again after every wakeup, spurious ones included; `MoveIn`/`MoveOut` change the
deque and `CountIn`/`CountOut` then change `size_` and notify, so that the lock-free
`Empty` may fall between. `shutdown` is `SetFlag`, `NotifyConsumers`,
`NotifyProducers`, the latter two without the mutex. A timed pop may `Expire` at
any moment, also before it waits or after it was notified; `last` is the
evaluation of the predicate that `wait_for` makes after its deadline. Accesses to
`size_` and `shutdown_` are single atomic steps: `shutdown_` is only ever used
under the mutex, and the one reader of `size_` without it, `empty()`, is ordered
only by the value it sees.

**`BoundedQueue`.** An operation is invoked, takes effect once, and returns.
The mapping of `ThreadSafeQueue` to it (`Visible`) takes back the thread that
has changed the deque but not the counter: an operation takes effect when
`size_` changes, which is what makes the answers of `empty()` right.

**`Pipeline`.** A job is the position of its packet in the capture. Queue
operations are the atomic ones of `BoundedQueue`: a push waits for room or a
shutdown, a timed pop returns an item whenever there is one. The loops are split
where another thread can come between: the test of a running flag (`...Top`), the
pop, the push, the write; the writer's `writer_running` and `empty()` are two steps
(`WriterTop`, `WriterDrain`), and between its pop and its write (`WriterPop`,
`WritePacket`) a packet is in its hand (`writerJob`), as one can be in a worker's. `EndOfCapture` stands for the sleep of 500 ms: main
goes on at any later moment. A worker's verdict is left open here. `discarded`
and `refused` are history.

**`FlowEngine`.** One packet is one step, since a worker's table is its own.
`Key` is `getOrCreate` with its two lookups, `Inspect` what `processPacket` does
with the payload (`ClassifyFlow`), `Decide` the rules, `MarkBlocked` the drop,
`CleanupStale` the periodic cleanup that ends the step. A payload is what the
three extractors make of it, an entry keeps its age instead of a time stamp, and
`Tick` is the clock. `last` and `seen` are history: `seen[t]` is how long ago the
latest packet of `t` came and what became of it, kept apart from the entries, whose
`age` only `Judged` renews.

**`MetricsServer`.** `RecordOrder(k)` is the sequence of counters that a packet of
kind `k` (protocol, verdict, latency) adds to; `Record` adds to the next one, and
ends with the queue size that every `CLEANUP_INTERVAL` packets a worker exports.
`Render` reads one counter in `RenderOrder`; what else is on the page no property
looks at. `StopFlag`,
`StopClose`, `StopJoin` are `stop()`; the server loop is `ServerTop`,
`EnterAccept`, `Accept`, `Receive`, `Render`, `Respond`. The adds are relaxed in
the code; that another thread sees them in program order is what x86 makes of a
locked add, and the module assumes it. `AcceptFails` may come at any moment and ends
the server thread with its socket open, as the code's `break` does; it is also
what a platform makes of an accept whose socket is closed. A scraper of `Impatient` may
`HangUp`, before it has asked or after; the answer to it is then lost, or its
SIGPIPE ends the process (`RespondKilled`).

**`PacketInspection`.** Bytes are not stored: where the code reads a length or
compares a byte, the step chooses. What is kept is the place of the walk
(`offset`), how far the step has read (`reach`), and the extents it works with
(`len`, `payload`, `plen`, `end`). The stages are the points between two checks.
`Left` is what a capture still has before it: bytes of the file, stages of the
packet, bytes of the walk, and those of the inner search for a header's value.

**`AppNames`, `RuleManager`.** A host name is not spelled out: `Finds` and `EndsWith`
say which of the texts the code looks for occur in it. The rows of `Aliases` are
those of `sniToAppType`, in its order. A line of the rules file is its directive
and its argument; `LoadIP`, `LoadApp`, `LoadDomain`, `LoadPort` and `SkipLine` read
one each. Addresses are sets of ones, so that a wrong shift (`ParseIPString`) is
told apart from a right one; ports are cut to 16 bits (`Uint16`). `Packets` are
packets of TCP or UDP, each with what its flow was classified as.

**`CaptureFile`.** Words are their four bytes, since byte order is what can go
wrong. A record is its header, an opaque packet, and the bytes that are really
there, so that a file cut short or a length out of range is a record whose header
and size differ. `taken` and `written` are history.

**`Engine`.** The order in which main opens, loads, starts, stops and returns.
Between reader and writer it uses what `Pipeline` and `FlowEngine` establish: a packet
in flight is forwarded at most once, after `ShouldBlock` let it, or is dropped, or is
lost at the stop, in any order (`Forward`, `Drop`, `Stop`).

## The runs

All are run with the module's constants in the `.cfg`; no definition is replaced.

| Run | Configuration | Question | Bounds, and why they are enough |
|---|---|---|---|
| `queue` | `MCThreadSafeQueue` | No wakeup lost, bounded, shutdown complete, implements `BoundedQueue` | Two producers (one of them also `tryPush`), a consumer with `pop`, one with `popWithTimeout`, a thread with `shutdown` and `empty`; capacity 2, two items. Two waiters on each side are the least with which a notification can go to the wrong one; capacity 2 lets a second push come before the first woken consumer; calls are repeated without end. |
| `queue_liveness` | `MCQueueLiveness` | A timed pop returns; after shutdown everything does | Four threads, capacity 1, one item: values do not matter to progress. |
| `pipeline` | `MCPipeline` | Order per flow, losses, report, packets in flight, no circle of waits, implements `FlowFilter`, ends | Two workers, three flows two of which share a worker, seven packets one of them skipped, every queue of one place, so that every push can block and the two bounds on what is in flight are reached, with a packet in each hand. |
| `pipeline_drain` | `MCPipelineDrain` | *violated*: everything accepted is processed | Four packets. |
| `flows` | `MCFlowEngine` | Blocked flows, classification, active flows remembered | Two connections in both directions, one whose directions share a worker and one whose do not; one blocked address, port, application and name; payloads of every kind; cleanup every 2 packets, timeout 2 ticks, so that entries expire at different cleanups, and a flow with a packet each tick outlives its entry's first time stamp. |
| `flow_directions` | `MCFlowDirections` | *violated*: one entry per connection | The same with one worker, so that the hash plays no part. |
| `block_log` | `MCBlockLog` | *violated*: a block is logged once | As `flows`. |
| `metrics` | `MCMetrics` | Counters in step, page consistent, scrapers answered | Two workers with a packet each, of two kinds that share no counter they need not; queue sizes exported by one of them, as the array has one place; two scrapers, of which one may hang up and one stays: each can be served while the other waits. |
| `metrics_stop` | `MCMetricsStop` | *violated*: `stop()` returns | One worker, one scraper that may hang up. |
| `inspection` | `MCPacketInspection` | Reads inside the packet, every step leaves less to do, captures end | Record lengths on both sides of each check up to a ClientHello with a name; length fields that are zero, small, and larger than any packet; room for one long packet or two short ones. |
| `engine` | `MCEngine` | Rules in force, nothing else blocked, output readable | Rules files of at most two lines out of twelve, right and wrong ones of each directive: two are enough for one to spoil the other. Seven captures: none, of unknown kind, whole, cut short, with a length of zero or too long, in the other byte order; each packet is one that a line is about, or nearly. |
| `app_names` | `MCAppNames` | *violated*: an application's rule blocks its own host | Four applications, a rule and a packet for each. |

The liveness properties (`TimedPopReturns`, `ReturnAfterShutdown`,
`Termination`, `EveryScrapeAnswered`, `CaptureEnds`, and the violated
`StopReturns`) are checked under the fairness described below; everything else
under the safety specification. Deadlock is checked in every run: where the
system really stops, the module has a `Finished` step.

What the passing runs show:

* The queue is a linearizable bounded FIFO: `notify_one` for each item and each
  place suffices although timed, blocking and non-blocking callers are mixed,
  and a deadline that passes beside a notification loses nothing.
* Ignoring the result of `push` everywhere is right, because of the shutdown
  order (`NoRefusedPush`). With any other order it would not be.
* What a run can lose is exactly what was in the input queue of a thread when it
  was stopped (`OnlyQueuedIsLost`), and the printed report shows how many
  (`ReportConsistent`: TCP and UDP packets less total packets).
* Until the run is over some thread can take a step that waits for nobody
  (`NoCircularWait`): full queues and joins never close a circle, because each
  `stop()` joins only threads whose way out is still being emptied, and the writer
  empties its queue after its own flag is down.
* Every step through a packet leaves less to do (`WalkAdvances`), for all the loops at
  once, those that go back among them.
* `action` alone decides whether a packet is dropped, and `state` agrees with it
  between packets although classification overwrites it (`BlockedIffDrop`).
* A flow's decision is asked again at every packet until it is DROP, so late
  classification still blocks (`OpenFlowsObeyRules`).
* A flow whose packets are less than the timeout apart keeps its entry, and a blocked
  one its verdict, through any cleanups (`ActiveFlowsRemembered`): because
  `processPacket` renews `last_seen` before its worker can clean up.
* The histogram of a metrics page is cumulative only because `recordLatencyMs`
  adds from the widest bucket to the narrowest and `renderMetrics` reads from
  the narrowest to the widest (`PageConsistent`). Swapping either breaks it.
* A wrong line in the rules file costs only itself (`RulesInForce`), and among
  right lines no conversion makes one address or port into another
  (`NothingElseBlocked`). No packet passes before the rules are complete
  (`ListedNeverWritten`).
* An output opens and reads like the input, whatever was left out of it
  (`OutputReadsBack`), for an input in the machine's byte order.

## Where code and documentation disagree

* **`pipeline_drain`.** `main.cpp` calls its shutdown "Drain + shutdown" and its
  sleep "Give workers time to drain queues"; the sleep is 500 ms whatever is queued, and the
  loops end at their running flag whatever is queued. Packets left over are
  neither dropped nor written. `SettledIsDrained` (proved) says when the sleep is enough:
  if every packet has been decided when it ends. The file needs no time, as the
  workers are joined before the writer is stopped, and the writer drains.
* **`flow_directions`.** `ConnectionTracker::getOrCreate` says "Try reverse
  direction (server -> client)" and looks up the *normalised* tuple. For a
  connection first seen from its higher address that is the other direction's own
  tuple, so a second entry is made.
* **`block_log`.** `fast_path.cpp` says "Log first block per flow"; a flow blocked
  by address or port before it is classified is set to CLASSIFIED when a name is
  found, and is logged again.
* **`metrics_stop`.** `metrics.h` says "Stop gracefully"; `stop()` closes the
  listening socket and joins a thread that may be blocked in `accept` on it,
  which on Linux does not end by that. `StopComesNearer` (proved) says that this, or a
  client that never sends, is all that can hold it: each step that the server thread does
  take leads it out.
* **`app_names`.** `README.md` names Netflix as an application that rules are
  enforced for, and `rules.conf` says of `block_app` "drop all flows classified as
  this app". `sniToAppType` looks for Twitter's `x.com` and `t.co` anywhere in a
  name and before Netflix's and Microsoft's texts: `www.netflix.com` and
  `www.microsoft.com` are taken for Twitter, and a rule for Netflix lets them pass.

Without a run of their own, since nothing else depends on them: `rule_manager.h`
says of `loadRules` "Replaces ALL existing rules", and it adds to them (main calls
it once); and `logger.cpp` takes its time stamp before it takes its mutex, so that
lines of two threads can be out of order.

## Fairness

* Queue: weak fairness of each thread's steps inside an operation (threads are
  scheduled), of the clock (`Expire`, `TimeOut`); strong fairness of `Acquire`: a
  thread that keeps asking for a mutex that is released again and again gets it.
  `std::mutex` does not promise that much in so many words, but a thread that
  never gets it would be starved by the scheduler, not by this code. Nobody has
  to call, and spurious wakeups need not happen.
* Pipeline: weak fairness of each thread. Blocked pushes and joins are disabled
  steps, so this assumes nothing about them.
* Metrics: weak fairness of the threads; a scraper that has connected sends its
  request or hangs up (the code sets no receive timeout, and a scraper that does
  neither does block the server: this is an assumption on the environment). None
  for `StopFlag`: with `--daemon` main never gets there. None for `Connect`, `HangUp`
  and `AcceptFails`: nobody has to come or to go, and no accept has to fail, not even
  one whose socket was closed.
* Inspection: weak fairness of the next step of the one thread.

## The proofs

TLAPS checks every theorem for all values of the constants, from the assumptions
named in the modules: at least one worker, capacities of at least one, a
hash on the tuples, names distinct from "none", length fields of the width of their
field. Each proof has an invariant `IInv`, a lemma for each action that it is
preserved, and theorems that follow from it. `IInv` was checked by TLC before it
was proved.

* **`ThreadSafeQueue_proofs`**: `TypeCorrect`, `BoundedHolds`, `NobodyWaits`,
  `Refinement`. `Bounded` alone is not inductive: that a thread about to push
  finds room depends on nobody else having moved since it looked, hence on mutual
  exclusion (`MutexInv`), on what a program counter implies about its own
  operation (`LocalInv`), and on `size_` differing from the length of the
  deque only at the holder's `count` (`SizeInv`). `NobodyWaits` adds
  `ShutdownInv`: a waiter that is left after the flag was set has a shutdown
  before its `notify_all`. `Refinement` maps each step to a step of
  `BoundedQueue` or to a stutter.
* **`ThreadSafeQueueWakeups_proofs`**: `NoStrandedItemHolds`, `NoStrandedRoomHolds`,
  for any finite set of threads (`ThreadsAssumption`). With a sleeping consumer
  each item is matched by a consumer about to look or a producer about to notify
  (`ItemsMatched`), and likewise each place with a sleeping producer (`RoomMatched`);
  the proof counts these threads at each step. A notification turns the one who
  gives it into the one it wakes; a thread that stops looking has taken an item
  or seen none, and one whose deadline passes beside a notification looks once more.
  Then what of `ReturnAfterShutdown` and `TimedPopReturns` needs no fairness:
  `SomebodyGetsOnHolds` (with anybody inside who is not rightly waiting, the guard
  of some thread's next step holds; TLC finds `GetsOn` and ENABLED the same on the
  instance of `queue`), `NearerReturnHolds` and `NearerTimeOutHolds` (a call that may not
  wait any more has at most ten, or twelve, steps to its return, and whatever the
  others do it never goes back). What is left to the run is that the threads are
  scheduled and get the mutex.
* **`Pipeline_proofs`**: `TypeCorrect`, `NoRefusedPushHolds`, `FlowOrderHolds`,
  `OnlyQueuedIsLostHolds`. `PhaseInv` relates flags, joined threads and shut
  queues to how far main has come: it is what shows no push finds its queue
  shut. `OrderInv` places the accepted packets on eight stages from main's hand to
  the file and says that of two packets for the same worker the older is
  further on; it is per worker and not per flow, since only that is inductive with the
  routing. `CompleteInv` says that each packet read is dropped or on a stage.
* **`PipelineCounts_proofs`**: `ReportConsistentHolds`, `InFlightBoundHolds`,
  `Refinement`. Each counter is the number of packets that passed its line
  (`InputCount`, `WorkerCount`, `OutputCount`), so the difference of two counts the
  queues and hands between them. That `discarded` is as large as
  the counter of drops says needs that nothing is dropped twice: what is dropped is
  older than all that is still to be decided of the same worker (`DropCount`).
  `Refinement` rests on the same set, `Live`: only reading adds to it, a decision
  takes away one packet, the oldest of its flow, and every other step leaves it.
  `NoCircularWaitHolds` adds to `PhaseInv` what the running flags and the threads are
  in each phase of main (`FlagsInv`), and follows the waiting: main's full queue or join to
  the balancer, the balancer's to a worker, a worker's to the writer, which never waits.
  `SettledIsDrainedHolds`: nothing comes back into `Live`, so from then on all that
  is on a stage is in the output queue, in a worker's hand before it or the
  writer's after it, or in the file.
  `EndComesNearerHolds` gives the measure of `Termination`: main's phase and where its
  loop is, then the packets from queue to hand to queue, then the threads that have
  not ended. Every step lowers it, but for a consuming loop that begins a turn or
  whose pop finds nothing (`Poll`).
* **`FlowEngine_proofs`**: `TypeCorrect`, `BlockedIffDropHolds`,
  `OpenFlowsObeyRulesHolds`, `NoBlockedAddressForwardedHolds`,
  `ClassificationIsFinalHolds`, `NoForwardAfterBlockHolds`,
  `ActiveFlowsRememberedHolds`: all the properties of `flows`. The invariant
  is `ConnOK` of every entry; lemmas carry it through `Inspect`, where it is weakened
  to `Inspected` because CLASSIFIED may overwrite BLOCKED, and back through
  `Decide` and `MarkBlocked`. `ActiveFlowsRemembered` is about the key a packet
  finds, which a new entry or a cleanup can change: `MemoryInv` adds that the entry
  is no older than the flow's latest packet, `EntryKept` is that the cleanup after
  a packet leaves its entry and every one younger than the timeout, and `KeyOfNew` that
  a new entry never comes between a flow and the one it has.
* **`PacketInspection_proofs`**: `TypeCorrect`, `ReadsInsideHolds`,
  `NameInsideHolds`, `WalkAdvancesHolds`. `StageInv` says for each stage where
  the walk can stand: what the checks before it established and its reads
  rely on. `NameInv` says which stages can be reached with a name. `WalkAdvancesHolds`
  is that each step lowers `Left` (the search for `Host:` goes back after an empty
  value, and the last component pays for it), and `NoEndlessDescent`, from the
  well-foundedness of the library, that nothing of the kind can be lowered forever.
* **`MetricsServer_proofs`**: `TypeCorrect`, `CountersInStepHolds`,
  `PageConsistentHolds`, for any workers and scrapers. Two counters differ by the
  packets in the workers' hands that have passed one and not the other
  (`TotalsInv`, `BucketsInv`); a number already on the page is compared with the
  counters still to be read, which only grow (`PageInv`). `OneScrapeAtATimeHolds` and
  `StopComesNearerHolds` rest on `StopInv`: flag and socket go down for good, and the
  client the server talks to is the one it accepted. Of `EveryScrapeAnswered`,
  `EveryStepServesHolds`: while the server runs, each step of its thread keeps it in
  the loop and lowers the number of scrapers not yet answered, its distance to the
  next answer or what is left of the page, or is a failed accept (for finitely many
  scrapers, which is the theorem's hypothesis).
* **`Engine_proofs`**: all the properties of `engine`, for any rules files,
  captures and packets. The invariant adds to them what the rule sets contain after
  each line and where each element came from (`RulesInv`), and which phase of main
  allows what (`MainInv`). `NothingElseBlocked` rests on the conversion of addresses
  being one-to-one.

## What is only model-checked

* Every liveness property (`TimedPopReturns`, `ReturnAfterShutdown`, `Termination`,
  `EveryScrapeAnswered`, `CaptureEnds`): fairness and ENABLED are outside the
  prover's reach. What of them needs no fairness is proved: for the queue and the
  pipeline a measure that the steps lower and that somebody can take one, for
  `CaptureEnds` the measure, for `EveryScrapeAnswered` the measure and what alone ends
  the server's loop.
* What the violated properties say: TLC shows the counterexample.

## What is not checked

* `OutputReadsBack` says nothing of an input in the other byte order: the writer takes
  over its global header as it is, and writes record headers in the machine's
  order, so that no reader can make sense of the file. No document of the
  repository promises more.
* `NothingElseBlocked` says nothing of files with lines out of range: port 65616
  blocks port 80, and an octet over 255 adds ones to its neighbour. Both are in
  the model, and `RulesInForce` holds of the other lines.

* `EveryScrapeAnswered` excepts what the code does not survive: after one failed accept
  nobody is served any more, and a scraper that hangs up can end the process by
  SIGPIPE. Both are in the model, and no document of the repository promises more.
* `StopReturns` is violated also when main returns early because the output cannot be
  opened: the destructor then calls the same `stop()`. `Engine` ends there and does
  not follow the server.

## What is not modelled

* Logger: nothing in the engine reads the log. The time stamp before the mutex is
  noted above.
* `FiveTuple::toString` and other formatting; the amounts `bytes_total_` and
  `lat_sum_us_` add up; `active_flows_`, which nothing sets. The application of
  a name is a constant of `FlowEngine`, the one `AppNames` works out.
* Errors of the disk while writing: the code does not look at them.
* Command line and report: parsing and printing. `--workers 0` divides by zero in
  the balancer; the models assume at least one worker.
* Tests, build files, container, dashboards: no behaviour of their own.
