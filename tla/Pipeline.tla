------------------------------ MODULE Pipeline ------------------------------
(***************************************************************************)
(* The threads of one run of the engine (src/main.cpp, load_balancer.cpp,  *)
(* fast_path.cpp) and the queues between them:                             *)
(*                                                                         *)
(*   main (reader) -> input_queue_ -> load balancer -> one input_queue_    *)
(*   per worker -> workers -> output_queue -> writer -> output file        *)
(*                                                                         *)
(* A job is the position of its packet in the capture.  Queue operations   *)
(* are the atomic ones of BoundedQueue, whose blocking push waits for room *)
(* or shutdown and whose timed pop returns nothing only from an empty      *)
(* queue.  What a worker decides about a packet is left open here: either  *)
(* verdict is possible for any packet (FlowEngine models the decision).    *)
(***************************************************************************)
EXTENDS Naturals, Sequences, FiniteSets, Functions

CONSTANTS NumWorkers,   \* --workers
          Tuples,       \* the five-tuples that occur
          Hash,         \* FiveTupleHash on them
          NotTcpUdp,    \* what stands in the capture for any other packet
          Capture,      \* the input file: one five-tuple (or NotTcpUdp) per packet
          InputCap,     \* capacity of the load balancer's input queue
          WorkerCap,    \* capacity of each worker's input queue
          OutputCap     \* capacity of the output queue

ASSUME NumWorkersAssumption == NumWorkers \in Nat \ {0}
ASSUME TuplesAssumption == NotTcpUdp \notin Tuples
ASSUME HashAssumption == Hash \in [Tuples -> Nat]
ASSUME CaptureAssumption == Capture \in Seq(Tuples \cup {NotTcpUdp})
ASSUME CapAssumption == {InputCap, WorkerCap, OutputCap} \subseteq Nat \ {0}

Workers == 0 .. NumWorkers - 1
Packets == 1 .. Len(Capture)

\* The packets with a five-tuple: main skips every other one.
Accepted == {job \in Packets : Capture[job] \in Tuples}

\* Mutant of Route: round robin, without regard to the flow.
RouteRoundRobin(job) == job % NumWorkers

\* load_balancer.cpp: hash(5-tuple) % N.
Route(job) == Hash[Capture[job]] % NumWorkers

VARIABLES
    mainPc, stopping, mainJob, read,       \* main; read packets of the capture are read
    inputQueue, inputShut,                 \* the load balancer's input_queue_
    lbPc, lbRunning, lbJob, dispatched,    \* the load balancer
    workerQueue, workerShut,               \* the workers' input_queue_s
    workerPc, workerRunning, workerJob,    \* the workers
    processed,                             \* their processed_ counters
    outputQueue, outputShut,               \* output_queue
    writerPc, writerRunning, writerJob,    \* the writer
    written,                               \* the packets in the file it writes
    stats,                                 \* the shared DPIStats
    discarded,                             \* history: jobs dropped by a rule
    refused                                \* history: jobs lost in a refused push

mainVars   == <<mainPc, stopping, mainJob, read>>
inputVars  == <<inputQueue, inputShut>>
lbVars     == <<lbPc, lbRunning, lbJob, dispatched>>
wqVars     == <<workerQueue, workerShut>>
workerVars == <<workerPc, workerRunning, workerJob, processed>>
outVars    == <<outputQueue, outputShut>>
writerVars == <<writerPc, writerRunning, writerJob, written>>
history    == <<discarded, refused>>
vars == <<mainVars, inputVars, lbVars, wqVars, workerVars, outVars, writerVars,
          stats, history>>

NoJob == 0

\* The counters of DPIStats that the report compares; tcp_udp is the sum of two.
Stats == [tcp_udp : Nat, total : Nat, forwarded : Nat, dropped : Nat]

\* The writer thread is started before main gets here; the other threads are
\* not, and their running_ flags are false.
Init ==
    /\ mainPc = "startWorkers" /\ stopping = 0 /\ mainJob = NoJob /\ read = 0
    /\ inputQueue = <<>> /\ inputShut = FALSE
    /\ lbPc = "unborn" /\ lbRunning = FALSE /\ lbJob = NoJob /\ dispatched = 0
    /\ workerQueue = [w \in Workers |-> <<>>]
    /\ workerShut = [w \in Workers |-> FALSE]
    /\ workerPc = [w \in Workers |-> "unborn"]
    /\ workerRunning = [w \in Workers |-> FALSE]
    /\ workerJob = [w \in Workers |-> NoJob]
    /\ processed = [w \in Workers |-> 0]
    /\ outputQueue = <<>> /\ outputShut = FALSE
    /\ writerPc = "top" /\ writerRunning = TRUE /\ writerJob = NoJob /\ written = <<>>
    /\ stats = [tcp_udp |-> 0, total |-> 0, forwarded |-> 0, dropped |-> 0]
    /\ discarded = {} /\ refused = {}

-----------------------------------------------------------------------------
(* main, up to the end of the capture.  stopping is the index of its       *)
(* loops over the workers.                                                 *)

\* w->start() for the next worker: the flag first, then the thread.
StartWorker ==
    /\ mainPc = "startWorkers" /\ stopping < NumWorkers
    /\ workerRunning' = [workerRunning EXCEPT ![stopping] = TRUE]
    /\ workerPc' = [workerPc EXCEPT ![stopping] = "top"]
    /\ stopping' = stopping + 1
    /\ UNCHANGED <<mainPc, mainJob, read, inputVars, lbVars, wqVars, workerJob,
                   processed, outVars, writerVars, stats, history>>

StartBalancer ==
    /\ mainPc = "startWorkers" /\ stopping = NumWorkers
    /\ lbRunning' = TRUE /\ lbPc' = "top"
    /\ mainPc' = "read" /\ stopping' = 0
    /\ UNCHANGED <<mainJob, read, inputVars, lbJob, dispatched, wqVars,
                   workerVars, outVars, writerVars, stats, history>>

\* One turn of the reader loop up to its push; a packet that is not TCP or UDP
\* over IPv4 is skipped.
ReadPacket ==
    /\ mainPc = "read" /\ read < Len(Capture)
    /\ read' = read + 1
    /\ IF read + 1 \in Accepted
       THEN /\ mainJob' = read + 1
            /\ mainPc' = "push"
            /\ stats' = [stats EXCEPT !.tcp_udp = @ + 1]
       ELSE UNCHANGED <<mainJob, mainPc, stats>>
    /\ UNCHANGED <<stopping, inputVars, lbVars, wqVars, workerVars, outVars,
                   writerVars, history>>

\* Mutant of PushInput: the queue takes whatever comes.
PushInputUnbounded ==
    /\ mainPc = "push"
    /\ inputQueue' = Append(inputQueue, mainJob)
    /\ mainJob' = NoJob /\ mainPc' = "read"
    /\ UNCHANGED <<stopping, read, inputShut, lbVars, wqVars, workerVars, outVars,
                   writerVars, stats, history>>

PushInput ==
    /\ mainPc = "push"
    /\ inputShut \/ Len(inputQueue) < InputCap
    /\ IF inputShut
       THEN inputQueue' = inputQueue /\ refused' = refused \cup {mainJob}
       ELSE inputQueue' = Append(inputQueue, mainJob) /\ refused' = refused
    /\ mainJob' = NoJob /\ mainPc' = "read"
    /\ UNCHANGED <<stopping, read, inputShut, lbVars, wqVars, workerVars, outVars,
                   writerVars, stats, discarded>>

\* End of the capture, and the fixed sleep that follows it: whatever the other
\* threads do during 500 ms, they need not be done with it.
EndOfCapture ==
    /\ mainPc = "read" /\ read = Len(Capture)
    /\ mainPc' = "stopBalancer"
    /\ UNCHANGED <<stopping, mainJob, read, inputVars, lbVars, wqVars, workerVars,
                   outVars, writerVars, stats, history>>

-----------------------------------------------------------------------------
(* main, shutting down: lb.stop(), every w->stop() in order, the writer.   *)
(* Each stop() clears the running flag, shuts the queue down, and joins.   *)

StopBalancer ==
    /\ mainPc = "stopBalancer"
    /\ lbRunning' = FALSE /\ mainPc' = "shutInput"
    /\ UNCHANGED <<stopping, mainJob, read, inputVars, lbPc, lbJob, dispatched,
                   wqVars, workerVars, outVars, writerVars, stats, history>>

ShutInput ==
    /\ mainPc = "shutInput"
    /\ inputShut' = TRUE /\ mainPc' = "joinBalancer"
    /\ UNCHANGED <<stopping, mainJob, read, inputQueue, lbVars, wqVars, workerVars,
                   outVars, writerVars, stats, history>>

JoinBalancer ==
    /\ mainPc = "joinBalancer" /\ lbPc = "exit"
    /\ mainPc' = "stopWorker"
    /\ UNCHANGED <<stopping, mainJob, read, inputVars, lbVars, wqVars, workerVars,
                   outVars, writerVars, stats, history>>

\* Mutant of StopWorker: running_ is not cleared.
StopWorkerStillRunning ==
    /\ mainPc = "stopWorker" /\ stopping < NumWorkers
    /\ mainPc' = "shutWorker"
    /\ UNCHANGED <<stopping, mainJob, read, inputVars, lbVars, wqVars, workerVars,
                   outVars, writerVars, stats, history>>

StopWorker ==
    /\ mainPc = "stopWorker" /\ stopping < NumWorkers
    /\ workerRunning' = [workerRunning EXCEPT ![stopping] = FALSE]
    /\ mainPc' = "shutWorker"
    /\ UNCHANGED <<stopping, mainJob, read, inputVars, lbVars, wqVars, workerPc,
                   workerJob, processed, outVars, writerVars, stats, history>>

ShutWorker ==
    /\ mainPc = "shutWorker"
    /\ workerShut' = [workerShut EXCEPT ![stopping] = TRUE]
    /\ mainPc' = "joinWorker"
    /\ UNCHANGED <<stopping, mainJob, read, inputVars, lbVars, workerQueue,
                   workerVars, outVars, writerVars, stats, history>>

\* Mutant of JoinWorker: the thread is detached instead of joined.
DetachWorker ==
    /\ mainPc = "joinWorker"
    /\ stopping' = stopping + 1 /\ mainPc' = "stopWorker"
    /\ UNCHANGED <<mainJob, read, inputVars, lbVars, wqVars, workerVars, outVars,
                   writerVars, stats, history>>

JoinWorker ==
    /\ mainPc = "joinWorker" /\ workerPc[stopping] = "exit"
    /\ stopping' = stopping + 1 /\ mainPc' = "stopWorker"
    /\ UNCHANGED <<mainJob, read, inputVars, lbVars, wqVars, workerVars, outVars,
                   writerVars, stats, history>>

StopWriter ==
    /\ mainPc = "stopWorker" /\ stopping = NumWorkers
    /\ writerRunning' = FALSE /\ mainPc' = "shutOutput"
    /\ UNCHANGED <<stopping, mainJob, read, inputVars, lbVars, wqVars, workerVars,
                   outVars, writerPc, writerJob, written, stats, history>>

ShutOutput ==
    /\ mainPc = "shutOutput"
    /\ outputShut' = TRUE /\ mainPc' = "joinWriter"
    /\ UNCHANGED <<stopping, mainJob, read, inputVars, lbVars, wqVars, workerVars,
                   outputQueue, writerVars, stats, history>>

\* After this the file is closed and the report printed from stats.
JoinWriter ==
    /\ mainPc = "joinWriter" /\ writerPc = "exit"
    /\ mainPc' = "done"
    /\ UNCHANGED <<stopping, mainJob, read, inputVars, lbVars, wqVars, workerVars,
                   outVars, writerVars, stats, history>>

-----------------------------------------------------------------------------
(* LoadBalancer::run.                                                      *)

BalancerTop ==
    /\ lbPc = "top"
    /\ lbPc' = IF lbRunning THEN "pop" ELSE "exit"
    /\ UNCHANGED <<mainVars, inputVars, lbRunning, lbJob, dispatched, wqVars,
                   workerVars, outVars, writerVars, stats, history>>

BalancerPop ==
    /\ lbPc = "pop"
    /\ IF inputQueue = <<>>
       THEN lbPc' = "top" /\ UNCHANGED <<inputQueue, lbJob>>
       ELSE /\ lbJob' = Head(inputQueue)
            /\ inputQueue' = Tail(inputQueue)
            /\ lbPc' = "push"
    /\ UNCHANGED <<mainVars, inputShut, lbRunning, dispatched, wqVars, workerVars,
                   outVars, writerVars, stats, history>>

\* Mutant of Dispatch: tryPush instead of push.
DispatchOrDrop ==
    LET w == Route(lbJob) IN
    /\ lbPc = "push"
    /\ workerQueue' = IF workerShut[w] \/ Len(workerQueue[w]) >= WorkerCap THEN workerQueue
                      ELSE [workerQueue EXCEPT ![w] = Append(@, lbJob)]
    /\ dispatched' = dispatched + 1
    /\ lbJob' = NoJob /\ lbPc' = "top"
    /\ UNCHANGED <<mainVars, inputVars, lbRunning, workerShut, workerVars, outVars,
                   writerVars, stats, history>>

\* The push to the worker the flow is routed to, and dispatched_++.
Dispatch ==
    LET w == Route(lbJob) IN
    /\ lbPc = "push"
    /\ workerShut[w] \/ Len(workerQueue[w]) < WorkerCap
    /\ IF workerShut[w]
       THEN workerQueue' = workerQueue /\ refused' = refused \cup {lbJob}
       ELSE /\ workerQueue' = [workerQueue EXCEPT ![w] = Append(@, lbJob)]
            /\ refused' = refused
    /\ dispatched' = dispatched + 1
    /\ lbJob' = NoJob /\ lbPc' = "top"
    /\ UNCHANGED <<mainVars, inputVars, lbRunning, workerShut, workerVars, outVars,
                   writerVars, stats, discarded>>

-----------------------------------------------------------------------------
(* FastPathWorker::run and processPacket.                                  *)

WorkerTop(w) ==
    /\ workerPc[w] = "top"
    /\ workerPc' = [workerPc EXCEPT ![w] = IF workerRunning[w] THEN "pop" ELSE "exit"]
    /\ UNCHANGED <<mainVars, inputVars, lbVars, wqVars, workerRunning, workerJob,
                   processed, outVars, writerVars, stats, history>>

WorkerPop(w) ==
    /\ workerPc[w] = "pop"
    /\ IF workerQueue[w] = <<>>
       THEN /\ workerPc' = [workerPc EXCEPT ![w] = "top"]
            /\ UNCHANGED <<workerQueue, workerJob>>
       ELSE /\ workerJob' = [workerJob EXCEPT ![w] = Head(workerQueue[w])]
            /\ workerQueue' = [workerQueue EXCEPT ![w] = Tail(@)]
            /\ workerPc' = [workerPc EXCEPT ![w] = "process"]
    /\ UNCHANGED <<mainVars, inputVars, lbVars, workerShut, workerRunning, processed,
                   outVars, writerVars, stats, history>>

\* processPacket decides to drop: counted, and the loop goes on.
DropPacket(w) ==
    /\ workerPc[w] = "process"
    /\ stats' = [stats EXCEPT !.total = @ + 1, !.dropped = @ + 1]
    /\ discarded' = discarded \cup {workerJob[w]}
    /\ workerJob' = [workerJob EXCEPT ![w] = NoJob]
    /\ processed' = [processed EXCEPT ![w] = @ + 1]
    /\ workerPc' = [workerPc EXCEPT ![w] = "top"]
    /\ UNCHANGED <<mainVars, inputVars, lbVars, wqVars, workerRunning, outVars,
                   writerVars, refused>>

\* ... or to forward: counted as forwarded before the push, which may wait.
ForwardPacket(w) ==
    /\ workerPc[w] = "process"
    /\ stats' = [stats EXCEPT !.total = @ + 1, !.forwarded = @ + 1]
    /\ workerPc' = [workerPc EXCEPT ![w] = "push"]
    /\ UNCHANGED <<mainVars, inputVars, lbVars, wqVars, workerRunning, workerJob,
                   processed, outVars, writerVars, history>>

\* Mutant of PushOutput: one place too many.
PushOutputOffByOne(w) ==
    /\ workerPc[w] = "push"
    /\ outputShut \/ Len(outputQueue) <= OutputCap
    /\ outputQueue' = IF outputShut THEN outputQueue ELSE Append(outputQueue, workerJob[w])
    /\ workerJob' = [workerJob EXCEPT ![w] = NoJob]
    /\ processed' = [processed EXCEPT ![w] = @ + 1]
    /\ workerPc' = [workerPc EXCEPT ![w] = "top"]
    /\ UNCHANGED <<mainVars, inputVars, lbVars, wqVars, workerRunning, outputShut,
                   writerVars, stats, history>>

PushOutput(w) ==
    /\ workerPc[w] = "push"
    /\ outputShut \/ Len(outputQueue) < OutputCap
    /\ IF outputShut
       THEN outputQueue' = outputQueue /\ refused' = refused \cup {workerJob[w]}
       ELSE outputQueue' = Append(outputQueue, workerJob[w]) /\ refused' = refused
    /\ workerJob' = [workerJob EXCEPT ![w] = NoJob]
    /\ processed' = [processed EXCEPT ![w] = @ + 1]
    /\ workerPc' = [workerPc EXCEPT ![w] = "top"]
    /\ UNCHANGED <<mainVars, inputVars, lbVars, wqVars, workerRunning, outputShut,
                   writerVars, stats, discarded>>

-----------------------------------------------------------------------------
(* The writer thread: while (writer_running || !output_queue.empty()).     *)

\* Mutant of WriterTop: while (writer_running), without the queue's empty().
WriterTopNoDrain ==
    /\ writerPc = "top"
    /\ writerPc' = IF writerRunning THEN "pop" ELSE "exit"
    /\ UNCHANGED <<mainVars, inputVars, lbVars, wqVars, workerVars, outVars,
                   writerRunning, writerJob, written, stats, history>>

\* Another: while (writer_running && !output_queue.empty()).
WriterTopWhileFilled ==
    /\ writerPc = "top"
    /\ writerPc' = IF writerRunning /\ outputQueue # <<>> THEN "pop" ELSE "exit"
    /\ UNCHANGED <<mainVars, inputVars, lbVars, wqVars, workerVars, outVars,
                   writerRunning, writerJob, written, stats, history>>

WriterTop ==
    /\ writerPc = "top"
    /\ writerPc' = IF writerRunning THEN "pop" ELSE "drain"
    /\ UNCHANGED <<mainVars, inputVars, lbVars, wqVars, workerVars, outVars,
                   writerRunning, writerJob, written, stats, history>>

WriterDrain ==
    /\ writerPc = "drain"
    /\ writerPc' = IF outputQueue = <<>> THEN "exit" ELSE "pop"
    /\ UNCHANGED <<mainVars, inputVars, lbVars, wqVars, workerVars, outVars,
                   writerRunning, writerJob, written, stats, history>>

WriterPop ==
    /\ writerPc = "pop"
    /\ IF outputQueue = <<>>
       THEN writerPc' = "top" /\ UNCHANGED <<outputQueue, writerJob>>
       ELSE /\ writerJob' = Head(outputQueue)
            /\ outputQueue' = Tail(outputQueue)
            /\ writerPc' = "write"
    /\ UNCHANGED <<mainVars, inputVars, lbVars, wqVars, workerVars, outputShut,
                   writerRunning, written, stats, history>>

WritePacket ==
    /\ writerPc = "write"
    /\ written' = Append(written, writerJob)
    /\ writerJob' = NoJob /\ writerPc' = "top"
    /\ UNCHANGED <<mainVars, inputVars, lbVars, wqVars, workerVars, outVars,
                   writerRunning, stats, history>>

-----------------------------------------------------------------------------
Main == \/ StartWorker \/ StartBalancer \/ ReadPacket \/ PushInput \/ EndOfCapture
        \/ StopBalancer \/ ShutInput \/ JoinBalancer
        \/ StopWorker \/ ShutWorker \/ JoinWorker
        \/ StopWriter \/ ShutOutput \/ JoinWriter
Balancer == BalancerTop \/ BalancerPop \/ Dispatch
Worker(w) == \/ WorkerTop(w) \/ WorkerPop(w) \/ DropPacket(w) \/ ForwardPacket(w)
             \/ PushOutput(w)
Writer == WriterTop \/ WriterDrain \/ WriterPop \/ WritePacket

\* Everything has been joined: only the report is left.
Finished == mainPc = "done" /\ UNCHANGED vars

Next == Main \/ Balancer \/ (\E w \in Workers : Worker(w)) \/ Writer \/ Finished

Spec == Init /\ [][Next]_vars

\* Every thread is scheduled; nothing else is assumed (a timed pop of an empty
\* queue comes back by itself, and one that finds an item takes it).
Fairness == /\ WF_vars(Main) /\ WF_vars(Balancer) /\ WF_vars(Writer)
            /\ \A w \in Workers : WF_vars(Worker(w))

FairSpec == Spec /\ Fairness

-----------------------------------------------------------------------------
(* Properties.                                                             *)

Jobs == Accepted \cup {NoJob}

TypeOK ==
    /\ mainPc \in {"startWorkers", "read", "push", "stopBalancer", "shutInput",
                   "joinBalancer", "stopWorker", "shutWorker", "joinWorker",
                   "shutOutput", "joinWriter", "done"}
    /\ stopping \in 0 .. NumWorkers /\ mainJob \in Jobs /\ read \in 0 .. Len(Capture)
    /\ inputQueue \in Seq(Accepted) /\ Len(inputQueue) <= InputCap
    /\ inputShut \in BOOLEAN
    /\ lbPc \in {"unborn", "top", "pop", "push", "exit"}
    /\ lbRunning \in BOOLEAN /\ lbJob \in Jobs /\ dispatched \in Nat
    /\ workerQueue \in [Workers -> Seq(Accepted)]
    /\ \A w \in Workers : Len(workerQueue[w]) <= WorkerCap
    /\ workerShut \in [Workers -> BOOLEAN]
    /\ workerPc \in [Workers -> {"unborn", "top", "pop", "process", "push", "exit"}]
    /\ workerRunning \in [Workers -> BOOLEAN]
    /\ workerJob \in [Workers -> Jobs]
    /\ processed \in [Workers -> Nat]
    /\ outputQueue \in Seq(Accepted) /\ Len(outputQueue) <= OutputCap
    /\ outputShut \in BOOLEAN
    /\ writerPc \in {"top", "pop", "write", "drain", "exit"}
    /\ writerRunning \in BOOLEAN /\ writerJob \in Jobs /\ written \in Seq(Accepted)
    /\ stats \in Stats
    /\ discarded \subseteq Accepted /\ refused \subseteq Jobs

\* main, the balancer and the workers all ignore what push returns.  They may:
\* the shutdown order (every queue after the thread that feeds it is joined)
\* means that no push ever finds its queue shut down.
NoRefusedPush == refused = {}

\* Packets of one flow reach the output file in capture order, each at most
\* once, although they cross four threads and two flows may overtake each other.
FlowOrder ==
    \A i, j \in 1 .. Len(written) :
        i < j /\ Capture[written[i]] = Capture[written[j]] => written[i] < written[j]

\* Nothing is lost on the way: when the run is over, an accepted packet that is
\* neither dropped by a rule nor in the file is still in the input queue of a
\* thread that was stopped before it came to it.
OnlyQueuedIsLost ==
    mainPc = "done" =>
        \A job \in Accepted :
            job \in discarded \cup Range(written) \cup Range(inputQueue)
                      \cup UNION {Range(workerQueue[w]) : w \in Workers}

\* The report printed at the end agrees with the file and with itself, and what
\* tcp_packets + udp_packets counts beyond total_packets is what was still in
\* an input queue when its consumer was stopped.
ReportConsistent ==
    mainPc = "done" =>
        /\ stats.forwarded = Len(written)
        /\ stats.dropped = Cardinality(discarded)
        /\ stats.total = stats.forwarded + stats.dropped
        /\ stats.tcp_udp - stats.total =
             Len(inputQueue) +
               Cardinality(UNION {{<<w, i>> : i \in 1 .. Len(workerQueue[w])} : w \in Workers})

\* Backpressure: however long the capture, the packets the balancer has not
\* passed on fit its queue and the hands of main and the balancer, and those it
\* has, but that are neither dropped nor written, fit the other queues and the
\* hands of the workers and the writer.
InFlightBound ==
    /\ stats.tcp_udp - dispatched <= InputCap + 2
    /\ dispatched - stats.dropped - Len(written) <= NumWorkers * (WorkerCap + 1) + OutputCap + 1

\* Who gets on without waiting for anybody: with its next step, or within one
\* turn of its loop, because there is something in its queue or the loop ends.
MainAdvances ==
    /\ mainPc # "done"
    /\ mainPc = "push" => inputShut \/ Len(inputQueue) < InputCap
    /\ mainPc = "joinBalancer" => lbPc = "exit"
    /\ mainPc = "joinWorker" => workerPc[stopping] = "exit"
    /\ mainPc = "joinWriter" => writerPc = "exit"
BalancerAdvances ==
    \/ lbPc = "push" /\ LET w == Route(lbJob) IN workerShut[w] \/ Len(workerQueue[w]) < WorkerCap
    \/ lbPc \in {"top", "pop"} /\ (inputQueue # <<>> \/ ~lbRunning)
WorkerAdvances(w) ==
    \/ workerPc[w] = "process"
    \/ workerPc[w] = "push" /\ (outputShut \/ Len(outputQueue) < OutputCap)
    \/ workerPc[w] \in {"top", "pop"} /\ (workerQueue[w] # <<>> \/ ~workerRunning[w])
WriterAdvances ==
    \/ writerPc = "write"
    \/ writerPc # "exit" /\ (outputQueue # <<>> \/ ~writerRunning)

\* No deadlock, and no livelock behind the polling loops: at every moment of the
\* run somebody gets on.  Full queues and joins never wait for one another in a
\* circle, nor for a thread that ended or was told to end too early.
NoCircularWait ==
    mainPc = "done" \/ MainAdvances \/ BalancerAdvances \/ WriterAdvances
      \/ \E w \in Workers : WorkerAdvances(w)

\* Packets a worker has yet to decide about, or to push on; those of flow t.
Undecided ==
    (({workerJob[w] : w \in Workers} \cup {lbJob, mainJob}) \ {NoJob})
      \cup Range(inputQueue) \cup UNION {Range(workerQueue[w]) : w \in Workers}
Waiting(t) == {job \in Undecided : Capture[job] = t}

\* Packets that wait for the writer, its own first.
Leaving == (IF writerPc = "write" THEN <<writerJob>> ELSE <<>>) \o outputQueue

\* The threads together implement one filter per flow: each flow's packets are
\* decided in order, each exactly once, and at the end everything forwarded is
\* in the file; a packet lost at the end is the last of its flow or followed
\* only by lost ones.
Filter == INSTANCE FlowFilter WITH
              waiting <- [t \in Tuples |-> Waiting(t)],
              leaving <- Leaving,
              finished <- (mainPc = "done")

ImplementsFlowFilter == Filter!Spec

\* The run comes to its end: no cycle of full queues, no join that waits for
\* a thread blocked in a queue.
Termination == <>(mainPc = "done")

\* "Drain + shutdown", main.cpp: when the run is over every packet accepted
\* from the capture has been dropped by a rule or written.
Drained ==
    mainPc = "done" =>
        \A job \in Accepted :
            job \in discarded \cup Range(written)

\* When that is right: if all packets happen to be decided by the time main has
\* read the last one and begins to stop the threads, or at any moment after it, then
\* nothing is lost any more, however the rest of the shutdown goes.
Settled == mainPc \notin {"startWorkers", "read", "push"} /\ Undecided = {}
SettledIsDrained == [](Settled => []Drained)

=============================================================================
