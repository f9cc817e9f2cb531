-------------------------- MODULE Pipeline_proofs --------------------------
(***************************************************************************)
(* Proofs about Pipeline for any number of workers, any capture, hash and  *)
(* queue capacities.  PhaseInv ties the flags and the other threads to how *)
(* far main has come; JobInv says where a thread holds a packet; together  *)
(* they show that no push finds its queue shut down.  OrderInv follows the *)
(* packets of each worker from queue to queue, and CompleteInv says that   *)
(* an accepted packet is always somewhere.                                 *)
(***************************************************************************)
EXTENDS Pipeline, SequenceTheorems, TLAPS

\* Where main is, in the order it goes through them.
Starting  == {"startWorkers"}
Reading   == {"read", "push", "stopBalancer", "shutInput"}
StoppingB == {"joinBalancer"}
StoppingW == {"stopWorker", "shutWorker", "joinWorker"}
Joined    == {"shutOutput", "joinWriter", "done"}

PhaseInv ==
    /\ mainPc \in Starting <=> lbPc = "unborn"
    /\ mainPc \in Starting \cup Reading => ~inputShut
    /\ mainPc \in StoppingW \cup Joined => lbPc = "exit"
    /\ mainPc \in Starting \cup Reading \cup StoppingB =>
         writerRunning /\ \A w \in Workers : ~workerShut[w]
    /\ mainPc \in StoppingW =>
         writerRunning /\ \A w \in Workers : w < stopping => workerPc[w] = "exit"
    /\ mainPc \in {"shutWorker", "joinWorker"} => stopping < NumWorkers
    /\ mainPc \in Joined => ~writerRunning /\ \A w \in Workers : workerPc[w] = "exit"
    /\ outputShut => mainPc \in {"joinWriter", "done"}
    /\ writerPc \in {"drain", "exit"} => ~writerRunning
    /\ writerPc = "exit" => outputQueue = <<>>
    /\ mainPc = "done" => writerPc = "exit"
    /\ mainPc \in Reading \cup StoppingB => stopping = 0
    /\ mainPc \notin Starting \cup {"read", "push"} => read = Len(Capture)
    /\ \A w \in Workers : workerPc[w] = "unborn" <=> mainPc \in Starting /\ w >= stopping

\* A thread has a packet in its hands exactly at these points.
JobInv ==
    /\ IF mainPc = "push" THEN mainJob \in Accepted /\ mainJob = read ELSE mainJob = NoJob
    /\ IF lbPc = "push" THEN lbJob \in Accepted ELSE lbJob = NoJob
    /\ \A w \in Workers : IF workerPc[w] \in {"process", "push"}
                          THEN workerJob[w] \in Accepted ELSE workerJob[w] = NoJob
    /\ IF writerPc = "write" THEN writerJob \in Accepted ELSE writerJob = NoJob
    /\ refused = {}

Base == TypeOK /\ PhaseInv /\ JobInv

\* Where accepted packets are, from the file back to main's hand.
Held(job) == {job} \ {NoJob}
InHand == {workerJob[w] : w \in Workers} \ {NoJob}
Queued == UNION {Range(workerQueue[w]) : w \in Workers}
Stage == <<Range(written), Held(writerJob), Range(outputQueue), InHand, Queued,
           Held(lbJob), Range(inputQueue), Held(mainJob)>>
Stages == 1 .. 8

\* Of two packets for one worker the older one is further on.
Ahead(X, Y) == \A x \in X, y \in Y : Route(x) = Route(y) => x < y
InOrder(A) == \A k, l \in Stages : k < l => Ahead(A[k], A[l])
Ordered(q) == \A i, j \in 1 .. Len(q) : i < j /\ Route(q[i]) = Route(q[j]) => q[i] < q[j]

OrderInv ==
    /\ InOrder(Stage)
    /\ Ordered(written) /\ Ordered(outputQueue) /\ Ordered(inputQueue)
    /\ \A w \in Workers :
         /\ Ordered(workerQueue[w])
         /\ \A job \in Range(workerQueue[w]) \cup Held(workerJob[w]) : Route(job) = w
    /\ \A k \in Stages : \A job \in Stage[k] : job <= read

\* Every accepted packet that was read is dropped or at some stage.
CompleteInv ==
    \A job \in Accepted :
        job <= read => job \in discarded \/ \E k \in Stages : job \in Stage[k]

IInv == Base /\ OrderInv /\ CompleteInv

USE DEF mainVars, inputVars, lbVars, wqVars, workerVars, outVars, writerVars, history
USE DEF Starting, Reading, StoppingB, StoppingW, Joined

-----------------------------------------------------------------------------
(* Queues, routing, the counters.                                          *)

LEMMA Pushed ==
    ASSUME NEW S, NEW q \in Seq(S), NEW x \in S
    PROVE  /\ Append(q, x) \in Seq(S)
           /\ Len(Append(q, x)) = Len(q) + 1
           /\ Append(q, x) # <<>>
           /\ \A i \in 1 .. Len(q) : Append(q, x)[i] = q[i]
           /\ Append(q, x)[Len(q) + 1] = x
  OBVIOUS

LEMMA Popped ==
    ASSUME NEW S, NEW q \in Seq(S), q # <<>>
    PROVE  /\ Head(q) \in S
           /\ Tail(q) \in Seq(S)
           /\ Len(Tail(q)) = Len(q) - 1
           /\ Len(q) \in Nat \ {0}
           /\ Head(q) = q[1]
           /\ \A i \in 1 .. Len(q) - 1 : Tail(q)[i] = q[i + 1]
  BY EmptySeq, HeadTailProperties

LEMMA ModBound ==
    ASSUME NEW a \in Nat, NEW n \in Nat \ {0}
    PROVE  a % n \in 0 .. n - 1
  OBVIOUS

LEMMA RouteType == \A job \in Accepted : Route(job) \in Workers
  BY ModBound, HashAssumption, NumWorkersAssumption DEF Route, Workers, Accepted

LEMMA LenCapture == Len(Capture) \in Nat
  BY CaptureAssumption

LEMMA NoJobNotAccepted == NoJob \notin Accepted
  BY LenCapture DEF NoJob, Accepted, Packets

LEMMA Counted ==
    ASSUME NEW s \in Stats
    PROVE  /\ [s EXCEPT !.tcp_udp = @ + 1] \in Stats
           /\ [s EXCEPT !.total = @ + 1, !.forwarded = @ + 1] \in Stats
           /\ [s EXCEPT !.total = @ + 1, !.dropped = @ + 1] \in Stats
<1>1. /\ s.tcp_udp + 1 \in Nat /\ s.total + 1 \in Nat
      /\ s.forwarded + 1 \in Nat /\ s.dropped + 1 \in Nat
  BY DEF Stats
<1>2. [s EXCEPT !.tcp_udp = @ + 1] \in Stats
  BY <1>1 DEF Stats
<1>3. [s EXCEPT !.total = @ + 1, !.forwarded = @ + 1] \in Stats
  BY <1>1 DEF Stats
<1>4. [s EXCEPT !.total = @ + 1, !.dropped = @ + 1] \in Stats
  BY <1>1 DEF Stats
<1> QED BY <1>2, <1>3, <1>4

LEMMA Updated ==
    ASSUME NEW S, NEW f \in [Workers -> S], NEW w \in Workers, NEW x \in S
    PROVE  [f EXCEPT ![w] = x] \in [Workers -> S]
  OBVIOUS

-----------------------------------------------------------------------------
(* Every action preserves Base.                                            *)

LEMMA StartWorkerBase == ASSUME Base, StartWorker PROVE Base'
<1>1. TypeOK'
  <2>1. stopping' \in 0 .. NumWorkers /\ mainPc' = mainPc
    BY NumWorkersAssumption DEF Base, TypeOK, StartWorker
  <2>2. /\ workerRunning' \in [Workers -> BOOLEAN]
        /\ workerPc' \in [Workers -> {"unborn", "top", "pop", "process", "push", "exit"}]
    BY DEF Base, TypeOK, StartWorker
  <2>3. UNCHANGED <<mainJob, read, inputVars, lbVars, wqVars, workerJob, processed,
                    outVars, writerVars, stats, history>>
    BY DEF StartWorker
  <2> QED BY <2>1, <2>2, <2>3 DEF Base, TypeOK
<1>2. PhaseInv'
  <2>1. \A w \in Workers : workerPc'[w] = "unborn" <=> w >= stopping'
    <3>1. /\ stopping \in Workers /\ stopping' = stopping + 1
          /\ workerPc' = [workerPc EXCEPT ![stopping] = "top"]
          /\ DOMAIN workerPc = Workers
      BY NumWorkersAssumption DEF Base, TypeOK, Workers, StartWorker
    <3>2. \A w \in Workers : workerPc[w] = "unborn" <=> w >= stopping
      BY DEF Base, PhaseInv, StartWorker
    <3>3. \A w \in Workers : w >= stopping + 1 <=> w >= stopping /\ w # stopping
      BY <3>1 DEF Workers
    <3> QED BY <3>1, <3>2, <3>3
  <2> QED BY <2>1 DEF Base, TypeOK, PhaseInv, StartWorker
<1>3. JobInv'
  BY DEF Base, TypeOK, PhaseInv, JobInv, StartWorker
<1> QED BY <1>1, <1>2, <1>3 DEF Base

LEMMA StartBalancerBase == ASSUME Base, StartBalancer PROVE Base'
<1>1. TypeOK'
  BY DEF Base, TypeOK, Jobs, StartBalancer
<1>2. PhaseInv'
  BY NumWorkersAssumption DEF Base, TypeOK, PhaseInv, Workers, StartBalancer
<1>3. JobInv'
  BY DEF Base, TypeOK, PhaseInv, JobInv, StartBalancer
<1> QED BY <1>1, <1>2, <1>3 DEF Base

LEMMA ReadPacketBase == ASSUME Base, ReadPacket PROVE Base'
<1>1. TypeOK'
  <2>1. read' \in 0 .. Len(Capture)
    BY LenCapture DEF Base, TypeOK, ReadPacket
  <2>2. stats' \in Stats
    BY Counted DEF Base, TypeOK, ReadPacket
  <2>3. mainJob' \in Jobs
    BY DEF Base, TypeOK, ReadPacket, Jobs
  <2> QED BY <2>1, <2>2, <2>3 DEF Base, TypeOK, ReadPacket
<1>2. PhaseInv'
  BY DEF Base, TypeOK, PhaseInv, ReadPacket
<1>3. JobInv'
  BY DEF Base, TypeOK, PhaseInv, JobInv, ReadPacket
<1> QED BY <1>1, <1>2, <1>3 DEF Base

LEMMA PushInputBase == ASSUME Base, PushInput PROVE Base'
<1>1. TypeOK'
  <2>1. ~inputShut /\ mainJob \in Accepted
    BY DEF Base, PhaseInv, JobInv, PushInput
  <2>2. inputQueue' \in Seq(Accepted) /\ Len(inputQueue') <= InputCap
    <3>1. /\ inputQueue \in Seq(Accepted) /\ Len(inputQueue) < InputCap
          /\ inputQueue' = Append(inputQueue, mainJob)
      BY <2>1 DEF Base, TypeOK, PushInput
    <3> QED BY <2>1, <3>1, Pushed, CapAssumption
  <2> QED BY <2>1, <2>2 DEF Base, TypeOK, Jobs, PushInput
<1>2. PhaseInv'
  BY DEF Base, TypeOK, PhaseInv, PushInput
<1>3. JobInv'
  BY DEF Base, TypeOK, PhaseInv, JobInv, PushInput
<1> QED BY <1>1, <1>2, <1>3 DEF Base

LEMMA EndOfCaptureBase == ASSUME Base, EndOfCapture PROVE Base'
<1>1. TypeOK'
  BY DEF Base, TypeOK, Jobs, EndOfCapture
<1>2. PhaseInv'
  BY DEF Base, TypeOK, PhaseInv, EndOfCapture
<1>3. JobInv'
  BY DEF Base, TypeOK, PhaseInv, JobInv, EndOfCapture
<1> QED BY <1>1, <1>2, <1>3 DEF Base

LEMMA StopBalancerBase == ASSUME Base, StopBalancer PROVE Base'
<1>1. TypeOK'
  <2>1. lbRunning' \in BOOLEAN /\ mainPc' = "shutInput"
    BY DEF StopBalancer
  <2>2. UNCHANGED <<stopping, mainJob, read, inputVars, lbPc, lbJob, dispatched,
                    wqVars, workerVars, outVars, writerVars, stats, history>>
    BY DEF StopBalancer
  <2> QED BY <2>1, <2>2 DEF Base, TypeOK
<1>2. PhaseInv'
  BY DEF Base, TypeOK, PhaseInv, StopBalancer
<1>3. JobInv'
  BY DEF Base, TypeOK, PhaseInv, JobInv, StopBalancer
<1> QED BY <1>1, <1>2, <1>3 DEF Base

LEMMA ShutInputBase == ASSUME Base, ShutInput PROVE Base'
<1>1. TypeOK'
  BY DEF Base, TypeOK, Jobs, ShutInput
<1>2. PhaseInv'
  BY DEF Base, TypeOK, PhaseInv, ShutInput
<1>3. JobInv'
  BY DEF Base, TypeOK, PhaseInv, JobInv, ShutInput
<1> QED BY <1>1, <1>2, <1>3 DEF Base

LEMMA JoinBalancerBase == ASSUME Base, JoinBalancer PROVE Base'
<1>1. TypeOK'
  BY DEF Base, TypeOK, Jobs, JoinBalancer
<1>2. PhaseInv'
  BY NumWorkersAssumption DEF Base, TypeOK, PhaseInv, Workers, JoinBalancer
<1>3. JobInv'
  BY DEF Base, TypeOK, PhaseInv, JobInv, JoinBalancer
<1> QED BY <1>1, <1>2, <1>3 DEF Base

LEMMA StopWorkerBase == ASSUME Base, StopWorker PROVE Base'
<1>1. TypeOK'
  <2>1. workerRunning' \in [Workers -> BOOLEAN] /\ mainPc' = "shutWorker"
    BY DEF Base, TypeOK, StopWorker
  <2>2. UNCHANGED <<stopping, mainJob, read, inputVars, lbVars, wqVars, workerPc,
                    workerJob, processed, outVars, writerVars, stats, history>>
    BY DEF StopWorker
  <2> QED BY <2>1, <2>2 DEF Base, TypeOK
<1>2. PhaseInv'
  BY DEF Base, TypeOK, PhaseInv, StopWorker
<1>3. JobInv'
  BY DEF Base, TypeOK, PhaseInv, JobInv, StopWorker
<1> QED BY <1>1, <1>2, <1>3 DEF Base

LEMMA ShutWorkerBase == ASSUME Base, ShutWorker PROVE Base'
<1>1. TypeOK'
  <2>1. workerShut' \in [Workers -> BOOLEAN] /\ mainPc' = "joinWorker"
    BY DEF Base, TypeOK, ShutWorker
  <2>2. UNCHANGED <<stopping, mainJob, read, inputVars, lbVars, workerQueue,
                    workerVars, outVars, writerVars, stats, history>>
    BY DEF ShutWorker
  <2> QED BY <2>1, <2>2 DEF Base, TypeOK
<1>2. PhaseInv'
  BY DEF Base, TypeOK, PhaseInv, ShutWorker
<1>3. JobInv'
  BY DEF Base, TypeOK, PhaseInv, JobInv, ShutWorker
<1> QED BY <1>1, <1>2, <1>3 DEF Base

LEMMA JoinWorkerBase == ASSUME Base, JoinWorker PROVE Base'
<1>1. TypeOK'
  BY NumWorkersAssumption DEF Base, TypeOK, PhaseInv, JoinWorker
<1>2. PhaseInv'
  BY NumWorkersAssumption DEF Base, TypeOK, PhaseInv, Workers, JoinWorker
<1>3. JobInv'
  BY DEF Base, TypeOK, PhaseInv, JobInv, JoinWorker
<1> QED BY <1>1, <1>2, <1>3 DEF Base

LEMMA StopWriterBase == ASSUME Base, StopWriter PROVE Base'
<1>1. TypeOK'
  BY DEF Base, TypeOK, Jobs, StopWriter
<1>2. PhaseInv'
  BY NumWorkersAssumption DEF Base, TypeOK, PhaseInv, Workers, StopWriter
<1>3. JobInv'
  BY DEF Base, TypeOK, PhaseInv, JobInv, StopWriter
<1> QED BY <1>1, <1>2, <1>3 DEF Base

LEMMA ShutOutputBase == ASSUME Base, ShutOutput PROVE Base'
<1>1. TypeOK'
  BY DEF Base, TypeOK, Jobs, ShutOutput
<1>2. PhaseInv'
  BY DEF Base, TypeOK, PhaseInv, ShutOutput
<1>3. JobInv'
  BY DEF Base, TypeOK, PhaseInv, JobInv, ShutOutput
<1> QED BY <1>1, <1>2, <1>3 DEF Base

LEMMA JoinWriterBase == ASSUME Base, JoinWriter PROVE Base'
<1>1. TypeOK'
  BY DEF Base, TypeOK, Jobs, JoinWriter
<1>2. PhaseInv'
  BY DEF Base, TypeOK, PhaseInv, JoinWriter
<1>3. JobInv'
  BY DEF Base, TypeOK, PhaseInv, JobInv, JoinWriter
<1> QED BY <1>1, <1>2, <1>3 DEF Base

LEMMA BalancerTopBase == ASSUME Base, BalancerTop PROVE Base'
<1>1. TypeOK'
  BY DEF Base, TypeOK, Jobs, BalancerTop
<1>2. PhaseInv'
  BY DEF Base, TypeOK, PhaseInv, BalancerTop
<1>3. JobInv'
  BY DEF Base, TypeOK, PhaseInv, JobInv, BalancerTop
<1> QED BY <1>1, <1>2, <1>3 DEF Base

LEMMA BalancerPopBase == ASSUME Base, BalancerPop PROVE Base'
<1>1. TypeOK'
  <2>1. inputQueue' \in Seq(Accepted) /\ Len(inputQueue') <= InputCap /\ lbJob' \in Jobs
    <3>1. inputQueue \in Seq(Accepted) /\ Len(inputQueue) <= InputCap /\ lbJob \in Jobs
      BY DEF Base, TypeOK
    <3>2. CASE inputQueue = <<>>
      BY <3>1, <3>2 DEF BalancerPop
    <3>3. CASE inputQueue # <<>>
      BY <3>1, <3>3, Popped, CapAssumption DEF BalancerPop, Jobs
    <3> QED BY <3>2, <3>3
  <2> QED BY <2>1 DEF Base, TypeOK, BalancerPop
<1>2. PhaseInv'
  BY DEF Base, TypeOK, PhaseInv, BalancerPop
<1>3. JobInv'
  BY Popped DEF Base, TypeOK, PhaseInv, JobInv, BalancerPop
<1> QED BY <1>1, <1>2, <1>3 DEF Base

LEMMA DispatchBase == ASSUME Base, Dispatch PROVE Base'
<1> DEFINE w == Route(lbJob)
<1>0. /\ lbJob \in Accepted /\ w \in Workers
      /\ ~workerShut[w] /\ Len(workerQueue[w]) < WorkerCap
      /\ workerQueue' = [workerQueue EXCEPT ![w] = Append(@, lbJob)]
      /\ refused' = refused /\ dispatched' = dispatched + 1
      /\ lbJob' = NoJob /\ lbPc = "push" /\ lbPc' = "top"
      /\ UNCHANGED <<mainVars, inputVars, lbRunning, workerShut, workerVars, outVars,
                     writerVars, stats, discarded>>
  <2>1. lbPc = "push" /\ lbJob \in Accepted
    BY DEF Base, JobInv, Dispatch
  <2>2. w \in Workers
    BY <2>1, RouteType
  <2>3. ~workerShut[w]
    BY <2>1, <2>2 DEF Base, TypeOK, PhaseInv
  <2> QED BY <2>1, <2>2, <2>3 DEF Dispatch
<1> HIDE DEF w
<1>1. TypeOK'
  <2>1. workerQueue' \in [Workers -> Seq(Accepted)]
    BY <1>0, Pushed DEF Base, TypeOK
  <2>2. \A v \in Workers : Len(workerQueue'[v]) <= WorkerCap
    BY <1>0, Pushed, CapAssumption DEF Base, TypeOK
  <2> QED BY <1>0, <2>1, <2>2 DEF Base, TypeOK, Jobs
<1>2. PhaseInv'
  BY <1>0 DEF Base, TypeOK, PhaseInv
<1>3. JobInv'
  BY <1>0 DEF Base, TypeOK, PhaseInv, JobInv
<1> QED BY <1>1, <1>2, <1>3 DEF Base

LEMMA WorkerTopBase == ASSUME Base, NEW w \in Workers, WorkerTop(w) PROVE Base'
<1>1. TypeOK'
  BY DEF Base, TypeOK, Jobs, WorkerTop
<1>2. PhaseInv'
  BY DEF Base, TypeOK, PhaseInv, WorkerTop
<1>3. JobInv'
  BY DEF Base, TypeOK, PhaseInv, JobInv, WorkerTop
<1> QED BY <1>1, <1>2, <1>3 DEF Base

LEMMA WorkerPopBase == ASSUME Base, NEW w \in Workers, WorkerPop(w) PROVE Base'
<1>1. TypeOK'
  <2>1. CASE workerQueue[w] = <<>>
    <3>1. workerPc' \in [Workers -> {"unborn", "top", "pop", "process", "push", "exit"}]
      BY <2>1 DEF Base, TypeOK, WorkerPop
    <3> QED BY <2>1, <3>1 DEF Base, TypeOK, WorkerPop
  <2>2. CASE workerQueue[w] # <<>>
    <3>1. /\ workerQueue \in [Workers -> Seq(Accepted)]
          /\ workerQueue[w] \in Seq(Accepted)
          /\ \A v \in Workers : Len(workerQueue[v]) <= WorkerCap
      BY DEF Base, TypeOK
    <3>2. /\ Head(workerQueue[w]) \in Accepted /\ Tail(workerQueue[w]) \in Seq(Accepted)
          /\ Len(Tail(workerQueue[w])) <= Len(workerQueue[w])
          /\ Len(workerQueue[w]) \in Nat /\ Len(Tail(workerQueue[w])) \in Nat
      BY <2>2, <3>1, Popped
    <3>3. Len(Tail(workerQueue[w])) <= WorkerCap
      BY <3>1, <3>2, CapAssumption
    <3>4. /\ workerQueue' = [workerQueue EXCEPT ![w] = Tail(@)]
          /\ workerJob' = [workerJob EXCEPT ![w] = Head(workerQueue[w])]
          /\ workerPc' = [workerPc EXCEPT ![w] = "process"]
      BY <2>2 DEF WorkerPop
    <3>5. /\ workerQueue' \in [Workers -> Seq(Accepted)]
          /\ \A v \in Workers : Len(workerQueue'[v]) <= WorkerCap
      BY <3>1, <3>2, <3>3, <3>4
    <3>6. workerJob' \in [Workers -> Jobs]
      BY <3>2, <3>4 DEF Base, TypeOK, Jobs
    <3>7. workerPc' \in [Workers -> {"unborn", "top", "pop", "process", "push", "exit"}]
      BY <3>4 DEF Base, TypeOK
    <3> QED BY <3>5, <3>6, <3>7 DEF Base, TypeOK, WorkerPop
  <2> QED BY <2>1, <2>2
<1>2. PhaseInv'
  BY DEF Base, TypeOK, PhaseInv, WorkerPop
<1>3. JobInv'
  <2>1. workerQueue[w] # <<>> => Head(workerQueue[w]) \in Accepted
    BY Popped DEF Base, TypeOK
  <2> QED BY <2>1 DEF Base, TypeOK, PhaseInv, JobInv, WorkerPop
<1> QED BY <1>1, <1>2, <1>3 DEF Base

LEMMA DropPacketBase == ASSUME Base, NEW w \in Workers, DropPacket(w) PROVE Base'
<1>1. TypeOK'
  <2>1. stats' \in Stats
    BY Counted DEF Base, TypeOK, DropPacket
  <2>2. discarded' \subseteq Accepted
    BY DEF Base, TypeOK, JobInv, DropPacket
  <2>3. processed' \in [Workers -> Nat] /\ workerJob' \in [Workers -> Jobs]
    BY DEF Base, TypeOK, Jobs, DropPacket
  <2>4. workerPc' \in [Workers -> {"unborn", "top", "pop", "process", "push", "exit"}]
    BY DEF Base, TypeOK, DropPacket
  <2>5. refused' \subseteq Jobs
    BY DEF Base, TypeOK, DropPacket
  <2>6. UNCHANGED <<mainVars, inputVars, lbVars, wqVars, workerRunning, outVars, writerVars>>
    BY DEF DropPacket
  <2> QED BY <2>1, <2>2, <2>3, <2>4, <2>5, <2>6 DEF Base, TypeOK
<1>2. PhaseInv'
  BY DEF Base, TypeOK, PhaseInv, DropPacket
<1>3. JobInv'
  BY DEF Base, TypeOK, PhaseInv, JobInv, DropPacket
<1> QED BY <1>1, <1>2, <1>3 DEF Base

LEMMA ForwardPacketBase == ASSUME Base, NEW w \in Workers, ForwardPacket(w) PROVE Base'
<1>1. TypeOK'
  <2>1. stats' \in Stats
    BY Counted DEF Base, TypeOK, ForwardPacket
  <2>2. workerPc' \in [Workers -> {"unborn", "top", "pop", "process", "push", "exit"}]
    BY DEF Base, TypeOK, ForwardPacket
  <2>3. UNCHANGED <<mainVars, inputVars, lbVars, wqVars, workerRunning, workerJob, processed,
                    outVars, writerVars, history>>
    BY DEF ForwardPacket
  <2> QED BY <2>1, <2>2, <2>3 DEF Base, TypeOK
<1>2. PhaseInv'
  BY DEF Base, TypeOK, PhaseInv, ForwardPacket
<1>3. JobInv'
  BY DEF Base, TypeOK, PhaseInv, JobInv, ForwardPacket
<1> QED BY <1>1, <1>2, <1>3 DEF Base

LEMMA PushOutputBase == ASSUME Base, NEW w \in Workers, PushOutput(w) PROVE Base'
<1>0. ~outputShut /\ workerJob[w] \in Accepted /\ mainPc \notin Joined
  BY DEF Base, TypeOK, PhaseInv, JobInv, PushOutput
<1>1. TypeOK'
  <2>1. outputQueue' \in Seq(Accepted) /\ Len(outputQueue') <= OutputCap
    <3>1. /\ outputQueue \in Seq(Accepted) /\ Len(outputQueue) < OutputCap
          /\ outputQueue' = Append(outputQueue, workerJob[w])
      BY <1>0 DEF Base, TypeOK, PushOutput
    <3> QED BY <1>0, <3>1, Pushed, CapAssumption
  <2>2. processed' \in [Workers -> Nat] /\ workerJob' \in [Workers -> Jobs]
    BY Updated DEF Base, TypeOK, Jobs, PushOutput
  <2>3. workerPc' \in [Workers -> {"unborn", "top", "pop", "process", "push", "exit"}]
    BY DEF Base, TypeOK, PushOutput
  <2>4. UNCHANGED <<mainVars, inputVars, lbVars, wqVars, workerRunning, outputShut,
                    writerVars, stats, history>>
    BY <1>0 DEF PushOutput
  <2> QED BY <2>1, <2>2, <2>3, <2>4 DEF Base, TypeOK
<1>2. PhaseInv'
  BY <1>0 DEF Base, TypeOK, PhaseInv, PushOutput
<1>3. JobInv'
  BY <1>0 DEF Base, TypeOK, PhaseInv, JobInv, PushOutput
<1> QED BY <1>1, <1>2, <1>3 DEF Base

LEMMA WriterTopBase == ASSUME Base, WriterTop PROVE Base'
<1>1. TypeOK'
  BY DEF Base, TypeOK, Jobs, WriterTop
<1>2. PhaseInv'
  BY DEF Base, TypeOK, PhaseInv, WriterTop
<1>3. JobInv'
  BY DEF Base, TypeOK, PhaseInv, JobInv, WriterTop
<1> QED BY <1>1, <1>2, <1>3 DEF Base

LEMMA WriterDrainBase == ASSUME Base, WriterDrain PROVE Base'
<1>1. TypeOK'
  BY DEF Base, TypeOK, Jobs, WriterDrain
<1>2. PhaseInv'
  BY DEF Base, TypeOK, PhaseInv, WriterDrain
<1>3. JobInv'
  BY DEF Base, TypeOK, PhaseInv, JobInv, WriterDrain
<1> QED BY <1>1, <1>2, <1>3 DEF Base

LEMMA WriterPopBase == ASSUME Base, WriterPop PROVE Base'
<1>1. TypeOK'
  <2>1. /\ outputQueue' \in Seq(Accepted) /\ Len(outputQueue') <= OutputCap
        /\ writerJob' \in Jobs
    <3>1. outputQueue \in Seq(Accepted) /\ Len(outputQueue) <= OutputCap /\ writerJob \in Jobs
      BY DEF Base, TypeOK
    <3>2. CASE outputQueue = <<>>
      BY <3>1, <3>2 DEF WriterPop
    <3>3. CASE outputQueue # <<>>
      BY <3>1, <3>3, Popped, CapAssumption DEF WriterPop, Jobs
    <3> QED BY <3>2, <3>3
  <2> QED BY <2>1 DEF Base, TypeOK, WriterPop
<1>2. PhaseInv'
  BY DEF Base, TypeOK, PhaseInv, WriterPop
<1>3. JobInv'
  BY Popped DEF Base, TypeOK, PhaseInv, JobInv, WriterPop
<1> QED BY <1>1, <1>2, <1>3 DEF Base

LEMMA WritePacketBase == ASSUME Base, WritePacket PROVE Base'
<1>1. TypeOK'
  <2>1. written' \in Seq(Accepted)
    <3>1. written \in Seq(Accepted) /\ writerJob \in Accepted /\ written' = Append(written, writerJob)
      BY DEF Base, TypeOK, JobInv, WritePacket
    <3> QED BY <3>1, Pushed
  <2> QED BY <2>1 DEF Base, TypeOK, Jobs, WritePacket
<1>2. PhaseInv'
  BY DEF Base, TypeOK, PhaseInv, WritePacket
<1>3. JobInv'
  BY DEF Base, TypeOK, PhaseInv, JobInv, WritePacket
<1> QED BY <1>1, <1>2, <1>3 DEF Base

-----------------------------------------------------------------------------
(* One packet moving from the head of one stage to the tail of the next.   *)

LEMMA AcceptedNat == Accepted \subseteq Nat
  BY LenCapture DEF Accepted, Packets

LEMMA PopAhead ==
    ASSUME NEW q \in Seq(Accepted), q # <<>>, Ordered(q)
    PROVE  /\ Head(q) \in Range(q)
           /\ Range(Tail(q)) \subseteq Range(q)
           /\ Range(q) \subseteq Range(Tail(q)) \cup {Head(q)}
           /\ Ordered(Tail(q))
           /\ Ahead({Head(q)}, Range(Tail(q)))
<1>1. /\ Tail(q) \in Seq(Accepted) /\ Len(q) \in Nat \ {0} /\ Len(Tail(q)) = Len(q) - 1
      /\ Head(q) = q[1] /\ \A i \in 1 .. Len(q) - 1 : Tail(q)[i] = q[i + 1]
  BY Popped
<1>2. DOMAIN q = 1 .. Len(q) /\ DOMAIN Tail(q) = 1 .. Len(q) - 1
  BY <1>1
<1>3. Head(q) \in Range(q)
  BY <1>1, <1>2 DEF Range
<1>4. Range(Tail(q)) \subseteq Range(q)
  BY <1>1, <1>2 DEF Range
<1>5. Range(q) \subseteq Range(Tail(q)) \cup {Head(q)}
  <2>1. SUFFICES ASSUME NEW i \in 1 .. Len(q), i # 1
                 PROVE  q[i] \in Range(Tail(q))
    BY <1>1, <1>2 DEF Range
  <2>2. i - 1 \in 1 .. Len(q) - 1 /\ Tail(q)[i - 1] = q[i]
    BY <1>1, <2>1
  <2> QED BY <1>2, <2>2 DEF Range
<1>6. Ordered(Tail(q))
  BY <1>1 DEF Ordered
<1>7. Ahead({Head(q)}, Range(Tail(q)))
  <2>1. SUFFICES ASSUME NEW i \in 1 .. Len(q) - 1, Route(q[1]) = Route(q[i + 1])
                 PROVE  q[1] < q[i + 1]
    BY <1>1, <1>2 DEF Ahead, Range
  <2> QED BY <1>1, <2>1 DEF Ordered
<1> QED BY <1>3, <1>4, <1>5, <1>6, <1>7

LEMMA PushBehind ==
    ASSUME NEW q \in Seq(Accepted), NEW x \in Accepted, Ordered(q), Ahead(Range(q), {x})
    PROVE  /\ Ordered(Append(q, x))
           /\ Range(Append(q, x)) = Range(q) \cup {x}
<1>1. /\ Append(q, x) \in Seq(Accepted) /\ Len(Append(q, x)) = Len(q) + 1
      /\ Len(q) \in Nat /\ Append(q, x)[Len(q) + 1] = x
      /\ \A i \in 1 .. Len(q) : Append(q, x)[i] = q[i]
  BY Pushed
<1>2. DOMAIN q = 1 .. Len(q) /\ DOMAIN Append(q, x) = 1 .. Len(q) + 1
  BY <1>1
<1>3. \A i \in 1 .. Len(q) : Route(q[i]) = Route(x) => q[i] < x
  BY <1>2 DEF Ahead, Range
<1>4. Ordered(Append(q, x))
  <2>1. SUFFICES ASSUME NEW i \in 1 .. Len(q) + 1, NEW j \in 1 .. Len(q) + 1, i < j,
                        Route(Append(q, x)[i]) = Route(Append(q, x)[j])
                 PROVE  Append(q, x)[i] < Append(q, x)[j]
    BY <1>1 DEF Ordered
  <2>2. i \in 1 .. Len(q)
    BY <1>1, <2>1
  <2>3. CASE j = Len(q) + 1
    BY <1>1, <1>3, <2>1, <2>2, <2>3
  <2>4. CASE j \in 1 .. Len(q)
    BY <1>1, <2>1, <2>2, <2>4 DEF Ordered
  <2> QED BY <1>1, <2>3, <2>4
<1>5. Range(Append(q, x)) = Range(q) \cup {x}
  <2>1. \A i \in 1 .. Len(q) + 1 : i \in 1 .. Len(q) \/ i = Len(q) + 1
    BY <1>1
  <2>2. \A i \in 1 .. Len(q) : i \in 1 .. Len(q) + 1
    BY <1>1
  <2>3. Len(q) + 1 \in 1 .. Len(q) + 1
    BY <1>1
  <2> QED BY <1>1, <1>2, <2>1, <2>2, <2>3 DEF Range
<1> QED BY <1>4, <1>5

LEMMA Move ==
    ASSUME NEW A, NEW B, NEW a \in 2 .. 8, NEW x, InOrder(A), x \in A[a],
           \A k \in Stages : k # a - 1 => B[k] \subseteq A[k],
           B[a - 1] \subseteq A[a - 1] \cup {x},
           Ahead({x}, B[a])
    PROVE  InOrder(B)
<1>1. SUFFICES ASSUME NEW k \in Stages, NEW l \in Stages, k < l PROVE Ahead(B[k], B[l])
  BY DEF InOrder
<1>2. Ahead(A[k], A[l])
  BY <1>1 DEF InOrder
<1>3. CASE k # a - 1 /\ l # a - 1
  BY <1>2, <1>3 DEF Ahead
<1>4. CASE k = a - 1
  <2>1. l # a - 1 /\ (l = a \/ (a \in Stages /\ a < l))
    BY <1>1, <1>4 DEF Stages
  <2>2. Ahead({x}, B[l])
    BY <2>1 DEF InOrder, Ahead
  <2> QED BY <1>2, <1>4, <2>1, <2>2 DEF Ahead
<1>5. CASE l = a - 1
  <2>1. k # a - 1 /\ a \in Stages /\ k < a
    BY <1>1, <1>5 DEF Stages
  <2>2. Ahead(A[k], {x})
    BY <2>1 DEF InOrder, Ahead
  <2> QED BY <1>2, <1>5, <2>1, <2>2 DEF Ahead
<1> QED BY <1>3, <1>4, <1>5

LEMMA StageAt ==
    /\ Stage[1] = Range(written) /\ Stage[2] = Held(writerJob) /\ Stage[3] = Range(outputQueue)
    /\ Stage[4] = InHand /\ Stage[5] = Queued /\ Stage[6] = Held(lbJob)
    /\ Stage[7] = Range(inputQueue) /\ Stage[8] = Held(mainJob)
  BY DEF Stage

\* The actions that move no packet.
LEMMA NothingMoves ==
    ASSUME OrderInv, CompleteInv,
           UNCHANGED <<written, writerJob, outputQueue, workerJob, workerQueue, lbJob, inputQueue,
                       mainJob, discarded, read>>
    PROVE  OrderInv' /\ CompleteInv'
<1>1. Stage' = Stage
  BY DEF Stage, InHand, Queued
<1>2. OrderInv'
  BY <1>1 DEF OrderInv, InOrder, Ordered
<1>3. CompleteInv'
  BY <1>1 DEF CompleteInv
<1> QED BY <1>2, <1>3

LEMMA StageMove ==
    ASSUME OrderInv, CompleteInv, NEW a \in 2 .. 8, NEW x, x \in Stage[a],
           \A k \in Stages : k # a - 1 => Stage'[k] \subseteq Stage[k],
           \A k \in Stages : k # a => Stage[k] \subseteq Stage'[k],
           Stage'[a - 1] \subseteq Stage[a - 1] \cup {x}, x \in Stage'[a - 1],
           Stage[a] \subseteq Stage'[a] \cup {x},
           Ahead({x}, Stage'[a]),
           UNCHANGED <<read, discarded>>
    PROVE  /\ InOrder(Stage')
           /\ \A k \in Stages : \A job \in Stage'[k] : job <= read'
           /\ CompleteInv'
<1>1. InOrder(Stage')
  <2> DEFINE A == Stage
             B == Stage'
  <2>1. /\ InOrder(A) /\ x \in A[a]
        /\ \A k \in Stages : k # a - 1 => B[k] \subseteq A[k]
        /\ B[a - 1] \subseteq A[a - 1] \cup {x} /\ Ahead({x}, B[a])
    BY DEF OrderInv
  <2> HIDE DEF A, B
  <2>2. InOrder(B)
    BY <2>1, Move
  <2> QED BY <2>2 DEF B
<1>2. a \in Stages /\ a - 1 \in Stages /\ a # a - 1
  BY DEF Stages
<1>3. \A k \in Stages : \A job \in Stage'[k] : job <= read'
  BY <1>2 DEF OrderInv
<1>4. CompleteInv'
  <2>1. SUFFICES ASSUME NEW job \in Accepted, job <= read, job \notin discarded
                 PROVE  \E k \in Stages : job \in Stage'[k]
    BY DEF CompleteInv
  <2>2. PICK k \in Stages : job \in Stage[k]
    BY <2>1 DEF CompleteInv
  <2>3. CASE k # a
    BY <2>2, <2>3
  <2>4. CASE k = a
    BY <1>2, <2>2, <2>4
  <2> QED BY <2>3, <2>4
<1> QED BY <1>1, <1>3, <1>4

LEMMA ReadPacketTrail ==
    ASSUME Base, OrderInv, CompleteInv, ReadPacket PROVE OrderInv' /\ CompleteInv'
<1>1. /\ read \in Nat /\ read' = read + 1 /\ mainJob = NoJob
      /\ UNCHANGED <<written, writerJob, outputQueue, workerJob, workerQueue, lbJob, inputQueue, discarded>>
  BY DEF Base, TypeOK, JobInv, ReadPacket
<1>2. Accepted \subseteq Nat
  BY AcceptedNat
<1>3. \A k \in Stages : k # 8 => Stage'[k] = Stage[k]
  <2>1. InHand' = InHand /\ Queued' = Queued
    BY <1>1 DEF InHand, Queued
  <2> QED BY <1>1, <2>1 DEF Stage, Stages
<1>4. Stage[8] = {} /\ Stage'[8] \subseteq {read + 1} /\ (read + 1 \in Accepted => read + 1 \in Stage'[8])
  BY <1>1, LenCapture DEF Stage, Held, ReadPacket, NoJob
<1>5. Stage'[8] \subseteq Accepted
  BY <1>1, <1>4, NoJobNotAccepted DEF Stage, Held, ReadPacket
<1>6. \A k \in Stages : \A job \in Stage[k] : job <= read
  BY DEF OrderInv
<1>7. \A k \in Stages : Stage[k] \subseteq Nat
  <2>1. /\ Range(written) \subseteq Accepted /\ Range(outputQueue) \subseteq Accepted
        /\ Range(inputQueue) \subseteq Accepted
    BY DEF Base, TypeOK, Range
  <2>2. Queued \subseteq Accepted
    BY DEF Base, TypeOK, Range, Queued
  <2>3. /\ InHand \subseteq Accepted /\ Held(lbJob) \subseteq Accepted /\ Held(mainJob) \subseteq Accepted
        /\ Held(writerJob) \subseteq Accepted
    BY DEF Base, TypeOK, Jobs, InHand, Held
  <2>4. \A k \in Stages : Stage[k] \subseteq Accepted
    BY <2>1, <2>2, <2>3 DEF Stage, Stages
  <2> QED BY <1>2, <2>4
<1>8. InOrder(Stage')
  <2>1. SUFFICES ASSUME NEW k \in Stages, NEW l \in Stages, k < l
                 PROVE  Ahead(Stage'[k], Stage'[l])
    BY DEF InOrder
  <2>2. CASE l # 8
    <3>1. k # 8
      BY <2>1 DEF Stages
    <3> QED BY <1>3, <2>1, <2>2, <3>1 DEF OrderInv, InOrder
  <2>3. CASE l = 8
    <3>1. Stage'[k] = Stage[k]
      BY <1>3, <2>1, <2>3 DEF Stages
    <3> QED BY <1>1, <1>4, <1>6, <1>7, <2>1, <2>3, <3>1 DEF Ahead
  <2> QED BY <2>2, <2>3
<1>9. \A k \in Stages : \A job \in Stage'[k] : job <= read'
  BY <1>1, <1>3, <1>4, <1>6, <1>7
<1>10. OrderInv'
  <2>1. /\ Ordered(written)' /\ Ordered(outputQueue)' /\ Ordered(inputQueue)'
        /\ \A w \in Workers :
             /\ Ordered(workerQueue[w])'
             /\ \A job \in Range(workerQueue'[w]) \cup Held(workerJob'[w]) : Route(job) = w
    BY <1>1 DEF OrderInv, Ordered
  <2> QED BY <1>8, <1>9, <2>1 DEF OrderInv, InOrder
<1>11. CompleteInv'
  <2>1. SUFFICES ASSUME NEW job \in Accepted, job <= read + 1, job \notin discarded
                 PROVE  \E k \in Stages : job \in Stage'[k]
    BY <1>1 DEF CompleteInv
  <2>2. CASE job = read + 1
    BY <1>4, <2>2 DEF Stages
  <2>3. CASE job <= read
    <3>1. PICK k \in Stages : job \in Stage[k]
      BY <2>1, <2>3 DEF CompleteInv
    <3> QED BY <1>3, <1>4, <3>1
  <2> QED BY <1>1, <1>2, <2>1, <2>2, <2>3
<1> QED BY <1>10, <1>11

LEMMA PushInputTrail ==
    ASSUME Base, OrderInv, CompleteInv, PushInput PROVE OrderInv' /\ CompleteInv'
<1> DEFINE x == mainJob
<1>1. /\ x \in Accepted /\ inputQueue \in Seq(Accepted)
      /\ inputQueue' = Append(inputQueue, x) /\ mainJob' = NoJob
      /\ UNCHANGED <<written, writerJob, outputQueue, workerJob, workerQueue, lbJob, read, discarded>>
  BY DEF Base, TypeOK, PhaseInv, JobInv, PushInput
<1>2. Stage[8] = {x} /\ Stage'[8] = {}
  BY <1>1, NoJobNotAccepted DEF Stage, Held
<1>3. Ordered(inputQueue') /\ Range(inputQueue') = Range(inputQueue) \cup {x}
  <2>1. Ahead(Range(inputQueue), {x})
    BY <1>2 DEF OrderInv, InOrder, Stage, Stages
  <2> QED BY <1>1, <2>1, PushBehind DEF OrderInv
<1>4. /\ \A k \in Stages : k # 7 => Stage'[k] \subseteq Stage[k]
      /\ \A k \in Stages : k # 8 => Stage[k] \subseteq Stage'[k]
      /\ Stage'[7] = Stage[7] \cup {x}
  BY <1>1, <1>2, <1>3 DEF Stage, Stages, InHand, Queued
<1> HIDE DEF x
<1>5. /\ InOrder(Stage') /\ CompleteInv'
      /\ \A k \in Stages : \A job \in Stage'[k] : job <= read'
  <2>1. Ahead({x}, Stage'[8])
    BY <1>2 DEF Ahead
  <2>2. 8 \in 2 .. 8 /\ 8 - 1 = 7
    OBVIOUS
  <2> QED BY <1>1, <1>2, <1>4, <2>1, <2>2, StageMove
<1>6. OrderInv'
  BY <1>1, <1>3, <1>5 DEF OrderInv, InOrder, Ordered
<1> QED BY <1>5, <1>6

LEMMA BalancerPopTrail ==
    ASSUME Base, OrderInv, CompleteInv, BalancerPop, inputQueue # <<>>
    PROVE  OrderInv' /\ CompleteInv'
<1> DEFINE x == Head(inputQueue)
<1>1. /\ inputQueue \in Seq(Accepted) /\ x \in Accepted
      /\ inputQueue' = Tail(inputQueue) /\ lbJob = NoJob /\ lbJob' = x
      /\ UNCHANGED <<written, writerJob, outputQueue, workerJob, workerQueue, mainJob, read, discarded>>
  BY Popped DEF Base, TypeOK, JobInv, BalancerPop
<1>2. /\ x \in Range(inputQueue) /\ Range(inputQueue') \subseteq Range(inputQueue)
      /\ Range(inputQueue) \subseteq Range(inputQueue') \cup {x}
      /\ Ordered(inputQueue') /\ Ahead({x}, Range(inputQueue'))
  BY <1>1, PopAhead DEF OrderInv
<1>3. Stage[6] = {} /\ Stage'[6] = {x}
  BY <1>1, NoJobNotAccepted DEF Stage, Held
<1>4. /\ \A k \in Stages : k # 6 => Stage'[k] \subseteq Stage[k]
      /\ \A k \in Stages : k # 7 => Stage[k] \subseteq Stage'[k]
      /\ Stage[7] = Range(inputQueue) /\ Stage'[7] = Range(inputQueue')
  BY <1>1, <1>2, <1>3 DEF Stage, Stages, InHand, Queued
<1> HIDE DEF x
<1>5. /\ InOrder(Stage') /\ CompleteInv'
      /\ \A k \in Stages : \A job \in Stage'[k] : job <= read'
  <2>1. 7 \in 2 .. 8 /\ 7 - 1 = 6
    OBVIOUS
  <2>2. /\ x \in Stage[7] /\ Ahead({x}, Stage'[7]) /\ Stage[7] \subseteq Stage'[7] \cup {x}
        /\ Stage'[6] \subseteq Stage[6] \cup {x} /\ x \in Stage'[6]
    BY <1>2, <1>3, <1>4
  <2> QED BY <1>1, <1>4, <2>1, <2>2, StageMove
<1>6. OrderInv'
  BY <1>1, <1>2, <1>5 DEF OrderInv, InOrder, Ordered
<1> QED BY <1>5, <1>6

LEMMA DispatchTrail ==
    ASSUME Base, OrderInv, CompleteInv, Dispatch PROVE OrderInv' /\ CompleteInv'
<1> DEFINE x == lbJob
           w == Route(x)
<1>1. /\ x \in Accepted /\ w \in Workers /\ workerQueue \in [Workers -> Seq(Accepted)]
      /\ workerQueue' = [workerQueue EXCEPT ![w] = Append(@, x)]
      /\ lbJob' = NoJob
      /\ UNCHANGED <<written, writerJob, outputQueue, workerJob, inputQueue, mainJob, read, discarded>>
  <2>1. lbPc = "push" /\ x \in Accepted
    BY DEF Base, JobInv, Dispatch
  <2>2. w \in Workers
    BY <2>1, RouteType
  <2>3. ~workerShut[w]
    BY <2>1, <2>2 DEF Base, TypeOK, PhaseInv
  <2> QED BY <2>1, <2>2, <2>3 DEF Base, TypeOK, Dispatch
<1>2. Stage[6] = {x} /\ Stage'[6] = {} /\ Stage[5] = Queued /\ Stage'[5] = Queued'
  BY <1>1, NoJobNotAccepted DEF Stage, Held
<1>3. Ordered(workerQueue'[w]) /\ Range(workerQueue'[w]) = Range(workerQueue[w]) \cup {x}
  <2>1. Range(workerQueue[w]) \subseteq Queued
    BY <1>1 DEF Queued
  <2>2. Ahead(Stage[5], Stage[6])
    BY DEF OrderInv, InOrder, Stages
  <2>3. Ahead(Range(workerQueue[w]), {x})
    BY <1>2, <2>1, <2>2 DEF Ahead
  <2>4. workerQueue[w] \in Seq(Accepted) /\ workerQueue'[w] = Append(workerQueue[w], x)
    BY <1>1
  <2>5. Ordered(workerQueue[w])
    BY <1>1 DEF OrderInv
  <2> HIDE DEF x, w
  <2> QED BY <1>1, <2>3, <2>4, <2>5, PushBehind
<1>4. \A v \in Workers : v # w => workerQueue'[v] = workerQueue[v]
  BY <1>1
<1> HIDE DEF w
<1>5. Queued' = Queued \cup {x}
  BY <1>1, <1>3, <1>4 DEF Queued
<1>6. /\ \A k \in Stages : k # 5 => Stage'[k] \subseteq Stage[k]
      /\ \A k \in Stages : k # 6 => Stage[k] \subseteq Stage'[k]
  <2>1. InHand' = InHand
    BY <1>1 DEF InHand
  <2> QED BY <1>1, <1>2, <1>5, <2>1 DEF Stage, Stages
<1> HIDE DEF x
<1>7. /\ InOrder(Stage') /\ CompleteInv'
      /\ \A k \in Stages : \A job \in Stage'[k] : job <= read'
  <2>1. 6 \in 2 .. 8 /\ 6 - 1 = 5
    OBVIOUS
  <2>2. /\ x \in Stage[6] /\ Ahead({x}, Stage'[6]) /\ Stage[6] \subseteq Stage'[6] \cup {x}
        /\ Stage'[5] \subseteq Stage[5] \cup {x} /\ x \in Stage'[5]
    BY <1>2, <1>5 DEF Ahead
  <2> QED BY <1>1, <1>6, <2>1, <2>2, StageMove
<1>8. /\ Ordered(written') /\ Ordered(outputQueue') /\ Ordered(inputQueue')
  BY <1>1 DEF OrderInv
<1>9. \A v \in Workers :
         /\ Ordered(workerQueue'[v])
         /\ \A job \in Range(workerQueue'[v]) \cup Held(workerJob'[v]) : Route(job) = v
  BY <1>1, <1>3, <1>4 DEF OrderInv, x, w
<1>10. OrderInv'
  BY <1>7, <1>8, <1>9 DEF OrderInv, InOrder, Ordered
<1> QED BY <1>7, <1>10

LEMMA WorkerPopTrail ==
    ASSUME Base, OrderInv, CompleteInv, NEW w \in Workers, WorkerPop(w), workerQueue[w] # <<>>
    PROVE  OrderInv' /\ CompleteInv'
<1> DEFINE x == Head(workerQueue[w])
<1>1. /\ workerQueue \in [Workers -> Seq(Accepted)] /\ x \in Accepted
      /\ workerJob \in [Workers -> Jobs]
      /\ workerQueue' = [workerQueue EXCEPT ![w] = Tail(@)]
      /\ workerJob' = [workerJob EXCEPT ![w] = x] /\ workerJob[w] = NoJob
      /\ UNCHANGED <<written, writerJob, outputQueue, lbJob, inputQueue, mainJob, read, discarded>>
  BY Popped DEF Base, TypeOK, JobInv, WorkerPop
<1>2. /\ x \in Range(workerQueue[w]) /\ Range(workerQueue'[w]) \subseteq Range(workerQueue[w])
      /\ Range(workerQueue[w]) \subseteq Range(workerQueue'[w]) \cup {x}
      /\ Ordered(workerQueue'[w]) /\ Ahead({x}, Range(workerQueue'[w]))
  <2>1. workerQueue[w] \in Seq(Accepted) /\ workerQueue'[w] = Tail(workerQueue[w])
    BY <1>1
  <2>2. Ordered(workerQueue[w])
    BY DEF OrderInv
  <2> QED BY <2>1, <2>2, PopAhead
<1> HIDE DEF x
<1>3. \A v \in Workers : v # w => workerQueue'[v] = workerQueue[v] /\ workerJob'[v] = workerJob[v]
  BY <1>1
<1>4. workerJob'[w] = x /\ x # NoJob
  BY <1>1, NoJobNotAccepted
<1>5. \A v \in Workers : \A job \in Range(workerQueue[v]) \cup Held(workerJob[v]) : Route(job) = v
  BY DEF OrderInv
<1>6. /\ \A v \in Workers : Range(workerQueue'[v]) \subseteq Range(workerQueue[v])
      /\ \A v \in Workers : Range(workerQueue[v]) \subseteq Range(workerQueue'[v]) \cup {x}
  BY <1>2, <1>3
<1>7. /\ Queued' \subseteq Queued /\ Queued \subseteq Queued' \cup {x} /\ x \in Queued
  <2>1. Queued' = UNION {Range(workerQueue'[v]) : v \in Workers}
    BY DEF Queued
  <2>2. Queued' \subseteq Queued
    BY <1>6, <2>1 DEF Queued
  <2>3. Queued \subseteq Queued' \cup {x}
    BY <1>6, <2>1 DEF Queued
  <2> QED BY <1>2, <2>2, <2>3 DEF Queued
<1>8. InHand' = InHand \cup {x}
  <2>1. InHand' = {workerJob'[v] : v \in Workers} \ {NoJob}
    BY DEF InHand
  <2>2. \A v \in Workers : workerJob[v] # NoJob => workerJob'[v] = workerJob[v]
    BY <1>1, <1>3
  <2> QED BY <1>3, <1>4, <2>1, <2>2 DEF InHand
<1>9. Ahead({x}, Queued')
  <2>1. SUFFICES ASSUME NEW v \in Workers, NEW y \in Range(workerQueue'[v]), Route(x) = Route(y)
                 PROVE  x < y
    BY DEF Ahead, Queued
  <2>2. v = w
    <3>1. Route(y) = v
      BY <1>5, <1>6, <2>1
    <3>2. Route(x) = w
      BY <1>2, <1>5
    <3> QED BY <2>1, <3>1, <3>2
  <2> QED BY <1>2, <2>1, <2>2 DEF Ahead
<1>10. /\ \A k \in Stages : k # 4 => Stage'[k] \subseteq Stage[k]
       /\ \A k \in Stages : k # 5 => Stage[k] \subseteq Stage'[k]
  BY <1>1, <1>7, <1>8 DEF Stage, Stages
<1>11. /\ InOrder(Stage') /\ CompleteInv'
       /\ \A k \in Stages : \A job \in Stage'[k] : job <= read'
  <2>1. 5 \in 2 .. 8 /\ 5 - 1 = 4
    OBVIOUS
  <2>2. Stage[4] = InHand /\ Stage'[4] = InHand' /\ Stage[5] = Queued /\ Stage'[5] = Queued'
    BY DEF Stage
  <2>3. /\ x \in Stage[5] /\ Ahead({x}, Stage'[5]) /\ Stage[5] \subseteq Stage'[5] \cup {x}
        /\ Stage'[4] \subseteq Stage[4] \cup {x} /\ x \in Stage'[4]
    BY <1>7, <1>8, <1>9, <2>2
  <2> QED BY <1>1, <1>10, <2>1, <2>3, StageMove
<1>12. /\ Ordered(written') /\ Ordered(outputQueue') /\ Ordered(inputQueue')
  BY <1>1 DEF OrderInv
<1>13. \A v \in Workers :
         /\ Ordered(workerQueue'[v])
         /\ \A job \in Range(workerQueue'[v]) \cup Held(workerJob'[v]) : Route(job) = v
  <2>1. ASSUME NEW v \in Workers PROVE Ordered(workerQueue'[v])
    BY <1>2, <1>3 DEF OrderInv
  <2>2. ASSUME NEW v \in Workers, NEW job \in Held(workerJob'[v]) PROVE Route(job) = v
    BY <1>2, <1>3, <1>4, <1>5 DEF Held
  <2> QED BY <1>5, <1>6, <2>1, <2>2
<1>14. OrderInv'
  BY <1>11, <1>12, <1>13 DEF OrderInv, InOrder, Ordered
<1> QED BY <1>11, <1>14

\* A worker lets go of its packet.
LEMMA HandEmptied ==
    ASSUME Base, OrderInv, NEW w \in Workers, workerJob[w] \in Accepted,
           workerJob' = [workerJob EXCEPT ![w] = NoJob]
    PROVE  /\ workerJob[w] \in InHand /\ InHand' \subseteq InHand
           /\ InHand \subseteq InHand' \cup {workerJob[w]}
           /\ Ahead({workerJob[w]}, InHand')
           /\ \A v \in Workers : Held(workerJob'[v]) \subseteq Held(workerJob[v])
<1>1. /\ workerJob'[w] = NoJob /\ workerJob[w] # NoJob
      /\ \A v \in Workers : v # w => workerJob'[v] = workerJob[v]
  BY NoJobNotAccepted DEF Base, TypeOK
<1>2. InHand' = {workerJob'[v] : v \in Workers} \ {NoJob}
  BY DEF InHand
<1>3. workerJob[w] \in InHand /\ InHand' \subseteq InHand /\ InHand \subseteq InHand' \cup {workerJob[w]}
  BY <1>1, <1>2 DEF InHand
<1>4. Ahead({workerJob[w]}, InHand')
  <2>1. SUFFICES ASSUME NEW v \in Workers, workerJob'[v] # NoJob,
                        Route(workerJob[w]) = Route(workerJob'[v])
                 PROVE  FALSE
    BY <1>2 DEF Ahead
  <2>2. v # w /\ workerJob'[v] = workerJob[v]
    BY <1>1, <2>1
  <2>3. Route(workerJob[w]) = w /\ Route(workerJob[v]) = v
    BY <1>1, <2>1, <2>2 DEF OrderInv, Held
  <2> QED BY <2>1, <2>2, <2>3
<1>5. \A v \in Workers : Held(workerJob'[v]) \subseteq Held(workerJob[v])
  BY <1>1 DEF Held
<1> QED BY <1>3, <1>4, <1>5

LEMMA PushOutputTrail ==
    ASSUME Base, OrderInv, CompleteInv, NEW w \in Workers, PushOutput(w)
    PROVE  OrderInv' /\ CompleteInv'
<1> DEFINE x == workerJob[w]
<1>1. /\ x \in Accepted /\ outputQueue \in Seq(Accepted)
      /\ outputQueue' = Append(outputQueue, x)
      /\ workerJob' = [workerJob EXCEPT ![w] = NoJob]
      /\ UNCHANGED <<written, writerJob, workerQueue, lbJob, inputQueue, mainJob, read, discarded>>
  <2>1. ~outputShut /\ x \in Accepted
    BY DEF Base, TypeOK, PhaseInv, JobInv, PushOutput
  <2> QED BY <2>1 DEF Base, TypeOK, PushOutput
<1>2. /\ x \in InHand /\ InHand' \subseteq InHand /\ InHand \subseteq InHand' \cup {x}
      /\ Ahead({x}, InHand')
      /\ \A v \in Workers : Held(workerJob'[v]) \subseteq Held(workerJob[v])
  BY <1>1, HandEmptied
<1> HIDE DEF x
<1>3. Stage[4] = InHand /\ Stage'[4] = InHand' /\ Stage[3] = Range(outputQueue)
      /\ Stage'[3] = Range(outputQueue')
  BY DEF Stage
<1>4. Ordered(outputQueue') /\ Range(outputQueue') = Range(outputQueue) \cup {x}
  <2>1. Ahead(Stage[3], Stage[4])
    BY DEF OrderInv, InOrder, Stages
  <2>2. Ahead(Range(outputQueue), {x})
    BY <1>2, <1>3, <2>1 DEF Ahead
  <2> QED BY <1>1, <2>2, PushBehind DEF OrderInv
<1>5. /\ \A k \in Stages : k # 3 => Stage'[k] \subseteq Stage[k]
      /\ \A k \in Stages : k # 4 => Stage[k] \subseteq Stage'[k]
  <2>1. Queued' = Queued
    BY <1>1 DEF Queued
  <2> QED BY <1>1, <1>2, <1>4, <2>1 DEF Stage, Stages
<1>6. /\ InOrder(Stage') /\ CompleteInv'
      /\ \A k \in Stages : \A job \in Stage'[k] : job <= read'
  <2>1. 4 \in 2 .. 8 /\ 4 - 1 = 3
    OBVIOUS
  <2>2. /\ x \in Stage[4] /\ Ahead({x}, Stage'[4]) /\ Stage[4] \subseteq Stage'[4] \cup {x}
        /\ Stage'[3] \subseteq Stage[3] \cup {x} /\ x \in Stage'[3]
    BY <1>2, <1>3, <1>4
  <2> QED BY <1>1, <1>5, <2>1, <2>2, StageMove
<1>7. /\ Ordered(written') /\ Ordered(outputQueue') /\ Ordered(inputQueue')
      /\ \A v \in Workers :
           /\ Ordered(workerQueue'[v])
           /\ \A job \in Range(workerQueue'[v]) \cup Held(workerJob'[v]) : Route(job) = v
  BY <1>1, <1>2, <1>4 DEF OrderInv
<1>8. OrderInv'
  BY <1>6, <1>7 DEF OrderInv, InOrder, Ordered
<1> QED BY <1>6, <1>8

LEMMA DropPacketTrail ==
    ASSUME Base, OrderInv, CompleteInv, NEW w \in Workers, DropPacket(w)
    PROVE  OrderInv' /\ CompleteInv'
<1> DEFINE x == workerJob[w]
<1>1. /\ x \in Accepted /\ discarded' = discarded \cup {x}
      /\ workerJob' = [workerJob EXCEPT ![w] = NoJob]
      /\ UNCHANGED <<written, writerJob, outputQueue, workerQueue, lbJob, inputQueue, mainJob, read>>
  BY DEF Base, TypeOK, JobInv, DropPacket
<1>2. /\ InHand' \subseteq InHand /\ InHand \subseteq InHand' \cup {x}
      /\ \A v \in Workers : Held(workerJob'[v]) \subseteq Held(workerJob[v])
  BY <1>1, HandEmptied
<1> HIDE DEF x
<1>3. /\ \A k \in Stages : Stage'[k] \subseteq Stage[k]
      /\ \A k \in Stages : Stage[k] \subseteq Stage'[k] \cup {x}
  <2>1. Queued' = Queued
    BY <1>1 DEF Queued
  <2> QED BY <1>1, <1>2, <2>1 DEF Stage, Stages
<1>4. InOrder(Stage') /\ \A k \in Stages : \A job \in Stage'[k] : job <= read'
  BY <1>1, <1>3 DEF OrderInv, InOrder, Ahead
<1>5. /\ Ordered(written') /\ Ordered(outputQueue') /\ Ordered(inputQueue')
      /\ \A v \in Workers :
           /\ Ordered(workerQueue'[v])
           /\ \A job \in Range(workerQueue'[v]) \cup Held(workerJob'[v]) : Route(job) = v
  BY <1>1, <1>2 DEF OrderInv
<1>6. OrderInv'
  BY <1>4, <1>5 DEF OrderInv, InOrder, Ordered
<1>7. CompleteInv'
  BY <1>1, <1>3 DEF CompleteInv
<1> QED BY <1>6, <1>7

LEMMA WriterPopTrail ==
    ASSUME Base, OrderInv, CompleteInv, WriterPop, outputQueue # <<>>
    PROVE  OrderInv' /\ CompleteInv'
<1> DEFINE x == Head(outputQueue)
<1>1. /\ outputQueue \in Seq(Accepted) /\ x \in Accepted
      /\ outputQueue' = Tail(outputQueue) /\ writerJob = NoJob /\ writerJob' = x
      /\ UNCHANGED <<written, workerJob, workerQueue, lbJob, inputQueue, mainJob, read, discarded>>
  BY Popped DEF Base, TypeOK, JobInv, WriterPop
<1>2. /\ x \in Range(outputQueue) /\ Range(outputQueue') \subseteq Range(outputQueue)
      /\ Range(outputQueue) \subseteq Range(outputQueue') \cup {x}
      /\ Ordered(outputQueue') /\ Ahead({x}, Range(outputQueue'))
  BY <1>1, PopAhead DEF OrderInv
<1>3. Stage[2] = {} /\ Stage'[2] = {x}
  BY <1>1, NoJobNotAccepted DEF Stage, Held
<1>4. /\ \A k \in Stages : k # 2 => Stage'[k] \subseteq Stage[k]
      /\ \A k \in Stages : k # 3 => Stage[k] \subseteq Stage'[k]
      /\ Stage[3] = Range(outputQueue) /\ Stage'[3] = Range(outputQueue')
  BY <1>1, <1>2, <1>3 DEF Stage, Stages, InHand, Queued
<1> HIDE DEF x
<1>5. /\ InOrder(Stage') /\ CompleteInv'
      /\ \A k \in Stages : \A job \in Stage'[k] : job <= read'
  <2>1. 3 \in 2 .. 8 /\ 3 - 1 = 2
    OBVIOUS
  <2>2. /\ x \in Stage[3] /\ Ahead({x}, Stage'[3]) /\ Stage[3] \subseteq Stage'[3] \cup {x}
        /\ Stage'[2] \subseteq Stage[2] \cup {x} /\ x \in Stage'[2]
    BY <1>2, <1>3, <1>4
  <2> QED BY <1>1, <1>4, <2>1, <2>2, StageMove
<1>6. OrderInv'
  BY <1>1, <1>2, <1>5 DEF OrderInv, InOrder, Ordered
<1> QED BY <1>5, <1>6

LEMMA WritePacketTrail ==
    ASSUME Base, OrderInv, CompleteInv, WritePacket PROVE OrderInv' /\ CompleteInv'
<1> DEFINE x == writerJob
<1>1. /\ x \in Accepted /\ written \in Seq(Accepted)
      /\ written' = Append(written, x) /\ writerJob' = NoJob
      /\ UNCHANGED <<outputQueue, workerJob, workerQueue, lbJob, inputQueue, mainJob, read, discarded>>
  BY DEF Base, TypeOK, JobInv, WritePacket
<1>2. Stage[2] = {x} /\ Stage'[2] = {}
  BY <1>1, NoJobNotAccepted DEF Stage, Held
<1>3. Ordered(written') /\ Range(written') = Range(written) \cup {x}
  <2>1. Ahead(Range(written), {x})
    BY <1>2 DEF OrderInv, InOrder, Stage, Stages
  <2> QED BY <1>1, <2>1, PushBehind DEF OrderInv
<1>4. /\ \A k \in Stages : k # 1 => Stage'[k] \subseteq Stage[k]
      /\ \A k \in Stages : k # 2 => Stage[k] \subseteq Stage'[k]
      /\ Stage'[1] = Stage[1] \cup {x}
  BY <1>1, <1>2, <1>3 DEF Stage, Stages, InHand, Queued
<1> HIDE DEF x
<1>5. /\ InOrder(Stage') /\ CompleteInv'
      /\ \A k \in Stages : \A job \in Stage'[k] : job <= read'
  <2>1. Ahead({x}, Stage'[2])
    BY <1>2 DEF Ahead
  <2>2. 2 \in 2 .. 8 /\ 2 - 1 = 1
    OBVIOUS
  <2> QED BY <1>1, <1>2, <1>4, <2>1, <2>2, StageMove
<1>6. OrderInv'
  BY <1>1, <1>3, <1>5 DEF OrderInv, InOrder, Ordered
<1> QED BY <1>5, <1>6

-----------------------------------------------------------------------------
(* The inductive invariant.                                                *)

LEMMA InitIInv == Init => IInv
<1> SUFFICES ASSUME Init PROVE IInv
  OBVIOUS
<1>1. TypeOK
  <2>1. /\ <<>> \in Seq(Accepted) /\ Len(<<>>) = 0
        /\ 0 <= InputCap /\ 0 <= WorkerCap /\ 0 <= OutputCap
    BY CapAssumption
  <2>2. /\ inputQueue \in Seq(Accepted) /\ Len(inputQueue) <= InputCap
        /\ outputQueue \in Seq(Accepted) /\ Len(outputQueue) <= OutputCap
        /\ written \in Seq(Accepted)
        /\ workerQueue \in [Workers -> Seq(Accepted)]
        /\ \A w \in Workers : Len(workerQueue[w]) <= WorkerCap
    BY <2>1 DEF Init
  <2>3. /\ stopping \in 0 .. NumWorkers /\ read \in 0 .. Len(Capture)
        /\ mainJob \in Jobs /\ lbJob \in Jobs /\ writerJob \in Jobs
        /\ workerJob \in [Workers -> Jobs] /\ processed \in [Workers -> Nat]
    BY NumWorkersAssumption, LenCapture DEF Init, Jobs
  <2>4. stats \in Stats
    BY DEF Init, Stats
  <2> QED BY <2>2, <2>3, <2>4 DEF Init, TypeOK, Stats
<1>2. PhaseInv
  BY NumWorkersAssumption DEF Init, PhaseInv, Workers
<1>3. JobInv
  BY DEF Init, JobInv
<1>4. \A k \in Stages : Stage[k] = {}
  <2>1. Range(<<>>) = {}
    BY DEF Range
  <2>2. InHand = {} /\ Queued = {}
    BY <2>1 DEF Init, InHand, Queued
  <2>3. Held(writerJob) = {} /\ Held(lbJob) = {} /\ Held(mainJob) = {}
    BY DEF Init, Held
  <2> QED BY <2>1, <2>2, <2>3 DEF Init, Stage, Stages
<1>5. OrderInv
  <2>1. InOrder(Stage) /\ \A k \in Stages : \A job \in Stage[k] : job <= read
    BY <1>4 DEF InOrder, Ahead
  <2>2. \A w \in Workers : workerQueue[w] = <<>> /\ Held(workerJob[w]) = {}
    BY DEF Init, Held
  <2>3. Ordered(<<>>) /\ Range(<<>>) = {}
    BY DEF Ordered, Range
  <2> QED BY <2>1, <2>2, <2>3 DEF Init, OrderInv
<1>6. CompleteInv
  BY LenCapture DEF Init, CompleteInv, Accepted, Packets
<1> QED BY <1>1, <1>2, <1>3, <1>5, <1>6 DEF IInv, Base

LEMMA MainStep == ASSUME IInv, Main PROVE IInv'
<1>1. Base /\ OrderInv /\ CompleteInv
  BY DEF IInv
<1>2. IInv'
  <2>1. CASE StartWorker
    <3>1. UNCHANGED <<written, writerJob, outputQueue, workerJob, workerQueue, lbJob, inputQueue, mainJob, discarded, read>>
      BY <2>1 DEF StartWorker
    <3> QED BY <1>1, <2>1, <3>1, StartWorkerBase, NothingMoves DEF IInv
  <2>2. CASE StartBalancer
    <3>1. UNCHANGED <<written, writerJob, outputQueue, workerJob, workerQueue, lbJob, inputQueue, mainJob, discarded, read>>
      BY <2>2 DEF StartBalancer
    <3> QED BY <1>1, <2>2, <3>1, StartBalancerBase, NothingMoves DEF IInv
  <2>3. CASE ReadPacket
    BY <1>1, <2>3, ReadPacketBase, ReadPacketTrail DEF IInv
  <2>4. CASE PushInput
    BY <1>1, <2>4, PushInputBase, PushInputTrail DEF IInv
  <2>5. CASE EndOfCapture
    <3>1. UNCHANGED <<written, writerJob, outputQueue, workerJob, workerQueue, lbJob, inputQueue, mainJob, discarded, read>>
      BY <2>5 DEF EndOfCapture
    <3> QED BY <1>1, <2>5, <3>1, EndOfCaptureBase, NothingMoves DEF IInv
  <2>6. CASE StopBalancer
    <3>1. UNCHANGED <<written, writerJob, outputQueue, workerJob, workerQueue, lbJob, inputQueue, mainJob, discarded, read>>
      BY <2>6 DEF StopBalancer
    <3> QED BY <1>1, <2>6, <3>1, StopBalancerBase, NothingMoves DEF IInv
  <2>7. CASE ShutInput
    <3>1. UNCHANGED <<written, writerJob, outputQueue, workerJob, workerQueue, lbJob, inputQueue, mainJob, discarded, read>>
      BY <2>7 DEF ShutInput
    <3> QED BY <1>1, <2>7, <3>1, ShutInputBase, NothingMoves DEF IInv
  <2>8. CASE JoinBalancer
    <3>1. UNCHANGED <<written, writerJob, outputQueue, workerJob, workerQueue, lbJob, inputQueue, mainJob, discarded, read>>
      BY <2>8 DEF JoinBalancer
    <3> QED BY <1>1, <2>8, <3>1, JoinBalancerBase, NothingMoves DEF IInv
  <2>9. CASE StopWorker
    <3>1. UNCHANGED <<written, writerJob, outputQueue, workerJob, workerQueue, lbJob, inputQueue, mainJob, discarded, read>>
      BY <2>9 DEF StopWorker
    <3> QED BY <1>1, <2>9, <3>1, StopWorkerBase, NothingMoves DEF IInv
  <2>10. CASE ShutWorker
    <3>1. UNCHANGED <<written, writerJob, outputQueue, workerJob, workerQueue, lbJob, inputQueue, mainJob, discarded, read>>
      BY <2>10 DEF ShutWorker
    <3> QED BY <1>1, <2>10, <3>1, ShutWorkerBase, NothingMoves DEF IInv
  <2>11. CASE JoinWorker
    <3>1. UNCHANGED <<written, writerJob, outputQueue, workerJob, workerQueue, lbJob, inputQueue, mainJob, discarded, read>>
      BY <2>11 DEF JoinWorker
    <3> QED BY <1>1, <2>11, <3>1, JoinWorkerBase, NothingMoves DEF IInv
  <2>12. CASE StopWriter
    <3>1. UNCHANGED <<written, writerJob, outputQueue, workerJob, workerQueue, lbJob, inputQueue, mainJob, discarded, read>>
      BY <2>12 DEF StopWriter
    <3> QED BY <1>1, <2>12, <3>1, StopWriterBase, NothingMoves DEF IInv
  <2>13. CASE ShutOutput
    <3>1. UNCHANGED <<written, writerJob, outputQueue, workerJob, workerQueue, lbJob, inputQueue, mainJob, discarded, read>>
      BY <2>13 DEF ShutOutput
    <3> QED BY <1>1, <2>13, <3>1, ShutOutputBase, NothingMoves DEF IInv
  <2>14. CASE JoinWriter
    <3>1. UNCHANGED <<written, writerJob, outputQueue, workerJob, workerQueue, lbJob, inputQueue, mainJob, discarded, read>>
      BY <2>14 DEF JoinWriter
    <3> QED BY <1>1, <2>14, <3>1, JoinWriterBase, NothingMoves DEF IInv
  <2> QED BY <2>1, <2>2, <2>3, <2>4, <2>5, <2>6, <2>7, <2>8, <2>9, <2>10, <2>11, <2>12, <2>13, <2>14 DEF Main
<1> QED BY <1>2

LEMMA BalancerStep == ASSUME IInv, Balancer PROVE IInv'
<1>1. Base /\ OrderInv /\ CompleteInv
  BY DEF IInv
<1>2. IInv'
  <2>1. CASE BalancerTop
    <3>1. UNCHANGED <<written, writerJob, outputQueue, workerJob, workerQueue, lbJob, inputQueue, mainJob, discarded, read>>
      BY <2>1 DEF BalancerTop
    <3> QED BY <1>1, <2>1, <3>1, BalancerTopBase, NothingMoves DEF IInv
  <2>2. CASE BalancerPop
    <3>1. CASE inputQueue = <<>>
      <4>1. UNCHANGED <<written, writerJob, outputQueue, workerJob, workerQueue, lbJob, inputQueue, mainJob, discarded, read>>
        BY <2>2, <3>1 DEF BalancerPop
      <4> QED BY <1>1, <2>2, <4>1, BalancerPopBase, NothingMoves DEF IInv
    <3>2. CASE inputQueue # <<>>
      BY <1>1, <2>2, <3>2, BalancerPopBase, BalancerPopTrail DEF IInv
    <3> QED BY <3>1, <3>2
  <2>3. CASE Dispatch
    BY <1>1, <2>3, DispatchBase, DispatchTrail DEF IInv
  <2> QED BY <2>1, <2>2, <2>3 DEF Balancer
<1> QED BY <1>2

LEMMA WorkerStep == ASSUME IInv, NEW w \in Workers, Worker(w) PROVE IInv'
<1>1. Base /\ OrderInv /\ CompleteInv
  BY DEF IInv
<1>2. IInv'
  <2>1. CASE WorkerTop(w)
    <3>1. UNCHANGED <<written, writerJob, outputQueue, workerJob, workerQueue, lbJob, inputQueue, mainJob, discarded, read>>
      BY <2>1 DEF WorkerTop
    <3> QED BY <1>1, <2>1, <3>1, WorkerTopBase, NothingMoves DEF IInv
  <2>2. CASE WorkerPop(w)
    <3>1. CASE workerQueue[w] = <<>>
      <4>1. UNCHANGED <<written, writerJob, outputQueue, workerJob, workerQueue, lbJob, inputQueue, mainJob, discarded, read>>
        BY <2>2, <3>1 DEF WorkerPop
      <4> QED BY <1>1, <2>2, <4>1, WorkerPopBase, NothingMoves DEF IInv
    <3>2. CASE workerQueue[w] # <<>>
      BY <1>1, <2>2, <3>2, WorkerPopBase, WorkerPopTrail DEF IInv
    <3> QED BY <3>1, <3>2
  <2>3. CASE DropPacket(w)
    BY <1>1, <2>3, DropPacketBase, DropPacketTrail DEF IInv
  <2>4. CASE ForwardPacket(w)
    <3>1. UNCHANGED <<written, writerJob, outputQueue, workerJob, workerQueue, lbJob, inputQueue, mainJob, discarded, read>>
      BY <2>4 DEF ForwardPacket
    <3> QED BY <1>1, <2>4, <3>1, ForwardPacketBase, NothingMoves DEF IInv
  <2>5. CASE PushOutput(w)
    BY <1>1, <2>5, PushOutputBase, PushOutputTrail DEF IInv
  <2> QED BY <2>1, <2>2, <2>3, <2>4, <2>5 DEF Worker
<1> QED BY <1>2

LEMMA WriterStep == ASSUME IInv, Writer PROVE IInv'
<1>1. Base /\ OrderInv /\ CompleteInv
  BY DEF IInv
<1>2. IInv'
  <2>1. CASE WriterTop
    <3>1. UNCHANGED <<written, writerJob, outputQueue, workerJob, workerQueue, lbJob, inputQueue, mainJob, discarded, read>>
      BY <2>1 DEF WriterTop
    <3> QED BY <1>1, <2>1, <3>1, WriterTopBase, NothingMoves DEF IInv
  <2>2. CASE WriterDrain
    <3>1. UNCHANGED <<written, writerJob, outputQueue, workerJob, workerQueue, lbJob, inputQueue, mainJob, discarded, read>>
      BY <2>2 DEF WriterDrain
    <3> QED BY <1>1, <2>2, <3>1, WriterDrainBase, NothingMoves DEF IInv
  <2>3. CASE WriterPop
    <3>1. CASE outputQueue = <<>>
      <4>1. UNCHANGED <<written, writerJob, outputQueue, workerJob, workerQueue, lbJob, inputQueue, mainJob, discarded, read>>
        BY <2>3, <3>1 DEF WriterPop
      <4> QED BY <1>1, <2>3, <4>1, WriterPopBase, NothingMoves DEF IInv
    <3>2. CASE outputQueue # <<>>
      BY <1>1, <2>3, <3>2, WriterPopBase, WriterPopTrail DEF IInv
    <3> QED BY <3>1, <3>2
  <2>4. CASE WritePacket
    BY <1>1, <2>4, WritePacketBase, WritePacketTrail DEF IInv
  <2> QED BY <2>1, <2>2, <2>3, <2>4 DEF Writer
<1> QED BY <1>2

LEMMA NextIInv == ASSUME IInv, [Next]_vars PROVE IInv'
<1>1. CASE Main
  BY <1>1, MainStep
<1>2. CASE Balancer
  BY <1>2, BalancerStep
<1>3. CASE \E w \in Workers : Worker(w)
  BY <1>3, WorkerStep
<1>4. CASE Writer
  BY <1>4, WriterStep
<1>5. CASE UNCHANGED vars
  <2>1. Base'
    BY <1>5 DEF IInv, Base, TypeOK, PhaseInv, JobInv, vars
  <2>2. UNCHANGED <<written, writerJob, outputQueue, workerJob, workerQueue, lbJob, inputQueue,
                    mainJob, discarded, read>>
    BY <1>5 DEF vars
  <2> QED BY <2>1, <2>2, NothingMoves DEF IInv
<1> QED BY <1>1, <1>2, <1>3, <1>4, <1>5 DEF Next, Finished

LEMMA Invariance == Spec => []IInv
<1>1. Init => IInv
  BY InitIInv
<1>2. IInv /\ [Next]_vars => IInv'
  BY NextIInv
<1> QED BY <1>1, <1>2, PTL DEF Spec

-----------------------------------------------------------------------------
(* The theorems.                                                           *)

\* Every variable of the threads and queues has its type; in particular no
\* queue holds more than its capacity.
THEOREM TypeCorrect == Spec => []TypeOK
<1>1. IInv => TypeOK
  BY DEF IInv, Base
<1> QED BY <1>1, Invariance, PTL

\* No push of main, the balancer or a worker is ever refused, so ignoring its
\* result (main.cpp, load_balancer.cpp, fast_path.cpp) loses nothing.
THEOREM NoRefusedPushHolds == Spec => []NoRefusedPush
<1>1. IInv => NoRefusedPush
  BY DEF IInv, Base, JobInv, NoRefusedPush
<1> QED BY <1>1, Invariance, PTL

\* The packets of one flow are written in capture order, each at most once.
THEOREM FlowOrderHolds == Spec => []FlowOrder
<1>1. IInv => FlowOrder
  BY DEF IInv, OrderInv, Ordered, FlowOrder, Route
<1> QED BY <1>1, Invariance, PTL

\* At the end an accepted packet is dropped, in the file, or still in the input
\* queue of a thread that was stopped first: no other place loses one.
THEOREM OnlyQueuedIsLostHolds == Spec => []OnlyQueuedIsLost
<1>1. IInv => OnlyQueuedIsLost
  <2>1. SUFFICES ASSUME IInv, mainPc = "done", NEW job \in Accepted
                 PROVE  job \in discarded \cup Range(written) \cup Range(inputQueue) \cup Queued
    BY DEF OnlyQueuedIsLost, Queued
  <2>2. /\ lbPc = "exit" /\ writerPc = "exit" /\ outputQueue = <<>> /\ read = Len(Capture)
        /\ \A w \in Workers : workerPc[w] = "exit"
    BY <2>1 DEF IInv, Base, PhaseInv
  <2>3. /\ mainJob = NoJob /\ lbJob = NoJob /\ writerJob = NoJob
        /\ \A w \in Workers : workerJob[w] = NoJob
    BY <2>1, <2>2 DEF IInv, Base, JobInv
  <2>4. /\ Range(outputQueue) = {} /\ Held(writerJob) = {} /\ InHand = {}
        /\ Held(lbJob) = {} /\ Held(mainJob) = {}
    BY <2>2, <2>3 DEF Range, InHand, Held
  <2>5. job <= read
    BY <2>2, LenCapture DEF Accepted, Packets
  <2>6. job \in discarded \/ \E k \in Stages : job \in Stage[k]
    BY <2>1, <2>5 DEF IInv, CompleteInv
  <2> QED BY <2>4, <2>6 DEF Stage, Stages
<1> QED BY <1>1, Invariance, PTL

=============================================================================
