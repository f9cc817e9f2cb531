----------------------- MODULE PipelineCounts_proofs -----------------------
(***************************************************************************)
(* The counters of Pipeline, for any number of workers, any capture, hash  *)
(* and queue capacities: each counter is the number of the packets that    *)
(* have passed its line, so the difference of two of them is the number of *)
(* packets between the two lines.  The same sets of packets then show that *)
(* the threads implement FlowFilter.  The last sections are about the end  *)
(* of a run: who waits for whom, what a settled run still loses, and the   *)
(* measure by which the end comes nearer.                                  *)
(***************************************************************************)
EXTENDS Pipeline_proofs, Descent, FiniteSetTheorems

Ones(b) == IF b THEN 1 ELSE 0

\* The places of the worker queues that hold a packet.
Places == UNION {{<<w, i>> : i \in 1 .. Len(workerQueue[w])} : w \in Workers}

\* The workers that are at pc.
At(pc) == {w \in Workers : workerPc[w] = pc}

\* The packets that no worker has decided to drop or has pushed on.
Live == InHand \cup Queued \cup Held(lbJob) \cup Range(inputQueue) \cup Held(mainJob)

InputCount ==
    stats.tcp_udp =
        dispatched + Len(inputQueue) + Ones(mainPc = "push") + Ones(lbPc = "push")

WorkerCount ==
    /\ IsFiniteSet(Places)
    /\ dispatched = Cardinality(Places) + Cardinality(At("process")) + stats.total

OutputCount ==
    /\ stats.total = stats.forwarded + stats.dropped
    /\ stats.forwarded = Cardinality(At("push")) + Len(outputQueue) + Ones(writerPc = "write")
                           + Len(written)

\* No packet is dropped twice: of those for its worker, the dropped ones are
\* older than all that are still to be decided.
DropCount ==
    /\ IsFiniteSet(discarded) /\ stats.dropped = Cardinality(discarded)
    /\ Ahead(discarded, Live)
    /\ \A d \in discarded : d <= read

CountInv == InputCount /\ WorkerCount /\ OutputCount /\ DropCount

USE DEF mainVars, inputVars, lbVars, wqVars, workerVars, outVars, writerVars, history

-----------------------------------------------------------------------------
LEMMA Fields ==
    ASSUME TypeOK
    PROVE  /\ {stats.tcp_udp, stats.total, stats.forwarded, stats.dropped} \subseteq Nat
           /\ stats' = [stats EXCEPT !.tcp_udp = @ + 1] =>
                /\ stats'.tcp_udp = stats.tcp_udp + 1 /\ stats'.total = stats.total
                /\ stats'.forwarded = stats.forwarded /\ stats'.dropped = stats.dropped
           /\ stats' = [stats EXCEPT !.total = @ + 1, !.forwarded = @ + 1] =>
                /\ stats'.tcp_udp = stats.tcp_udp /\ stats'.total = stats.total + 1
                /\ stats'.forwarded = stats.forwarded + 1 /\ stats'.dropped = stats.dropped
           /\ stats' = [stats EXCEPT !.total = @ + 1, !.dropped = @ + 1] =>
                /\ stats'.tcp_udp = stats.tcp_udp /\ stats'.total = stats.total + 1
                /\ stats'.forwarded = stats.forwarded /\ stats'.dropped = stats.dropped + 1
<1>1. stats \in [tcp_udp : Nat, total : Nat, forwarded : Nat, dropped : Nat]
  BY DEF TypeOK, Stats
<1> QED BY <1>1

LEMMA WorkersFinite ==
    IsFiniteSet(Workers) /\ Cardinality(Workers) = NumWorkers
<1>1. 0 \in Int /\ NumWorkers - 1 \in Int /\ ~(0 > NumWorkers - 1) /\ (NumWorkers - 1) - 0 + 1 = NumWorkers
  BY NumWorkersAssumption
<1> QED BY <1>1, FS_Interval DEF Workers

LEMMA AtFinite == \A pc : IsFiniteSet(At(pc)) /\ Cardinality(At(pc)) \in Nat
<1> TAKE pc
<1>1. At(pc) \subseteq Workers
  BY DEF At
<1>2. IsFiniteSet(At(pc))
  BY <1>1, WorkersFinite, FS_Subset
<1> QED BY <1>2, FS_CardinalityType

\* A worker goes from one point to another.
LEMMA Moves ==
    ASSUME TypeOK, NEW w \in Workers, NEW from, from = workerPc[w], NEW to, from # to,
           workerPc' = [workerPc EXCEPT ![w] = to]
    PROVE  /\ \A pc : pc # from /\ pc # to => At(pc)' = At(pc)
           /\ Cardinality(At(from)') = Cardinality(At(from)) - 1
           /\ Cardinality(At(to)') = Cardinality(At(to)) + 1
<1>1. DOMAIN workerPc = Workers
  BY DEF TypeOK
<1>2. workerPc'[w] = to /\ \A v \in Workers : v # w => workerPc'[v] = workerPc[v]
  BY <1>1
<1>3. \A pc : pc # from /\ pc # to => At(pc)' = At(pc)
  BY <1>2 DEF At
<1>4. At(from)' = At(from) \ {w} /\ w \in At(from)
  BY <1>2 DEF At
<1>5. At(to)' = At(to) \cup {w} /\ w \notin At(to)
  BY <1>2 DEF At
<1>6. Cardinality(At(from)') = Cardinality(At(from)) - 1
  BY <1>4, AtFinite, FS_RemoveElement
<1>7. Cardinality(At(to)') = Cardinality(At(to)) + 1
  BY <1>5, AtFinite, FS_AddElement
<1> QED BY <1>3, <1>6, <1>7

LEMMA Stays ==
    ASSUME TypeOK, NEW w \in Workers, NEW to, workerPc' = [workerPc EXCEPT ![w] = to],
           NEW pc, pc # workerPc[w], pc # to
    PROVE  At(pc)' = At(pc)
<1>1. \A v \in Workers : workerPc'[v] = pc <=> workerPc[v] = pc
  BY DEF TypeOK
<1> QED BY <1>1 DEF At

\* The worker queues get a packet more, or one less.
LEMMA PlaceMore ==
    ASSUME TypeOK, NEW w \in Workers, NEW job,
           workerQueue' = [workerQueue EXCEPT ![w] = Append(@, job)], IsFiniteSet(Places)
    PROVE  IsFiniteSet(Places)' /\ Cardinality(Places') = Cardinality(Places) + 1
<1> DEFINE new == <<w, Len(workerQueue[w]) + 1>>
<1>1. DOMAIN workerQueue = Workers /\ workerQueue[w] \in Seq(Accepted)
  BY DEF TypeOK
<1>2. workerQueue'[w] = Append(workerQueue[w], job)
      /\ \A v \in Workers : v # w => workerQueue'[v] = workerQueue[v]
  BY <1>1
<1>3. Len(workerQueue[w]) \in Nat /\ Len(workerQueue'[w]) = Len(workerQueue[w]) + 1
  BY <1>1, <1>2
<1>4. 1 .. Len(workerQueue'[w]) = (1 .. Len(workerQueue[w])) \cup {Len(workerQueue[w]) + 1}
  BY <1>3
<1>5. \A x : x \in Places <=> \E v \in Workers : \E i \in 1 .. Len(workerQueue[v]) : x = <<v, i>>
  BY DEF Places
<1>6. \A x : x \in Places' <=> \E v \in Workers : \E i \in 1 .. Len(workerQueue'[v]) : x = <<v, i>>
  BY DEF Places
<1>7. Places' = Places \cup {new}
  BY <1>2, <1>4, <1>5, <1>6
<1>8. new \notin Places
  BY <1>3, <1>5
<1> QED BY <1>7, <1>8, FS_AddElement

LEMMA PlaceLess ==
    ASSUME TypeOK, NEW w \in Workers, workerQueue[w] # <<>>,
           workerQueue' = [workerQueue EXCEPT ![w] = Tail(@)], IsFiniteSet(Places)
    PROVE  IsFiniteSet(Places)' /\ Cardinality(Places') = Cardinality(Places) - 1
<1> DEFINE old == <<w, Len(workerQueue[w])>>
<1>1. DOMAIN workerQueue = Workers /\ workerQueue[w] \in Seq(Accepted)
  BY DEF TypeOK
<1>2. workerQueue'[w] = Tail(workerQueue[w])
      /\ \A v \in Workers : v # w => workerQueue'[v] = workerQueue[v]
  BY <1>1
<1>3. Len(workerQueue[w]) \in Nat \ {0} /\ Len(workerQueue'[w]) = Len(workerQueue[w]) - 1
  BY <1>1, <1>2, Popped
<1>4. 1 .. Len(workerQueue'[w]) = (1 .. Len(workerQueue[w])) \ {Len(workerQueue[w])}
  BY <1>3
<1>5. \A x : x \in Places <=> \E v \in Workers : \E i \in 1 .. Len(workerQueue[v]) : x = <<v, i>>
  BY DEF Places
<1>6. \A x : x \in Places' <=> \E v \in Workers : \E i \in 1 .. Len(workerQueue'[v]) : x = <<v, i>>
  BY DEF Places
<1>7. Places' = Places \ {old}
  BY <1>2, <1>4, <1>5, <1>6
<1>8. old \in Places
  <2>1. Len(workerQueue[w]) \in 1 .. Len(workerQueue[w])
    BY <1>3
  <2> QED BY <1>5, <2>1
<1> QED BY <1>7, <1>8, FS_RemoveElement

LEMMA InputStep ==
    ASSUME IInv, IInv', InputCount, [Next]_vars
    PROVE  InputCount'
<1>0. /\ TypeOK /\ refused' = {} /\ dispatched \in Nat /\ inputQueue \in Seq(Accepted)
      /\ Len(inputQueue) \in Nat /\ stats.tcp_udp \in Nat
      /\ (lbPc = "unborn" <=> mainPc = "startWorkers")
  <2>1. TypeOK /\ refused' = {} /\ (lbPc = "unborn" <=> mainPc = "startWorkers")
    BY DEF IInv, Base, JobInv, PhaseInv, Starting
  <2> QED BY <2>1, Fields DEF TypeOK
<1>1. CASE ReadPacket
  <2>1. CASE read + 1 \in Accepted
    BY <1>0, <1>1, <2>1, Fields DEF ReadPacket, InputCount, Ones
  <2>2. CASE read + 1 \notin Accepted
    BY <1>0, <1>1, <2>2 DEF ReadPacket, InputCount, Ones
  <2> QED BY <2>1, <2>2
<1>2. CASE PushInput
  <2>1. ~inputShut
    BY <1>0, <1>2 DEF PushInput
  <2>2. mainJob \in Accepted
    BY <1>2 DEF PushInput, IInv, Base, JobInv
  <2>3. inputQueue' = Append(inputQueue, mainJob) /\ Len(inputQueue') = Len(inputQueue) + 1
    BY <1>0, <1>2, <2>1, <2>2, Pushed DEF PushInput
  <2> QED BY <1>0, <1>2, <2>3 DEF PushInput, InputCount, Ones
<1>3. CASE BalancerPop
  <2>1. CASE inputQueue = <<>>
    BY <1>0, <1>3, <2>1 DEF BalancerPop, InputCount, Ones
  <2>2. CASE inputQueue # <<>>
    <3>1. inputQueue' = Tail(inputQueue) /\ Len(inputQueue') = Len(inputQueue) - 1
      BY <1>0, <1>3, <2>2, Popped DEF BalancerPop
    <3> QED BY <1>0, <1>3, <2>2, <3>1 DEF BalancerPop, InputCount, Ones
  <2> QED BY <2>1, <2>2
<1>4. CASE Dispatch
  BY <1>0, <1>4 DEF Dispatch, InputCount, Ones
<1>5. CASE StartWorker \/ StartBalancer \/ EndOfCapture \/ StopBalancer \/ ShutInput \/ JoinBalancer
  BY <1>0, <1>5 DEF StartWorker, StartBalancer, EndOfCapture, StopBalancer, ShutInput, JoinBalancer,
                    InputCount, Ones
<1>6. CASE StopWorker \/ ShutWorker \/ JoinWorker \/ StopWriter \/ ShutOutput \/ JoinWriter
  BY <1>0, <1>6 DEF StopWorker, ShutWorker, JoinWorker, StopWriter, ShutOutput, JoinWriter,
                    InputCount, Ones
<1>7. CASE BalancerTop
  BY <1>0, <1>7 DEF BalancerTop, InputCount, Ones
<1>8. ASSUME NEW w \in Workers, Worker(w) PROVE InputCount'
  <2>1. stats'.tcp_udp = stats.tcp_udp
    BY <1>0, <1>8, Fields DEF Worker, WorkerTop, WorkerPop, DropPacket, ForwardPacket, PushOutput
  <2>2. UNCHANGED <<mainPc, lbPc, dispatched, inputQueue>>
    BY <1>8 DEF Worker, WorkerTop, WorkerPop, DropPacket, ForwardPacket, PushOutput
  <2> QED BY <2>1, <2>2 DEF InputCount
<1>9. CASE Writer \/ UNCHANGED vars
  BY <1>9 DEF Writer, WriterTop, WriterDrain, WriterPop, WritePacket, vars, InputCount
<1> QED BY <1>1, <1>2, <1>3, <1>4, <1>5, <1>6, <1>7, <1>8, <1>9 DEF Next, Main, Balancer, Finished

\* What the balancer counts is what the workers count, and what is between them.
LEMMA WorkerCountStep ==
    ASSUME IInv, IInv', WorkerCount, [Next]_vars
    PROVE  WorkerCount'
<1>0. /\ TypeOK /\ refused' = {} /\ dispatched \in Nat /\ stats.total \in Nat
      /\ Cardinality(At("process")) \in Nat /\ Cardinality(Places) \in Nat
  <2>1. TypeOK /\ refused' = {}
    BY DEF IInv, Base, JobInv
  <2> QED BY <2>1, Fields, AtFinite, FS_CardinalityType DEF TypeOK, WorkerCount
<1>1. ASSUME UNCHANGED <<dispatched, workerQueue, workerPc>>, stats'.total = stats.total
      PROVE  WorkerCount'
  BY <1>1 DEF WorkerCount, Places, At
<1>2. CASE Dispatch
  <2>1. PICK w : w = Route(lbJob)
    OBVIOUS
  <2>2. w \in Workers
    <3>1. lbJob \in Accepted
      BY <1>2 DEF Dispatch, IInv, Base, JobInv
    <3> QED BY <2>1, <3>1, RouteType
  <2>3. ~workerShut[w]
    BY <1>0, <1>2, <2>1 DEF Dispatch
  <2>4. workerQueue' = [workerQueue EXCEPT ![w] = Append(@, lbJob)]
    BY <1>2, <2>1, <2>3 DEF Dispatch
  <2>5. IsFiniteSet(Places)' /\ Cardinality(Places') = Cardinality(Places) + 1
    BY <1>0, <2>2, <2>4, PlaceMore DEF WorkerCount
  <2>6. dispatched' = dispatched + 1 /\ workerPc' = workerPc /\ stats' = stats
    BY <1>2 DEF Dispatch
  <2>7. At("process")' = At("process")
    BY <2>6 DEF At
  <2> QED BY <1>0, <2>5, <2>6, <2>7 DEF WorkerCount
<1>3. ASSUME NEW w \in Workers, WorkerPop(w) PROVE WorkerCount'
  <2>1. stats' = stats /\ dispatched' = dispatched /\ workerPc[w] = "pop"
    BY <1>3 DEF WorkerPop
  <2>2. CASE workerQueue[w] = <<>>
    <3>1. workerQueue' = workerQueue /\ workerPc' = [workerPc EXCEPT ![w] = "top"]
      BY <1>3, <2>2 DEF WorkerPop
    <3>2. At("process")' = At("process")
      BY <1>0, <2>1, <3>1, Stays
    <3> QED BY <2>1, <3>1, <3>2 DEF WorkerCount, Places
  <2>3. CASE workerQueue[w] # <<>>
    <3>1. /\ workerQueue' = [workerQueue EXCEPT ![w] = Tail(@)]
          /\ workerPc' = [workerPc EXCEPT ![w] = "process"]
      BY <1>3, <2>3 DEF WorkerPop
    <3>2. Cardinality(At("process")') = Cardinality(At("process")) + 1
      BY <1>0, <2>1, <3>1, Moves
    <3>3. IsFiniteSet(Places)' /\ Cardinality(Places') = Cardinality(Places) - 1
      BY <1>0, <2>3, <3>1, PlaceLess DEF WorkerCount
    <3> QED BY <1>0, <2>1, <3>2, <3>3 DEF WorkerCount
  <2> QED BY <2>2, <2>3
<1>4. ASSUME NEW w \in Workers, DropPacket(w) \/ ForwardPacket(w) PROVE WorkerCount'
  <2>1. stats'.total = stats.total + 1
    BY <1>0, <1>4, Fields DEF DropPacket, ForwardPacket
  <2>2. UNCHANGED <<dispatched, workerQueue>> /\ workerPc[w] = "process"
    BY <1>4 DEF DropPacket, ForwardPacket
  <2>3. Cardinality(At("process")') = Cardinality(At("process")) - 1
    <3>1. CASE DropPacket(w)
      BY <1>0, <2>2, <3>1, Moves DEF DropPacket
    <3>2. CASE ForwardPacket(w)
      BY <1>0, <2>2, <3>2, Moves DEF ForwardPacket
    <3> QED BY <1>4, <3>1, <3>2
  <2> QED BY <1>0, <2>1, <2>2, <2>3 DEF WorkerCount, Places
<1>5. ASSUME NEW w \in Workers, WorkerTop(w) \/ PushOutput(w) PROVE WorkerCount'
  <2>1. UNCHANGED <<dispatched, workerQueue, stats>>
    BY <1>5 DEF WorkerTop, PushOutput
  <2>2. ASSUME WorkerTop(w) PROVE At("process")' = At("process")
    <3>1. PICK to : to = (IF workerRunning[w] THEN "pop" ELSE "exit")
      OBVIOUS
    <3>2. workerPc[w] = "top" /\ workerPc' = [workerPc EXCEPT ![w] = to] /\ to \in {"pop", "exit"}
      BY <2>2, <3>1 DEF WorkerTop
    <3> QED BY <1>0, <3>2, Stays
  <2>3. ASSUME PushOutput(w) PROVE At("process")' = At("process")
    <3>1. workerPc[w] = "push" /\ workerPc' = [workerPc EXCEPT ![w] = "top"]
      BY <2>3 DEF PushOutput
    <3> QED BY <1>0, <3>1, Stays
  <2>4. At("process")' = At("process")
    BY <1>5, <2>2, <2>3
  <2> QED BY <2>1, <2>4 DEF WorkerCount, Places
<1>6. CASE StartWorker
  <2>1. /\ workerPc' = [workerPc EXCEPT ![stopping] = "top"] /\ stopping \in Workers
        /\ UNCHANGED <<dispatched, workerQueue, stats>>
    BY <1>0, <1>6, NumWorkersAssumption DEF StartWorker, TypeOK, Workers
  <2>2. workerPc[stopping] = "unborn"
    BY <1>0, <1>6, <2>1 DEF StartWorker, IInv, Base, PhaseInv, Starting, TypeOK
  <2>3. At("process")' = At("process")
    BY <1>0, <2>1, <2>2, Stays
  <2> QED BY <2>1, <2>3 DEF WorkerCount, Places
<1>7. CASE ReadPacket
  <2>1. stats'.total = stats.total
    BY <1>0, <1>7, Fields DEF ReadPacket
  <2> QED BY <1>1, <1>7, <2>1 DEF ReadPacket
<1>8. CASE StartBalancer \/ PushInput \/ EndOfCapture \/ StopBalancer \/ ShutInput \/ JoinBalancer
  BY <1>1, <1>8 DEF StartBalancer, PushInput, EndOfCapture, StopBalancer, ShutInput, JoinBalancer
<1>9. CASE StopWorker \/ ShutWorker \/ JoinWorker \/ StopWriter \/ ShutOutput \/ JoinWriter
  BY <1>1, <1>9 DEF StopWorker, ShutWorker, JoinWorker, StopWriter, ShutOutput, JoinWriter
<1>10. CASE BalancerTop \/ BalancerPop
  BY <1>1, <1>10 DEF BalancerTop, BalancerPop
<1>11. CASE Writer \/ UNCHANGED vars
  BY <1>1, <1>11 DEF Writer, WriterTop, WriterDrain, WriterPop, WritePacket, vars
<1> QED BY <1>2, <1>3, <1>4, <1>5, <1>6, <1>7, <1>8, <1>9, <1>10, <1>11
    DEF Next, Main, Balancer, Worker, Finished

\* What the workers count as forwarded is in their hands, queued, or written.
LEMMA OutputCountStep ==
    ASSUME IInv, IInv', OutputCount, [Next]_vars
    PROVE  OutputCount'
<1>0. /\ TypeOK /\ refused' = {} /\ outputQueue \in Seq(Accepted) /\ written \in Seq(Accepted)
      /\ Len(outputQueue) \in Nat /\ Len(written) \in Nat
      /\ {stats.total, stats.forwarded, stats.dropped} \subseteq Nat
      /\ Cardinality(At("push")) \in Nat /\ Ones(writerPc = "write") \in Nat
  <2>1. TypeOK /\ refused' = {}
    BY DEF IInv, Base, JobInv
  <2> QED BY <2>1, Fields, AtFinite DEF TypeOK, Ones
<1>1. ASSUME UNCHANGED <<outputQueue, writerPc, written, workerPc>>, stats'.total = stats.total,
             stats'.forwarded = stats.forwarded, stats'.dropped = stats.dropped
      PROVE  OutputCount'
  BY <1>1 DEF OutputCount, At
<1>2. ASSUME NEW w \in Workers, WorkerTop(w) \/ WorkerPop(w) PROVE OutputCount'
  <2>1. UNCHANGED <<outputQueue, writerPc, written, stats>>
    BY <1>2 DEF WorkerTop, WorkerPop
  <2>2. ASSUME WorkerTop(w) PROVE At("push")' = At("push")
    <3>1. PICK to : to = (IF workerRunning[w] THEN "pop" ELSE "exit")
      OBVIOUS
    <3>2. workerPc[w] = "top" /\ workerPc' = [workerPc EXCEPT ![w] = to] /\ to \in {"pop", "exit"}
      BY <2>2, <3>1 DEF WorkerTop
    <3> QED BY <1>0, <3>2, Stays
  <2>3. ASSUME WorkerPop(w) PROVE At("push")' = At("push")
    <3>1. PICK to \in {"top", "process"} : workerPc' = [workerPc EXCEPT ![w] = to]
      BY <2>3 DEF WorkerPop
    <3>2. workerPc[w] = "pop" /\ "push" # "pop" /\ "push" # to /\ TypeOK
      BY <1>0, <2>3 DEF WorkerPop
    <3> QED BY <3>1, <3>2, Stays
  <2>4. At("push")' = At("push")
    BY <1>2, <2>2, <2>3
  <2> QED BY <2>1, <2>4 DEF OutputCount
<1>3. ASSUME NEW w \in Workers, DropPacket(w) PROVE OutputCount'
  <2>1. /\ stats'.total = stats.total + 1 /\ stats'.forwarded = stats.forwarded
        /\ stats'.dropped = stats.dropped + 1
    BY <1>0, <1>3, Fields DEF DropPacket
  <2>2. /\ UNCHANGED <<outputQueue, writerPc, written>> /\ workerPc[w] = "process"
        /\ workerPc' = [workerPc EXCEPT ![w] = "top"]
    BY <1>3 DEF DropPacket
  <2>3. At("push")' = At("push")
    BY <1>0, <2>2, Stays
  <2>4. stats'.total = stats'.forwarded + stats'.dropped
    BY <1>0, <2>1 DEF OutputCount
  <2>5. stats'.forwarded = Cardinality(At("push")') + Len(outputQueue')
                            + Ones(writerPc' = "write") + Len(written')
    BY <2>1, <2>2, <2>3 DEF OutputCount
  <2> QED BY <2>4, <2>5 DEF OutputCount
<1>4. ASSUME NEW w \in Workers, ForwardPacket(w) PROVE OutputCount'
  <2>1. /\ stats'.total = stats.total + 1 /\ stats'.forwarded = stats.forwarded + 1
        /\ stats'.dropped = stats.dropped
    BY <1>0, <1>4, Fields DEF ForwardPacket
  <2>2. /\ UNCHANGED <<outputQueue, writerPc, written>> /\ workerPc[w] = "process"
        /\ workerPc' = [workerPc EXCEPT ![w] = "push"]
    BY <1>4 DEF ForwardPacket
  <2>3. Cardinality(At("push")') = Cardinality(At("push")) + 1
    BY <1>0, <2>2, Moves
  <2>4. stats'.total = stats'.forwarded + stats'.dropped
    BY <1>0, <2>1 DEF OutputCount
  <2>5. stats'.forwarded = Cardinality(At("push")') + Len(outputQueue')
                            + Ones(writerPc' = "write") + Len(written')
    <3>1. /\ Len(outputQueue') = Len(outputQueue) /\ Len(written') = Len(written)
          /\ writerPc' = writerPc
      BY <2>2
    <3>2. stats.forwarded = Cardinality(At("push")) + Len(outputQueue)
                              + Ones(writerPc = "write") + Len(written)
      BY DEF OutputCount
    <3>3. Ones(writerPc' = "write") = Ones(writerPc = "write")
      BY <3>1
    <3> QED BY <1>0, <2>1, <2>3, <3>1, <3>2, <3>3
  <2> QED BY <2>4, <2>5 DEF OutputCount
<1>5. ASSUME NEW w \in Workers, PushOutput(w) PROVE OutputCount'
  <2>1. ~outputShut /\ workerJob[w] \in Accepted
    BY <1>0, <1>5 DEF PushOutput, IInv, Base, JobInv
  <2>2. Len(outputQueue') = Len(outputQueue) + 1
    BY <1>0, <1>5, <2>1, Pushed DEF PushOutput
  <2>3. /\ UNCHANGED <<writerPc, written, stats>> /\ workerPc[w] = "push"
        /\ workerPc' = [workerPc EXCEPT ![w] = "top"]
    BY <1>5 DEF PushOutput
  <2>4. Cardinality(At("push")') = Cardinality(At("push")) - 1
    BY <1>0, <2>3, Moves
  <2> QED BY <1>0, <2>2, <2>3, <2>4 DEF OutputCount
<1>6. CASE WriterPop \/ WritePacket
  <2>1. UNCHANGED <<workerPc, stats>>
    BY <1>6 DEF WriterPop, WritePacket
  <2>2. At("push")' = At("push")
    BY <2>1 DEF At
  <2>3. /\ stats.total = stats.forwarded + stats.dropped
        /\ stats.forwarded = Cardinality(At("push")) + Len(outputQueue)
                               + Ones(writerPc = "write") + Len(written)
    BY DEF OutputCount
  <2>4. stats'.total = stats'.forwarded + stats'.dropped
    BY <2>1, <2>3
  <2>5. CASE WriterPop /\ outputQueue = <<>>
    <3>1. UNCHANGED <<outputQueue, written>> /\ writerPc = "pop" /\ writerPc' = "top"
      BY <2>5 DEF WriterPop
    <3> QED BY <2>1, <2>2, <3>1 DEF OutputCount, Ones
  <2>6. CASE WriterPop /\ outputQueue # <<>>
    <3>1. /\ outputQueue' = Tail(outputQueue) /\ written' = written
          /\ writerPc = "pop" /\ writerPc' = "write"
      BY <2>6 DEF WriterPop
    <3>2. Len(outputQueue') = Len(outputQueue) - 1
      BY <1>0, <2>6, <3>1, Popped
    <3>3. Ones(writerPc = "write") = 0 /\ Ones(writerPc' = "write") = 1
      BY <3>1 DEF Ones
    <3>4. Len(written') = Len(written) /\ stats'.forwarded = stats.forwarded
      BY <2>1, <3>1
    <3>5. stats'.forwarded = Cardinality(At("push")') + Len(outputQueue')
                              + Ones(writerPc' = "write") + Len(written')
      BY <1>0, <2>2, <2>3, <3>2, <3>3, <3>4
    <3> QED BY <2>4, <3>5 DEF OutputCount
  <2>7. CASE WritePacket
    <3>1. /\ written' = Append(written, writerJob) /\ outputQueue' = outputQueue
          /\ writerPc = "write" /\ writerPc' = "top"
      BY <2>7 DEF WritePacket
    <3>2. writerJob \in Accepted
      BY <3>1 DEF IInv, Base, JobInv
    <3>3. Len(written') = Len(written) + 1
      BY <1>0, <3>1, <3>2, Pushed
    <3>4. Ones(writerPc = "write") = 1 /\ Ones(writerPc' = "write") = 0
      BY <3>1 DEF Ones
    <3>5. Len(outputQueue') = Len(outputQueue) /\ stats'.forwarded = stats.forwarded
      BY <2>1, <3>1
    <3>6. PICK push \in Nat, queued \in Nat, out \in Nat :
             push = Cardinality(At("push")) /\ queued = Len(outputQueue) /\ out = Len(written)
      BY <1>0
    <3>7. /\ stats.forwarded = push + queued + 1 + out
          /\ Len(written') = out + 1 /\ Len(outputQueue') = queued
      BY <2>3, <3>3, <3>4, <3>5, <3>6
    <3>8. Cardinality(At("push")') = push
      BY <2>2, <3>6
    <3>9. stats'.forwarded = Cardinality(At("push")') + Len(outputQueue')
                              + Ones(writerPc' = "write") + Len(written')
      BY <3>4, <3>5, <3>7, <3>8
    <3> QED BY <2>4, <3>9 DEF OutputCount
  <2> QED BY <1>6, <2>5, <2>6, <2>7
<1>7. CASE StartWorker
  <2>1. /\ workerPc' = [workerPc EXCEPT ![stopping] = "top"] /\ stopping \in Workers
        /\ UNCHANGED <<outputQueue, writerPc, written, stats>>
    BY <1>0, <1>7, NumWorkersAssumption DEF StartWorker, TypeOK, Workers
  <2>2. workerPc[stopping] = "unborn"
    BY <1>0, <1>7, <2>1 DEF StartWorker, IInv, Base, PhaseInv, Starting, TypeOK
  <2>3. At("push")' = At("push")
    BY <1>0, <2>1, <2>2, Stays
  <2> QED BY <2>1, <2>3 DEF OutputCount
<1>8. CASE ReadPacket
  <2>1. /\ stats'.total = stats.total /\ stats'.forwarded = stats.forwarded
        /\ stats'.dropped = stats.dropped
    BY <1>0, <1>8, Fields DEF ReadPacket
  <2> QED BY <1>1, <1>8, <2>1 DEF ReadPacket
<1>9. CASE StartBalancer \/ PushInput \/ EndOfCapture \/ StopBalancer \/ ShutInput \/ JoinBalancer
  BY <1>1, <1>9 DEF StartBalancer, PushInput, EndOfCapture, StopBalancer, ShutInput, JoinBalancer
<1>10. CASE StopWorker \/ ShutWorker \/ JoinWorker \/ StopWriter \/ ShutOutput \/ JoinWriter
  BY <1>1, <1>10 DEF StopWorker, ShutWorker, JoinWorker, StopWriter, ShutOutput, JoinWriter
<1>11. CASE Balancer
  BY <1>1, <1>11 DEF Balancer, BalancerTop, BalancerPop, Dispatch
<1>12. CASE WriterTop \/ WriterDrain
  <2>1. /\ UNCHANGED <<outputQueue, written, workerPc, stats>>
        /\ writerPc # "write" /\ writerPc' # "write"
    BY <1>12 DEF WriterTop, WriterDrain
  <2> QED BY <2>1 DEF OutputCount, At, Ones
<1>13. CASE UNCHANGED vars
  BY <1>1, <1>13 DEF vars
<1> QED BY <1>2, <1>3, <1>4, <1>5, <1>6, <1>7, <1>8, <1>9, <1>10, <1>11, <1>12, <1>13
    DEF Next, Main, Worker, Writer, Finished

-----------------------------------------------------------------------------
(* No packet is dropped twice.                                             *)

LEMMA RangeTail ==
    ASSUME NEW S, NEW q \in Seq(S), q # <<>>
    PROVE  Range(q) = Range(Tail(q)) \cup {Head(q)}
<1>1. /\ Tail(q) \in Seq(S) /\ Len(q) \in Nat \ {0} /\ Len(Tail(q)) = Len(q) - 1
      /\ Head(q) = q[1] /\ \A i \in 1 .. Len(q) - 1 : Tail(q)[i] = q[i + 1]
  BY Popped
<1>2. DOMAIN q = 1 .. Len(q) /\ DOMAIN Tail(q) = 1 .. Len(q) - 1
  BY <1>1
<1>3. ASSUME NEW i \in 1 .. Len(q), i # 1
      PROVE  i - 1 \in 1 .. Len(q) - 1 /\ q[i] = Tail(q)[i - 1]
  BY <1>1, <1>3
<1>4. Range(q) \subseteq Range(Tail(q)) \cup {Head(q)}
  <2> SUFFICES ASSUME NEW x \in Range(q), x # Head(q) PROVE x \in Range(Tail(q))
    OBVIOUS
  <2>1. PICK i \in 1 .. Len(q) : x = q[i]
    BY <1>2 DEF Range
  <2>2. i # 1
    BY <1>1, <2>1
  <2>3. i - 1 \in 1 .. Len(q) - 1 /\ x = Tail(q)[i - 1]
    BY <1>3, <2>1, <2>2
  <2> QED BY <1>2, <2>3 DEF Range
<1>5. Range(Tail(q)) \cup {Head(q)} \subseteq Range(q)
  BY <1>1, <1>2 DEF Range
<1> QED BY <1>4, <1>5

LEMMA RangeAppend ==
    ASSUME NEW S, NEW q \in Seq(S), NEW x \in S
    PROVE  Range(Append(q, x)) = Range(q) \cup {x}
<1>1. /\ Append(q, x) \in Seq(S) /\ Len(Append(q, x)) = Len(q) + 1
      /\ Len(q) \in Nat /\ Append(q, x)[Len(q) + 1] = x
      /\ \A i \in 1 .. Len(q) : Append(q, x)[i] = q[i]
  BY Pushed
<1>2. DOMAIN q = 1 .. Len(q) /\ DOMAIN Append(q, x) = 1 .. Len(q) + 1
  BY <1>1
<1>3. \A i \in 1 .. Len(q) + 1 : i \in 1 .. Len(q) \/ i = Len(q) + 1
  BY <1>1
<1>4. 1 .. Len(q) \subseteq 1 .. Len(q) + 1 /\ Len(q) + 1 \in 1 .. Len(q) + 1
  BY <1>1
<1> QED BY <1>1, <1>2, <1>3, <1>4 DEF Range

\* Reading adds a packet to those still to be decided.
LEMMA LiveRead ==
    ASSUME IInv, ReadPacket
    PROVE  Live' = Live \cup ({read + 1} \cap Accepted)
<1>1. /\ UNCHANGED <<workerJob, workerQueue, lbJob, inputQueue>> /\ mainPc = "read"
      /\ mainJob' = IF read + 1 \in Accepted THEN read + 1 ELSE mainJob
  BY DEF ReadPacket
<1>2. mainJob = NoJob
  BY <1>1 DEF IInv, Base, JobInv
<1>3. Held(mainJob') = Held(mainJob) \cup ({read + 1} \cap Accepted)
  BY <1>1, <1>2, NoJobNotAccepted DEF Held
<1> QED BY <1>1, <1>3 DEF Live, InHand, Queued

\* A packet in any other step stays where it is or moves on.
LEMMA LiveStays ==
    ASSUME IInv, IInv', [Next]_vars, ~ReadPacket,
           \A w \in Workers : ~DropPacket(w) /\ ~PushOutput(w)
    PROVE  Live' = Live
<1>0. /\ TypeOK /\ refused' = {}
      /\ inputQueue \in Seq(Accepted) /\ workerQueue \in [Workers -> Seq(Accepted)]
      /\ workerJob \in [Workers -> Jobs]
  BY DEF IInv, Base, JobInv, TypeOK
<1>1. ASSUME UNCHANGED <<workerJob, workerQueue, lbJob, inputQueue, mainJob>>
      PROVE  Live' = Live
  BY <1>1 DEF Live, InHand, Queued, Held
<1>2. CASE PushInput
  <2>1. ~inputShut /\ mainJob \in Accepted
    BY <1>0, <1>2 DEF PushInput, IInv, Base, JobInv
  <2>2. inputQueue' = Append(inputQueue, mainJob) /\ mainJob' = NoJob
    BY <1>2, <2>1 DEF PushInput
  <2>3. Range(inputQueue') = Range(inputQueue) \cup {mainJob} /\ Held(mainJob') = {}
        /\ Held(mainJob) = {mainJob}
    BY <1>0, <2>1, <2>2, RangeAppend, NoJobNotAccepted DEF Held
  <2>4. UNCHANGED <<InHand, Queued, Held(lbJob)>>
    BY <1>2 DEF PushInput, InHand, Queued
  <2> QED BY <2>3, <2>4 DEF Live
<1>3. CASE BalancerPop
  <2>1. CASE inputQueue = <<>>
    BY <1>1, <1>3, <2>1 DEF BalancerPop
  <2>2. CASE inputQueue # <<>>
    <3>1. lbJob' = Head(inputQueue) /\ inputQueue' = Tail(inputQueue) /\ lbPc = "pop"
      BY <1>3, <2>2 DEF BalancerPop
    <3>2. Held(lbJob) = {} /\ Head(inputQueue) # NoJob
      BY <1>0, <2>2, <3>1, Popped, NoJobNotAccepted DEF Held, IInv, Base, JobInv
    <3>3. Range(inputQueue) = Range(inputQueue') \cup Held(lbJob')
      BY <1>0, <2>2, <3>1, <3>2, RangeTail DEF Held
    <3>4. UNCHANGED <<InHand, Queued, Held(mainJob)>>
      BY <1>3 DEF BalancerPop, InHand, Queued
    <3> QED BY <3>2, <3>3, <3>4 DEF Live
  <2> QED BY <2>1, <2>2
<1>4. CASE Dispatch
  <2>1. PICK w : w = Route(lbJob)
    OBVIOUS
  <2>2. lbJob \in Accepted /\ w \in Workers
    BY <1>4, <2>1, RouteType DEF Dispatch, IInv, Base, JobInv
  <2>3. ~workerShut[w]
    BY <1>0, <1>4, <2>1 DEF Dispatch
  <2>4. workerQueue' = [workerQueue EXCEPT ![w] = Append(@, lbJob)]
    BY <1>4, <2>1, <2>3 DEF Dispatch
  <2>5. /\ workerQueue'[w] = Append(workerQueue[w], lbJob)
        /\ \A v \in Workers : v # w => workerQueue'[v] = workerQueue[v]
    BY <1>0, <2>2, <2>4
  <2>6. Range(workerQueue'[w]) = Range(workerQueue[w]) \cup {lbJob}
    BY <1>0, <2>2, <2>5, RangeAppend
  <2>7. Queued' = Queued \cup {lbJob}
    BY <2>2, <2>5, <2>6 DEF Queued
  <2>8. Held(lbJob') = {} /\ Held(lbJob) = {lbJob}
    BY <1>4, <2>2, NoJobNotAccepted DEF Dispatch, Held
  <2>9. UNCHANGED <<InHand, inputQueue, mainJob>>
    BY <1>4 DEF Dispatch, InHand
  <2> QED BY <2>7, <2>8, <2>9 DEF Live
<1>5. ASSUME NEW w \in Workers, WorkerPop(w) PROVE Live' = Live
  <2>1. CASE workerQueue[w] = <<>>
    BY <1>1, <1>5, <2>1 DEF WorkerPop
  <2>2. CASE workerQueue[w] # <<>>
    <3>1. /\ workerJob' = [workerJob EXCEPT ![w] = Head(workerQueue[w])]
          /\ workerQueue' = [workerQueue EXCEPT ![w] = Tail(@)] /\ workerPc[w] = "pop"
      BY <1>5, <2>2 DEF WorkerPop
    <3>2. /\ workerQueue'[w] = Tail(workerQueue[w]) /\ workerJob'[w] = Head(workerQueue[w])
          /\ \A v \in Workers : v # w => workerQueue'[v] = workerQueue[v]
                                         /\ workerJob'[v] = workerJob[v]
      BY <1>0, <3>1
    <3>3. workerJob[w] = NoJob /\ Head(workerQueue[w]) # NoJob
      <4>1. workerJob[w] = NoJob
        BY <3>1 DEF IInv, Base, JobInv
      <4>2. workerQueue[w] \in Seq(Accepted)
        BY <1>0
      <4>3. Head(workerQueue[w]) \in Accepted
        BY <2>2, <4>2, Popped
      <4> QED BY <4>1, <4>3, NoJobNotAccepted
    <3>4. Range(workerQueue[w]) = Range(workerQueue'[w]) \cup {Head(workerQueue[w])}
      BY <1>0, <2>2, <3>2, RangeTail
    <3>5. Queued = Queued' \cup {Head(workerQueue[w])}
      BY <3>2, <3>4 DEF Queued
    <3>6. InHand' = InHand \cup {Head(workerQueue[w])}
      BY <3>2, <3>3 DEF InHand
    <3>7. UNCHANGED <<lbJob, inputQueue, mainJob>>
      BY <1>5 DEF WorkerPop
    <3> QED BY <3>5, <3>6, <3>7 DEF Live, Held
  <2> QED BY <2>1, <2>2
<1>6. ASSUME NEW w \in Workers, WorkerTop(w) \/ ForwardPacket(w) PROVE Live' = Live
  BY <1>1, <1>6 DEF WorkerTop, ForwardPacket
<1>7. CASE StartWorker \/ StartBalancer \/ EndOfCapture \/ StopBalancer \/ ShutInput \/ JoinBalancer
  BY <1>1, <1>7 DEF StartWorker, StartBalancer, EndOfCapture, StopBalancer, ShutInput, JoinBalancer
<1>8. CASE StopWorker \/ ShutWorker \/ JoinWorker \/ StopWriter \/ ShutOutput \/ JoinWriter
  BY <1>1, <1>8 DEF StopWorker, ShutWorker, JoinWorker, StopWriter, ShutOutput, JoinWriter
<1>9. CASE BalancerTop \/ Writer \/ UNCHANGED vars
  BY <1>1, <1>9 DEF BalancerTop, Writer, WriterTop, WriterDrain, WriterPop, WritePacket, vars
<1> QED BY <1>2, <1>3, <1>4, <1>5, <1>6, <1>7, <1>8, <1>9
    DEF Next, Main, Balancer, Worker, Finished

\* Those of Live but the packet in the hands of w.
Others(w) == (InHand \ {workerJob[w]}) \cup Queued \cup Held(lbJob) \cup Range(inputQueue)
               \cup Held(mainJob)

\* A packet a worker holds is older than all that come after it to that worker.
LEMMA HandFirst ==
    ASSUME IInv, NEW w \in Workers, workerJob[w] \in Accepted
    PROVE  /\ workerJob[w] \in Live /\ workerJob[w] <= read
           /\ Ahead({workerJob[w]}, Others(w))
           /\ \A v \in Workers : v # w => workerJob[v] # workerJob[w]
<1>1. workerJob[w] \in InHand
  BY NoJobNotAccepted DEF InHand
<1>2. InOrder(Stage) /\ \A k \in Stages : \A job \in Stage[k] : job <= read
  BY DEF IInv, OrderInv
<1>3. 4 \in Stages /\ 5 \in Stages /\ 6 \in Stages /\ 7 \in Stages /\ 8 \in Stages
  BY DEF Stages
<1>4. workerJob[w] <= read
  BY <1>1, <1>2, <1>3, StageAt
<1>5. /\ Ahead(InHand, Queued) /\ Ahead(InHand, Held(lbJob))
      /\ Ahead(InHand, Range(inputQueue)) /\ Ahead(InHand, Held(mainJob))
  <2>1. /\ Ahead(Stage[4], Stage[5]) /\ Ahead(Stage[4], Stage[6])
        /\ Ahead(Stage[4], Stage[7]) /\ Ahead(Stage[4], Stage[8])
    BY <1>2, <1>3 DEF InOrder
  <2> QED BY <2>1, StageAt
<1>6. \A v \in Workers : workerJob[v] # NoJob => Route(workerJob[v]) = v
  <2> TAKE v \in Workers
  <2>1. \A job \in Range(workerQueue[v]) \cup Held(workerJob[v]) : Route(job) = v
    BY DEF IInv, OrderInv
  <2> QED BY <2>1 DEF Held
<1>7. ASSUME NEW y \in InHand, y # workerJob[w] PROVE Route(y) # Route(workerJob[w])
  <2>1. PICK v \in Workers : y = workerJob[v] /\ y # NoJob
    BY <1>7 DEF InHand
  <2>2. v # w
    BY <1>7, <2>1
  <2> QED BY <1>6, <2>1, <2>2, NoJobNotAccepted
<1>8. \A v \in Workers : v # w => workerJob[v] # workerJob[w]
  BY <1>6, NoJobNotAccepted
<1>9. workerJob[w] \in Live
  BY <1>1 DEF Live
<1>10. Ahead({workerJob[w]}, Others(w))
  BY <1>1, <1>5, <1>7 DEF Ahead, Others
<1> QED BY <1>4, <1>8, <1>9, <1>10

\* A decision takes the packet in the worker's hands away.
LEMMA LiveDecided ==
    ASSUME IInv, NEW w \in Workers, DropPacket(w) \/ PushOutput(w)
    PROVE  /\ workerJob[w] \in Accepted
           /\ Live' = Live \ {workerJob[w]} /\ Live' = Others(w)
<1>1. /\ workerJob' = [workerJob EXCEPT ![w] = NoJob]
      /\ UNCHANGED <<workerQueue, lbJob, inputQueue, mainJob>>
      /\ workerPc[w] \in {"process", "push"}
  BY DEF DropPacket, PushOutput
<1>2. workerJob[w] \in Accepted /\ workerJob[w] \in Nat /\ workerJob \in [Workers -> Jobs]
  BY <1>1, AcceptedNat DEF IInv, Base, JobInv, TypeOK
<1>3. Ahead({workerJob[w]}, Others(w)) /\ \A v \in Workers : v # w => workerJob[v] # workerJob[w]
  BY <1>2, HandFirst
<1>4. workerJob'[w] = NoJob /\ \A v \in Workers : v # w => workerJob'[v] = workerJob[v]
  BY <1>1, <1>2
<1>5. InHand' = InHand \ {workerJob[w]}
  BY <1>2, <1>3, <1>4 DEF InHand
<1>6. workerJob[w] \notin Others(w)
  <2>1. workerJob[w] \in Others(w) => workerJob[w] < workerJob[w]
    BY <1>3 DEF Ahead
  <2> QED BY <1>2, <2>1
<1>7. Live' = Others(w)
  BY <1>1, <1>5 DEF Live, Others, Queued, Held
<1>8. Others(w) = Live \ {workerJob[w]}
  BY <1>6 DEF Others, Live
<1> QED BY <1>2, <1>7, <1>8

\* Only reading adds a packet to those still to be decided.
LEMMA LiveStep ==
    ASSUME IInv, IInv', [Next]_vars
    PROVE  \/ Live' \subseteq Live
           \/ ReadPacket /\ Live' \subseteq Live \cup {read + 1}
  BY LiveRead, LiveStays, LiveDecided

LEMMA DropCountStep ==
    ASSUME IInv, IInv', DropCount, [Next]_vars
    PROVE  DropCount'
<1>0. TypeOK /\ read \in Nat /\ read' \in Nat /\ stats.dropped \in Nat
  <2>1. TypeOK /\ TypeOK'
    BY DEF IInv, Base
  <2>2. read \in 0 .. Len(Capture) /\ read' \in 0 .. Len(Capture)
    BY <2>1 DEF TypeOK
  <2> QED BY <2>1, <2>2, Fields
<1>1. discarded \subseteq Nat
  BY <1>0, AcceptedNat DEF TypeOK
<1>2. read' = read \/ (ReadPacket /\ read' = read + 1)
  BY DEF Next, Main, Balancer, Worker, Writer, Finished, vars, StartWorker, StartBalancer, ReadPacket,
         PushInput, EndOfCapture, StopBalancer, ShutInput, JoinBalancer, StopWorker, ShutWorker,
         JoinWorker, StopWriter, ShutOutput, JoinWriter, BalancerTop, BalancerPop, Dispatch,
         WorkerTop, WorkerPop, DropPacket, ForwardPacket, PushOutput, WriterTop, WriterDrain,
         WriterPop, WritePacket
<1>3. /\ Ahead(discarded, Live')
      /\ \A d \in discarded : d <= read'
  <2>1. \A d \in discarded : d <= read /\ d < read + 1 /\ d \in Nat
    BY <1>0, <1>1 DEF DropCount
  <2>2. Ahead(discarded, Live \cup {read + 1})
    BY <2>1 DEF DropCount, Ahead
  <2>3. Ahead(discarded, Live')
    BY <2>2, LiveStep DEF Ahead
  <2>4. \A d \in discarded : d <= read'
    BY <1>0, <1>2, <2>1
  <2> QED BY <2>3, <2>4
<1>4. ASSUME NEW w \in Workers, DropPacket(w) PROVE DropCount'
  <2>1. PICK job : job = workerJob[w]
    OBVIOUS
  <2>2. job \in Accepted /\ job \in Nat
    BY <1>4, <2>1, AcceptedNat DEF DropPacket, IInv, Base, JobInv
  <2>3. job \in Live /\ job <= read /\ Ahead({job}, Others(w))
    BY <2>1, <2>2, HandFirst
  <2>4. discarded' = discarded \cup {job} /\ stats'.dropped = stats.dropped + 1 /\ read' = read
    BY <1>0, <1>4, <2>1, Fields DEF DropPacket
  <2>5. job \notin discarded
    <3>1. job \in discarded => job < job
      BY <2>3 DEF DropCount, Ahead
    <3> QED BY <2>2, <3>1
  <2>6. IsFiniteSet(discarded') /\ Cardinality(discarded') = Cardinality(discarded) + 1
    BY <2>4, <2>5, FS_AddElement DEF DropCount
  <2>7. Live' \subseteq Others(w)
    BY <1>4, LiveDecided
  <2>8. Ahead(discarded', Live')
    BY <1>3, <2>3, <2>4, <2>7 DEF Ahead
  <2> QED BY <1>3, <2>3, <2>4, <2>6, <2>8 DEF DropCount
<1>5. ASSUME UNCHANGED discarded, stats'.dropped = stats.dropped PROVE DropCount'
  BY <1>3, <1>5 DEF DropCount
<1>6. CASE ReadPacket
  <2>1. stats'.dropped = stats.dropped
    BY <1>0, <1>6, Fields DEF ReadPacket
  <2> QED BY <1>5, <1>6, <2>1 DEF ReadPacket
<1>7. ASSUME NEW w \in Workers, ForwardPacket(w) PROVE DropCount'
  <2>1. stats'.dropped = stats.dropped
    BY <1>0, <1>7, Fields DEF ForwardPacket
  <2> QED BY <1>5, <1>7, <2>1 DEF ForwardPacket
<1>8. ASSUME NEW w \in Workers, WorkerTop(w) \/ WorkerPop(w) \/ PushOutput(w) PROVE DropCount'
  BY <1>5, <1>8 DEF WorkerTop, WorkerPop, PushOutput
<1>9. CASE StartWorker \/ StartBalancer \/ PushInput \/ EndOfCapture \/ StopBalancer \/ ShutInput
           \/ JoinBalancer
  BY <1>5, <1>9 DEF StartWorker, StartBalancer, PushInput, EndOfCapture, StopBalancer, ShutInput,
                    JoinBalancer
<1>10. CASE StopWorker \/ ShutWorker \/ JoinWorker \/ StopWriter \/ ShutOutput \/ JoinWriter
  BY <1>5, <1>10 DEF StopWorker, ShutWorker, JoinWorker, StopWriter, ShutOutput, JoinWriter
<1>11. CASE Balancer \/ Writer \/ UNCHANGED vars
  BY <1>5, <1>11 DEF Balancer, BalancerTop, BalancerPop, Dispatch, Writer, WriterTop, WriterDrain,
                     WriterPop, WritePacket, vars
<1> QED BY <1>4, <1>6, <1>7, <1>8, <1>9, <1>10, <1>11 DEF Next, Main, Worker, Finished

LEMMA LiveNat == IInv => Live \subseteq Nat
<1> SUFFICES ASSUME IInv, NEW job \in Live PROVE job \in Accepted
  BY AcceptedNat
<1>1. /\ workerJob \in [Workers -> Jobs] /\ lbJob \in Jobs /\ mainJob \in Jobs
      /\ inputQueue \in Seq(Accepted) /\ workerQueue \in [Workers -> Seq(Accepted)]
  BY DEF IInv, Base, TypeOK
<1>2. CASE job \in InHand \cup Held(lbJob) \cup Held(mainJob)
  BY <1>1, <1>2 DEF InHand, Held, Jobs
<1>3. CASE job \in Range(inputQueue)
  BY <1>1, <1>3 DEF Range
<1>4. CASE job \in Queued
  <2>1. PICK w \in Workers : job \in Range(workerQueue[w])
    BY <1>4 DEF Queued
  <2>2. workerQueue[w] \in Seq(Accepted)
    BY <1>1
  <2> QED BY <2>1, <2>2 DEF Range
<1> QED BY <1>2, <1>3, <1>4 DEF Live

-----------------------------------------------------------------------------
(* The theorems.                                                           *)

LEMMA InitCount == Init => CountInv
<1> SUFFICES ASSUME Init PROVE CountInv
  OBVIOUS
<1>1. \A w \in Workers : workerQueue[w] = <<>> /\ workerPc[w] = "unborn" /\ workerJob[w] = NoJob
  BY DEF Init
<1>2. Places = {}
  <2>1. \A w \in Workers : 1 .. Len(workerQueue[w]) = {}
    BY <1>1
  <2> QED BY <2>1 DEF Places
<1>3. At("process") = {} /\ At("push") = {}
  BY <1>1 DEF At
<1>4. /\ stats.tcp_udp = 0 /\ stats.total = 0 /\ stats.forwarded = 0 /\ stats.dropped = 0
      /\ dispatched = 0 /\ Len(inputQueue) = 0 /\ Len(outputQueue) = 0 /\ Len(written) = 0
      /\ mainPc # "push" /\ lbPc # "push" /\ writerPc # "write" /\ discarded = {}
  BY DEF Init
<1>5. IsFiniteSet({}) /\ Cardinality({}) = 0
  BY FS_EmptySet
<1>6. InputCount
  BY <1>4 DEF InputCount, Ones
<1>7. Cardinality(Places) = 0 /\ Cardinality(At("process")) = 0 /\ Cardinality(At("push")) = 0
  BY <1>2, <1>3, <1>5
<1>8. WorkerCount
  BY <1>2, <1>4, <1>5, <1>7 DEF WorkerCount
<1>9. OutputCount
  BY <1>4, <1>7 DEF OutputCount, Ones
<1>10. DropCount
  BY <1>4, <1>5 DEF DropCount, Ahead
<1> QED BY <1>6, <1>8, <1>9, <1>10 DEF CountInv

LEMMA Counting == Spec => [](IInv /\ CountInv)
<1>1. Init => IInv /\ CountInv
  BY InitIInv, InitCount
<1>2. (IInv /\ CountInv) /\ [Next]_vars => (IInv /\ CountInv)'
  BY NextIInv, InputStep, WorkerCountStep, OutputCountStep, DropCountStep DEF CountInv
<1> QED BY <1>1, <1>2, PTL DEF Spec

\* The report agrees with the file and with itself, and what it misses is in
\* the input queues.
THEOREM ReportConsistentHolds == Spec => []ReportConsistent
<1>1. IInv /\ CountInv => ReportConsistent
  <2>1. SUFFICES ASSUME IInv, CountInv, mainPc = "done"
                 PROVE  /\ stats.forwarded = Len(written)
                        /\ stats.dropped = Cardinality(discarded)
                        /\ stats.total = stats.forwarded + stats.dropped
                        /\ stats.tcp_udp - stats.total = Len(inputQueue) + Cardinality(Places)
    BY DEF ReportConsistent, Places
  <2>2. /\ lbPc = "exit" /\ writerPc = "exit" /\ outputQueue = <<>>
        /\ \A w \in Workers : workerPc[w] = "exit"
    BY <2>1 DEF IInv, Base, PhaseInv, Joined
  <2>3. At("process") = {} /\ At("push") = {}
    BY <2>2 DEF At
  <2>4. Cardinality(At("process")) = 0 /\ Cardinality(At("push")) = 0 /\ Len(outputQueue) = 0
    BY <2>2, <2>3, FS_EmptySet
  <2>5. TypeOK /\ Len(inputQueue) \in Nat /\ Len(written) \in Nat /\ dispatched \in Nat
        /\ Cardinality(Places) \in Nat
    BY <2>1, FS_CardinalityType DEF IInv, Base, TypeOK, CountInv, WorkerCount
  <2>6. {stats.tcp_udp, stats.total, stats.forwarded, stats.dropped} \subseteq Nat
    BY <2>5, Fields
  <2>7. stats.forwarded = Len(written) /\ stats.total = stats.forwarded + stats.dropped
    <3>1. /\ stats.forwarded = Cardinality(At("push")) + Len(outputQueue)
                                 + Ones(writerPc = "write") + Len(written)
          /\ stats.total = stats.forwarded + stats.dropped
      BY <2>1 DEF CountInv, OutputCount
    <3>2. Ones(writerPc = "write") = 0
      BY <2>2 DEF Ones
    <3> QED BY <2>4, <2>5, <3>1, <3>2
  <2>8. stats.tcp_udp = dispatched + Len(inputQueue)
    BY <2>1, <2>2, <2>5 DEF CountInv, InputCount, Ones
  <2>9. dispatched = Cardinality(Places) + stats.total
    <3>1. dispatched = Cardinality(Places) + Cardinality(At("process")) + stats.total
      BY <2>1 DEF CountInv, WorkerCount
    <3> QED BY <2>4, <2>5, <2>6, <3>1
  <2> QED BY <2>1, <2>5, <2>6, <2>7, <2>8, <2>9 DEF CountInv, DropCount
<1> QED BY <1>1, Counting, PTL

LEMMA PlacesBound ==
    ASSUME TypeOK
    PROVE  Cardinality(Places) <= NumWorkers * WorkerCap
<1>1. Places \subseteq Workers \X (1 .. WorkerCap)
  <2>1. SUFFICES ASSUME NEW w \in Workers, NEW i \in 1 .. Len(workerQueue[w])
                 PROVE  i \in 1 .. WorkerCap
    BY DEF Places
  <2>2. Len(workerQueue[w]) <= WorkerCap /\ workerQueue[w] \in Seq(Accepted) /\ WorkerCap \in Nat
    BY CapAssumption DEF TypeOK
  <2> QED BY <2>2
<1>2. IsFiniteSet(1 .. WorkerCap) /\ Cardinality(1 .. WorkerCap) = WorkerCap
  <2>1. 1 \in Int /\ WorkerCap \in Int /\ ~(1 > WorkerCap) /\ WorkerCap - 1 + 1 = WorkerCap
    BY CapAssumption
  <2> QED BY <2>1, FS_Interval
<1>3. /\ IsFiniteSet(Workers \X (1 .. WorkerCap))
      /\ Cardinality(Workers \X (1 .. WorkerCap)) = NumWorkers * WorkerCap
  BY <1>2, WorkersFinite, FS_Product
<1> QED BY <1>1, <1>3, FS_Subset

LEMMA HandsBound ==
    ASSUME TypeOK
    PROVE  Cardinality(At("process")) + Cardinality(At("push")) <= NumWorkers
<1>1. /\ At("process") \cup At("push") \subseteq Workers
      /\ At("process") \cap At("push") = {}
  BY DEF At
<1>2. Cardinality(At("process") \cup At("push"))
        = Cardinality(At("process")) + Cardinality(At("push")) - 0
  BY <1>1, AtFinite, FS_Union, FS_EmptySet
<1>3. Cardinality(At("process") \cup At("push")) <= NumWorkers
  BY <1>1, WorkersFinite, FS_Subset
<1> QED BY <1>2, <1>3, AtFinite

\* Between the counters of main and of the balancer are at most a full queue
\* and two packets; between those of the balancer and the writer, full queues and
\* one packet in the hands of each worker and of the writer.
THEOREM InFlightBoundHolds == Spec => []InFlightBound
<1>1. IInv /\ CountInv => InFlightBound
  <2>1. SUFFICES ASSUME IInv, CountInv PROVE InFlightBound
    OBVIOUS
  <2>2. /\ TypeOK /\ Len(inputQueue) \in Nat /\ Len(outputQueue) \in Nat /\ Len(written) \in Nat
        /\ Len(inputQueue) <= InputCap /\ Len(outputQueue) <= OutputCap /\ dispatched \in Nat
        /\ InputCap \in Nat /\ OutputCap \in Nat /\ WorkerCap \in Nat /\ NumWorkers \in Nat
    BY <2>1, CapAssumption, NumWorkersAssumption DEF IInv, Base, TypeOK
  <2>3. stats.tcp_udp \in Nat /\ stats.total \in Nat /\ stats.forwarded \in Nat /\ stats.dropped \in Nat
    BY <2>2, Fields
  <2>4. stats.tcp_udp - dispatched <= InputCap + 2
    BY <2>1, <2>2, <2>3 DEF CountInv, InputCount, Ones
  <2>5. /\ Cardinality(Places) \in Nat /\ Cardinality(At("process")) \in Nat
        /\ Cardinality(At("push")) \in Nat
    BY <2>1, AtFinite, FS_CardinalityType DEF CountInv, WorkerCount
  <2>6. /\ Cardinality(Places) <= NumWorkers * WorkerCap
        /\ Cardinality(At("process")) + Cardinality(At("push")) <= NumWorkers
    BY <2>2, PlacesBound, HandsBound
  <2>7. /\ dispatched = Cardinality(Places) + Cardinality(At("process")) + stats.total
        /\ stats.total = stats.forwarded + stats.dropped
        /\ stats.forwarded = Cardinality(At("push")) + Len(outputQueue)
                               + Ones(writerPc = "write") + Len(written)
    BY <2>1 DEF CountInv, WorkerCount, OutputCount
  <2>8. NumWorkers * WorkerCap \in Nat /\ NumWorkers * (WorkerCap + 1) = NumWorkers * WorkerCap + NumWorkers
    BY <2>2
  <2>9. PICK room \in Nat : room = NumWorkers * WorkerCap
    BY <2>8
  <2>10. Cardinality(Places) <= room
    BY <2>6, <2>9
  <2>11. dispatched - stats.dropped - Len(written) <= room + NumWorkers + OutputCap + 1
    <3>1. PICK places \in Nat : places = Cardinality(Places)
      BY <2>5
    <3>2. PICK process \in Nat : process = Cardinality(At("process"))
      BY <2>5
    <3>3. PICK push \in Nat : push = Cardinality(At("push"))
      BY <2>5
    <3>4. PICK queued \in Nat : queued = Len(outputQueue)
      BY <2>2
    <3>5. PICK out \in Nat : out = Len(written)
      BY <2>2
    <3>6. PICK total, forwarded, dropped \in Nat :
             total = stats.total /\ forwarded = stats.forwarded /\ dropped = stats.dropped
      BY <2>3
    <3>13. PICK hand \in {0, 1} : hand = Ones(writerPc = "write")
      BY DEF Ones
    <3>7. /\ dispatched = places + process + total
          /\ total = forwarded + dropped
          /\ forwarded = push + queued + hand + out
      BY <2>7, <3>1, <3>2, <3>3, <3>4, <3>5, <3>6, <3>13
    <3>8. places <= room /\ process + push <= NumWorkers /\ queued <= OutputCap
      BY <2>2, <2>6, <2>10, <3>1, <3>2, <3>3, <3>4
    <3>9. room \in Nat /\ NumWorkers \in Nat /\ OutputCap \in Nat
      BY <2>2, <2>8, <2>9
    <3>10. dispatched - dropped - out = places + process + push + queued + hand
      BY ONLY <3>7, hand \in {0, 1}, places \in Nat, process \in Nat, push \in Nat, queued \in Nat,
              out \in Nat, total \in Nat, forwarded \in Nat, dropped \in Nat
    <3>11. places + process + push + queued + hand <= room + NumWorkers + OutputCap + 1
      BY ONLY <3>8, <3>9, hand \in {0, 1}, places \in Nat, process \in Nat, push \in Nat, queued \in Nat
    <3>12. dispatched - stats.dropped - Len(written) = dispatched - dropped - out
      BY <3>5, <3>6
    <3> QED BY <3>10, <3>11, <3>12
  <2> QED BY <2>4, <2>8, <2>9, <2>11 DEF InFlightBound
<1> QED BY <1>1, Counting, PTL

-----------------------------------------------------------------------------
(* Refinement: reading, a worker's decision, writing a packet and the last *)
(* join are the steps of FlowFilter; every other step is invisible.        *)

LEMMA UndecidedIsLive == Undecided = Live /\ Undecided' = Live'
<1>1. ({workerJob[w] : w \in Workers} \cup {lbJob, mainJob}) \ {NoJob}
        = InHand \cup Held(lbJob) \cup Held(mainJob)
  BY DEF InHand, Held
<1>2. ({workerJob'[w] : w \in Workers} \cup {lbJob', mainJob'}) \ {NoJob}
        = InHand' \cup Held(lbJob') \cup Held(mainJob')
  BY DEF InHand, Held
<1>3. Undecided = Live
  BY <1>1 DEF Undecided, Live, Queued
<1>4. Undecided' = Live'
  BY <1>2 DEF Undecided, Live, Queued
<1> QED BY <1>3, <1>4

\* The abstract waiting, as a function of Live.
LEMMA WaitingLive ==
    /\ \A t : Waiting(t) = {job \in Live : Capture[job] = t}
    /\ \A t : Waiting(t)' = {job \in Live' : Capture[job] = t}
<1>1. \A t : Waiting(t) = {job \in Live : Capture[job] = t}
  BY UndecidedIsLive DEF Waiting
<1>2. \A t : Waiting(t)' = {job \in Live' : Capture[job] = t}
  BY UndecidedIsLive DEF Waiting
<1> QED BY <1>1, <1>2

\* What the writer holds goes before what is queued.
LEMMA HandAndQueue ==
    ASSUME NEW S, NEW q \in Seq(S), NEW x \in S, NEW y \in S
    PROVE  /\ <<>> \o q = q
           /\ <<x>> \o q \in Seq(S) /\ <<x>> \o q # <<>>
           /\ Head(<<x>> \o q) = x /\ Tail(<<x>> \o q) = q
           /\ Append(<<x>> \o q, y) = <<x>> \o Append(q, y)
<1>1. /\ <<x>> \o q \in Seq(S) /\ Len(<<x>> \o q) = Len(q) + 1 /\ Len(q) \in Nat
      /\ (<<x>> \o q)[1] = x
      /\ \A i \in 1 .. Len(q) : (<<x>> \o q)[i + 1] = q[i]
  OBVIOUS
<1>2. <<>> \o q = q
  OBVIOUS
<1>3. <<x>> \o q # <<>> /\ Head(<<x>> \o q) = x
  BY <1>1
<1>4. Tail(<<x>> \o q) = q
  <2>1. /\ Tail(<<x>> \o q) \in Seq(S) /\ Len(Tail(<<x>> \o q)) = Len(q)
        /\ \A i \in 1 .. Len(q) : Tail(<<x>> \o q)[i] = q[i]
    BY <1>1, <1>3, Popped
  <2> QED BY <2>1, SeqEqual
<1>5. Append(<<x>> \o q, y) = <<x>> \o Append(q, y)
  OBVIOUS
<1> QED BY <1>1, <1>2, <1>3, <1>4, <1>5

LEMMA HeadAndTail ==
    ASSUME NEW S, NEW q \in Seq(S), q # <<>>
    PROVE  <<Head(q)>> \o Tail(q) = q
<1>1. /\ Head(q) \in S /\ Tail(q) \in Seq(S) /\ Len(Tail(q)) = Len(q) - 1 /\ Len(q) \in Nat \ {0}
      /\ Head(q) = q[1] /\ \A i \in 1 .. Len(q) - 1 : Tail(q)[i] = q[i + 1]
  BY Popped
<1>2. /\ <<Head(q)>> \o Tail(q) \in Seq(S) /\ Len(<<Head(q)>> \o Tail(q)) = Len(q)
      /\ (<<Head(q)>> \o Tail(q))[1] = q[1]
      /\ \A i \in 1 .. Len(q) - 1 : (<<Head(q)>> \o Tail(q))[i + 1] = q[i + 1]
  BY <1>1
<1>3. ASSUME NEW i \in 1 .. Len(q) PROVE (<<Head(q)>> \o Tail(q))[i] = q[i]
  <2>1. CASE i = 1
    BY <1>2, <2>1
  <2>2. CASE i # 1
    <3>1. i - 1 \in 1 .. Len(q) - 1 /\ (i - 1) + 1 = i
      BY <1>1, <2>2
    <3> QED BY <1>2, <3>1
  <2> QED BY <2>1, <2>2
<1> QED BY <1>2, <1>3, SeqEqual

\* Popping moves a packet from the queue to the writer's hands.
LEMMA WriterPopLeaving == ASSUME IInv, WriterPop PROVE Leaving' = Leaving
<1>1. outputQueue \in Seq(Accepted) /\ writerPc = "pop"
  BY DEF IInv, Base, TypeOK, WriterPop
<1>2. Leaving = <<>> \o outputQueue
  BY <1>1 DEF Leaving
<1>3. CASE outputQueue = <<>>
  <2>1. outputQueue' = outputQueue /\ writerPc' = "top"
    BY <1>3 DEF WriterPop
  <2> QED BY <1>2, <2>1 DEF Leaving
<1>4. CASE outputQueue # <<>>
  <2>1. outputQueue' = Tail(outputQueue) /\ writerJob' = Head(outputQueue) /\ writerPc' = "write"
    BY <1>4 DEF WriterPop
  <2>2. Leaving' = <<Head(outputQueue)>> \o Tail(outputQueue)
    BY <2>1 DEF Leaving
  <2>3. Leaving' = outputQueue
    BY <1>1, <1>4, <2>2, HeadAndTail
  <2>4. Leaving = outputQueue
    BY <1>1, <1>2
  <2> QED BY <2>3, <2>4
<1> QED BY <1>3, <1>4

\* Nothing but the reader, the workers' decisions and the writer touches what
\* the filter sees of the queues; nothing moves once the run is over.
LEMMA Visible ==
    ASSUME IInv, [Next]_vars
    PROVE  /\ ReadPacket \/ read' = read
           /\ (\E w \in Workers : DropPacket(w)) \/ discarded' = discarded
           /\ (\E w \in Workers : PushOutput(w)) \/ WritePacket \/ Leaving' = Leaving
           /\ WritePacket \/ written' = written
           /\ JoinWriter \/ (mainPc' = "done" <=> mainPc = "done")
           /\ mainPc = "done" => /\ ~ReadPacket /\ ~WritePacket
                                 /\ \A w \in Workers : ~DropPacket(w) /\ ~PushOutput(w)
<1>0. UNCHANGED <<writerPc, writerJob, outputQueue>> => Leaving' = Leaving
  BY DEF Leaving
<1>1. CASE Main
  <2>1. CASE StartWorker \/ StartBalancer \/ ReadPacket \/ PushInput \/ EndOfCapture
    BY <1>0, <2>1 DEF StartWorker, StartBalancer, ReadPacket, PushInput, EndOfCapture
  <2>2. CASE StopBalancer \/ ShutInput \/ JoinBalancer \/ StopWorker \/ ShutWorker
    BY <1>0, <2>2 DEF StopBalancer, ShutInput, JoinBalancer, StopWorker, ShutWorker
  <2>3. CASE JoinWorker \/ StopWriter \/ ShutOutput \/ JoinWriter
    BY <1>0, <2>3 DEF JoinWorker, StopWriter, ShutOutput, JoinWriter
  <2> QED BY <1>1, <2>1, <2>2, <2>3 DEF Main
<1>2. mainPc = "done" => /\ ~ReadPacket /\ ~WritePacket
                         /\ \A w \in Workers : ~DropPacket(w) /\ ~PushOutput(w)
  BY DEF IInv, Base, PhaseInv, Joined, ReadPacket, WritePacket, DropPacket, PushOutput
<1>3. CASE Balancer
  BY <1>0, <1>2, <1>3 DEF Balancer, BalancerTop, BalancerPop, Dispatch
<1>4. ASSUME NEW w \in Workers, Worker(w)
      PROVE  /\ DropPacket(w) \/ discarded' = discarded
             /\ PushOutput(w) \/ Leaving' = Leaving
             /\ UNCHANGED <<read, written, mainPc>>
  BY <1>0, <1>4 DEF Worker, WorkerTop, WorkerPop, DropPacket, ForwardPacket, PushOutput
<1>5. CASE \E w \in Workers : Worker(w)
  BY <1>2, <1>4, <1>5
<1>6. CASE Writer
  <2>1. UNCHANGED <<read, discarded, mainPc>>
    BY <1>6 DEF Writer, WriterTop, WriterDrain, WriterPop, WritePacket
  <2>2. ASSUME WriterTop \/ WriterDrain PROVE UNCHANGED <<Leaving, written>>
    <3>1. /\ UNCHANGED <<writerJob, outputQueue, written>>
          /\ writerPc # "write" /\ writerPc' # "write"
      BY <2>2 DEF WriterTop, WriterDrain
    <3> QED BY <3>1 DEF Leaving
  <2>3. ASSUME WriterPop PROVE UNCHANGED <<Leaving, written>>
    BY <2>3, WriterPopLeaving DEF WriterPop
  <2> QED BY <1>2, <1>6, <2>1, <2>2, <2>3 DEF Writer
<1>7. CASE UNCHANGED vars
  BY <1>0, <1>2, <1>7 DEF vars
<1> QED BY <1>1, <1>3, <1>5, <1>6, <1>7 DEF Next, Finished

LEMMA InitRefines == Init => Filter!Init
<1> SUFFICES ASSUME Init PROVE Filter!Init
  OBVIOUS
<1>1. Live = {}
  <2>1. Range(inputQueue) = {} /\ \A w \in Workers : Range(workerQueue[w]) = {}
    BY DEF Init, Range
  <2>2. InHand = {} /\ Queued = {} /\ Held(lbJob) = {} /\ Held(mainJob) = {}
    BY <2>1 DEF Init, InHand, Queued, Held
  <2> QED BY <2>1, <2>2 DEF Live
<1>2. \A t : Waiting(t) = {}
  BY <1>1, WaitingLive
<1>3. Leaving = <<>>
  BY DEF Init, Leaving
<1> QED BY <1>2, <1>3 DEF Init, Filter!Init

LEMMA ReadRefines ==
    ASSUME IInv, ReadPacket
    PROVE  Filter!Read
<1>1. /\ mainPc = "read" /\ read < Len(Capture) /\ read' = read + 1
      /\ UNCHANGED <<Leaving, written, discarded>>
  BY DEF ReadPacket, Leaving
<1>2. read' \in Nat /\ read' \in Packets
  <2>1. read \in 0 .. Len(Capture) /\ Len(Capture) \in Nat
    BY LenCapture DEF IInv, Base, TypeOK
  <2> QED BY <1>1, <2>1 DEF Packets
<1>3. read' \in Accepted <=> Capture[read'] \in Tuples
  BY <1>2 DEF Accepted
<1>4. Live' = Live \cup ({read'} \cap Accepted)
  BY <1>1, LiveRead
<1>5. [t \in Tuples |-> Waiting(t)]'
        = IF Capture[read'] \in Tuples
          THEN [[t \in Tuples |-> Waiting(t)] EXCEPT ![Capture[read']] = @ \cup {read'}]
          ELSE [t \in Tuples |-> Waiting(t)]
  <2>1. CASE Capture[read'] \in Tuples
    <3>1. \A t \in Tuples : Waiting(t)' = IF t = Capture[read'] THEN Waiting(t) \cup {read'}
                                                              ELSE Waiting(t)
      BY <1>3, <1>4, <2>1, WaitingLive
    <3> QED BY <2>1, <3>1
  <2>2. CASE Capture[read'] \notin Tuples
    <3>1. \A t \in Tuples : Waiting(t)' = Waiting(t)
      BY <1>3, <1>4, <2>2, WaitingLive
    <3> QED BY <2>2, <3>1
  <2> QED BY <2>1, <2>2
<1>6. mainPc # "done" /\ mainPc' # "done"
  BY DEF ReadPacket
<1> QED BY <1>1, <1>5, <1>6 DEF Filter!Read

\* The packet in a worker's hands is the one whose turn it is in its flow.
LEMMA DecidedIsOldest ==
    ASSUME IInv, NEW w \in Workers, DropPacket(w) \/ PushOutput(w), NEW t, t = Capture[workerJob[w]]
    PROVE  /\ t \in Tuples
           /\ workerJob[w] \in Filter!Oldest(t)
           /\ [u \in Tuples |-> Waiting(u)]'
                = [[u \in Tuples |-> Waiting(u)] EXCEPT ![t] = @ \ {workerJob[w]}]
<1>1. PICK job : job = workerJob[w]
  OBVIOUS
<1>2. job \in Accepted /\ job \in Nat /\ Live' = Live \ {job} /\ Live' = Others(w)
  BY <1>1, LiveDecided, AcceptedNat
<1>3. job \in Live /\ Ahead({job}, Others(w))
  BY <1>1, <1>2, HandFirst
<1>4. t \in Tuples
  BY <1>1, <1>2 DEF Accepted
<1>5. ASSUME NEW other \in Waiting(t) PROVE job <= other
  <2>1. other \in Live /\ Capture[other] = t
    BY <1>5, WaitingLive
  <2>2. CASE other = job
    BY <1>2, <2>2
  <2>3. CASE other # job
    <3>1. other \in Others(w)
      BY <1>2, <2>1, <2>3
    <3>2. Route(other) = Route(job)
      BY <1>1, <2>1 DEF Route
    <3>3. other > job
      BY <1>3, <3>1, <3>2 DEF Ahead
    <3>4. other \in Nat
      BY <2>1, LiveNat
    <3> QED BY <1>2, <3>3, <3>4
  <2> QED BY <2>2, <2>3
<1>6. job \in Waiting(t)
  BY <1>1, <1>3, WaitingLive
<1>7. job \in Filter!Oldest(t)
  BY <1>4, <1>5, <1>6 DEF Filter!Oldest
<1>8. \A u \in Tuples : Waiting(u)' = IF u = t THEN Waiting(u) \ {job} ELSE Waiting(u)
  BY <1>1, <1>2, WaitingLive
<1>9. [u \in Tuples |-> Waiting(u)]' = [[u \in Tuples |-> Waiting(u)] EXCEPT ![t] = @ \ {job}]
  BY <1>4, <1>8
<1> QED BY <1>1, <1>4, <1>7, <1>9

LEMMA DropRefines ==
    ASSUME IInv, [Next]_vars, NEW w \in Workers, DropPacket(w)
    PROVE  \E t \in Tuples : Filter!Drop(t)
<1>1. PICK t : t = Capture[workerJob[w]]
  OBVIOUS
<1>2. /\ t \in Tuples /\ workerJob[w] \in Filter!Oldest(t)
      /\ [u \in Tuples |-> Waiting(u)]'
           = [[u \in Tuples |-> Waiting(u)] EXCEPT ![t] = @ \ {workerJob[w]}]
  BY <1>1, DecidedIsOldest
<1>3. /\ discarded' = discarded \cup {workerJob[w]} /\ mainPc # "done" /\ mainPc' = mainPc
      /\ UNCHANGED <<read, Leaving, written>>
  BY Visible DEF DropPacket, Leaving
<1>4. Filter!Drop(t)
  BY <1>2, <1>3 DEF Filter!Drop
<1> QED BY <1>2, <1>4

LEMMA ForwardRefines ==
    ASSUME IInv, IInv', [Next]_vars, NEW w \in Workers, PushOutput(w)
    PROVE  \E t \in Tuples : Filter!Forward(t)
<1>1. PICK t : t = Capture[workerJob[w]]
  OBVIOUS
<1>2. /\ t \in Tuples /\ workerJob[w] \in Filter!Oldest(t)
      /\ [u \in Tuples |-> Waiting(u)]'
           = [[u \in Tuples |-> Waiting(u)] EXCEPT ![t] = @ \ {workerJob[w]}]
  BY <1>1, DecidedIsOldest
<1>3. ~outputShut
  BY DEF PushOutput, IInv, Base, JobInv
<1>4. /\ outputQueue' = Append(outputQueue, workerJob[w]) /\ mainPc # "done" /\ mainPc' = mainPc
      /\ UNCHANGED <<read, writerPc, writerJob, written, discarded>>
  BY <1>3, Visible DEF PushOutput
<1>6. Leaving' = Append(Leaving, workerJob[w])
  <2>1. outputQueue \in Seq(Accepted) /\ workerJob[w] \in Accepted
    BY LiveDecided DEF IInv, Base, TypeOK
  <2>2. CASE writerPc = "write"
    <3>1. writerJob \in Accepted
      BY <2>2 DEF IInv, Base, JobInv
    <3>2. Leaving = <<writerJob>> \o outputQueue
          /\ Leaving' = <<writerJob>> \o Append(outputQueue, workerJob[w])
      BY <1>4, <2>2 DEF Leaving
    <3> QED BY <2>1, <3>1, <3>2, HandAndQueue
  <2>3. CASE writerPc # "write"
    <3>1. /\ Leaving = <<>> \o outputQueue
          /\ Leaving' = <<>> \o Append(outputQueue, workerJob[w])
      BY <1>4, <2>3 DEF Leaving
    <3>2. Append(outputQueue, workerJob[w]) \in Seq(Accepted)
      BY <2>1, Pushed
    <3>3. Leaving = outputQueue /\ Leaving' = Append(outputQueue, workerJob[w])
      BY <2>1, <3>1, <3>2, HandAndQueue
    <3> QED BY <3>3
  <2> QED BY <2>2, <2>3
<1>5. Filter!Forward(t)
  BY <1>2, <1>4, <1>6 DEF Filter!Forward
<1> QED BY <1>2, <1>5

\* What the filter does not see of the queues has not changed.
LEMMA SameWaiting ==
    ASSUME Live' = Live
    PROVE  [t \in Tuples |-> Waiting(t)]' = [t \in Tuples |-> Waiting(t)]
  BY WaitingLive

LEMMA NextRefines == IInv /\ IInv' /\ [Next]_vars => [Filter!Next]_(Filter!vars)
<1> SUFFICES ASSUME IInv, IInv', [Next]_vars PROVE [Filter!Next]_(Filter!vars)
  OBVIOUS
<1>1. CASE ReadPacket
  BY <1>1, ReadRefines DEF Filter!Next
<1>2. CASE \E w \in Workers : DropPacket(w)
  BY <1>2, DropRefines DEF Filter!Next
<1>3. CASE \E w \in Workers : PushOutput(w)
  BY <1>3, ForwardRefines DEF Filter!Next
<1>4. CASE ~ReadPacket /\ \A w \in Workers : ~DropPacket(w) /\ ~PushOutput(w)
  <2>1. /\ [t \in Tuples |-> Waiting(t)]' = [t \in Tuples |-> Waiting(t)]
        /\ UNCHANGED <<read, discarded>>
    BY <1>4, LiveStays, SameWaiting, Visible
  <2>2. CASE WritePacket
    <3>1. mainPc # "done" /\ mainPc' = mainPc
      BY <2>2, Visible DEF WritePacket
    <3>2. /\ writerJob \in Accepted /\ outputQueue \in Seq(Accepted)
          /\ written' = Append(written, writerJob)
      BY <2>2 DEF WritePacket, IInv, Base, TypeOK, JobInv
    <3>3. Leaving = <<writerJob>> \o outputQueue /\ Leaving' = <<>> \o outputQueue
      BY <2>2 DEF WritePacket, Leaving
    <3>4. Leaving # <<>> /\ Head(Leaving) = writerJob /\ Leaving' = Tail(Leaving)
      BY <3>2, <3>3, HandAndQueue
    <3> QED BY <2>1, <3>1, <3>2, <3>4 DEF Filter!Write, Filter!Next
  <2>3. CASE JoinWriter
    <3>1. /\ mainPc = "joinWriter" /\ mainPc' = "done" /\ writerPc = "exit"
          /\ UNCHANGED <<Leaving, written>>
      BY <2>3 DEF JoinWriter, Leaving
    <3>2. read = Len(Capture) /\ Leaving = <<>>
      BY <3>1 DEF IInv, Base, PhaseInv, Leaving
    <3> QED BY <2>1, <3>1, <3>2 DEF Filter!Finish, Filter!Next
  <2>4. CASE ~WritePacket /\ ~JoinWriter
    <3>1. UNCHANGED <<Leaving, written>> /\ (mainPc = "done")' = (mainPc = "done")
      BY <1>4, <2>4, Visible
    <3> QED BY <2>1, <3>1 DEF Filter!vars
  <2> QED BY <2>2, <2>3, <2>4
<1> QED BY <1>1, <1>2, <1>3, <1>4

\* Whatever the interleaving of the threads, the run is one of the filter's.
THEOREM Refinement == Spec => ImplementsFlowFilter
  BY Invariance, InitRefines, NextRefines, PTL DEF Spec, ImplementsFlowFilter, Filter!Spec

-----------------------------------------------------------------------------
(* Somebody always gets on.  A push that waits, and a join, follow the      *)
(* pipeline to a thread that has something to take or whose flag is down;   *)
(* that this thread has not ended yet is what the flags are needed for.     *)

FlagsInv ==
    /\ mainPc \in {"read", "push", "stopBalancer"} => lbRunning
    /\ mainPc \in {"shutInput"} \cup StoppingB => ~lbRunning
    /\ mainPc \in Starting => \A w \in Workers : w < stopping => workerRunning[w]
    /\ mainPc \in Reading \cup StoppingB => \A w \in Workers : workerRunning[w]
    /\ mainPc \in {"shutWorker", "joinWorker"} => ~workerRunning[stopping]
    /\ lbPc = "exit" => ~lbRunning
    /\ \A w \in Workers : workerPc[w] = "exit" => ~workerRunning[w]

LEMMA InitFlags == Init => FlagsInv
  BY NumWorkersAssumption DEF Init, FlagsInv, Workers, Starting, Reading, StoppingB

LEMMA FlagsStep == ASSUME IInv, FlagsInv, [Next]_vars PROVE FlagsInv'
<1>0. /\ TypeOK /\ PhaseInv /\ NumWorkers \in Nat \ {0}
      /\ DOMAIN workerPc = Workers /\ DOMAIN workerRunning = Workers
      /\ stopping \in 0 .. NumWorkers
  BY NumWorkersAssumption DEF IInv, Base, TypeOK
<1> USE DEF Starting, Reading, StoppingB
<1>1. CASE StartWorker
  <2>1. /\ stopping \in Workers /\ stopping' = stopping + 1 /\ mainPc = "startWorkers"
        /\ mainPc' = mainPc /\ lbPc' = lbPc /\ lbRunning' = lbRunning
    BY <1>0, <1>1 DEF StartWorker, Workers
  <2>2. /\ workerRunning' = [workerRunning EXCEPT ![stopping] = TRUE]
        /\ workerPc' = [workerPc EXCEPT ![stopping] = "top"]
    BY <1>1 DEF StartWorker
  <2>3. \A w \in Workers : w < stopping + 1 => w < stopping \/ w = stopping
    BY <1>0 DEF Workers
  <2> QED BY <1>0, <2>1, <2>2, <2>3 DEF FlagsInv
<1>2. CASE StartBalancer
  BY <1>0, <1>2 DEF StartBalancer, FlagsInv, PhaseInv, Workers
<1>3. CASE ReadPacket \/ PushInput \/ EndOfCapture \/ ShutInput \/ JoinBalancer \/ ShutWorker
  BY <1>0, <1>3 DEF ReadPacket, PushInput, EndOfCapture, ShutInput, JoinBalancer, ShutWorker, FlagsInv
<1>4. CASE StopBalancer
  BY <1>0, <1>4 DEF StopBalancer, FlagsInv
<1>5. CASE StopWorker
  BY <1>0, <1>5 DEF StopWorker, FlagsInv, Workers
<1>6. CASE JoinWorker \/ StopWriter \/ ShutOutput \/ JoinWriter
  BY <1>0, <1>6 DEF JoinWorker, StopWriter, ShutOutput, JoinWriter, FlagsInv
<1>7. CASE BalancerTop \/ BalancerPop \/ Dispatch
  BY <1>0, <1>7 DEF BalancerTop, BalancerPop, Dispatch, FlagsInv
<1>8. ASSUME NEW w \in Workers, Worker(w) PROVE FlagsInv'
  <2>1. UNCHANGED <<mainPc, stopping, lbPc, lbRunning, workerRunning>>
    BY <1>8 DEF Worker, WorkerTop, WorkerPop, DropPacket, ForwardPacket, PushOutput
  <2>2. \A v \in Workers : workerPc'[v] = "exit" => ~workerRunning[v]
    <3>1. CASE WorkerTop(w)
      BY <1>0, <3>1 DEF WorkerTop, FlagsInv
    <3>2. CASE ~WorkerTop(w)
      BY <1>0, <1>8, <3>2 DEF Worker, WorkerPop, DropPacket, ForwardPacket, PushOutput, FlagsInv
    <3> QED BY <3>1, <3>2
  <2> QED BY <2>1, <2>2 DEF FlagsInv
<1>9. CASE Writer \/ UNCHANGED vars
  BY <1>9 DEF Writer, WriterTop, WriterDrain, WriterPop, WritePacket, vars, FlagsInv
<1> QED BY <1>1, <1>2, <1>3, <1>4, <1>5, <1>6, <1>7, <1>8, <1>9 DEF Next, Main, Balancer, Finished

\* A queue without room has something in it.
LEMMA FullNotEmpty ==
    ASSUME NEW S, NEW q \in Seq(S), NEW cap \in Nat \ {0}, ~(Len(q) < cap)
    PROVE  q # <<>>
  OBVIOUS

LEMMA WorkerServed ==
    ASSUME IInv, NEW w \in Workers, workerPc[w] \notin {"unborn", "exit"},
           workerQueue[w] # <<>> \/ ~workerRunning[w]
    PROVE  WorkerAdvances(w) \/ WriterAdvances
<1>1. workerPc[w] \in {"top", "pop", "process", "push"}
  BY DEF IInv, Base, TypeOK
<1>2. CASE workerPc[w] = "push" /\ ~(Len(outputQueue) < OutputCap)
  <2>1. outputQueue # <<>>
    BY <1>2, FullNotEmpty, CapAssumption DEF IInv, Base, TypeOK
  <2>2. writerPc # "exit"
    BY <2>1 DEF IInv, Base, PhaseInv
  <2> QED BY <2>1, <2>2 DEF WriterAdvances
<1>3. CASE ~(workerPc[w] = "push" /\ ~(Len(outputQueue) < OutputCap))
  BY <1>1, <1>3 DEF WorkerAdvances
<1> QED BY <1>2, <1>3

LEMMA BalancerServed ==
    ASSUME IInv, FlagsInv, lbPc \notin {"unborn", "exit"}, inputQueue # <<>> \/ ~lbRunning
    PROVE  BalancerAdvances \/ WriterAdvances \/ \E w \in Workers : WorkerAdvances(w)
<1>1. lbPc \in {"top", "pop", "push"}
  BY DEF IInv, Base, TypeOK
<1>2. CASE lbPc # "push"
  BY <1>1, <1>2 DEF BalancerAdvances
<1>3. CASE lbPc = "push"
  <2>1. PICK w : w = Route(lbJob)
    OBVIOUS
  <2>2. w \in Workers
    BY <1>3, <2>1, RouteType DEF IInv, Base, JobInv
  <2>3. CASE Len(workerQueue[w]) < WorkerCap
    BY <1>3, <2>1, <2>3 DEF BalancerAdvances
  <2>4. CASE ~(Len(workerQueue[w]) < WorkerCap)
    <3>1. workerQueue[w] # <<>>
      BY <2>2, <2>4, FullNotEmpty, CapAssumption DEF IInv, Base, TypeOK
    <3>2. mainPc \in Reading \cup StoppingB
      BY <1>3 DEF IInv, Base, TypeOK, PhaseInv, Starting, Reading, StoppingB, StoppingW, Joined
    <3>3. workerRunning[w] /\ workerPc[w] # "exit"
      BY <2>2, <3>2 DEF FlagsInv
    <3>4. workerPc[w] # "unborn"
      BY <2>2, <3>2 DEF IInv, Base, PhaseInv, Starting, Reading, StoppingB
    <3> QED BY <2>2, <3>1, <3>3, <3>4, WorkerServed
  <2> QED BY <2>3, <2>4
<1> QED BY <1>2, <1>3

\* At every moment of the run some thread gets on without waiting for another:
\* no circle of full queues and joins, for any capacities and number of workers.
THEOREM NoCircularWaitHolds == Spec => []NoCircularWait
<1>1. IInv /\ FlagsInv => NoCircularWait
  <2> SUFFICES ASSUME IInv, FlagsInv, mainPc # "done", ~MainAdvances
               PROVE  \/ BalancerAdvances \/ WriterAdvances
                      \/ \E w \in Workers : WorkerAdvances(w)
    BY DEF NoCircularWait
  <2>1. CASE mainPc = "push" /\ ~(Len(inputQueue) < InputCap)
    <3>1. inputQueue # <<>>
      BY <2>1, FullNotEmpty, CapAssumption DEF IInv, Base, TypeOK
    <3>2. lbPc \notin {"unborn", "exit"}
      BY <2>1 DEF IInv, Base, PhaseInv, FlagsInv, Starting
    <3> QED BY <3>1, <3>2, BalancerServed
  <2>2. CASE mainPc = "joinBalancer" /\ lbPc # "exit"
    <3>1. ~lbRunning /\ lbPc # "unborn"
      BY <2>2 DEF IInv, Base, PhaseInv, FlagsInv, Starting, StoppingB
    <3> QED BY <2>2, <3>1, BalancerServed
  <2>3. CASE mainPc = "joinWorker" /\ workerPc[stopping] # "exit"
    <3>1. stopping \in Workers
      BY <2>3, NumWorkersAssumption DEF IInv, Base, TypeOK, PhaseInv, Workers
    <3>2. ~workerRunning[stopping] /\ workerPc[stopping] # "unborn"
      BY <2>3, <3>1 DEF IInv, Base, PhaseInv, FlagsInv, Starting
    <3> QED BY <2>3, <3>1, <3>2, WorkerServed
  <2>4. CASE mainPc = "joinWriter" /\ writerPc # "exit"
    BY <2>4 DEF WriterAdvances, IInv, Base, PhaseInv, Joined
  <2> QED BY <2>1, <2>2, <2>3, <2>4 DEF MainAdvances
<1>2. Init => IInv /\ FlagsInv
  BY InitIInv, InitFlags
<1>3. (IInv /\ FlagsInv) /\ [Next]_vars => (IInv /\ FlagsInv)'
  BY NextIInv, FlagsStep
<1> QED BY <1>1, <1>2, <1>3, PTL DEF Spec

-----------------------------------------------------------------------------
(* A run that has settled.                                                 *)

LEMMA SettledStays == ASSUME IInv, IInv', Settled, [Next]_vars PROVE Settled'
<1>1. Live = {} /\ mainPc \notin {"startWorkers", "read", "push"}
  BY UndecidedIsLive DEF Settled
<1>2. mainPc' \notin {"startWorkers", "read", "push"} /\ ~ReadPacket
  BY <1>1 DEF Next, Main, Balancer, Worker, Writer, Finished, vars, StartWorker, StartBalancer,
         ReadPacket, PushInput, EndOfCapture, StopBalancer, ShutInput, JoinBalancer, StopWorker,
         ShutWorker, JoinWorker, StopWriter, ShutOutput, JoinWriter, BalancerTop, BalancerPop,
         Dispatch, WorkerTop, WorkerPop, DropPacket, ForwardPacket, PushOutput, WriterTop,
         WriterDrain, WriterPop, WritePacket
<1>3. Live' = {}
  BY <1>1, <1>2, LiveStep
<1> QED BY <1>2, <1>3, UndecidedIsLive DEF Settled

LEMMA SettledDrained == ASSUME IInv, Settled PROVE Drained
<1> SUFFICES ASSUME mainPc = "done", NEW job \in Accepted
             PROVE  job \in discarded \cup Range(written)
  BY DEF Drained
<1>1. Live = {}
  BY UndecidedIsLive DEF Settled
<1>2. read = Len(Capture) /\ outputQueue = <<>> /\ writerJob = NoJob
  BY DEF IInv, Base, PhaseInv, JobInv, Starting
<1>3. job \in discarded \/ \E k \in Stages : job \in Stage[k]
  BY <1>2, LenCapture DEF IInv, CompleteInv, Accepted, Packets
<1>4. Range(outputQueue) = {} /\ Held(writerJob) = {}
  BY <1>2 DEF Range, Held
<1> QED BY <1>1, <1>3, <1>4 DEF Stage, Stages, Live

\* Once everything is decided while main stops the threads, the run ends with all of it
\* dropped or in the file, whatever the rest of the shutdown does: the delay
\* of main.cpp is needed for the decisions only, never for the file.
THEOREM SettledIsDrainedHolds == Spec => SettledIsDrained
<1>1. IInv /\ IInv' /\ Settled /\ [Next]_vars => Settled'
  BY SettledStays
<1>2. IInv /\ Settled => Drained
  BY SettledDrained
<1> QED BY <1>1, <1>2, Invariance, PTL DEF Spec, SettledIsDrained

-----------------------------------------------------------------------------
(* The end comes nearer.  What is still before the run: main's phases, the *)
(* workers and packets its loops have still to come to, where it is in     *)
(* a turn of them, and then the packets, from queue to hand to queue, and  *)
(* the threads that have not ended.                                        *)

PhasesLeft == [startWorkers |-> 8, read |-> 7, push |-> 7, stopBalancer |-> 6, shutInput |-> 5,
               joinBalancer |-> 4, stopWorker |-> 3, shutWorker |-> 3, joinWorker |-> 3,
               shutOutput |-> 2, joinWriter |-> 1, done |-> 0]

TurnLeft == Ones(mainPc \in {"push", "stopWorker", "shutWorker"}) + Ones(mainPc = "stopWorker")

Running == Ones(lbPc # "exit") + Cardinality(Workers \ At("exit")) + Ones(writerPc # "exit")

Left == << PhasesLeft[mainPc], NumWorkers - stopping, Len(Capture) - read, TurnLeft,
           Len(inputQueue), Ones(lbPc = "push"), Cardinality(Places),
           Cardinality(At("process")), Cardinality(At("push")), Len(outputQueue),
           Ones(writerPc = "write"), Running >>

\* A consuming loop begins a turn, or its pop finds nothing.
Poll ==
    /\ Left' = Left
    /\ \/ BalancerTop /\ lbRunning
       \/ BalancerPop /\ inputQueue = <<>>
       \/ \E w \in Workers : \/ WorkerTop(w) /\ workerRunning[w]
                             \/ WorkerPop(w) /\ workerQueue[w] = <<>>
       \/ WriterTop
       \/ WriterDrain /\ outputQueue # <<>>
       \/ WriterPop /\ outputQueue = <<>>

EndComesNearer == [][Left' \in Measures(12) /\ (Below(12, Left', Left) \/ Poll)]_vars

LEMMA LeftOK == IInv /\ CountInv => Left \in Measures(12)
<1> SUFFICES ASSUME IInv, CountInv PROVE Left \in Measures(12)
  OBVIOUS
<1>0. TypeOK
  BY DEF IInv, Base
<1>1. PhasesLeft[mainPc] \in Nat
  BY <1>0 DEF TypeOK, PhasesLeft
<1>2. NumWorkers - stopping \in Nat /\ Len(Capture) - read \in Nat
  BY <1>0, NumWorkersAssumption, LenCapture DEF TypeOK
<1>3. \A b : Ones(b) \in Nat
  BY DEF Ones
<1>4. Len(inputQueue) \in Nat /\ Len(outputQueue) \in Nat
  BY <1>0 DEF TypeOK
<1>5. Cardinality(Places) \in Nat
  BY FS_CardinalityType DEF CountInv, WorkerCount
<1>6. Cardinality(At("process")) \in Nat /\ Cardinality(At("push")) \in Nat
  BY AtFinite
<1>7. Cardinality(Workers \ At("exit")) \in Nat
  BY WorkersFinite, FS_Difference, FS_CardinalityType
<1>8. TurnLeft \in Nat /\ Running \in Nat
  BY <1>3, <1>7 DEF TurnLeft, Running
<1>9. Left[1] \in Nat /\ Left[2] \in Nat /\ Left[3] \in Nat /\ Left[4] \in Nat
  BY <1>1, <1>2, <1>8 DEF Left
<1>10. Left[5] \in Nat /\ Left[6] \in Nat /\ Left[7] \in Nat /\ Left[8] \in Nat
  BY <1>3, <1>4, <1>5, <1>6 DEF Left
<1>11. Left[9] \in Nat /\ Left[10] \in Nat /\ Left[11] \in Nat /\ Left[12] \in Nat
  BY <1>3, <1>4, <1>6, <1>8 DEF Left
<1>12. Left = [k \in 1 .. 12 |-> Left[k]]
  BY DEF Left
<1>13. ASSUME NEW k \in 1 .. 12 PROVE Left[k] \in Nat
  BY <1>9, <1>10, <1>11
<1> QED BY <1>12, <1>13 DEF Measures

LEMMA Lower ==
    ASSUME NEW k \in 1 .. 12, Left'[k] < Left[k], \A j \in 1 .. 12 : j < k => Left'[j] = Left[j]
    PROVE  Below(12, Left', Left)
  BY DEF Below

LEMMA MainLower == ASSUME IInv, Main PROVE Below(12, Left', Left)
<1>0. /\ stopping \in Nat /\ NumWorkers \in Nat /\ read \in Nat /\ Len(Capture) \in Nat
      /\ \A a, b \in Nat : b - (a + 1) < b - a
  BY NumWorkersAssumption, LenCapture DEF IInv, Base, TypeOK
<1>1. ASSUME PhasesLeft[mainPc'] < PhasesLeft[mainPc] PROVE Below(12, Left', Left)
  BY <1>1, Lower DEF Left
<1>2. ASSUME PhasesLeft[mainPc'] = PhasesLeft[mainPc], stopping' = stopping + 1
      PROVE  Below(12, Left', Left)
  BY <1>0, <1>2, Lower DEF Left
<1>3. ASSUME PhasesLeft[mainPc'] = PhasesLeft[mainPc], stopping' = stopping, read' = read + 1
      PROVE  Below(12, Left', Left)
  BY <1>0, <1>3, Lower DEF Left
<1>4. ASSUME PhasesLeft[mainPc'] = PhasesLeft[mainPc], stopping' = stopping, read' = read,
             TurnLeft' < TurnLeft
      PROVE  Below(12, Left', Left)
  BY <1>4, Lower DEF Left
<1>5. CASE StartWorker
  BY <1>2, <1>5 DEF StartWorker
<1>6. CASE StartBalancer
  BY <1>1, <1>6 DEF StartBalancer, PhasesLeft
<1>7. CASE ReadPacket
  BY <1>3, <1>7 DEF ReadPacket, PhasesLeft
<1>8. CASE PushInput
  BY <1>4, <1>8 DEF PushInput, PhasesLeft, TurnLeft, Ones
<1>9. CASE EndOfCapture
  BY <1>1, <1>9 DEF EndOfCapture, PhasesLeft
<1>10. CASE StopBalancer
  BY <1>1, <1>10 DEF StopBalancer, PhasesLeft
<1>11. CASE ShutInput
  BY <1>1, <1>11 DEF ShutInput, PhasesLeft
<1>12. CASE JoinBalancer
  BY <1>1, <1>12 DEF JoinBalancer, PhasesLeft
<1>13. CASE StopWorker
  BY <1>4, <1>13 DEF StopWorker, PhasesLeft, TurnLeft, Ones
<1>14. CASE ShutWorker
  BY <1>4, <1>14 DEF ShutWorker, PhasesLeft, TurnLeft, Ones
<1>15. CASE JoinWorker
  BY <1>2, <1>15 DEF JoinWorker, PhasesLeft
<1>16. CASE StopWriter
  BY <1>1, <1>16 DEF StopWriter, PhasesLeft
<1>17. CASE ShutOutput
  BY <1>1, <1>17 DEF ShutOutput, PhasesLeft
<1>18. CASE JoinWriter
  BY <1>1, <1>18 DEF JoinWriter, PhasesLeft
<1> QED BY <1>5, <1>6, <1>7, <1>8, <1>9, <1>10, <1>11, <1>12, <1>13, <1>14, <1>15, <1>16,
           <1>17, <1>18 DEF Main

LEMMA BalancerLower == ASSUME IInv, Balancer PROVE Below(12, Left', Left) \/ Poll
<1>0. /\ UNCHANGED <<mainPc, stopping, read, workerPc, writerPc, outputQueue>>
      /\ UNCHANGED <<At("process"), At("push"), At("exit"), TurnLeft>>
  BY DEF Balancer, BalancerTop, BalancerPop, Dispatch, At, TurnLeft
<1>1. CASE BalancerTop
  <2>1. UNCHANGED <<inputQueue, Places>> /\ lbPc = "top" /\ lbPc' \in {"pop", "exit"}
    BY <1>1 DEF BalancerTop, Places
  <2>2. CASE lbPc' = "pop"
    <3>1. UNCHANGED Running
      BY <1>0, <2>1, <2>2 DEF Running, Ones
    <3>2. Left' = Left
      BY <1>0, <2>1, <2>2, <3>1 DEF Left, Ones
    <3> QED BY <1>1, <2>2, <3>2 DEF BalancerTop, Poll
  <2>3. CASE lbPc' = "exit"
    <3>1. Cardinality(Workers \ At("exit")) \in Nat
      BY WorkersFinite, FS_Difference, FS_CardinalityType
    <3>2. Running' < Running
      BY <1>0, <2>1, <2>3, <3>1 DEF Running, Ones
    <3> QED BY <1>0, <2>1, <2>3, <3>2, Lower DEF Left, Ones
  <2> QED BY <2>1, <2>2, <2>3
<1>2. CASE BalancerPop
  <2>1. CASE inputQueue = <<>>
    <3>1. UNCHANGED <<inputQueue, Places>> /\ lbPc = "pop" /\ lbPc' = "top"
      BY <1>2, <2>1 DEF BalancerPop, Places
    <3>2. UNCHANGED Running
      BY <1>0, <3>1 DEF Running, Ones
    <3>3. Left' = Left
      BY <1>0, <3>1, <3>2 DEF Left, Ones
    <3> QED BY <1>2, <2>1, <3>3 DEF Poll
  <2>2. CASE inputQueue # <<>>
    <3>1. Len(inputQueue') < Len(inputQueue)
      BY <1>2, <2>2, Popped DEF BalancerPop, IInv, Base, TypeOK
    <3> QED BY <1>0, <3>1, Lower DEF Left
  <2> QED BY <2>1, <2>2
<1>3. CASE Dispatch
  <2>1. inputQueue' = inputQueue /\ lbPc = "push" /\ lbPc' = "top"
    BY <1>3 DEF Dispatch
  <2> QED BY <1>0, <2>1, Lower DEF Left, Ones
<1> QED BY <1>1, <1>2, <1>3 DEF Balancer

LEMMA WorkerLower ==
    ASSUME IInv, CountInv, NEW w \in Workers, Worker(w)
    PROVE  Below(12, Left', Left) \/ Poll
<1>0. /\ UNCHANGED <<mainPc, stopping, read, lbPc, writerPc, inputQueue, TurnLeft>>
      /\ TypeOK /\ IsFiniteSet(Places) /\ DOMAIN workerPc = Workers
      /\ \A pc : Cardinality(At(pc)) \in Nat
  BY AtFinite DEF Worker, WorkerTop, WorkerPop, DropPacket, ForwardPacket, PushOutput, IInv, Base, TypeOK,
         CountInv, WorkerCount, TurnLeft
<1>1. CASE WorkerTop(w)
  <2>1. /\ UNCHANGED <<Places, outputQueue>>
        /\ workerPc[w] = "top" /\ workerPc'[w] \in {"pop", "exit"}
        /\ workerPc' = [workerPc EXCEPT ![w] = workerPc'[w]]
    BY <1>0, <1>1 DEF WorkerTop, Places
  <2>2. UNCHANGED <<At("process"), At("push")>>
    BY <1>0, <2>1, Stays
  <2>3. CASE workerPc'[w] = "pop"
    <3>1. UNCHANGED At("exit")
      BY <1>0, <2>1, <2>3, Stays
    <3>2. UNCHANGED Running
      BY <1>0, <3>1 DEF Running
    <3>3. Left' = Left
      BY <1>0, <2>1, <2>2, <3>2 DEF Left
    <3> QED BY <1>0, <1>1, <2>3, <3>3 DEF TypeOK, WorkerTop, Poll
  <2>4. CASE workerPc'[w] = "exit"
    <3>1. At("exit")' = At("exit") \cup {w} /\ w \notin At("exit")
      BY <1>0, <2>1, <2>4 DEF At
    <3>2. Workers \ At("exit")' = (Workers \ At("exit")) \ {w} /\ w \in Workers \ At("exit")
      BY <3>1
    <3>3. /\ Cardinality(Workers \ At("exit")) \in Nat
          /\ Cardinality(Workers \ At("exit")') = Cardinality(Workers \ At("exit")) - 1
      BY <3>2, WorkersFinite, FS_Difference, FS_CardinalityType, FS_RemoveElement
    <3>4. Running' < Running
      BY <1>0, <3>3 DEF Running, Ones
    <3> QED BY <1>0, <2>1, <2>2, <3>4, Lower DEF Left
  <2> QED BY <2>1, <2>3, <2>4
<1>2. CASE WorkerPop(w)
  <2>1. CASE workerQueue[w] = <<>>
    <3>1. /\ UNCHANGED <<Places, outputQueue>>
          /\ workerPc[w] = "pop" /\ workerPc' = [workerPc EXCEPT ![w] = "top"]
      BY <1>2, <2>1 DEF WorkerPop, Places
    <3>2. UNCHANGED <<At("process"), At("push"), At("exit")>>
      BY <1>0, <3>1, Stays
    <3>3. UNCHANGED Running
      BY <1>0, <3>2 DEF Running
    <3>4. Left' = Left
      BY <1>0, <3>1, <3>2, <3>3 DEF Left
    <3> QED BY <1>2, <2>1, <3>4 DEF Poll
  <2>2. CASE workerQueue[w] # <<>>
    <3>1. workerQueue' = [workerQueue EXCEPT ![w] = Tail(@)]
      BY <1>2, <2>2 DEF WorkerPop
    <3>2. Cardinality(Places') = Cardinality(Places) - 1
      BY <1>0, <2>2, <3>1, PlaceLess
    <3>3. Cardinality(Places) \in Nat
      BY <1>0, FS_CardinalityType
    <3>4. Cardinality(Places') < Cardinality(Places)
      BY <3>2, <3>3
    <3> QED BY <1>0, <3>4, Lower DEF Left
  <2> QED BY <2>1, <2>2
<1>3. CASE DropPacket(w) \/ ForwardPacket(w)
  <2>1. PICK to \in {"top", "push"} : workerPc' = [workerPc EXCEPT ![w] = to]
    BY <1>3 DEF DropPacket, ForwardPacket
  <2>2. workerPc[w] = "process" /\ UNCHANGED Places
    BY <1>3 DEF DropPacket, ForwardPacket, Places
  <2>3. Cardinality(At("process")') = Cardinality(At("process")) - 1
    BY <1>0, <2>1, <2>2, Moves
  <2>4. Cardinality(At("process")') < Cardinality(At("process"))
    BY <1>0, <2>3
  <2> QED BY <1>0, <2>2, <2>4, Lower DEF Left
<1>4. CASE PushOutput(w)
  <2>1. workerPc[w] = "push" /\ UNCHANGED Places /\ workerPc' = [workerPc EXCEPT ![w] = "top"]
    BY <1>4 DEF PushOutput, Places
  <2>2. Cardinality(At("push")') = Cardinality(At("push")) - 1
    BY <1>0, <2>1, Moves
  <2>3. Cardinality(At("push")') < Cardinality(At("push"))
    BY <1>0, <2>2
  <2>4. UNCHANGED At("process")
    BY <1>0, <2>1, Stays
  <2> QED BY <1>0, <2>1, <2>3, <2>4, Lower DEF Left
<1> QED BY <1>1, <1>2, <1>3, <1>4 DEF Worker

LEMMA WriterLower == ASSUME IInv, Writer PROVE Below(12, Left', Left) \/ Poll
<1>0. /\ UNCHANGED <<mainPc, stopping, read, lbPc, inputQueue, Places, TurnLeft>>
      /\ UNCHANGED <<At("process"), At("push"), At("exit")>>
      /\ Cardinality(Workers \ At("exit")) \in Nat
  BY WorkersFinite, FS_Difference, FS_CardinalityType
  DEF Writer, WriterTop, WriterDrain, WriterPop, WritePacket, Places, At, TurnLeft
<1>1. ASSUME UNCHANGED outputQueue, writerPc \notin {"write", "exit"},
             writerPc' \notin {"write", "exit"}
      PROVE  Left' = Left
  <2>1. UNCHANGED Running
    BY <1>0, <1>1 DEF Running, Ones
  <2> QED BY <1>0, <1>1, <2>1 DEF Left, Ones
<1>2. CASE WriterTop
  <2>1. Left' = Left
    BY <1>1, <1>2 DEF WriterTop
  <2> QED BY <1>2, <2>1 DEF Poll
<1>3. CASE WriterDrain
  <2>1. CASE outputQueue # <<>>
    <3>1. Left' = Left
      BY <1>1, <1>3, <2>1 DEF WriterDrain
    <3> QED BY <1>3, <2>1, <3>1 DEF Poll
  <2>2. CASE outputQueue = <<>>
    <3>1. writerPc = "drain" /\ writerPc' = "exit" /\ UNCHANGED outputQueue
      BY <1>3, <2>2 DEF WriterDrain
    <3>2. Running' < Running
      BY <1>0, <3>1 DEF Running, Ones
    <3> QED BY <1>0, <3>1, <3>2, Lower DEF Left, Ones
  <2> QED BY <2>1, <2>2
<1>4. CASE WriterPop
  <2>1. CASE outputQueue = <<>>
    <3>1. Left' = Left
      BY <1>1, <1>4, <2>1 DEF WriterPop
    <3> QED BY <1>4, <2>1, <3>1 DEF Poll
  <2>2. CASE outputQueue # <<>>
    <3>1. Len(outputQueue') < Len(outputQueue)
      BY <1>4, <2>2, Popped DEF WriterPop, IInv, Base, TypeOK
    <3> QED BY <1>0, <3>1, Lower DEF Left
  <2> QED BY <2>1, <2>2
<1>5. CASE WritePacket
  <2>1. writerPc = "write" /\ writerPc' = "top" /\ UNCHANGED outputQueue
    BY <1>5 DEF WritePacket
  <2> QED BY <1>0, <2>1, Lower DEF Left, Ones
<1> QED BY <1>2, <1>3, <1>4, <1>5 DEF Writer

\* Every step of every thread brings the end of the run nearer, or polls: main and
\* the packets never go back.  By NoCircularWaitHolds some thread is always past polling.
THEOREM EndComesNearerHolds == Spec => EndComesNearer
<1>1. (IInv /\ CountInv)' => (Left \in Measures(12))'
  BY LeftOK, PTL
<1>2. (IInv /\ CountInv) /\ (IInv /\ CountInv)' /\ [Next]_vars
        => [Left' \in Measures(12) /\ (Below(12, Left', Left) \/ Poll)]_vars
  <2> SUFFICES ASSUME IInv, CountInv, (IInv /\ CountInv)', Next, ~ UNCHANGED vars
               PROVE  Left' \in Measures(12) /\ (Below(12, Left', Left) \/ Poll)
    OBVIOUS
  <2>1. Left' \in Measures(12)
    BY <1>1 DEF Measures
  <2> QED BY <2>1, MainLower, BalancerLower, WorkerLower, WriterLower DEF Next, Finished
<1> QED BY <1>2, Counting, PTL DEF EndComesNearer, Spec

=============================================================================
