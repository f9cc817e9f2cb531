------------------------ MODULE MetricsServer_proofs ------------------------
(***************************************************************************)
(* The counters and the page of MetricsServer, for any number of workers,  *)
(* packets and scrapers.                                                   *)
(*                                                                         *)
(* Every worker adds to the six totals in one order, so a total and the    *)
(* next differ by the workers that stand between the two adds; the buckets *)
(* likewise, by the workers that will add to the narrower one.  The page   *)
(* reads the totals in that order and the buckets in the opposite one.     *)
(* The last sections are about the server thread: what stop() waits for,   *)
(* and why each of its steps serves a scraper.                             *)
(***************************************************************************)
EXTENDS MetricsServer, Descent, FiniteSetTheorems, TLAPS

\* Workers that have made the i-th add for the packet in their hands.
Past(i) == {w \in Workers : step[w] > i}

\* Workers that have added to bucket j and will add to bucket j + 1.
Owed(j) == {w \in Workers : Adding(w) /\ step[w] = 6 + j}

Protocols == counter["tcp"] + counter["udp"]
Verdicts == counter["forwarded"] + counter["dropped"]

InHand(i) == Cardinality(Past(i))

TotalsInv ==
    /\ counter["packets"] + InHand(2) = counter["apps"] + InHand(1)
    /\ counter["apps"] + InHand(3) = Protocols + InHand(2)
    /\ Protocols + InHand(4) = Verdicts + InHand(3)
    /\ Verdicts + InHand(5) = counter["count"] + InHand(4)
    /\ counter["count"] + InHand(6) = counter["inf"] + InHand(5)

Debt(j) == Cardinality(Owed(j))

BucketsInv ==
    /\ counter["10"] + Debt(1) <= counter["inf"]
    /\ counter["5"] + Debt(2) <= counter["10"]
    /\ counter["1"] + Debt(3) <= counter["5"]
    /\ counter["01"] + Debt(4) <= counter["1"]

\* What has been read of a page so far.
PageInv ==
    LET n == Cardinality(Workers)
    IN  /\ \A i \in 1 .. Len(page) : page[i] <= counter[RenderOrder[i]]
        /\ Len(page) = 2 => page[1] <= page[2] + counter["dropped"] + n
        /\ Len(page) >= 3 => page[1] <= page[2] + page[3] + n
        /\ \A i \in 6 .. Len(page) : page[i - 1] <= page[i]
        /\ Len(page) >= 9 => page[4] <= page[9] + n

\* Nothing but start() begets the server thread.
ServerInv == mainPc = "start" => serverPc = "unborn"

CountInv == TotalsInv /\ BucketsInv

-----------------------------------------------------------------------------
(* The counters a packet adds to.                                          *)

LEMMA CountersAre ==
    Counters = {"packets", "apps", "tcp", "udp", "forwarded", "dropped", "count",
                "inf", "10", "5", "1", "01"}
<1>1. BucketNames = {"inf", "10", "5", "1", "01"}
  <2>1. \A i \in 1 .. 5 : i = 1 \/ i = 2 \/ i = 3 \/ i = 4 \/ i = 5
    OBVIOUS
  <2>2. /\ Buckets[1] = "inf" /\ Buckets[2] = "10" /\ Buckets[3] = "5"
        /\ Buckets[4] = "1" /\ Buckets[5] = "01"
    BY DEF Buckets
  <2>3. 1 \in 1 .. 5 /\ 2 \in 1 .. 5 /\ 3 \in 1 .. 5 /\ 4 \in 1 .. 5 /\ 5 \in 1 .. 5
    OBVIOUS
  <2> QED BY <2>1, <2>2, <2>3, Zenon DEF BucketNames
<1> QED BY <1>1 DEF Counters, Totals

LEMMA KindFields == ASSUME NEW k \in Kinds
                    PROVE  /\ k.protocol \in {"tcp", "udp"}
                           /\ k.verdict \in {"forwarded", "dropped"}
                           /\ k.latency \in 1 .. 5
  BY KindsAssumption

LEMMA AddsAre ==
    ASSUME NEW k \in Kinds, NEW i \in 1 .. 5 + k.latency
    PROVE  /\ RecordOrder(k)[i] \in Counters
           /\ i = 1 => RecordOrder(k)[i] = "packets"
           /\ i = 2 => RecordOrder(k)[i] = "apps"
           /\ i = 3 => RecordOrder(k)[i] = k.protocol
           /\ i = 4 => RecordOrder(k)[i] = k.verdict
           /\ i = 5 => RecordOrder(k)[i] = "count"
           /\ i = 6 => RecordOrder(k)[i] = "inf"
           /\ i = 7 => RecordOrder(k)[i] = "10"
           /\ i = 8 => RecordOrder(k)[i] = "5"
           /\ i = 9 => RecordOrder(k)[i] = "1"
           /\ i = 10 => RecordOrder(k)[i] = "01"
           /\ i \in 1 .. 10
<1>1. k.protocol \in {"tcp", "udp"} /\ k.verdict \in {"forwarded", "dropped"} /\ k.latency \in 1 .. 5
  BY KindFields
<1>2. RecordOrder(k)[i] = IF i <= 4 THEN BeforeLatency(k)[i]
                          ELSE IF i = 5 THEN "count" ELSE Buckets[i - 5]
  BY DEF RecordOrder
<1>3. i \in 1 .. 10
  BY <1>1
<1> QED BY <1>1, <1>2, <1>3, CountersAre DEF BeforeLatency, Buckets

LEMMA RenderedAre ==
    /\ Len(RenderOrder) = 9
    /\ RenderOrder[1] = "packets" /\ RenderOrder[2] = "forwarded" /\ RenderOrder[3] = "dropped"
    /\ RenderOrder[4] = "count" /\ RenderOrder[5] = "01" /\ RenderOrder[6] = "1"
    /\ RenderOrder[7] = "5" /\ RenderOrder[8] = "10" /\ RenderOrder[9] = "inf"
    /\ \A i \in 1 .. 9 : RenderOrder[i] \in Counters
  BY CountersAre DEF RenderOrder

-----------------------------------------------------------------------------
(* Types.                                                                  *)

TInv == TypeOK /\ ServerInv

LEMMA EmptyPage == <<>> \in Seq(Nat) /\ Len(<<>>) <= Len(RenderOrder)
  BY RenderedAre

LEMMA InitTInv == Init => TInv
<1> SUFFICES ASSUME Init PROVE TInv
  OBVIOUS
<1>1. page \in Seq(Nat) /\ Len(page) <= Len(RenderOrder)
  BY EmptyPage DEF Init
<1>2. kind \in [Workers -> Kinds \cup {NoPacket}] /\ step \in [Workers -> Nat]
      /\ \A w \in Workers : step[w] \in IF kind[w] = NoPacket THEN {0} ELSE 1 .. 6 + kind[w].latency
  BY DEF Init
<1>3. handled \in [Workers -> 0 .. Packets] /\ counter \in [Counters -> Nat]
      /\ queue_sizes \in [0 .. MAX_WORKERS - 1 -> Nat]
  BY MetricsAssumption DEF Init
<1> QED BY <1>1, <1>2, <1>3 DEF Init, TInv, TypeOK, ServerInv

LEMMA RecordTInv == ASSUME TInv, NEW w \in Workers, Record(w) PROVE TInv'
<1>1. kind[w] \in Kinds /\ kind[w].latency \in 1 .. 5 /\ step[w] \in 1 .. 5 + kind[w].latency
  BY KindFields DEF TInv, TypeOK, Record, Adding
<1>2. RecordOrder(kind[w])[step[w]] \in Counters
  BY <1>1, AddsAre
<1>3. counter' \in [Counters -> Nat]
  BY <1>2 DEF TInv, TypeOK, Record
<1>4. step' \in [Workers -> Nat]
  BY <1>1 DEF TInv, TypeOK, Record
<1>5. \A v \in Workers : step'[v] \in IF kind'[v] = NoPacket THEN {0} ELSE 1 .. 6 + kind'[v].latency
  <2> TAKE v \in Workers
  <2>1. CASE v = w
    <3>1. step'[v] = step[v] + 1 /\ kind'[v] = kind[v]
      BY <2>1 DEF TInv, TypeOK, Record
    <3>2. kind[v] # NoPacket
      BY <1>1, <2>1, MetricsAssumption
    <3> QED BY <1>1, <2>1, <3>1, <3>2
  <2>2. CASE v # w
    BY <2>2 DEF TInv, TypeOK, Record
  <2> QED BY <2>1, <2>2
<1> QED BY <1>3, <1>4, <1>5
  DEF TInv, TypeOK, ServerInv, Record, mainVars, serverVars, clientVars

LEMMA WorkerTInv == ASSUME TInv, NEW w \in Workers, BeginPacket(w) \/ EndPacket(w) PROVE TInv'
<1>1. CASE BeginPacket(w)
  <2>1. PICK k \in Kinds : kind' = [kind EXCEPT ![w] = k]
    BY <1>1 DEF BeginPacket
  <2>2. k.latency \in 1 .. 5 /\ k # NoPacket
    BY KindFields, MetricsAssumption
  <2>3. step' \in [Workers -> Nat] /\ kind' \in [Workers -> Kinds \cup {NoPacket}]
    BY <1>1, <2>1 DEF TInv, TypeOK, BeginPacket
  <2>4. \A v \in Workers : step'[v] \in IF kind'[v] = NoPacket THEN {0} ELSE 1 .. 6 + kind'[v].latency
    <3> TAKE v \in Workers
    <3>1. CASE v = w
      BY <1>1, <2>1, <2>2, <3>1 DEF TInv, TypeOK, BeginPacket
    <3>2. CASE v # w
      BY <1>1, <2>1, <3>2 DEF TInv, TypeOK, BeginPacket
    <3> QED BY <3>1, <3>2
  <2>5. handled' \in [Workers -> 0 .. Packets]
    BY <1>1, MetricsAssumption DEF TInv, TypeOK, BeginPacket
  <2> QED BY <1>1, <2>3, <2>4, <2>5
    DEF TInv, TypeOK, ServerInv, BeginPacket, mainVars, serverVars, clientVars
<1>2. CASE EndPacket(w)
  <2>1. step' \in [Workers -> Nat] /\ kind' \in [Workers -> Kinds \cup {NoPacket}]
    BY <1>2 DEF TInv, TypeOK, EndPacket
  <2>2. \A v \in Workers : step'[v] \in IF kind'[v] = NoPacket THEN {0} ELSE 1 .. 6 + kind'[v].latency
    BY <1>2 DEF TInv, TypeOK, EndPacket
  <2>3. queue_sizes' \in [0 .. MAX_WORKERS - 1 -> Nat]
    <3>1. CASE queue_sizes' = queue_sizes
      BY <3>1 DEF TInv, TypeOK
    <3>2. CASE w < MAX_WORKERS
             /\ \E size \in QueueSizes : queue_sizes' = [queue_sizes EXCEPT ![w] = size]
      BY <3>2, MetricsAssumption DEF TInv, TypeOK
    <3> QED BY <1>2, <3>1, <3>2 DEF EndPacket
  <2> QED BY <1>2, <2>1, <2>2, <2>3
    DEF TInv, TypeOK, ServerInv, EndPacket, mainVars, serverVars, clientVars
<1> QED BY <1>1, <1>2

LEMMA MainTInv == ASSUME TInv, Main \/ Finished PROVE TInv'
<1> USE DEF TInv, TypeOK, ServerInv, workerVars, mainVars, serverVars, clientVars
<1>1. CASE Start
  BY <1>1, MetricsAssumption DEF Start, Adding
<1>2. CASE StartFailed
  BY <1>2 DEF StartFailed
<1>3. CASE StopFlag
  BY <1>3 DEF StopFlag
<1>4. CASE StopClose
  BY <1>4 DEF StopClose
<1>5. CASE StopJoin
  BY <1>5 DEF StopJoin
<1>6. CASE Finished
  BY <1>6 DEF Finished, vars
<1> QED BY <1>1, <1>2, <1>3, <1>4, <1>5, <1>6 DEF Main

LEMMA NextRead == ASSUME TypeOK, Len(page) < Len(RenderOrder)
                  PROVE  Len(page) + 1 \in 1 .. 9 /\ counter[RenderOrder[Len(page) + 1]] \in Nat
<1> DEFINE n == Len(page)
<1>1. n \in Nat /\ n < 9
  BY RenderedAre DEF TypeOK
<1> HIDE DEF n
<1>2. n + 1 \in 1 .. 9
  BY <1>1
<1>3. counter[RenderOrder[n + 1]] \in Nat
  BY <1>2, RenderedAre DEF TypeOK
<1> QED BY <1>2, <1>3 DEF n

LEMMA ServerTInv == ASSUME TInv, Server \/ AcceptFails PROVE TInv'
<1> USE DEF TInv, TypeOK, ServerInv, workerVars, mainVars, clientVars
<1>1. CASE ServerTop
  BY <1>1 DEF ServerTop
<1>2. CASE EnterAccept
  BY <1>2 DEF EnterAccept
<1>3. CASE Accept
  BY <1>3, MetricsAssumption DEF Accept
<1>4. CASE AcceptFails
  BY <1>4 DEF AcceptFails
<1>5. CASE Receive
  BY <1>5, EmptyPage DEF Receive
<1>6. CASE Render
  <2>2. counter[RenderOrder[Len(page) + 1]] \in Nat
    BY <1>6, NextRead DEF Render
  <2>3. page' \in Seq(Nat) /\ Len(page') <= Len(RenderOrder)
    BY <1>6, <2>2, RenderedAre DEF Render
  <2> QED BY <1>6, <2>3 DEF Render
<1>7. CASE Respond
  BY <1>7, EmptyPage DEF Respond
<1>8. CASE RespondKilled
  BY <1>8, EmptyPage DEF RespondKilled
<1> QED BY <1>1, <1>2, <1>3, <1>4, <1>5, <1>6, <1>7, <1>8 DEF Server

LEMMA ClientTInv == ASSUME TInv, NEW c \in Clients, Connect(c) \/ Ask(c) \/ HangUp(c) PROVE TInv'
  BY DEF TInv, TypeOK, ServerInv, workerVars, mainVars, serverVars, Connect, Ask, HangUp

LEMMA NextTInv == ASSUME TInv, [Next]_vars PROVE TInv'
<1>1. CASE UNCHANGED vars
  BY <1>1 DEF TInv, TypeOK, ServerInv, vars, workerVars, mainVars, serverVars, clientVars
<1>2. CASE Next
  BY <1>2, RecordTInv, WorkerTInv, MainTInv, ServerTInv, ClientTInv DEF Next, Worker
<1> QED BY <1>1, <1>2

\* Type correctness.
THEOREM TypeCorrect == Spec => []TypeOK
<1>1. TInv => TypeOK
  BY DEF TInv
<1> QED BY InitTInv, NextTInv, <1>1, PTL DEF Spec

-----------------------------------------------------------------------------
(* The counters.                                                           *)

LEMMA PastNat == ASSUME NEW i PROVE /\ IsFiniteSet(Past(i))
                                    /\ InHand(i) \in Nat /\ InHand(i) <= Cardinality(Workers)
<1>1. Past(i) \in SUBSET Workers /\ IsFiniteSet(Workers)
  BY MetricsAssumption DEF Past
<1> QED BY <1>1, FS_Subset, FS_CardinalityType DEF InHand

LEMMA OwedNat == ASSUME NEW j PROVE IsFiniteSet(Owed(j)) /\ Debt(j) \in Nat
<1>1. Owed(j) \in SUBSET Workers /\ IsFiniteSet(Workers)
  BY MetricsAssumption DEF Owed
<1> QED BY <1>1, FS_Subset, FS_CardinalityType DEF Debt

LEMMA TotalsNat ==
    ASSUME TypeOK
    PROVE  /\ counter["packets"] \in Nat /\ counter["apps"] \in Nat /\ Protocols \in Nat
           /\ Verdicts \in Nat /\ counter["count"] \in Nat /\ counter["inf"] \in Nat
<1>1. \A c \in Counters : counter[c] \in Nat
  BY DEF TypeOK
<1>2. counter["tcp"] \in Nat /\ counter["udp"] \in Nat
      /\ counter["forwarded"] \in Nat /\ counter["dropped"] \in Nat
  BY <1>1, CountersAre
<1> QED BY <1>1, <1>2, CountersAre DEF Protocols, Verdicts

LEMMA InitCountInv == Init => CountInv
<1> SUFFICES ASSUME Init PROVE CountInv
  OBVIOUS
<1>1. \A i \in Nat : InHand(i) = 0 /\ Debt(i) = 0
  <2> TAKE i \in Nat
  <2>1. Past(i) = {} /\ Owed(i) = {}
    BY DEF Init, Past, Owed, Adding
  <2> QED BY <2>1, FS_EmptySet DEF InHand, Debt
<1>2. \A c \in Counters : counter[c] = 0
  BY DEF Init
<1>3. TotalsInv
  <2>1. InHand(1) = 0 /\ InHand(2) = 0 /\ InHand(3) = 0 /\ InHand(4) = 0 /\ InHand(5) = 0 /\ InHand(6) = 0
    BY <1>1
  <2> QED BY <2>1, <1>2, CountersAre DEF TotalsInv, Protocols, Verdicts
<1>4. BucketsInv
  <2>1. Debt(1) = 0 /\ Debt(2) = 0 /\ Debt(3) = 0 /\ Debt(4) = 0
    BY <1>1
  <2> QED BY <2>1, <1>2, CountersAre DEF BucketsInv
<1> QED BY <1>3, <1>4 DEF CountInv

\* An add by w moves it past one place, and into or out of what is owed.
LEMMA RecordMoves ==
    ASSUME TypeOK, NEW w \in Workers, Record(w)
    PROVE  /\ kind[w] \in Kinds /\ step[w] \in 1 .. 5 + kind[w].latency
           /\ \A i \in Nat : InHand(i)' = InHand(i) + IF i = step[w] THEN 1 ELSE 0
           /\ \A j \in 1 .. 4 :
                /\ Debt(j)' \in Nat
                /\ step[w] = 6 + j => Debt(j)' = Debt(j) - 1
                /\ step[w] = 5 + j => Debt(j)' <= Debt(j) + 1
                /\ step[w] # 5 + j /\ step[w] # 6 + j => Debt(j)' = Debt(j)
<1>1. kind[w] \in Kinds /\ step[w] \in 1 .. 5 + kind[w].latency /\ step[w] \in Nat
  BY KindFields DEF TypeOK, Record, Adding
<1>2. /\ kind' = kind /\ step'[w] = step[w] + 1
      /\ \A v \in Workers : v # w => step'[v] = step[v]
  BY DEF TypeOK, Record
<1>3. ASSUME NEW i \in Nat
      PROVE  InHand(i)' = InHand(i) + IF i = step[w] THEN 1 ELSE 0
  <2>1. CASE i = step[w]
    <3>1. Past(i)' = Past(i) \cup {w} /\ w \notin Past(i)
      BY <1>1, <1>2, <2>1 DEF Past
    <3> QED BY <3>1, <2>1, PastNat, FS_AddElement DEF InHand
  <2>2. CASE i # step[w]
    <3>1. step[w] + 1 > i <=> step[w] > i
      BY <1>1, <2>2
    <3>2. Past(i)' = Past(i)
      BY <1>2, <3>1 DEF Past
    <3> QED BY <3>2, <2>2, PastNat DEF InHand
  <2> QED BY <2>1, <2>2
<1>4. ASSUME NEW j \in 1 .. 4, step[w] = 6 + j
      PROVE  Debt(j)' = Debt(j) - 1
  <2>1. Owed(j)' = Owed(j) \ {w}
    BY <1>1, <1>2, <1>4 DEF Owed, Adding
  <2>2. w \in Owed(j)
    BY <1>4 DEF Owed, Record
  <2> QED BY <2>1, <2>2, OwedNat, FS_RemoveElement DEF Debt
<1>5. ASSUME NEW j \in 1 .. 4, step[w] = 5 + j
      PROVE  Debt(j)' \in {Debt(j), Debt(j) + 1}
  <2>1. w \notin Owed(j)
    BY <1>1, <1>5 DEF Owed
  <2>2. Owed(j)' = Owed(j) \/ Owed(j)' = Owed(j) \cup {w}
    BY <1>1, <1>2, <1>5, <2>1 DEF Owed, Adding
  <2>3. CASE Owed(j)' = Owed(j)
    BY <2>3 DEF Debt
  <2>4. CASE Owed(j)' = Owed(j) \cup {w}
    BY <2>1, <2>4, OwedNat, FS_AddElement DEF Debt
  <2> QED BY <2>2, <2>3, <2>4
<1>6. ASSUME NEW j \in 1 .. 4, step[w] # 5 + j, step[w] # 6 + j
      PROVE  Debt(j)' = Debt(j)
  <2>1. w \notin Owed(j) /\ step'[w] # 6 + j
    BY <1>1, <1>2, <1>6 DEF Owed
  <2>2. Owed(j)' = Owed(j)
    BY <1>2, <2>1 DEF Owed, Adding
  <2> QED BY <2>2 DEF Debt
<1>7. \A j \in 1 .. 4 :
         /\ Debt(j)' \in Nat
         /\ step[w] = 6 + j => Debt(j)' = Debt(j) - 1
         /\ step[w] = 5 + j => Debt(j)' <= Debt(j) + 1
         /\ step[w] # 5 + j /\ step[w] # 6 + j => Debt(j)' = Debt(j)
  <2> TAKE j \in 1 .. 4
  <2>1. Debt(j) \in Nat
    BY OwedNat
  <2>2. step[w] = 6 + j => Debt(j) # 0
    <3>1. step[w] = 6 + j => w \in Owed(j)
      BY DEF Owed, Record
    <3> QED BY <3>1, OwedNat, FS_EmptySet DEF Debt
  <2> QED BY <1>1, <1>4, <1>5, <1>6, <2>1, <2>2
<1> QED BY <1>1, <1>3, <1>7

LEMMA RecordCountInv ==
    ASSUME TypeOK, CountInv, NEW w \in Workers, Record(w) PROVE CountInv'
<1> DEFINE c == RecordOrder(kind[w])[step[w]]
           s == step[w]
<1>1. /\ kind[w] \in Kinds /\ s \in 1 .. 5 + kind[w].latency
      /\ kind[w].protocol \in {"tcp", "udp"} /\ kind[w].verdict \in {"forwarded", "dropped"}
  BY RecordMoves, KindFields
<1>2. s \in 1 .. 10 /\ c \in Counters
  BY <1>1, AddsAre
<1>3. /\ s = 1 => c = "packets"
      /\ s = 2 => c = "apps"
      /\ s = 3 => c = kind[w].protocol
      /\ s = 4 => c = kind[w].verdict
      /\ s = 5 => c = "count"
      /\ s = 6 => c = "inf"
      /\ s = 7 => c = "10"
      /\ s = 8 => c = "5"
      /\ s = 9 => c = "1"
      /\ s = 10 => c = "01"
  BY <1>1, AddsAre
<1>4. \A d \in Counters : /\ counter[d] \in Nat
                          /\ counter'[d] = counter[d] + IF d = c THEN 1 ELSE 0
  BY DEF TypeOK, Record
<1> HIDE DEF c
<1>5. /\ s = 1 <=> c = "packets"
      /\ s = 2 <=> c = "apps"
      /\ s = 3 <=> c \in {"tcp", "udp"}
      /\ s = 4 <=> c \in {"forwarded", "dropped"}
      /\ s = 5 <=> c = "count"
      /\ s = 6 <=> c = "inf"
      /\ s = 7 <=> c = "10"
      /\ s = 8 <=> c = "5"
      /\ s = 9 <=> c = "1"
      /\ s = 10 <=> c = "01"
  <2> HIDE DEF s
  <2>1. s = 1 \/ s = 2 \/ s = 3 \/ s = 4 \/ s = 5 \/ s = 6 \/ s = 7 \/ s = 8 \/ s = 9 \/ s = 10
    BY <1>2
  <2> QED BY <1>1, <1>3, <2>1
<1>6. TotalsInv'
  <2>1. \A i \in 1 .. 6 : InHand(i) \in Nat /\ InHand(i)' = InHand(i) + IF i = s THEN 1 ELSE 0
    BY RecordMoves, PastNat
  <2> HIDE DEF s
  <2>2. \A d \in {"packets", "apps", "tcp", "udp", "forwarded", "dropped", "count", "inf"} :
           counter[d] \in Nat /\ counter'[d] = counter[d] + IF d = c THEN 1 ELSE 0
    BY <1>4, CountersAre
  <2>3. Protocols \in Nat /\ Protocols' = Protocols + IF s = 3 THEN 1 ELSE 0
    BY <1>5, <2>2 DEF Protocols
  <2>4. Verdicts \in Nat /\ Verdicts' = Verdicts + IF s = 4 THEN 1 ELSE 0
    BY <1>5, <2>2 DEF Verdicts
  <2>5. /\ counter'["packets"] = counter["packets"] + IF s = 1 THEN 1 ELSE 0
        /\ counter'["apps"] = counter["apps"] + IF s = 2 THEN 1 ELSE 0
        /\ counter'["count"] = counter["count"] + IF s = 5 THEN 1 ELSE 0
        /\ counter'["inf"] = counter["inf"] + IF s = 6 THEN 1 ELSE 0
    BY <1>5, <2>2
  <2> QED BY <2>1, <2>2, <2>3, <2>4, <2>5 DEF CountInv, TotalsInv
<1>7. BucketsInv'
  <2>1. \A j \in 1 .. 4 :
           /\ Debt(j) \in Nat /\ Debt(j)' \in Nat
           /\ s = 6 + j => Debt(j)' = Debt(j) - 1
           /\ s = 5 + j => Debt(j)' <= Debt(j) + 1
           /\ s # 5 + j /\ s # 6 + j => Debt(j)' = Debt(j)
    BY RecordMoves, OwedNat
  <2> HIDE DEF s
  <2>2. \A d \in {"inf", "10", "5", "1", "01"} :
           counter[d] \in Nat /\ counter'[d] = counter[d] + IF d = c THEN 1 ELSE 0
    BY <1>4, CountersAre
  <2>3. /\ counter'["inf"] = counter["inf"] + IF s = 6 THEN 1 ELSE 0
        /\ counter'["10"] = counter["10"] + IF s = 7 THEN 1 ELSE 0
        /\ counter'["5"] = counter["5"] + IF s = 8 THEN 1 ELSE 0
        /\ counter'["1"] = counter["1"] + IF s = 9 THEN 1 ELSE 0
        /\ counter'["01"] = counter["01"] + IF s = 10 THEN 1 ELSE 0
    BY <1>5, <2>2
  <2> QED BY <2>1, <2>2, <2>3 DEF CountInv, BucketsInv
<1> QED BY <1>6, <1>7 DEF CountInv

LEMMA BeginCountInv ==
    ASSUME TypeOK, CountInv, NEW w \in Workers, BeginPacket(w) PROVE CountInv'
<1>1. step[w] = 0 /\ kind[w] = NoPacket /\ step'[w] = 1 /\ counter' = counter
  BY DEF TypeOK, BeginPacket
<1>2. \A v \in Workers : v # w => step'[v] = step[v] /\ kind'[v] = kind[v]
  BY DEF TypeOK, BeginPacket
<1>3. \A i \in 1 .. 6 : InHand(i)' = InHand(i)
  <2> TAKE i \in 1 .. 6
  <2>1. Past(i)' = Past(i)
    BY <1>1, <1>2 DEF Past
  <2> QED BY <2>1 DEF InHand
<1>4. \A j \in 1 .. 4 : Debt(j)' = Debt(j)
  <2> TAKE j \in 1 .. 4
  <2>1. Owed(j)' = Owed(j)
    BY <1>1, <1>2 DEF Owed, Adding
  <2> QED BY <2>1 DEF Debt
<1> QED BY <1>1, <1>3, <1>4 DEF CountInv, TotalsInv, BucketsInv, Protocols, Verdicts

LEMMA EndCountInv ==
    ASSUME TypeOK, CountInv, NEW w \in Workers, EndPacket(w) PROVE CountInv'
<1>1. /\ kind[w] \in Kinds /\ step[w] \in 1 .. 6 + kind[w].latency /\ ~Adding(w)
      /\ step'[w] = 0 /\ kind'[w] = NoPacket /\ counter' = counter
  BY DEF TypeOK, EndPacket
<1>2. kind[w].latency \in 1 .. 5 /\ step[w] > 5 + kind[w].latency
  BY <1>1, KindFields, MetricsAssumption DEF Adding
<1>3. \A v \in Workers : v # w => step'[v] = step[v] /\ kind'[v] = kind[v]
  BY DEF TypeOK, EndPacket
<1>4. \A i \in 1 .. 6 : InHand(i) \in Nat /\ InHand(i)' = InHand(i) - 1
  <2> TAKE i \in 1 .. 6
  <2>1. Past(i)' = Past(i) \ {w} /\ w \in Past(i)
    BY <1>1, <1>2, <1>3 DEF Past
  <2> QED BY <2>1, PastNat, FS_RemoveElement DEF InHand
<1>5. \A j \in 1 .. 4 : Debt(j)' = Debt(j)
  <2> TAKE j \in 1 .. 4
  <2>1. w \notin Owed(j) /\ step'[w] # 6 + j
    BY <1>1 DEF Owed, EndPacket
  <2>2. Owed(j)' = Owed(j)
    BY <1>1, <1>3, <2>1 DEF Owed, Adding
  <2> QED BY <2>2 DEF Debt
<1>6. /\ counter["packets"] \in Nat /\ counter["apps"] \in Nat /\ Protocols \in Nat
      /\ Verdicts \in Nat /\ counter["count"] \in Nat /\ counter["inf"] \in Nat
  BY TotalsNat
<1>7. Protocols' = Protocols /\ Verdicts' = Verdicts
  BY <1>1 DEF Protocols, Verdicts
<1> QED BY <1>1, <1>4, <1>5, <1>6, <1>7 DEF CountInv, TotalsInv, BucketsInv

\* Main, the server and the scrapers leave the counters and the workers alone.
LEMMA OthersCountInv ==
    ASSUME CountInv, UNCHANGED <<counter, workerVars>> PROVE CountInv'
<1>1. counter' = counter /\ step' = step /\ kind' = kind
  BY DEF workerVars
<1>2. \A i \in 1 .. 6 : InHand(i)' = InHand(i) /\ Debt(i)' = Debt(i)
  BY <1>1 DEF InHand, Debt, Past, Owed, Adding
<1> QED BY <1>1, <1>2 DEF CountInv, TotalsInv, BucketsInv, Protocols, Verdicts

LEMMA OthersLeaveWorkers ==
    ASSUME Next, \A w \in Workers : ~Worker(w) PROVE UNCHANGED <<counter, workerVars>>
<1>1. CASE Main \/ Finished
  BY <1>1 DEF Main, Finished, vars, Start, StartFailed, StopFlag, StopClose, StopJoin
<1>2. CASE Server \/ AcceptFails
  BY <1>2 DEF Server, ServerTop, EnterAccept, Accept, AcceptFails, Receive, Render, Respond, RespondKilled
<1>3. CASE \E c \in Clients : Connect(c) \/ Ask(c) \/ HangUp(c)
  BY <1>3 DEF Connect, Ask, HangUp
<1> QED BY <1>1, <1>2, <1>3 DEF Next

LEMMA NextCountInv == ASSUME TypeOK, CountInv, [Next]_vars PROVE CountInv'
<1>1. CASE UNCHANGED vars
  BY <1>1, OthersCountInv DEF vars
<1>2. CASE \E w \in Workers : Worker(w)
  BY <1>2, BeginCountInv, RecordCountInv, EndCountInv DEF Worker
<1>3. CASE Next /\ \A w \in Workers : ~Worker(w)
  BY <1>3, OthersLeaveWorkers, OthersCountInv
<1> QED BY <1>1, <1>2, <1>3

\* What the six totals say of each other in any one state.
LEMMA TotalsApart ==
    ASSUME TypeOK, TotalsInv
    PROVE  /\ counter["inf"] <= counter["count"] /\ counter["count"] <= Verdicts
           /\ Verdicts <= Protocols /\ Protocols <= counter["apps"]
           /\ counter["apps"] <= counter["packets"]
           /\ counter["packets"] <= counter["inf"] + InHand(1)
           /\ counter["packets"] <= Verdicts + Cardinality(Workers)
           /\ counter["count"] <= counter["inf"] + Cardinality(Workers)
<1>1. ASSUME NEW i \in Nat PROVE InHand(i + 1) <= InHand(i)
  <2>1. Past(i + 1) \in SUBSET Past(i)
    BY DEF TypeOK, Past
  <2> QED BY <2>1, PastNat, FS_Subset DEF InHand
<1>2. InHand(2) <= InHand(1) /\ InHand(3) <= InHand(2) /\ InHand(4) <= InHand(3)
      /\ InHand(5) <= InHand(4) /\ InHand(6) <= InHand(5)
  <2>1. InHand(1 + 1) <= InHand(1) /\ InHand(2 + 1) <= InHand(2) /\ InHand(3 + 1) <= InHand(3)
        /\ InHand(4 + 1) <= InHand(4) /\ InHand(5 + 1) <= InHand(5)
    BY <1>1
  <2> QED BY <2>1
<1>3. \A i \in 1 .. 6 : InHand(i) \in Nat /\ InHand(i) <= Cardinality(Workers)
  BY PastNat
<1>4. Cardinality(Workers) \in Nat
  BY MetricsAssumption, FS_CardinalityType
<1>5. /\ counter["packets"] \in Nat /\ counter["apps"] \in Nat /\ Protocols \in Nat
      /\ Verdicts \in Nat /\ counter["count"] \in Nat /\ counter["inf"] \in Nat
  BY TotalsNat
<1> QED BY <1>2, <1>3, <1>4, <1>5 DEF TotalsInv

\* At any moment the counters are apart by no more than the packets in the
\* workers' hands.
THEOREM CountersInStepHolds == Spec => []CountersInStep
<1>1. TypeOK /\ CountInv => CountersInStep
  <2> SUFFICES ASSUME TypeOK, CountInv PROVE CountersInStep
    OBVIOUS
  <2> DEFINE busy == {w \in Workers : kind[w] # NoPacket}
  <2>1. Past(1) \in SUBSET busy /\ IsFiniteSet(busy)
    <3>1. busy \in SUBSET Workers /\ IsFiniteSet(Workers)
      BY MetricsAssumption
    <3>2. Past(1) \in SUBSET busy
      BY DEF TypeOK, Past
    <3> QED BY <3>1, <3>2, FS_Subset
  <2>2. InHand(1) <= Cardinality(busy) /\ InHand(1) \in Nat /\ Cardinality(busy) \in Nat
    BY <2>1, PastNat, FS_Subset, FS_CardinalityType DEF InHand
  <2>3. counter["packets"] \in Nat /\ counter["inf"] \in Nat
    BY CountersAre DEF TypeOK
  <2> HIDE DEF busy
  <2>4. counter["packets"] <= counter["inf"] + Cardinality(busy)
    BY <2>2, <2>3, TotalsApart DEF CountInv
  <2> QED BY <2>4, TotalsApart DEF CountInv, CountersInStep, Protocols, Verdicts, busy
<1> QED BY InitTInv, InitCountInv, NextTInv, NextCountInv, <1>1, TypeCorrect, PTL DEF Spec

-----------------------------------------------------------------------------
(* The page.                                                               *)

LEMMA CountersGrow ==
    ASSUME TypeOK, [Next]_vars
    PROVE  \A c \in Counters : /\ counter[c] \in Nat /\ counter'[c] \in Nat
                               /\ counter[c] <= counter'[c]
<1>1. \A c \in Counters : counter[c] \in Nat
  BY DEF TypeOK
<1>2. CASE counter' = counter
  BY <1>1, <1>2
<1>3. CASE \E w \in Workers : Record(w)
  BY <1>1, <1>3 DEF TypeOK, Record
<1>4. counter' = counter \/ \E w \in Workers : Record(w)
  <2>1. CASE UNCHANGED vars
    BY <2>1 DEF vars
  <2>2. CASE \E w \in Workers : Worker(w)
    BY <2>2 DEF Worker, BeginPacket, EndPacket
  <2>3. CASE Next /\ \A w \in Workers : ~Worker(w)
    BY <2>3, OthersLeaveWorkers
  <2> QED BY <2>1, <2>2, <2>3
<1> QED BY <1>2, <1>3, <1>4

LEMMA BucketsOrdered ==
    ASSUME TypeOK, BucketsInv
    PROVE  /\ counter["01"] <= counter["1"] /\ counter["1"] <= counter["5"]
           /\ counter["5"] <= counter["10"] /\ counter["10"] <= counter["inf"]
<1>1. Debt(1) \in Nat /\ Debt(2) \in Nat /\ Debt(3) \in Nat /\ Debt(4) \in Nat
  BY OwedNat
<1>2. \A c \in Counters : counter[c] \in Nat
  BY DEF TypeOK
<1>3. /\ counter["01"] \in Nat /\ counter["1"] \in Nat /\ counter["5"] \in Nat
      /\ counter["10"] \in Nat /\ counter["inf"] \in Nat
  BY <1>2, CountersAre
<1> QED BY <1>1, <1>3 DEF BucketsInv

LEMMA PageLength ==
    ASSUME TypeOK
    PROVE  /\ page \in Seq(Nat) /\ Len(page) \in Nat /\ Len(page) <= 9
           /\ \A i \in 1 .. Len(page) : page[i] \in Nat /\ i \in 1 .. 9
<1>1. page \in Seq(Nat) /\ Len(page) <= 9
  BY RenderedAre DEF TypeOK
<1>2. Len(page) \in Nat /\ \A i \in 1 .. Len(page) : page[i] \in Nat
  BY <1>1
<1> QED BY <1>1, <1>2

LEMMA SamePageInv ==
    ASSUME TypeOK, PageInv, [Next]_vars, page' = page PROVE PageInv'
<1>1. /\ page \in Seq(Nat) /\ Len(page) \in Nat
      /\ \A i \in 1 .. Len(page) : page[i] \in Nat /\ i \in 1 .. 9
  BY PageLength
<1>2. Cardinality(Workers) \in Nat
  BY MetricsAssumption, FS_CardinalityType
<1>3. \A i \in 1 .. Len(page) : page[i] <= counter'[RenderOrder[i]]
  <2> TAKE i \in 1 .. Len(page)
  <2>1. RenderOrder[i] \in Counters
    BY <1>1, RenderedAre
  <2>2. page[i] <= counter[RenderOrder[i]]
    BY DEF PageInv
  <2> QED BY <1>1, <2>1, <2>2, CountersGrow
<1>4. Len(page) = 2 => page[1] <= page[2] + counter'["dropped"] + Cardinality(Workers)
  <2>1. /\ counter["dropped"] \in Nat /\ counter'["dropped"] \in Nat
        /\ counter["dropped"] <= counter'["dropped"]
    BY CountersGrow, CountersAre
  <2> QED BY <1>1, <1>2, <2>1 DEF PageInv
<1> QED BY <1>3, <1>4 DEF PageInv

LEMMA NoPageInv == ASSUME page' = <<>> PROVE PageInv'
<1>1. Len(page') = 0
  BY RenderedAre
<1> QED BY <1>1 DEF PageInv

LEMMA RenderPageInv ==
    ASSUME TypeOK, CountInv, PageInv, Render PROVE PageInv'
<1> DEFINE L == Len(page)
           n == Cardinality(Workers)
<1>1. page \in Seq(Nat) /\ L \in Nat /\ L < 9 /\ \A i \in 1 .. L : page[i] \in Nat
  BY PageLength, RenderedAre DEF Render
<1>2. n \in Nat
  BY MetricsAssumption, FS_CardinalityType
<1>3. counter' = counter
  BY DEF Render
<1>4. /\ Len(page') = L + 1 /\ page'[L + 1] = counter[RenderOrder[L + 1]]
      /\ \A i \in 1 .. L : page'[i] = page[i]
  BY <1>1 DEF Render
<1>5. /\ \A i \in 1 .. L : page[i] <= counter[RenderOrder[i]]
      /\ L = 2 => page[1] <= page[2] + counter["dropped"] + n
      /\ L >= 3 => page[1] <= page[2] + page[3] + n
      /\ \A i \in 6 .. L : page[i - 1] <= page[i]
  BY DEF PageInv
<1>6. \A i \in 1 .. 9 : counter[RenderOrder[i]] \in Nat
  BY RenderedAre DEF TypeOK
<1> HIDE DEF L, n
<1>7. \A i \in 1 .. L + 1 : page'[i] <= counter'[RenderOrder[i]]
  <2> TAKE i \in 1 .. L + 1
  <2>1. CASE i = L + 1
    <3>1. L + 1 \in 1 .. 9
      BY <1>1
    <3>2. page'[L + 1] = counter[RenderOrder[L + 1]] /\ counter[RenderOrder[L + 1]] \in Nat
      BY <1>4, <1>6, <3>1
    <3>3. page'[i] = counter'[RenderOrder[i]] /\ page'[i] \in Nat
      BY <1>3, <2>1, <3>2
    <3> QED BY <3>3
  <2>2. CASE i \in 1 .. L
    BY <1>3, <1>4, <1>5, <2>2
  <2> QED BY <1>1, <2>1, <2>2
<1>8. L + 1 = 2 => page'[1] <= page'[2] + counter'["dropped"] + n
  <2> SUFFICES ASSUME L = 1 PROVE page'[1] <= page'[2] + counter'["dropped"] + n
    BY <1>1
  <2>1. page'[1] <= counter["packets"] /\ page'[2] = counter["forwarded"] /\ page'[1] \in Nat
    BY <1>1, <1>4, <1>5, RenderedAre
  <2>2. counter["packets"] <= counter["forwarded"] + counter["dropped"] + n
    BY TotalsApart DEF CountInv, Verdicts, n
  <2>3. counter["packets"] \in Nat /\ counter["forwarded"] \in Nat /\ counter["dropped"] \in Nat
    BY CountersAre DEF TypeOK
  <2> QED BY <1>2, <1>3, <2>1, <2>2, <2>3
<1>9. L + 1 >= 3 => page'[1] <= page'[2] + page'[3] + n
  <2>1. CASE L = 2
    BY <1>1, <1>2, <1>4, <1>5, <2>1, RenderedAre
  <2>2. CASE L >= 3
    BY <1>1, <1>4, <1>5, <2>2
  <2> QED BY <1>1, <2>1, <2>2
<1>10. \A i \in 6 .. L + 1 : page'[i - 1] <= page'[i]
  <2> TAKE i \in 6 .. L + 1
  <2>1. CASE i \in 6 .. L
    BY <1>1, <1>4, <1>5, <2>1
  <2>2. CASE i = L + 1
    <3>1. L \in {5, 6, 7, 8}
      BY <1>1, <2>2
    <3>2. counter[RenderOrder[L]] <= counter[RenderOrder[L + 1]]
      BY <3>1, RenderedAre, BucketsOrdered DEF CountInv
    <3>3. page'[L] = page[L] /\ page[L] \in Nat /\ page[L] <= counter[RenderOrder[L]]
      BY <1>1, <1>4, <1>5, <3>1
    <3>4. counter[RenderOrder[L]] \in Nat /\ counter[RenderOrder[L + 1]] \in Nat
      BY <1>6, <3>1
    <3> QED BY <1>1, <1>4, <2>2, <3>2, <3>3, <3>4
  <2> QED BY <1>1, <2>1, <2>2
<1>11. L + 1 >= 9 => page'[4] <= page'[9] + n
  <2> SUFFICES ASSUME L = 8 PROVE page'[4] <= page'[9] + n
    BY <1>1
  <2>1. page'[4] <= counter["count"] /\ page'[4] \in Nat
    <3>1. 4 \in 1 .. L
      OBVIOUS
    <3> QED BY <1>1, <1>4, <1>5, <3>1, RenderedAre
  <2>3. page'[9] = counter["inf"]
    BY <1>4, RenderedAre
  <2>2. counter["count"] <= counter["inf"] + n
    BY TotalsApart DEF CountInv, n
  <2> QED BY <1>2, <2>1, <2>2, <2>3, TotalsNat
<1> QED BY <1>4, <1>7, <1>8, <1>9, <1>10, <1>11 DEF PageInv, n

LEMMA NextPageInv == ASSUME TypeOK, CountInv, PageInv, [Next]_vars PROVE PageInv'
<1>1. CASE Render
  BY <1>1, RenderPageInv
<1>2. CASE Receive \/ Respond \/ RespondKilled
  BY <1>2, NoPageInv DEF Receive, Respond, RespondKilled
<1>3. CASE ~Render /\ ~Receive /\ ~Respond /\ ~RespondKilled
  <2>1. page' = page
    <3>1. CASE UNCHANGED vars
      BY <3>1 DEF vars, serverVars
    <3>2. CASE \E w \in Workers : Worker(w)
      BY <3>2 DEF Worker, BeginPacket, Record, EndPacket, serverVars
    <3>3. CASE Main \/ Finished
      BY <3>3 DEF Main, Finished, vars, Start, StartFailed, StopFlag, StopClose, StopJoin, serverVars
    <3>4. CASE Server \/ AcceptFails
      BY <1>3, <3>4 DEF Server, ServerTop, EnterAccept, Accept, AcceptFails
    <3>5. CASE \E c \in Clients : Connect(c) \/ Ask(c) \/ HangUp(c)
      BY <3>5 DEF Connect, Ask, HangUp, serverVars
    <3> QED BY <3>1, <3>2, <3>3, <3>4, <3>5 DEF Next
  <2> QED BY <2>1, SamePageInv
<1> QED BY <1>1, <1>2, <1>3

LEMMA RenderedIs ==
    /\ Rendered("packets") = page[1] /\ Rendered("forwarded") = page[2]
    /\ Rendered("dropped") = page[3] /\ Rendered("count") = page[4]
    /\ Rendered("01") = page[5] /\ Rendered("1") = page[6] /\ Rendered("5") = page[7]
    /\ Rendered("10") = page[8] /\ Rendered("inf") = page[9]
<1>1. ASSUME NEW i \in 1 .. 9 PROVE Rendered(RenderOrder[i]) = page[i]
  <2>1. \A j \in 1 .. Len(RenderOrder) : RenderOrder[j] = RenderOrder[i] => j = i
    <3>1. \A j \in 1 .. 9 : j = 1 \/ j = 2 \/ j = 3 \/ j = 4 \/ j = 5 \/ j = 6 \/ j = 7 \/ j = 8 \/ j = 9
      OBVIOUS
    <3> QED BY <3>1, RenderedAre
  <2>2. i \in 1 .. Len(RenderOrder)
    BY RenderedAre
  <2>3. (CHOOSE j \in 1 .. Len(RenderOrder) : RenderOrder[j] = RenderOrder[i]) = i
    BY <2>1, <2>2
  <2> QED BY <2>3 DEF Rendered
<1> QED BY <1>1, RenderedAre

\* A page is consistent in itself, although read while the workers count.
THEOREM PageConsistentHolds == Spec => []PageConsistent
<1>1. Init => PageInv
  <2> SUFFICES ASSUME Init PROVE PageInv
    OBVIOUS
  <2>1. Len(page) = 0
    BY DEF Init
  <2> QED BY <2>1 DEF PageInv
<1>2. PageInv => PageConsistent
  <2> SUFFICES ASSUME PageInv, Len(page) = 9
               PROVE  /\ \A i \in 1 .. 4 : Rendered(Buckets[i + 1]) <= Rendered(Buckets[i])
                      /\ Rendered("count") <= Rendered("inf") + Cardinality(Workers)
                      /\ Rendered("packets")
                            <= Rendered("forwarded") + Rendered("dropped") + Cardinality(Workers)
    BY RenderedAre DEF PageConsistent
  <2>1. page[5] <= page[6] /\ page[6] <= page[7] /\ page[7] <= page[8] /\ page[8] <= page[9]
    <3>1. \A i \in 6 .. 9 : page[i - 1] <= page[i]
      BY DEF PageInv
    <3>2. page[6 - 1] <= page[6] /\ page[7 - 1] <= page[7] /\ page[8 - 1] <= page[8] /\ page[9 - 1] <= page[9]
      BY <3>1
    <3> QED BY <3>2
  <2>2. ASSUME NEW i \in 1 .. 4 PROVE Rendered(Buckets[i + 1]) <= Rendered(Buckets[i])
    <3>1. CASE i = 1
      BY <2>1, <3>1, RenderedIs DEF Buckets
    <3>2. CASE i = 2
      BY <2>1, <3>2, RenderedIs DEF Buckets
    <3>3. CASE i = 3
      BY <2>1, <3>3, RenderedIs DEF Buckets
    <3>4. CASE i = 4
      BY <2>1, <3>4, RenderedIs DEF Buckets
    <3> QED BY <3>1, <3>2, <3>3, <3>4
  <2> QED BY <2>2, RenderedIs DEF PageInv
<1> QED BY InitTInv, InitCountInv, NextTInv, NextCountInv, NextPageInv, <1>1, <1>2, TypeCorrect, PTL DEF Spec

-----------------------------------------------------------------------------
(* What stop() waits for.                                                  *)

\* running_ and the socket are taken down for good, the client the server talks to
\* is the one it has accepted, and nobody is answered unasked.
StopInv ==
    /\ mainPc \in {"close", "join", "done", "killed"} => ~running
    /\ mainPc \in {"join", "done", "killed"} => ~listening
    /\ running => listening
    /\ running => serverPc \in {"top", "accept", "blocked", "recv", "render", "failed"}
    /\ \A c \in Clients : asker[c] = "accepted" <=> client = c
    /\ serverPc = "render" => asked[client] # "nothing"
    /\ \A c \in Clients : asker[c] = "answered" => asked[c] = "request"

\* Each scraper that is answered has asked, and has had the server to itself.
OneScrapeAtATime ==
    /\ \A c \in Clients : asker[c] = "answered" => asked[c] = "request"
    /\ \A c, d \in Clients : asker[c] = "accepted" /\ asker[d] = "accepted" => c = d

\* How far the server thread still is from its end once the socket is closed.
ServerLeft == [blocked |-> 4, recv |-> 3, render |-> 2, top |-> 1, accept |-> 1,
               exit |-> 0, failed |-> 0, unborn |-> 0]
StopLeft == <<ServerLeft[serverPc], Len(RenderOrder) - Len(page)>>

\* From the close on, a step of the server thread brings its end nearer: it
\* never begins another accept, so it serves at most the client it has and
\* the one it may still be waiting for.
StopComesNearer ==
    [][mainPc = "join" => UNCHANGED serverVars \/ Below(2, StopLeft', StopLeft)]_vars

LEMMA InitStopInv == Init => StopInv
<1> SUFFICES ASSUME Init PROVE StopInv
  OBVIOUS
<1>1. \A c \in Clients : asker[c] = "away" /\ client # c
  BY MetricsAssumption DEF Init
<1> QED BY <1>1 DEF Init, StopInv

LEMMA NextStopInv == ASSUME TInv, StopInv, [Next]_vars PROVE StopInv'
<1> USE DEF TInv, TypeOK, StopInv
<1>1. CASE UNCHANGED vars \/ (\E w \in Workers : Worker(w)) \/ Finished
  <2>1. UNCHANGED <<mainVars, serverVars, clientVars>>
    BY <1>1 DEF vars, Finished, Worker, BeginPacket, Record, EndPacket
  <2> QED BY <2>1 DEF mainVars, serverVars, clientVars
<1>2. CASE Start \/ StartFailed \/ StopFlag \/ StopJoin
  BY <1>2 DEF Start, StartFailed, StopFlag, StopJoin, ServerInv, serverVars, clientVars
<1>3. CASE StopClose
  BY <1>3 DEF StopClose, serverVars
<1>4. CASE ServerTop \/ EnterAccept \/ AcceptFails
  BY <1>4 DEF ServerTop, EnterAccept, AcceptFails, mainVars, clientVars
<1>5. CASE Accept
  <2>1. PICK c \in Clients : asker[c] = "pending" /\ client' = c
                             /\ asker' = [asker EXCEPT ![c] = "accepted"]
    BY <1>5 DEF Accept
  <2>2. \A d \in Clients : asker[d] # "accepted"
    BY <1>5, MetricsAssumption DEF Accept
  <2>3. \A d \in Clients : asker'[d] = IF d = c THEN "accepted" ELSE asker[d]
    BY <2>1
  <2> QED BY <1>5, <2>1, <2>2, <2>3 DEF Accept, mainVars
<1>6. CASE Receive \/ Render
  BY <1>6 DEF Receive, Render, mainVars, clientVars
<1>7. CASE Respond \/ RespondKilled
  <2>1. client \in Clients /\ asked[client] # "nothing" /\ asker[client] = "accepted"
    BY <1>7 DEF Respond, RespondKilled
  <2>2. \A d \in Clients : asker[d] = "accepted" => d = client
    OBVIOUS
  <2>3. \A d \in Clients : asker'[d] # "accepted" /\ d # client'
    BY <1>7, <2>2, MetricsAssumption DEF Respond, RespondKilled
  <2>4. \A d \in Clients : asker'[d] = "answered" => asked'[d] = "request"
    <3>1. CASE Respond
      <4>1. \A d \in Clients : asker'[d] = IF d = client
                                THEN IF asked[client] = "hangup" THEN "gone" ELSE "answered"
                                ELSE asker[d]
        BY <3>1 DEF Respond
      <4>2. asked' = asked
        BY <3>1 DEF Respond
      <4> QED BY <2>1, <4>1, <4>2
    <3>2. CASE RespondKilled
      BY <3>2 DEF RespondKilled
    <3> QED BY <1>7, <3>1, <3>2
  <2>5. serverPc' \in {"top", "exit"}
    BY <1>7 DEF Respond, RespondKilled
  <2>6. \A d \in Clients : asker'[d] = "accepted" <=> client' = d
    BY <2>3
  <2>7. /\ mainPc' \in {"close", "join", "done", "killed"} => ~running'
        /\ mainPc' \in {"join", "done", "killed"} => ~listening'
        /\ running' => listening'
        /\ running' => serverPc' = "top"
    BY <1>7 DEF Respond, RespondKilled, mainVars
  <2> HIDE DEF TInv, TypeOK
  <2> QED BY <2>4, <2>5, <2>6, <2>7
<1>8. ASSUME NEW c \in Clients, Connect(c) \/ Ask(c) \/ HangUp(c) PROVE StopInv'
  <2>1. CASE Connect(c)
    <3>1. /\ asker[c] = "away" /\ UNCHANGED <<mainPc, running, listening, serverPc, client, asked>>
          /\ \A d \in Clients : asker'[d] = IF d = c THEN "pending" ELSE asker[d]
      BY <2>1 DEF Connect, mainVars, serverVars
    <3> QED BY <3>1
  <2>2. CASE Ask(c) \/ HangUp(c)
    <3>1. /\ UNCHANGED <<mainPc, running, listening, serverPc, client, asker>>
          /\ asker[c] \in {"pending", "accepted"} /\ asked'[c] # "nothing"
          /\ \A d \in Clients : d # c => asked'[d] = asked[d]
      BY <2>2 DEF Ask, HangUp, mainVars, serverVars
    <3>2. \A d \in Clients : asker'[d] = "answered" => asked'[d] = "request"
      BY <3>1
    <3>3. serverPc' = "render" => asked'[client'] # "nothing"
      BY <3>1
    <3> QED BY <3>1, <3>2, <3>3
  <2> QED BY <1>8, <2>1, <2>2
<1> QED BY <1>1, <1>2, <1>3, <1>4, <1>5, <1>6, <1>7, <1>8 DEF Next, Main, Server

LEMMA Stopping == Spec => [](TInv /\ StopInv)
  BY InitTInv, InitStopInv, NextTInv, NextStopInv, PTL DEF Spec

\* The server serves one scraper at a time, and answers what it was asked.
THEOREM OneScrapeAtATimeHolds == Spec => []OneScrapeAtATime
<1>1. StopInv => OneScrapeAtATime
  BY DEF StopInv, OneScrapeAtATime
<1> QED BY <1>1, Stopping, PTL

\* After stop() has closed the socket, each step of the server leads it out, by at
\* most one more scrape: what can still keep join() is only that it takes no
\* step, waiting in accept or for a client that has connected and says nothing.
THEOREM StopComesNearerHolds == Spec => StopComesNearer
<1>1. ASSUME TInv, StopInv, Next, mainPc = "join"
      PROVE  UNCHANGED serverVars \/ Below(2, StopLeft', StopLeft)
  <2>0. ~running /\ ~listening
    BY <1>1 DEF StopInv
  <2>1. ASSUME ServerLeft[serverPc'] < ServerLeft[serverPc] PROVE Below(2, StopLeft', StopLeft)
    BY <2>1 DEF Below, StopLeft
  <2>2. CASE ServerTop \/ EnterAccept \/ AcceptFails
    BY <2>0, <2>1, <2>2 DEF ServerTop, EnterAccept, AcceptFails, ServerLeft
  <2>3. CASE Accept \/ Receive \/ Respond \/ RespondKilled
    BY <2>1, <2>3 DEF Accept, Receive, Respond, RespondKilled, ServerLeft
  <2>4. CASE Render
    <3>1. page \in Seq(Nat) /\ Len(RenderOrder) \in Nat
      BY <1>1, RenderedAre DEF TInv, TypeOK
    <3>2. Len(page') = Len(page) + 1 /\ serverPc' = serverPc
      BY <2>4, <3>1 DEF Render
    <3>3. StopLeft'[1] = StopLeft[1] /\ StopLeft'[2] < StopLeft[2]
      BY <3>1, <3>2 DEF StopLeft
    <3> QED BY <3>3 DEF Below
  <2>5. CASE (\E w \in Workers : Worker(w)) \/ Finished \/ \E c \in Clients : Connect(c) \/ Ask(c) \/ HangUp(c)
    BY <2>5 DEF Finished, vars, Worker, BeginPacket, Record, EndPacket, Connect, Ask, HangUp
  <2>6. CASE Main
    BY <1>1, <2>6 DEF Main, Start, StartFailed, StopFlag, StopClose, StopJoin
  <2> QED BY <1>1, <2>2, <2>3, <2>4, <2>5, <2>6 DEF Next, Server
<1>2. TInv /\ StopInv /\ [Next]_vars =>
        [mainPc = "join" => UNCHANGED serverVars \/ Below(2, StopLeft', StopLeft)]_vars
  BY <1>1
<1> QED BY <1>2, Stopping, PTL DEF Spec, StopComesNearer

-----------------------------------------------------------------------------
(* What of EveryScrapeAnswered needs no fairness: while the server runs,   *)
(* whatever its thread does serves somebody or is a failed accept.         *)

\* Scrapers that are still to be answered, and the server's way to the next answer.
Unserved == {c \in Clients : asker[c] \in {"away", "pending", "accepted"}}
ServerPlace == [top |-> 5, accept |-> 4, blocked |-> 3, recv |-> 2, render |-> 1]
ServeLeft == <<Cardinality(Unserved), ServerPlace[serverPc], Len(RenderOrder) - Len(page)>>

\* A step between two moments at which the server runs leaves its thread alone, or
\* leaves the thread in its loop and nearer to an answer, or is a failed accept.
EveryStepServes ==
    [][running /\ running' =>
         \/ UNCHANGED <<Unserved, serverVars>>
         \/ serverPc' \in DOMAIN ServerPlace /\ Below(3, ServeLeft', ServeLeft)
         \/ serverPc = "blocked" /\ serverPc' = "failed"]_vars

\* A scraper that is answered, or reset by stop(), stays so.
LEMMA UnservedShrinks == ASSUME TInv, [Next]_vars PROVE Unserved' \subseteq Unserved
<1> USE DEF TInv, TypeOK, Unserved
<1>1. CASE asker' = asker
  BY <1>1
<1>2. CASE StopClose
  BY <1>2 DEF StopClose
<1>3. CASE Accept \/ Respond \/ RespondKilled
  BY <1>3 DEF Accept, Respond, RespondKilled
<1>4. CASE \E c \in Clients : Connect(c)
  BY <1>4 DEF Connect
<1>5. asker' = asker \/ StopClose \/ Accept \/ Respond \/ RespondKilled \/ \E c \in Clients : Connect(c)
  BY DEF Next, vars, clientVars, Worker, BeginPacket, Record, EndPacket, Main, Start, StartFailed,
         StopFlag, StopJoin, Server, ServerTop, EnterAccept, Receive, Render, AcceptFails, Finished, Ask,
         HangUp
<1> QED BY <1>1, <1>2, <1>3, <1>4, <1>5

\* With finitely many scrapers to come, what the server thread does while it runs
\* brings the answer to each of them nearer, unless an accept fails: it takes no turn
\* that serves nobody, and nothing else ends its loop.
THEOREM EveryStepServesHolds == ASSUME IsFiniteSet(Clients) PROVE Spec => EveryStepServes
<1> DEFINE Serves == \/ UNCHANGED <<Unserved, serverVars>>
                     \/ serverPc' \in DOMAIN ServerPlace /\ Below(3, ServeLeft', ServeLeft)
                     \/ serverPc = "blocked" /\ serverPc' = "failed"
<1>1. ASSUME TInv, StopInv, Next, running, running' PROVE Serves
  <2>0. DOMAIN ServerPlace = {"top", "accept", "blocked", "recv", "render"}
    BY DEF ServerPlace
  <2>1. CASE Accept \/ Receive \/ ServerTop \/ EnterAccept
    <3>1. asker' = asker \/ Unserved' = Unserved
      BY <1>1, <2>1 DEF Accept, Receive, ServerTop, EnterAccept, clientVars, Unserved, TInv, TypeOK
    <3>2. Unserved' = Unserved
      BY <3>1 DEF Unserved
    <3>3. listening
      BY <1>1 DEF StopInv
    <3>4. serverPc' \in DOMAIN ServerPlace /\ ServerPlace[serverPc'] < ServerPlace[serverPc]
      BY <1>1, <2>0, <2>1, <3>3 DEF Accept, Receive, ServerTop, EnterAccept, ServerPlace
    <3>5. ServeLeft'[1] = ServeLeft[1] /\ ServeLeft'[2] < ServeLeft[2]
      BY <3>2, <3>4 DEF ServeLeft
    <3> QED BY <3>4, <3>5 DEF Below
  <2>2. CASE AcceptFails
    BY <2>2 DEF AcceptFails
  <2>3. CASE Render
    <3>1. page \in Seq(Nat) /\ Len(RenderOrder) \in Nat
      BY <1>1, RenderedAre DEF TInv, TypeOK
    <3>2. Len(page') = Len(page) + 1 /\ serverPc' = serverPc /\ serverPc = "render"
          /\ asker' = asker
      BY <2>3, <3>1 DEF Render, clientVars
    <3>3. Unserved' = Unserved
      BY <3>2 DEF Unserved
    <3>4. /\ ServeLeft'[1] = ServeLeft[1] /\ ServeLeft'[2] = ServeLeft[2]
          /\ ServeLeft'[3] < ServeLeft[3]
      BY <3>1, <3>2, <3>3 DEF ServeLeft
    <3> QED BY <2>0, <3>2, <3>4 DEF Below
  <2>4. CASE Respond
    <3>1. client \in Clients /\ asker[client] = "accepted"
      BY <1>1, <2>4 DEF Respond, TInv, TypeOK, StopInv
    <3>2. asker'[client] \in {"answered", "gone"} /\ serverPc' = "top"
      BY <1>1, <2>4, <3>1 DEF Respond, TInv, TypeOK
    <3>3. client \in Unserved /\ client \notin Unserved'
      BY <3>1, <3>2 DEF Unserved
    <3>4. Unserved' \subseteq Unserved /\ IsFiniteSet(Unserved)
      <4>1. Unserved \subseteq Clients
        BY DEF Unserved
      <4> QED BY <1>1, <4>1, UnservedShrinks, FS_Subset
    <3>5. /\ Cardinality(Unserved') \in Nat /\ Cardinality(Unserved) \in Nat
          /\ Cardinality(Unserved') <= Cardinality(Unserved)
          /\ Cardinality(Unserved') # Cardinality(Unserved)
      BY <3>3, <3>4, FS_Subset, FS_CardinalityType
    <3>6. ServeLeft'[1] < ServeLeft[1]
      BY <3>5 DEF ServeLeft
    <3> QED BY <2>0, <3>2, <3>6 DEF Below
  <2>5. CASE \/ RespondKilled \/ Start \/ StopFlag
    BY <1>1, <2>5 DEF RespondKilled, Start, StopFlag, TInv, ServerInv, StopInv
  <2>6. CASE StartFailed \/ StopClose \/ StopJoin \/ Finished
             \/ (\E w \in Workers : Worker(w)) \/ \E c \in Clients : Connect(c) \/ Ask(c) \/ HangUp(c)
    <3>1. UNCHANGED serverVars
      BY <2>6 DEF StartFailed, StopClose, StopJoin, Finished, vars, Worker, BeginPacket,
                  Record, EndPacket, Connect, Ask, HangUp
    <3>2. ~StopClose
      BY <1>1 DEF StopClose, StopInv
    <3>3. asker' = asker \/ \E c \in Clients : Connect(c)
      BY <2>6, <3>2 DEF StartFailed, StopJoin, Finished, vars, clientVars, Worker,
                        BeginPacket, Record, EndPacket, Ask, HangUp
    <3>4. Unserved' = Unserved
      BY <1>1, <3>3 DEF Connect, Unserved, TInv, TypeOK
    <3> QED BY <3>1, <3>4
  <2> QED BY <1>1, <2>1, <2>2, <2>3, <2>4, <2>5, <2>6 DEF Next, Main, Server
<1>2. TInv /\ StopInv /\ [Next]_vars => [running /\ running' => Serves]_vars
  BY <1>1
<1> QED BY <1>2, Stopping, PTL DEF Spec, EveryStepServes

=============================================================================
