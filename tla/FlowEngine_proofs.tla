------------------------- MODULE FlowEngine_proofs -------------------------
(***************************************************************************)
(* Proofs about FlowEngine for any number of workers, any tuples, hash,    *)
(* rules, payloads, cleanup interval and timeout.  The inductive invariant *)
(* says of every table entry what processPacket re-establishes each time   *)
(* it handles a packet of the flow (ConnOK); the lemmas follow a           *)
(* connection through the stages of processPacket.                         *)
(***************************************************************************)
EXTENDS FlowEngine, TLAPS

\* What holds of a connection between packets.
ConnOK(conn) ==
    /\ conn \in Connection
    /\ conn.classified <=> conn.sni # NoName
    /\ conn.state = "BLOCKED" <=> conn.action = "DROP"
    /\ conn.action = "FORWARD" => ~Blockable(conn.app_type, conn.sni)

\* What holds of it once inspected: classification may have overwritten the
\* BLOCKED state of a flow that is dropped, and no rule was asked yet.
Inspected(conn) ==
    /\ conn \in Connection
    /\ conn.classified <=> conn.sni # NoName
    /\ conn.state = "BLOCKED" => conn.action = "DROP"

TableOK == \A w \in Workers, t \in Tuples : table[w][t] # NoConn => ConnOK(table[w][t])

IInv == TypeOK /\ TableOK

-----------------------------------------------------------------------------
\* The remainder the code indexes its worker vector with.
LEMMA ModBound ==
    ASSUME NEW a \in Nat, NEW n \in Nat \ {0}
    PROVE  a % n \in 0 .. n - 1
  OBVIOUS

LEMMA RouteType == \A t \in Tuples : Route(t) \in Workers
  BY ModBound, HashAssumption, NumWorkersAssumption DEF Route, Workers

LEMMA ReverseType == \A t \in Tuples : Normalised(t) \in Tuples
  BY TuplesAssumption DEF Normalised

LEMMA KeyType == ASSUME NEW w \in Workers, NEW t \in Tuples PROVE Key(w, t) \in Tuples
  BY ReverseType DEF Key

LEMMA NewConnectionOK == Inspected([NewConnection EXCEPT !.age = 0])
<1> DEFINE conn == [state |-> "NEW", app_type |-> "UNKNOWN", action |-> "FORWARD",
                    sni |-> NoName, age |-> 0, classified |-> FALSE]
<1>1. "UNKNOWN" \in Apps
  BY DEF Apps
<1>2. 0 \in 0 .. Timeout
  BY CleanupAssumption
<1>3. conn \in Connection
  BY <1>1, <1>2 DEF Connection
<1>4. Inspected(conn)
  BY <1>3 DEF Inspected
<1>5. [conn EXCEPT !.age = 0] \in Connection
  BY <1>2, <1>3 DEF Connection
<1> QED BY <1>5, <1>4 DEF NewConnection, Inspected

LEMMA SeenOK == ASSUME NEW conn, ConnOK(conn) PROVE Inspected([conn EXCEPT !.age = 0])
  BY CleanupAssumption DEF ConnOK, Inspected, Connection

LEMMA ClassifiedOK ==
    ASSUME NEW conn, Inspected(conn), NEW name \in Names, NEW app \in Apps
    PROVE  Inspected(Classified(conn, name, app))
  BY NamesAssumption DEF Inspected, Connection, Classified

LEMMA ClassifyFlowOK ==
    ASSUME NEW conn, Inspected(conn), NEW t \in Tuples, NEW p \in Payloads
    PROVE  Inspected(ClassifyFlow(conn, t, p))
<1>1. p.tls \in Names \cup {NoName} /\ p.http \in Names \cup {NoName}
      /\ p.dns \in Names \cup {NoName}
  BY PayloadsAssumption
<1>2. \A name \in Names : AppOf[name] \in Apps
  BY AppOfAssumption
<1>3. "DNS" \in Apps /\ "HTTPS" \in Apps /\ "HTTP" \in Apps
  BY DEF Apps
<1>4. \A app \in Apps : Inspected([conn EXCEPT !.app_type = app])
  BY DEF Inspected, Connection
<1> QED BY <1>1, <1>2, <1>3, <1>4, ClassifiedOK DEF ClassifyFlow

LEMMA InspectOK ==
    ASSUME NEW conn, Inspected(conn), NEW t \in Tuples, NEW p \in Payloads
    PROVE  Inspected(Inspect(conn, t, p))
  BY ClassifyFlowOK DEF Inspect

\* The heart of it: the rules are asked after classification, and only a flow
\* they let pass stays in FORWARD.
LEMMA DecideOK ==
    ASSUME NEW conn, Inspected(conn), NEW t \in Tuples,
           conn.action = "FORWARD" \/ conn.action = "DROP"
    PROVE  /\ Inspected(Decide(conn, t))
           /\ Decide(conn, t).action = "FORWARD" =>
                /\ ~Blockable(Decide(conn, t).app_type, Decide(conn, t).sni)
                /\ conn.action = "FORWARD"
                /\ t.src_ip \notin BlockedIPs /\ t.dst_port \notin BlockedPorts
  BY DEF Decide, ShouldBlock, Inspected, Connection

LEMMA MarkBlockedOK ==
    ASSUME NEW conn, Inspected(conn),
           conn.action = "FORWARD" => ~Blockable(conn.app_type, conn.sni)
    PROVE  ConnOK(MarkBlocked(conn))
  BY DEF MarkBlocked, Inspected, ConnOK, Connection

\* What processPacket makes of the flow's entry.
LEMMA JudgedOK ==
    ASSUME TableOK, NEW w \in Workers, NEW t \in Tuples, NEW p \in Payloads
    PROVE  /\ Judged(w, t, p).action \in {"FORWARD", "DROP"}
           /\ ConnOK(MarkBlocked(Judged(w, t, p)))
           /\ Judged(w, t, p).action = "FORWARD" =>
                t.src_ip \notin BlockedIPs /\ t.dst_port \notin BlockedPorts
<1> DEFINE conn == IF table[w][Key(w, t)] = NoConn THEN NewConnection
                                                  ELSE table[w][Key(w, t)]
           met == [conn EXCEPT !.age = 0]
           looked == Inspect(met, t, p)
<1>1. Inspected(met)
  BY NewConnectionOK, SeenOK, KeyType DEF TableOK
<1>2. Inspected(looked)
  BY <1>1, InspectOK
<1>3. looked.action = "FORWARD" \/ looked.action = "DROP"
  BY <1>2 DEF Inspected, Connection
<1>4. Judged(w, t, p) = Decide(looked, t)
  BY DEF Judged
<1> HIDE DEF looked
<1>5. Inspected(Decide(looked, t))
  BY <1>2, <1>3, DecideOK
<1>6. Decide(looked, t).action \in {"FORWARD", "DROP"}
  BY <1>5 DEF Inspected, Connection
<1> QED BY <1>2, <1>3, <1>4, <1>5, <1>6, DecideOK, MarkBlockedOK

-----------------------------------------------------------------------------
LEMMA InitIInv == Init => IInv
  BY NumWorkersAssumption, CleanupAssumption DEF Init, IInv, TypeOK, TableOK, NoOutcome,
     Seen, NotSeen

LEMMA PacketIInv ==
    ASSUME IInv, NEW t \in Tuples, NEW p \in Payloads, ProcessPacket(t, p)
    PROVE  IInv'
<1> DEFINE w == Route(t)
           k == Key(w, t)
           conn == Judged(w, t, p)
           conns == [table[w] EXCEPT ![k] = MarkBlocked(conn)]
           count == (processed[w] + 1) % CleanupInterval
<1>1. w \in Workers /\ k \in Tuples
  BY RouteType, KeyType
<1>2. ConnOK(MarkBlocked(conn)) /\ conn.action \in {"FORWARD", "DROP"}
  BY <1>1, JudgedOK DEF IInv
<1>3. table[w] \in [Tuples -> Connection \cup {NoConn}]
  BY <1>1 DEF IInv, TypeOK
<1>4. conns \in [Tuples -> Connection \cup {NoConn}]
      /\ \A u \in Tuples : conns[u] # NoConn => ConnOK(conns[u])
  BY <1>1, <1>2, <1>3 DEF IInv, TableOK, ConnOK
<1>5. CleanupStale(conns) \in [Tuples -> Connection \cup {NoConn}]
      /\ \A u \in Tuples : CleanupStale(conns)[u] # NoConn => ConnOK(CleanupStale(conns)[u])
  BY <1>4 DEF CleanupStale
<1>6. count \in 0 .. CleanupInterval - 1
  BY <1>1, ModBound, CleanupAssumption DEF IInv, TypeOK
<1>7. /\ table' = [table EXCEPT ![w] = IF count = 0 THEN CleanupStale(conns) ELSE conns]
      /\ processed' = [processed EXCEPT ![w] = count]
      /\ last' = [tuple |-> t, worker |-> w, key |-> k,
                  existed |-> table[w][k] # NoConn, action |-> conn.action,
                  logged |-> conn.action = "DROP" /\ conn.state # "BLOCKED"]
  BY DEF ProcessPacket
<1> HIDE DEF w, k, conn, conns, count
<1>8. table' \in [Workers -> [Tuples -> Connection \cup {NoConn}]]
  BY <1>1, <1>4, <1>5, <1>7 DEF IInv, TypeOK
<1>9. TableOK'
  BY <1>1, <1>4, <1>5, <1>7 DEF IInv, TypeOK, TableOK
<1>10. processed' \in [Workers -> 0 .. CleanupInterval - 1]
  BY <1>6, <1>7 DEF IInv, TypeOK
<1>11. last' \in Outcome
  <2>1. (table[w][k] # NoConn) \in BOOLEAN
        /\ (conn.action = "DROP" /\ conn.state # "BLOCKED") \in BOOLEAN
    OBVIOUS
  <2> QED BY <1>1, <1>2, <1>7, <2>1 DEF Outcome
<1>12. seen' \in [Tuples -> Seen]
  <2>1. seen' = [seen EXCEPT ![t] = [quiet |-> 0, action |-> conn.action]]
    BY DEF ProcessPacket, conn, w
  <2>2. [quiet |-> 0, action |-> conn.action] \in Seen
    BY <1>2, CleanupAssumption DEF Seen
  <2> QED BY <2>1, <2>2 DEF IInv, TypeOK
<1> QED BY <1>8, <1>9, <1>10, <1>11, <1>12 DEF IInv, TypeOK, TableOK, ConnOK

LEMMA TickIInv == IInv /\ Tick => IInv'
<1> SUFFICES ASSUME IInv, Tick PROVE IInv'
  OBVIOUS
<1>1. \A w \in Workers, t \in Tuples :
        table'[w][t] = IF table[w][t] = NoConn \/ table[w][t].age = Timeout THEN table[w][t]
                       ELSE [table[w][t] EXCEPT !.age = @ + 1]
  BY DEF Tick
<1>2. ASSUME NEW conn, ConnOK(conn), conn.age # Timeout
      PROVE  ConnOK([conn EXCEPT !.age = @ + 1])
  <2>1. conn.age + 1 \in 0 .. Timeout
    BY <1>2, CleanupAssumption DEF ConnOK, Connection
  <2> QED BY <1>2, <2>1 DEF ConnOK, Connection
<1>3. ASSUME NEW w \in Workers, NEW t \in Tuples, table'[w][t] # NoConn
      PROVE  ConnOK(table'[w][t])
  <2> DEFINE conn == table[w][t]
  <2>1. conn # NoConn
    BY <1>1, <1>3
  <2>2. ConnOK(conn)
    BY <2>1 DEF IInv, TableOK
  <2>3. CASE conn.age = Timeout
    BY <1>1, <2>2, <2>3
  <2>4. CASE conn.age # Timeout
    <3>1. table'[w][t] = [conn EXCEPT !.age = @ + 1]
      BY <1>1, <2>1, <2>4
    <3> HIDE DEF conn
    <3> QED BY <1>2, <2>2, <2>4, <3>1
  <2> QED BY <2>3, <2>4
<1>4. table' \in [Workers -> [Tuples -> Connection \cup {NoConn}]]
  <2>1. \A w \in Workers, t \in Tuples : table'[w][t] \in Connection \cup {NoConn}
    BY <1>3 DEF ConnOK
  <2> QED BY <2>1 DEF Tick
<1>5. processed' \in [Workers -> 0 .. CleanupInterval - 1] /\ last' \in Outcome \cup {NoOutcome}
  BY DEF Tick, IInv, TypeOK
<1>6. seen' \in [Tuples -> Seen]
  <2>1. \A t \in Tuples : (IF seen[t].quiet + 1 < Timeout
                          THEN [seen[t] EXCEPT !.quiet = @ + 1] ELSE NotSeen) \in Seen
    BY CleanupAssumption DEF IInv, TypeOK, Seen, NotSeen
  <2> QED BY <2>1 DEF Tick
<1> QED BY <1>3, <1>4, <1>5, <1>6 DEF IInv, TypeOK, TableOK, ConnOK

LEMMA NextIInv == IInv /\ [Next]_vars => IInv'
<1>1. IInv /\ UNCHANGED vars => IInv'
  BY DEF IInv, TypeOK, TableOK, vars
<1> QED BY <1>1, PacketIInv, TickIInv DEF Next

LEMMA Invariance == Spec => []IInv
  BY InitIInv, NextIInv, PTL DEF Spec

\* The tables and counters keep their types, and an entry has a name exactly
\* when it is classified.
THEOREM TypeCorrect == Spec => []TypeOK
<1>1. IInv => TypeOK
  BY DEF IInv
<1> QED BY <1>1, Invariance, PTL

\* Between packets the two marks of a blocked flow agree.
THEOREM BlockedIffDropHolds == Spec => []BlockedIffDrop
<1>1. IInv => BlockedIffDrop
  BY DEF IInv, TableOK, ConnOK, BlockedIffDrop, Live
<1> QED BY <1>1, Invariance, PTL

\* A flow that is still forwarded has no application or name a rule blocks,
\* in whatever order its packets brought them to light.
THEOREM OpenFlowsObeyRulesHolds == Spec => []OpenFlowsObeyRules
<1>1. IInv => OpenFlowsObeyRules
  BY DEF IInv, TableOK, ConnOK, OpenFlowsObeyRules, Live
<1> QED BY <1>1, Invariance, PTL

-----------------------------------------------------------------------------
\* No packet from a blocked address or to a blocked port is forwarded.
THEOREM NoBlockedAddressForwardedHolds == Spec => []NoBlockedAddressForwarded
<1>1. Init => NoBlockedAddressForwarded
  BY DEF Init, NoBlockedAddressForwarded
<1>2. IInv /\ NoBlockedAddressForwarded /\ [Next]_vars => NoBlockedAddressForwarded'
  <2> SUFFICES ASSUME IInv, NoBlockedAddressForwarded, [Next]_vars
               PROVE  NoBlockedAddressForwarded'
    OBVIOUS
  <2>1. CASE UNCHANGED last
    BY <2>1 DEF NoBlockedAddressForwarded
  <2>2. ASSUME NEW t \in Tuples, NEW p \in Payloads, ProcessPacket(t, p)
        PROVE  NoBlockedAddressForwarded'
    <3>1. last'.tuple = t /\ last'.action = Judged(Route(t), t, p).action
      BY <2>2 DEF ProcessPacket
    <3>2. last'.action = "FORWARD" => t.src_ip \notin BlockedIPs /\ t.dst_port \notin BlockedPorts
      BY <3>1, JudgedOK, RouteType DEF IInv
    <3> QED BY <3>1, <3>2 DEF NoBlockedAddressForwarded
  <2> QED BY <2>1, <2>2 DEF Next, Tick, vars
<1> QED BY <1>1, <1>2, Invariance, PTL DEF Spec

-----------------------------------------------------------------------------
\* What inspection leaves alone.
LEMMA InspectFrame ==
    ASSUME NEW conn, Inspected(conn), NEW t \in Tuples, NEW p \in Payloads
    PROVE  /\ Inspect(conn, t, p).action = conn.action
           /\ Inspect(conn, t, p).age = conn.age
           /\ conn.classified => Inspect(conn, t, p) = conn
  BY DEF Inspect, ClassifyFlow, Classified, Inspected, Connection

\* What one packet does to the entry it finds.
LEMMA JudgedFrame ==
    ASSUME TableOK, NEW w \in Workers, NEW t \in Tuples, NEW p \in Payloads,
           NEW new, new = MarkBlocked(Judged(w, t, p)),
           NEW old, old = table[w][Key(w, t)]
    PROVE  /\ new.age = 0
           /\ old # NoConn /\ old.action = "DROP" => Judged(w, t, p).action = "DROP"
           /\ old # NoConn /\ old.classified =>
                new.classified /\ new.sni = old.sni /\ new.app_type = old.app_type
<1> DEFINE conn == IF old = NoConn THEN NewConnection ELSE old
           met == [conn EXCEPT !.age = 0]
           looked == Inspect(met, t, p)
<1>1. Inspected(met)
  BY NewConnectionOK, SeenOK, KeyType DEF TableOK
<1>2. /\ looked.action = met.action /\ looked.age = met.age
      /\ met.classified => looked = met
  <2> HIDE DEF met
  <2> QED BY <1>1, InspectFrame
<1>3. Inspected(looked)
  BY <1>1, InspectOK
<1>4. met.age = 0
  BY <1>1 DEF NewConnection, TableOK, ConnOK, Connection
<1>5. old # NoConn => /\ met.action = old.action /\ met.classified = old.classified
                      /\ met.sni = old.sni /\ met.app_type = old.app_type
  BY KeyType DEF TableOK, ConnOK, Connection
<1>6. new = MarkBlocked(Decide(looked, t)) /\ Judged(w, t, p) = Decide(looked, t)
  BY DEF Judged
<1> HIDE DEF looked, met
<1>7. /\ new.age = looked.age /\ new.classified = looked.classified
      /\ new.sni = looked.sni /\ new.app_type = looked.app_type
  BY <1>3, <1>6 DEF MarkBlocked, Decide, Inspected, Connection
<1>8. looked.action = "DROP" => Decide(looked, t).action = "DROP"
  BY DEF Decide
<1> QED BY <1>2, <1>4, <1>5, <1>6, <1>7, <1>8

\* The entry of a flow after a step in which it stays in its table.
LEMMA EntryStep ==
    ASSUME IInv, NEW t \in Tuples, NEW p \in Payloads, ProcessPacket(t, p),
           NEW w \in Workers, NEW u \in Tuples, table'[w][u] # NoConn
    PROVE  \/ table'[w][u] = table[w][u]
           \/ /\ w = Route(t) /\ u = Key(w, t)
              /\ table'[w][u] = MarkBlocked(Judged(w, t, p))
<1>1. Route(t) \in Workers /\ Key(Route(t), t) \in Tuples
  BY RouteType, KeyType
<1> DEFINE conns == [table[Route(t)] EXCEPT ![Key(Route(t), t)] =
                       MarkBlocked(Judged(Route(t), t, p))]
<1>2. \/ table' = [table EXCEPT ![Route(t)] = conns]
      \/ table' = [table EXCEPT ![Route(t)] = CleanupStale(conns)]
  BY DEF ProcessPacket
<1>3. CleanupStale(conns)[u] \in {NoConn, conns[u]}
  BY DEF CleanupStale
<1>4. CASE w # Route(t)
  BY <1>1, <1>2, <1>4 DEF IInv, TypeOK
<1>5. CASE w = Route(t)
  <2>1. table'[w][u] = conns[u]
    <3> HIDE DEF conns
    <3> QED BY <1>2, <1>3, <1>5 DEF IInv, TypeOK
  <2>2. table[w] \in [Tuples -> Connection \cup {NoConn}]
    BY DEF IInv, TypeOK
  <2> QED BY <1>1, <1>5, <2>1, <2>2
<1> QED BY <1>4, <1>5

\* Later payloads never change the name or the application of a classified flow.
THEOREM ClassificationIsFinalHolds == Spec => ClassificationIsFinal
<1> DEFINE A == \A w \in Workers, t \in Tuples :
                  Live(w, t) /\ Live(w, t)' /\ table[w][t].classified =>
                    /\ table'[w][t].classified
                    /\ table'[w][t].sni = table[w][t].sni
                    /\ table'[w][t].app_type = table[w][t].app_type
<1>1. IInv /\ [Next]_vars => [A]_vars
  <2> SUFFICES ASSUME IInv, Next PROVE A
    OBVIOUS
  <2> SUFFICES ASSUME NEW w \in Workers, NEW u \in Tuples, Live(w, u), Live(w, u)',
                      table[w][u].classified
               PROVE  /\ table'[w][u].classified
                      /\ table'[w][u].sni = table[w][u].sni
                      /\ table'[w][u].app_type = table[w][u].app_type
    OBVIOUS
  <2>1. CASE Tick
    <3>1. \/ table'[w][u] = table[w][u]
          \/ table'[w][u] = [table[w][u] EXCEPT !.age = @ + 1]
      BY <2>1 DEF Tick
    <3>2. table[w][u] \in Connection
      BY DEF IInv, TypeOK, Live
    <3> QED BY <3>1, <3>2 DEF Connection
  <2>2. ASSUME NEW t \in Tuples, NEW p \in Payloads, ProcessPacket(t, p)
        PROVE  /\ table'[w][u].classified
               /\ table'[w][u].sni = table[w][u].sni
               /\ table'[w][u].app_type = table[w][u].app_type
    BY <2>2, EntryStep, JudgedFrame DEF IInv, Live
  <2> QED BY <2>1, <2>2 DEF Next
<1> QED BY <1>1, Invariance, PTL DEF Spec, ClassificationIsFinal

\* A packet that finds its flow blocked is dropped.
THEOREM NoForwardAfterBlockHolds == Spec => NoForwardAfterBlock
<1> DEFINE A == last' # last /\ last'.existed
                /\ table[last'.worker][last'.key].action = "DROP" => last'.action = "DROP"
<1>1. IInv /\ [Next]_vars => [A]_vars
  <2> SUFFICES ASSUME IInv, NEW t \in Tuples, NEW p \in Payloads, ProcessPacket(t, p)
               PROVE  A
    BY DEF Next, Tick
  <2>1. /\ last'.worker = Route(t) /\ last'.key = Key(Route(t), t)
        /\ last'.existed <=> table[Route(t)][Key(Route(t), t)] # NoConn
        /\ last'.action = Judged(Route(t), t, p).action
    BY DEF ProcessPacket
  <2> QED BY <2>1, RouteType, JudgedFrame DEF IInv
<1> QED BY <1>1, Invariance, PTL DEF Spec, NoForwardAfterBlock

-----------------------------------------------------------------------------
(* What the tracker remembers.                                             *)

\* The entry a packet of t would find is no older than the latest of them.
MemoryInv ==
    \A t \in Tuples : seen[t].quiet < Timeout =>
        LET conn == table[Route(t)][Key(Route(t), t)]
        IN  /\ conn # NoConn /\ conn.age <= seen[t].quiet
            /\ seen[t].action = "DROP" => conn.action = "DROP"

\* A packet only ever makes an entry under its own tuple.
LEMMA KeyOfNew ==
    ASSUME NEW w \in Workers, NEW t \in Tuples, table[w][Key(w, t)] = NoConn
    PROVE  Key(w, t) = t
  BY DEF Key

\* The cleanup that may follow a packet leaves its entry and all those that are
\* younger than the timeout.
LEMMA EntryKept ==
    ASSUME IInv, NEW t \in Tuples, NEW p \in Payloads, ProcessPacket(t, p),
           NEW w \in Workers, NEW u \in Tuples,
           \/ w = Route(t) /\ u = Key(w, t)
           \/ Live(w, u) /\ table[w][u].age < Timeout
    PROVE  /\ table'[w][u] \in Connection /\ table'[w][u] # NoConn
           /\ w = Route(t) /\ u = Key(w, t) => table'[w][u] = MarkBlocked(Judged(w, t, p))
<1> DEFINE new == MarkBlocked(Judged(Route(t), t, p))
           conns == [table[Route(t)] EXCEPT ![Key(Route(t), t)] = new]
<1>1. Route(t) \in Workers /\ Key(Route(t), t) \in Tuples
  BY RouteType, KeyType
<1>2. new \in Connection /\ new.age = 0
  BY <1>1, JudgedOK, JudgedFrame DEF IInv, ConnOK
<1>3. \/ table' = [table EXCEPT ![Route(t)] = conns]
      \/ table' = [table EXCEPT ![Route(t)] = CleanupStale(conns)]
  BY DEF ProcessPacket
<1>4. table[w] \in [Tuples -> Connection \cup {NoConn}]
  BY DEF IInv, TypeOK
<1> HIDE DEF new
<1>5. CASE w = Route(t)
  <2>1. conns[u] \in Connection /\ conns[u].age < Timeout
    BY <1>1, <1>2, <1>4, <1>5, CleanupAssumption DEF Live
  <2>2. conns[u] # NoConn /\ ~Stale(conns[u])
    BY <2>1, NoConnAssumption, CleanupAssumption DEF Stale, Connection
  <2>3. CleanupStale(conns)[u] = conns[u]
    BY <2>2 DEF CleanupStale
  <2>4. u = Key(w, t) => conns[u] = new
    BY <1>4, <1>5
  <2> HIDE DEF conns
  <2>5. table'[w][u] = conns[u]
    BY <1>3, <1>5, <2>3 DEF IInv, TypeOK
  <2> QED BY <1>5, <2>1, <2>2, <2>4, <2>5 DEF new
<1>6. CASE w # Route(t)
  BY <1>3, <1>4, <1>6 DEF IInv, TypeOK, Live
<1> QED BY <1>5, <1>6

\* Nor does anything else make an entry.
LEMMA NothingMade ==
    ASSUME IInv, NEW t \in Tuples, NEW p \in Payloads, ProcessPacket(t, p),
           NEW w \in Workers, NEW u \in Tuples, ~Live(w, u), w # Route(t) \/ u # t
    PROVE  table'[w][u] = NoConn
<1>1. ASSUME table'[w][u] # NoConn PROVE FALSE
  <2>1. table'[w][u] # table[w][u]
    BY <1>1 DEF Live
  <2>2. w = Route(t) /\ u = Key(w, t)
    BY <1>1, <2>1, EntryStep
  <2>3. u = t
    BY <2>2, KeyOfNew DEF Live
  <2> QED BY <2>2, <2>3
<1> QED BY <1>1

LEMMA PacketMemory ==
    ASSUME IInv, MemoryInv, NEW t \in Tuples, NEW p \in Payloads, ProcessPacket(t, p)
    PROVE  MemoryInv'
<1> SUFFICES ASSUME NEW u \in Tuples, seen'[u].quiet < Timeout
             PROVE  LET conn == table'[Route(u)][Key(Route(u), u)']
                    IN  /\ conn # NoConn /\ conn.age <= seen'[u].quiet
                        /\ seen'[u].action = "DROP" => conn.action = "DROP"
  BY DEF MemoryInv, Route
<1> DEFINE w == Route(u)
           k == Key(w, u)
           verdict == Judged(Route(t), t, p).action
<1>1. w \in Workers /\ k \in Tuples /\ Normalised(u) \in Tuples
  BY RouteType, KeyType, ReverseType
<1>2. /\ u = t => seen'[u] = [quiet |-> 0, action |-> verdict]
      /\ u # t => seen'[u] = seen[u]
  BY DEF ProcessPacket, IInv, TypeOK
<1>3. u # t => /\ table[w][k] # NoConn /\ table[w][k].age <= seen[u].quiet
               /\ seen[u].action = "DROP" => table[w][k].action = "DROP"
               /\ table[w][k] \in Connection /\ seen[u] \in Seen
  BY <1>1, <1>2 DEF MemoryInv, IInv, TypeOK
<1> HIDE DEF w, k, verdict
<1>4. /\ table'[w][k] \in Connection /\ table'[w][k] # NoConn
      /\ w = Route(t) /\ k = Key(w, t) => table'[w][k] = MarkBlocked(Judged(w, t, p))
  <2>1. CASE u = t
    BY <1>1, <2>1, EntryKept DEF w, k
  <2>2. CASE u # t
    <3>1. Live(w, k) /\ table[w][k].age < Timeout
      BY <1>2, <1>3, <2>2, CleanupAssumption DEF Live, Connection, Seen
    <3> QED BY <1>1, <3>1, EntryKept
  <2> QED BY <2>1, <2>2
<1>5. Key(Route(u), u)' = k
  <2>1. CASE k = u
    BY <1>4, <2>1 DEF Key, k, w, Route
  <2>2. CASE k # u
    <3>1. table[w][u] = NoConn /\ k = Normalised(u) /\ table[w][k] # NoConn
      BY <2>2 DEF k, Key
    <3>2. w # Route(t) \/ u # t => table'[w][u] = NoConn
      BY <1>1, <3>1, NothingMade DEF Live
    <3>3. w = Route(t) /\ u = t => table'[w][u] = NoConn
      <4> SUFFICES ASSUME w = Route(t), u = t, table'[w][u] # NoConn PROVE FALSE
        OBVIOUS
      <4>1. table'[w][u] # table[w][u]
        BY <3>1
      <4>2. u = Key(w, t)
        BY <1>1, <4>1, EntryStep
      <4> QED BY <2>2, <4>2 DEF k
    <3>4. table'[w][u] = NoConn
      BY <3>2, <3>3
    <3> QED BY <1>4, <3>1, <3>4 DEF Key, w, Route
  <2> QED BY <2>1, <2>2
<1>6. /\ w = Route(t) /\ k = Key(w, t) =>
            table'[w][k].age = 0 /\ table'[w][k].action = verdict
      /\ w = Route(t) /\ k = Key(w, t) /\ table[w][k] # NoConn /\ table[w][k].action = "DROP"
            => verdict = "DROP"
      /\ verdict \in {"FORWARD", "DROP"}
  <2>1. verdict \in {"FORWARD", "DROP"}
    BY RouteType, JudgedOK DEF verdict, IInv
  <2>2. ASSUME w = Route(t), k = Key(w, t)
        PROVE  table'[w][k].age = 0 /\ table'[w][k].action = verdict
               /\ (table[w][k] # NoConn /\ table[w][k].action = "DROP" => verdict = "DROP")
    <3>1. table'[w][k] = MarkBlocked(Judged(w, t, p)) /\ verdict = Judged(w, t, p).action
      BY <1>4, <2>2 DEF verdict
    <3>2. MarkBlocked(Judged(w, t, p)).action = Judged(w, t, p).action
      <4>1. ConnOK(MarkBlocked(Judged(w, t, p)))
        BY <1>1, JudgedOK DEF IInv
      <4> QED BY <2>1, <3>1, <4>1 DEF MarkBlocked, ConnOK, Connection
    <3> QED BY <1>1, <2>2, <3>1, <3>2, JudgedFrame DEF IInv
  <2> QED BY <2>1, <2>2
<1>7. \/ table'[w][k] = table[w][k]
      \/ w = Route(t) /\ k = Key(w, t)
  BY <1>1, <1>4, EntryStep
<1>8. CASE u = t
  BY <1>2, <1>4, <1>5, <1>6, <1>8 DEF w, k
<1>9. CASE u # t
  <2>1. CASE w = Route(t) /\ k = Key(w, t)
    BY <1>2, <1>3, <1>4, <1>5, <1>6, <1>9, <2>1 DEF w, Seen
  <2>2. CASE table'[w][k] = table[w][k]
    BY <1>2, <1>3, <1>5, <1>9, <2>2 DEF w
  <2> QED BY <1>7, <2>1, <2>2
<1> QED BY <1>8, <1>9

LEMMA TickMemory == ASSUME IInv, MemoryInv, Tick PROVE MemoryInv'
<1>1. \A w \in Workers, t \in Tuples : table'[w][t] # NoConn <=> table[w][t] # NoConn
  <2> TAKE w \in Workers, t \in Tuples
  <2>1. table[w][t] = NoConn \/ table[w][t] \in Connection
    BY DEF IInv, TypeOK
  <2>2. CASE table[w][t] \in Connection /\ table[w][t] # NoConn /\ table[w][t].age # Timeout
    <3>1. table'[w][t] = [table[w][t] EXCEPT !.age = @ + 1]
      BY <2>2 DEF Tick
    <3>2. table[w][t].age + 1 \in 0 .. Timeout
      BY <2>2, CleanupAssumption DEF Connection
    <3>3. table'[w][t] \in Connection
      BY <2>2, <3>1, <3>2 DEF Connection
    <3> QED BY <2>2, <3>3, NoConnAssumption
  <2>3. CASE table[w][t] = NoConn \/ table[w][t].age = Timeout
    BY <2>3 DEF Tick
  <2> QED BY <2>1, <2>2, <2>3
<1> SUFFICES ASSUME NEW u \in Tuples, seen'[u].quiet < Timeout
             PROVE  LET conn == table'[Route(u)][Key(Route(u), u)']
                    IN  /\ conn # NoConn /\ conn.age <= seen'[u].quiet
                        /\ seen'[u].action = "DROP" => conn.action = "DROP"
  BY DEF MemoryInv, Route
<1> DEFINE w == Route(u)
           k == Key(w, u)
<1>2. w \in Workers /\ k \in Tuples /\ Normalised(u) \in Tuples
  BY RouteType, KeyType, ReverseType
<1>3. Key(Route(u), u)' = k
  BY <1>1, <1>2 DEF Key, Route
<1>4. seen[u] \in Seen
  BY DEF IInv, TypeOK
<1>5. /\ seen[u].quiet + 1 < Timeout /\ seen'[u].quiet = seen[u].quiet + 1
      /\ seen'[u].action = seen[u].action
  <2>1. seen'[u] = IF seen[u].quiet + 1 < Timeout
                   THEN [seen[u] EXCEPT !.quiet = @ + 1] ELSE NotSeen
    BY DEF Tick
  <2>2. ~(NotSeen.quiet < Timeout)
    BY CleanupAssumption DEF NotSeen
  <2>3. seen'[u] = [seen[u] EXCEPT !.quiet = @ + 1] /\ seen[u].quiet + 1 < Timeout
    BY <2>1, <2>2
  <2> QED BY <1>4, <2>3 DEF Seen
<1>6. /\ table[w][k] # NoConn /\ table[w][k].age <= seen[u].quiet
      /\ seen[u].action = "DROP" => table[w][k].action = "DROP"
      /\ table[w][k] \in Connection
  BY <1>2, <1>4, <1>5, CleanupAssumption DEF MemoryInv, IInv, TypeOK, Seen
<1>7. table'[w][k] = [table[w][k] EXCEPT !.age = @ + 1]
  BY <1>2, <1>4, <1>5, <1>6, CleanupAssumption DEF Tick, Seen, Connection
<1>8. /\ table'[w][k].age = table[w][k].age + 1
      /\ table'[w][k].action = table[w][k].action
  BY <1>6, <1>7 DEF Connection
<1>9. table'[w][k] # NoConn
  BY <1>1, <1>2, <1>6
<1>10. table'[w][k].age <= seen'[u].quiet
  BY <1>4, <1>5, <1>6, <1>8 DEF Seen, Connection
<1> HIDE DEF k
<1> QED BY <1>3, <1>5, <1>6, <1>8, <1>9, <1>10

\* A flow is remembered, its verdict with it, while its packets are less than the
\* timeout apart, for any timeout and any spacing of the cleanups.
THEOREM ActiveFlowsRememberedHolds == Spec => []ActiveFlowsRemembered
<1>1. Init => MemoryInv
  BY CleanupAssumption DEF Init, MemoryInv, NotSeen
<1>2. IInv /\ MemoryInv /\ [Next]_vars => MemoryInv'
  <2> SUFFICES ASSUME IInv, MemoryInv, [Next]_vars PROVE MemoryInv'
    OBVIOUS
  <2>1. CASE UNCHANGED vars
    BY <2>1 DEF vars, MemoryInv, Key
  <2> QED BY <2>1, PacketMemory, TickMemory DEF Next
<1>3. MemoryInv => ActiveFlowsRemembered
  BY DEF MemoryInv, ActiveFlowsRemembered
<1> QED BY <1>1, <1>2, <1>3, Invariance, PTL DEF Spec

=============================================================================
