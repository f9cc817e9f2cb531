----------------------------- MODULE FlowEngine -----------------------------
(***************************************************************************)
(* What the engine decides about packets: the load balancer picks a worker *)
(* by the hash of the five-tuple, the worker looks the flow up in its own  *)
(* ConnectionTracker, classifies it from the payload, asks the rules, and  *)
(* forwards or drops (load_balancer.cpp, fast_path.cpp,                    *)
(* connection_tracker.cpp, types.h, RuleManager::shouldBlock).             *)
(*                                                                         *)
(* A worker's tables are its own and the rules do not change while the     *)
(* workers run, so one packet is one step; packets arrive in any order.    *)
(* Only differences of the clock are ever used: an entry keeps its age     *)
(* (now - last_seen), counted up to Timeout and no further.                *)
(***************************************************************************)
EXTENDS Naturals

CONSTANTS
    NumWorkers,       \* --workers
    Tuples,           \* the five-tuples that occur, closed under Reverse
    Hash,             \* FiveTupleHash on them; direction matters to it
    Names,            \* host names that occur in payloads
    NoName,           \* a name not found (nullopt), or not yet known
    EmptyName,        \* the empty string, which an HTTP Host header can yield
    AppOf,            \* sniToAppType on Names
    Payloads,         \* payloads, as what the three extractors make of them
    BlockedIPs, BlockedPorts, BlockedApps,   \* the rules;
    BlockedNames,     \*   block_domain as the names its patterns match
    CleanupInterval,  \* 10000 packets
    Timeout,          \* 120 seconds, in ticks of the clock
    NoConn            \* no entry in a flow table

Apps == {"UNKNOWN", "HTTP", "HTTPS", "DNS", "TLS", "GOOGLE", "FACEBOOK", "YOUTUBE",
         "TWITTER", "INSTAGRAM", "NETFLIX", "AMAZON", "MICROSOFT", "APPLE", "WHATSAPP",
         "TELEGRAM", "TIKTOK", "SPOTIFY", "ZOOM", "DISCORD", "GITHUB", "CLOUDFLARE"}

FiveTuple == [src_ip : Nat, dst_ip : Nat, src_port : Nat, dst_port : Nat, protocol : {6, 17}]

Reverse(t) == [src_ip |-> t.dst_ip, dst_ip |-> t.src_ip, src_port |-> t.dst_port,
               dst_port |-> t.src_port, protocol |-> t.protocol]

Normalised(t) ==
    IF t.src_ip < t.dst_ip \/ (t.src_ip = t.dst_ip /\ t.src_port < t.dst_port)
    THEN t ELSE Reverse(t)

Connection == [state : {"NEW", "CLASSIFIED", "BLOCKED"}, app_type : Apps,
               action : {"FORWARD", "DROP"}, sni : Names \cup {NoName},
               age : 0 .. Timeout, classified : BOOLEAN]

ASSUME NumWorkersAssumption == NumWorkers \in Nat \ {0}
ASSUME TuplesAssumption == Tuples \subseteq FiveTuple /\ \A t \in Tuples : Reverse(t) \in Tuples
ASSUME HashAssumption == Hash \in [Tuples -> Nat]
ASSUME NamesAssumption == NoName \notin Names
ASSUME AppOfAssumption == AppOf \in [Names -> Apps] /\
                          (EmptyName \in Names => AppOf[EmptyName] = "UNKNOWN")
ASSUME PayloadsAssumption == Payloads \subseteq [tls : Names \cup {NoName}, http : Names \cup {NoName},
                                                 dns : (Names \ {EmptyName}) \cup {NoName}]
ASSUME CleanupAssumption == CleanupInterval \in Nat \ {0} /\ Timeout \in Nat \ {0}
ASSUME NoConnAssumption == NoConn \notin Connection

Workers == 0 .. NumWorkers - 1

VARIABLES
    table,      \* table[w][t]: worker w's entry for t, or NoConn
    processed,  \* processed[w]: w's packet count, modulo CleanupInterval
    last,       \* history: what happened to the latest packet
    seen        \* history: seen[t]: how long ago the latest packet of t came, up to
                \*   Timeout and whatever the tables say, and its verdict

vars == <<table, processed, last, seen>>

Outcome == [tuple : Tuples, worker : Workers, key : Tuples, existed : BOOLEAN,
            action : {"FORWARD", "DROP"}, logged : BOOLEAN]

\* No packet yet.
NoOutcome == [none |-> TRUE]

Seen == [quiet : 0 .. Timeout, action : {"FORWARD", "DROP"}]

\* No packet of the tuple yet, or none for the timeout.
NotSeen == [quiet |-> Timeout, action |-> "FORWARD"]

Init ==
    /\ table = [w \in Workers |-> [t \in Tuples |-> NoConn]]
    /\ processed = [w \in Workers |-> 0]
    /\ last = NoOutcome
    /\ seen = [t \in Tuples |-> NotSeen]

-----------------------------------------------------------------------------
(* RuleManager::shouldBlock.  An empty name is never looked up.            *)

Blockable(app, name) ==
    app \in BlockedApps \/ (name \notin {NoName, EmptyName} /\ name \in BlockedNames)

\* Mutant of ShouldBlock: asked about the connection, not about the packet.
ShouldBlockNormalised(t, app, name) ==
    IF Normalised(t).src_ip \in BlockedIPs \/ Normalised(t).dst_port \in BlockedPorts
       \/ Blockable(app, name)
    THEN "DROP" ELSE "FORWARD"

ShouldBlock(t, app, name) ==
    IF t.src_ip \in BlockedIPs \/ t.dst_port \in BlockedPorts \/ Blockable(app, name)
    THEN "DROP" ELSE "FORWARD"

-----------------------------------------------------------------------------
(* ConnectionTracker.                                                      *)

\* The key getOrCreate ends up with: the tuple's own entry, else the entry of
\* the normalised tuple, else a new entry under the tuple.
Key(w, t) ==
    IF table[w][t] # NoConn THEN t
    ELSE IF table[w][Normalised(t)] # NoConn THEN Normalised(t) ELSE t

NewConnection ==
    [state |-> "NEW", app_type |-> "UNKNOWN", action |-> "FORWARD", sni |-> NoName,
     age |-> 0, classified |-> FALSE]

Stale(conn) == conn # NoConn /\ conn.age >= Timeout

CleanupStale(conns) == [t \in Tuples |-> IF Stale(conns[t]) THEN NoConn ELSE conns[t]]

-----------------------------------------------------------------------------
(* FastPathWorker::classifyFlow.  The extractors are tried in this order,  *)
(* each on its port; the lengths they are guarded with (more than 5, more  *)
(* than 10, at least 12 bytes) are no more than they themselves require.   *)

\* Mutant of Classified: the flag is not set.
ClassifiedNoFlag(conn, name, app) ==
    [conn EXCEPT !.sni = name, !.app_type = app, !.state = "CLASSIFIED"]

Classified(conn, name, app) ==
    [conn EXCEPT !.sni = name, !.app_type = app, !.state = "CLASSIFIED", !.classified = TRUE]

ClassifyFlow(conn, t, p) ==
    IF t.dst_port = 443 /\ p.tls # NoName THEN Classified(conn, p.tls, AppOf[p.tls])
    ELSE IF t.dst_port = 80 /\ p.http # NoName THEN Classified(conn, p.http, AppOf[p.http])
    ELSE IF 53 \in {t.dst_port, t.src_port} /\ p.dns # NoName
         THEN Classified(conn, p.dns, "DNS")
    ELSE IF t.dst_port \in {443, 80} /\ conn.app_type = "UNKNOWN"
         THEN [conn EXCEPT !.app_type = IF t.dst_port = 443 THEN "HTTPS" ELSE "HTTP"]
    ELSE conn

\* Mutant of Inspect: every payload is looked at.
InspectAlways(conn, t, p) == ClassifyFlow(conn, t, p)

\* A classified flow is not looked at again.
Inspect(conn, t, p) == IF conn.classified THEN conn ELSE ClassifyFlow(conn, t, p)

\* Mutants of Decide: asked only while the flow is unclassified; asked always.
DecideUnclassified(conn, t) ==
    IF conn.action = "FORWARD" /\ ~conn.classified
    THEN [conn EXCEPT !.action = ShouldBlock(t, conn.app_type, conn.sni)]
    ELSE conn

DecideAlways(conn, t) == [conn EXCEPT !.action = ShouldBlock(t, conn.app_type, conn.sni)]

\* The blocking decision: asked again for every packet until it is DROP.
Decide(conn, t) ==
    IF conn.action = "FORWARD"
    THEN [conn EXCEPT !.action = ShouldBlock(t, conn.app_type, conn.sni)]
    ELSE conn

\* Mutant of MarkBlocked: a classified flow keeps its state.
MarkBlockedIfNew(conn) ==
    IF conn.action = "DROP" /\ conn.state = "NEW" THEN [conn EXCEPT !.state = "BLOCKED"] ELSE conn

\* Dropping marks the flow, and logs it unless it was marked.
MarkBlocked(conn) == IF conn.action = "DROP" THEN [conn EXCEPT !.state = "BLOCKED"] ELSE conn

-----------------------------------------------------------------------------
\* LoadBalancer::run.
Route(t) == Hash[t] % NumWorkers

\* Mutant of Judged: the time stamp of an entry that is found stays as it is.
JudgedNotRenewed(w, t, p) ==
    LET conn == IF table[w][Key(w, t)] = NoConn THEN NewConnection ELSE table[w][Key(w, t)]
    IN  Decide(Inspect(conn, t, p), t)

\* processPacket up to the verdict: the flow's entry, its time stamp renewed,
\* inspected and judged.
Judged(w, t, p) ==
    LET conn == IF table[w][Key(w, t)] = NoConn THEN NewConnection ELSE table[w][Key(w, t)]
    IN  Decide(Inspect([conn EXCEPT !.age = 0], t, p), t)

\* One turn of FastPathWorker::run: processPacket, then the periodic cleanup.
ProcessPacket(t, p) ==
    LET w == Route(t)
        conn == Judged(w, t, p)
        conns == [table[w] EXCEPT ![Key(w, t)] = MarkBlocked(conn)]
        count == (processed[w] + 1) % CleanupInterval
    IN  /\ table' = [table EXCEPT ![w] = IF count = 0 THEN CleanupStale(conns) ELSE conns]
        /\ processed' = [processed EXCEPT ![w] = count]
        /\ last' = [tuple |-> t, worker |-> w, key |-> Key(w, t),
                    existed |-> table[w][Key(w, t)] # NoConn, action |-> conn.action,
                    logged |-> conn.action = "DROP" /\ conn.state # "BLOCKED"]
        /\ seen' = [seen EXCEPT ![t] = [quiet |-> 0, action |-> conn.action]]

\* Time passes.
Tick ==
    /\ table' = [w \in Workers |-> [t \in Tuples |->
                   IF table[w][t] = NoConn \/ table[w][t].age = Timeout THEN table[w][t]
                   ELSE [table[w][t] EXCEPT !.age = @ + 1]]]
    /\ seen' = [t \in Tuples |-> IF seen[t].quiet + 1 < Timeout
                                 THEN [seen[t] EXCEPT !.quiet = @ + 1] ELSE NotSeen]
    /\ UNCHANGED <<processed, last>>

Next == Tick \/ \E t \in Tuples, p \in Payloads : ProcessPacket(t, p)

Spec == Init /\ [][Next]_vars

-----------------------------------------------------------------------------
(* Properties.                                                             *)

TypeOK ==
    /\ table \in [Workers -> [Tuples -> Connection \cup {NoConn}]]
    /\ \A w \in Workers, t \in Tuples : table[w][t] # NoConn =>
         (table[w][t].classified <=> table[w][t].sni # NoName)
    /\ processed \in [Workers -> 0 .. CleanupInterval - 1]
    /\ last \in Outcome \cup {NoOutcome}
    /\ seen \in [Tuples -> Seen]

Live(w, t) == table[w][t] # NoConn

\* The two fields that both say a flow is blocked agree between packets, though
\* classification overwrites the one and never looks at the other.
BlockedIffDrop ==
    \A w \in Workers, t \in Tuples : Live(w, t) =>
        (table[w][t].state = "BLOCKED" <=> table[w][t].action = "DROP")

\* "block_app: drop all flows classified as this app", and block_domain: a
\* tracked flow that is still being forwarded has an application and a name
\* that no rule blocks, however late it was classified.
OpenFlowsObeyRules ==
    \A w \in Workers, t \in Tuples : Live(w, t) /\ table[w][t].action = "FORWARD" =>
        ~Blockable(table[w][t].app_type, table[w][t].sni)

\* "block_ip: drop all packets from this source IP", "block_port: drop traffic
\* to this destination port": no such packet is ever forwarded, whichever
\* direction the entry it was matched to was created for.
NoBlockedAddressForwarded ==
    last # NoOutcome /\ last.action = "FORWARD" =>
        last.tuple.src_ip \notin BlockedIPs /\ last.tuple.dst_port \notin BlockedPorts

\* As long as the tracker keeps a flow, its name and its application, once
\* taken from a payload, are final: later payloads cannot change them.
ClassificationIsFinal ==
    [][\A w \in Workers, t \in Tuples : Live(w, t) /\ Live(w, t)' /\ table[w][t].classified =>
         /\ table'[w][t].classified
         /\ table'[w][t].sni = table[w][t].sni
         /\ table'[w][t].app_type = table[w][t].app_type]_vars

\* A packet of a blocked flow that is still tracked is never forwarded.
NoForwardAfterBlock ==
    [][last' # last /\ last'.existed /\ table[last'.worker][last'.key].action = "DROP"
         => last'.action = "DROP"]_vars

\* A flow with packets less than the timeout apart is never forgotten, however
\* many cleanups run between them: its next packet finds an entry, whichever of
\* the two keys it is under and whichever direction it was made for, and if its
\* latest packet was dropped, one that drops.
ActiveFlowsRemembered ==
    \A t \in Tuples : seen[t].quiet < Timeout =>
        LET conn == table[Route(t)][Key(Route(t), t)]
        IN  conn # NoConn /\ (seen[t].action = "DROP" => conn.action = "DROP")

\* connection_tracker.cpp, "Try reverse direction (server -> client)": the two
\* directions of a connection share one entry.
OneEntryPerConnection ==
    \A w \in Workers, t \in Tuples : Live(w, t) /\ Live(w, Reverse(t)) => t = Reverse(t)

\* fast_path.cpp, "Log first block per flow": a tracked flow that is already
\* dropping packets is not logged as blocked again.
BlockLoggedOnce ==
    [][last' # last /\ last'.logged /\ last'.existed
         => table[last'.worker][last'.key].action = "FORWARD"]_vars

=============================================================================
