--------------------------- MODULE MetricsServer ---------------------------
(***************************************************************************)
(* The metrics endpoint (metrics.cpp): workers add to atomic counters, one *)
(* fetch_add at a time, while the server thread answers scrapes by reading *)
(* the counters one at a time; main starts it before the pipeline and      *)
(* stops it when the workers have been joined (main.cpp, ~MetricsServer).  *)
(*                                                                         *)
(* Its scrapers may hang up at any moment and its accepts may fail; what   *)
(* the code makes of that, the end of the server thread or of the process, *)
(* is part of the model.                                                   *)
(*                                                                         *)
(* The per-application counters are one counter here.  bytes_total_ and    *)
(* lat_sum_us_, which only add up amounts, are left out, and so is         *)
(* active_flows_, which nothing sets.                                      *)
(* The adds are relaxed: that another thread sees them in program order is *)
(* what x86, the platform of the Dockerfile, makes of a locked add.        *)
(***************************************************************************)
EXTENDS Naturals, Sequences, FiniteSets

CONSTANTS Workers,     \* the worker threads, by their worker_id
          Packets,     \* bound: how many packets each worker handles
          Kinds,       \* what tells packets apart: protocol, verdict, latency
          CLEANUP_INTERVAL,   \* packets of a worker from one cleanup to the next
          MAX_WORKERS,        \* queue sizes exported
          QueueSizes,         \* sizes a worker's queue can have then
          Clients,     \* scrapers, each asking once
          Impatient,   \* those of them that may hang up
          NoClient, NoPacket

Buckets == <<"inf", "10", "5", "1", "01">>   \* in the order recordLatencyMs adds to them
BucketNames == {Buckets[i] : i \in 1 .. 5}
Totals == {"packets", "apps", "tcp", "udp", "forwarded", "dropped", "count"}
Counters == Totals \cup BucketNames

ASSUME KindsAssumption ==
    Kinds \subseteq [protocol : {"tcp", "udp"}, verdict : {"forwarded", "dropped"},
                     latency : 1 .. 5]   \* the last bucket the latency falls into
ASSUME MetricsAssumption ==
    /\ Workers \subseteq Nat /\ IsFiniteSet(Workers) /\ Packets \in Nat
    /\ NoClient \notin Clients /\ Impatient \subseteq Clients /\ NoPacket \notin Kinds
    /\ CLEANUP_INTERVAL \in Nat \ {0} /\ MAX_WORKERS \in Nat /\ QueueSizes \subseteq Nat

\* The adds of one packet before its latency is recorded.
BeforeLatency(k) == <<"packets", "apps", k.protocol, k.verdict>>

\* Mutants of RecordOrder: the latency recorded before the verdict is, and the
\* narrowest bucket added to first.
RecordLatencyFirst(k) ==
    [i \in 1 .. 5 + k.latency |->
        IF i <= 3 THEN BeforeLatency(k)[i]
        ELSE IF i = 4 THEN "count" ELSE IF i < 5 + k.latency THEN Buckets[i - 4] ELSE k.verdict]
RecordNarrowFirst(k) ==
    [i \in 1 .. 5 + k.latency |->
        IF i <= 4 THEN BeforeLatency(k)[i] ELSE IF i = 5 THEN "count" ELSE Buckets[6 + k.latency - i]]

\* The counters processPacket and run add to for one packet, in their order.
RecordOrder(k) ==
    [i \in 1 .. 5 + k.latency |->
        IF i <= 4 THEN BeforeLatency(k)[i] ELSE IF i = 5 THEN "count" ELSE Buckets[i - 5]]

\* The order in which renderMetrics reads them; between the verdicts and the
\* count it reads the others, which nothing on the page depends on.
RenderOrder == <<"packets", "forwarded", "dropped", "count", "01", "1", "5", "10", "inf">>

VARIABLES
    counter,     \* counter[c]: the atomic counters
    kind,        \* kind[w]: what the packet is that w handles, or NoPacket
    step,        \* step[w]: the next of the adds for it
    handled,     \* handled[w]: packets w has begun
    queue_sizes, \* the exported sizes of the workers' queues
    mainPc,      \* main, in start() and stop()
    running,     \* running_
    listening,   \* listen_fd_ is an open socket
    serverPc,    \* the server thread
    client,      \* client_fd, or NoClient
    page,        \* the values rendered so far, in RenderOrder
    asker,       \* asker[c]: how far client c has come
    asked        \* asked[c]: what has come from c: a request, or that it hung up

workerVars == <<kind, step, handled, queue_sizes>>
mainVars == <<mainPc, running, listening>>
serverVars == <<serverPc, client, page>>
clientVars == <<asker, asked>>
vars == <<counter, workerVars, mainVars, serverVars, clientVars>>

Init ==
    /\ counter = [c \in Counters |-> 0]
    /\ kind = [w \in Workers |-> NoPacket] /\ step = [w \in Workers |-> 0]
    /\ handled = [w \in Workers |-> 0] /\ queue_sizes = [i \in 0 .. MAX_WORKERS - 1 |-> 0]
    /\ mainPc = "start" /\ running = FALSE /\ listening = FALSE
    /\ serverPc = "unborn" /\ client = NoClient /\ page = <<>>
    /\ asker = [c \in Clients |-> "away"] /\ asked = [c \in Clients |-> "nothing"]

-----------------------------------------------------------------------------
(* Workers.                                                                *)

BeginPacket(w) ==
    /\ mainPc = "pipeline" /\ kind[w] = NoPacket /\ handled[w] < Packets
    /\ \E k \in Kinds : kind' = [kind EXCEPT ![w] = k]
    /\ step' = [step EXCEPT ![w] = 1] /\ handled' = [handled EXCEPT ![w] = @ + 1]
    /\ UNCHANGED <<counter, queue_sizes, mainVars, serverVars, clientVars>>

Adding(w) == kind[w] # NoPacket /\ step[w] <= 5 + kind[w].latency

Record(w) ==
    /\ mainPc # "killed" /\ Adding(w)
    /\ counter' = [counter EXCEPT ![RecordOrder(kind[w])[step[w]]] = @ + 1]
    /\ step' = [step EXCEPT ![w] = @ + 1]
    /\ UNCHANGED <<kind, handled, queue_sizes, mainVars, serverVars, clientVars>>

\* Mutant of EndPacket: any worker_id is taken for an index.
EndPacketUnchecked(w) ==
    /\ mainPc # "killed" /\ kind[w] # NoPacket /\ ~Adding(w)
    /\ IF handled[w] % CLEANUP_INTERVAL = 0
          THEN \E size \in QueueSizes :
                 queue_sizes' = [i \in DOMAIN queue_sizes \cup {w} |->
                                   IF i = w THEN size ELSE queue_sizes[i]]
          ELSE UNCHANGED queue_sizes
    /\ kind' = [kind EXCEPT ![w] = NoPacket] /\ step' = [step EXCEPT ![w] = 0]
    /\ UNCHANGED <<counter, handled, mainVars, serverVars, clientVars>>

\* After the last add, and every so many packets the export of the queue's
\* size, if there is a place for it.
EndPacket(w) ==
    /\ mainPc # "killed" /\ kind[w] # NoPacket /\ ~Adding(w)
    /\ IF handled[w] % CLEANUP_INTERVAL = 0 /\ w < MAX_WORKERS
          THEN \E size \in QueueSizes : queue_sizes' = [queue_sizes EXCEPT ![w] = size]
          ELSE UNCHANGED queue_sizes
    /\ kind' = [kind EXCEPT ![w] = NoPacket] /\ step' = [step EXCEPT ![w] = 0]
    /\ UNCHANGED <<counter, handled, mainVars, serverVars, clientVars>>

-----------------------------------------------------------------------------
(* start() and stop().                                                     *)

Start ==
    /\ mainPc = "start"
    /\ listening' = TRUE /\ running' = TRUE /\ serverPc' = "top"
    /\ mainPc' = "pipeline"
    /\ UNCHANGED <<counter, workerVars, client, page, clientVars>>

\* socket() or bind() failed: no thread, and main goes on without it.
StartFailed ==
    /\ mainPc = "start"
    /\ mainPc' = "pipeline"
    /\ UNCHANGED <<counter, workerVars, running, listening, serverVars, clientVars>>

\* stop() is called after every worker has been joined, or never (--daemon).
StopFlag ==
    /\ mainPc = "pipeline" /\ \A w \in Workers : kind[w] = NoPacket
    /\ running' = FALSE /\ mainPc' = "close"
    /\ UNCHANGED <<counter, workerVars, listening, serverVars, clientVars>>

\* Connections still in the backlog are reset.
StopClose ==
    /\ mainPc = "close"
    /\ listening' = FALSE /\ mainPc' = "join"
    /\ asker' = [c \in Clients |-> IF asker[c] = "pending" /\ serverPc # "blocked"
                                   THEN "reset" ELSE asker[c]]
    /\ UNCHANGED <<counter, workerVars, running, serverVars, asked>>

StopJoin ==
    /\ mainPc = "join" /\ serverPc \in {"unborn", "exit", "failed"}
    /\ mainPc' = "done"
    /\ UNCHANGED <<counter, workerVars, running, listening, serverVars, clientVars>>

-----------------------------------------------------------------------------
(* serverLoop and handleClient.                                            *)

ServerTop ==
    /\ serverPc = "top"
    /\ serverPc' = IF running THEN "accept" ELSE "exit"
    /\ UNCHANGED <<counter, workerVars, mainVars, client, page, clientVars>>

\* Entering accept(listen_fd_), whose descriptor main may have closed.
EnterAccept ==
    /\ serverPc = "accept"
    /\ serverPc' = IF listening THEN "blocked" ELSE "failed"
    /\ UNCHANGED <<counter, workerVars, mainVars, client, page, clientVars>>

Accept ==
    /\ serverPc = "blocked"
    /\ \E c \in Clients : /\ asker[c] = "pending"
                          /\ asker' = [asker EXCEPT ![c] = "accepted"]
                          /\ client' = c
    /\ serverPc' = "recv"
    /\ UNCHANGED <<counter, workerVars, mainVars, page, asked>>

\* The accept fails and the loop breaks.  It may at any time (the connection it
\* would have returned was aborted, no descriptor or memory is left), and need
\* not even when main has closed the socket: Linux goes on waiting.
AcceptFails ==
    /\ serverPc = "blocked"
    /\ serverPc' = "failed"
    /\ UNCHANGED <<counter, workerVars, mainVars, client, page, clientVars>>

Receive ==
    /\ serverPc = "recv" /\ asked[client] # "nothing"
    /\ serverPc' = "render" /\ page' = <<>>
    /\ UNCHANGED <<counter, workerVars, mainVars, client, clientVars>>

\* renderMetrics reads the next counter.
Render ==
    /\ serverPc = "render" /\ Len(page) < Len(RenderOrder)
    /\ page' = Append(page, counter[RenderOrder[Len(page) + 1]])
    /\ UNCHANGED <<counter, workerVars, mainVars, serverPc, client, clientVars>>

\* Mutant of Respond: the loop ends.
RespondOnce ==
    /\ serverPc = "render" /\ Len(page) = Len(RenderOrder)
    /\ asker' = [asker EXCEPT ![client] = IF asked[client] = "hangup" THEN "gone" ELSE "answered"]
    /\ client' = NoClient /\ page' = <<>> /\ serverPc' = "exit"
    /\ UNCHANGED <<counter, workerVars, mainVars, asked>>

Respond ==
    /\ serverPc = "render" /\ Len(page) = Len(RenderOrder)
    /\ asker' = [asker EXCEPT ![client] = IF asked[client] = "hangup" THEN "gone" ELSE "answered"]
    /\ client' = NoClient /\ page' = <<>> /\ serverPc' = "top"
    /\ UNCHANGED <<counter, workerVars, mainVars, asked>>

\* ... or the send to a client that has hung up raises SIGPIPE, which nothing
\* ignores: the process ends, every thread of it.
RespondKilled ==
    /\ serverPc = "render" /\ Len(page) = Len(RenderOrder) /\ asked[client] = "hangup"
    /\ mainPc' = "killed" /\ running' = FALSE /\ listening' = FALSE
    /\ asker' = [c \in Clients |-> IF asker[c] \in {"pending", "accepted"} THEN "reset"
                                   ELSE asker[c]]
    /\ client' = NoClient /\ page' = <<>> /\ serverPc' = "exit"
    /\ UNCHANGED <<counter, workerVars, asked>>

-----------------------------------------------------------------------------
(* Scrapers.  The kernel takes connections while the socket lives, which   *)
(* is until the close or, past it, the end of the accept that holds it.    *)

Connect(c) ==
    /\ asker[c] = "away" /\ (listening \/ serverPc = "blocked")
    /\ asker' = [asker EXCEPT ![c] = "pending"]
    /\ UNCHANGED <<counter, workerVars, mainVars, serverVars, asked>>

Ask(c) ==
    /\ asker[c] \in {"pending", "accepted"} /\ asked[c] = "nothing"
    /\ asked' = [asked EXCEPT ![c] = "request"]
    /\ UNCHANGED <<counter, workerVars, mainVars, serverVars, asker>>

\* An impatient one may give up before it is answered, having asked or not.
HangUp(c) ==
    /\ c \in Impatient /\ asker[c] \in {"pending", "accepted"} /\ asked[c] # "hangup"
    /\ asked' = [asked EXCEPT ![c] = "hangup"]
    /\ UNCHANGED <<counter, workerVars, mainVars, serverVars, asker>>

-----------------------------------------------------------------------------
Worker(w) == BeginPacket(w) \/ Record(w) \/ EndPacket(w)
Main == Start \/ StartFailed \/ StopFlag \/ StopClose \/ StopJoin
Server == \/ ServerTop \/ EnterAccept \/ Accept
          \/ Receive \/ Render \/ Respond \/ RespondKilled

\* stop() has returned, or the process is dead: whoever might still connect is
\* refused.
Finished == mainPc \in {"done", "killed"} /\ UNCHANGED vars

Next == \/ \E w \in Workers : Worker(w)
        \/ Main \/ Server \/ AcceptFails \/ Finished
        \/ \E c \in Clients : Connect(c) \/ Ask(c) \/ HangUp(c)

Spec == Init /\ [][Next]_vars

\* Threads run; a client that has connected sends its request unless it hangs up.
\* No accept has to fail, not even one on a closed socket, nobody has to connect
\* or to hang up, and main need not come to stop(): a daemon stays in the
\* pipeline forever.
Fairness == /\ WF_vars(Start \/ StartFailed) /\ WF_vars(StopClose \/ StopJoin)
            /\ WF_vars(Server)
            /\ \A w \in Workers : WF_vars(Record(w) \/ EndPacket(w))
            /\ \A c \in Clients : WF_vars(Ask(c))

FairSpec == Spec /\ Fairness

-----------------------------------------------------------------------------
(* Properties.                                                             *)

TypeOK ==
    /\ counter \in [Counters -> Nat]
    /\ kind \in [Workers -> Kinds \cup {NoPacket}] /\ handled \in [Workers -> 0 .. Packets]
    /\ step \in [Workers -> Nat]
    /\ \A w \in Workers : step[w] \in IF kind[w] = NoPacket THEN {0} ELSE 1 .. 6 + kind[w].latency
    /\ queue_sizes \in [0 .. MAX_WORKERS - 1 -> Nat]
    /\ mainPc \in {"start", "pipeline", "close", "join", "done", "killed"}
    /\ running \in BOOLEAN /\ listening \in BOOLEAN
    /\ serverPc \in {"unborn", "top", "accept", "blocked", "recv", "render", "exit", "failed"}
    /\ client \in Clients \cup {NoClient}
    /\ client # NoClient <=> serverPc \in {"recv", "render"}
    /\ page \in Seq(Nat) /\ Len(page) <= Len(RenderOrder)
    /\ asker \in [Clients -> {"away", "pending", "reset", "accepted", "answered", "gone"}]
    /\ asked \in [Clients -> {"nothing", "request", "hangup"}]

\* The counters are never further apart than the packets the workers have in
\* their hands, and agree exactly once the workers are done.
CountersInStep ==
    LET verdicts == counter["forwarded"] + counter["dropped"]
        protocols == counter["tcp"] + counter["udp"]
        busy == Cardinality({w \in Workers : kind[w] # NoPacket})
    IN  /\ counter["inf"] <= counter["count"] /\ counter["count"] <= verdicts
        /\ verdicts <= protocols /\ protocols <= counter["apps"]
        /\ counter["apps"] <= counter["packets"] /\ counter["packets"] <= counter["inf"] + busy

\* A rendered page is a snapshot of no single moment, and still its histogram
\* is cumulative: the buckets are read in the opposite order to the one they
\* are added to.  A counter that is read early runs ahead of what is read later
\* by no more than the packets in the workers' hands: the count ahead of the
\* +Inf bucket, the packets ahead of those forwarded or dropped.
Rendered(c) == page[CHOOSE i \in 1 .. Len(RenderOrder) : RenderOrder[i] = c]
PageConsistent ==
    Len(page) = Len(RenderOrder) =>
        /\ \A i \in 1 .. 4 : Rendered(Buckets[i + 1]) <= Rendered(Buckets[i])
        /\ Rendered("count") <= Rendered("inf") + Cardinality(Workers)
        /\ Rendered("packets")
               <= Rendered("forwarded") + Rendered("dropped") + Cardinality(Workers)

\* A scraper that connects while the server runs, and stays, is answered, however
\* many others there are and whether these stay or not, unless stop() comes
\* first.  Two things the code does not survive are excepted: an accept that
\* fails, after which the thread is gone and whoever is pending waits in vain
\* until stop(), and the signal raised by another scraper's hanging up.
EveryScrapeAnswered ==
    \A c \in Clients :
        asker[c] = "pending" /\ running ~>
            \/ asker[c] = "answered" \/ asked[c] = "hangup"
            \/ ~running \/ serverPc = "failed"

\* metrics.h, "Stop gracefully": stop() returns, if the process lives to see it.
StopReturns == mainPc = "close" ~> mainPc \in {"done", "killed"}

=============================================================================
