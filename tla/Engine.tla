------------------------------- MODULE Engine -------------------------------
(***************************************************************************)
(* A run of the program from its files to its file: main (main.cpp) opens  *)
(* the capture, loads the rules, starts the metrics server, opens the      *)
(* output, reads the capture to its end, stops the threads and returns.    *)
(*                                                                         *)
(* Between the reader and the writer stand the threads of Pipeline and the *)
(* flow tables of FlowEngine.  What they say of them is used here: each    *)
(* packet given to them is forwarded at most once, after ShouldBlock let   *)
(* it, or dropped, or lost when they are stopped; in any order here, since *)
(* packets of different flows overtake each other.                         *)
(***************************************************************************)
EXTENDS RuleManager, CaptureFile

ASSUME DataAssumption == Packets \subseteq Data

VARIABLES
    mainPc,          \* where main is
    inFlight         \* records of the input given to the balancer, neither
                     \* dropped nor written

vars == <<ruleVars, captureVars, mainPc, inFlight>>

Init ==
    /\ RulesInit /\ CaptureInit
    /\ mainPc = "start" /\ inFlight = {}

Goto(from, to) == mainPc = from /\ mainPc' = to

-----------------------------------------------------------------------------
(* Start.                                                                  *)

OpenInput ==
    /\ Goto("start", "rules") /\ OpenReader
    /\ UNCHANGED <<ruleVars, inFlight>>

OpenInputFails ==
    /\ Goto("start", "failed") /\ ~CanOpen
    /\ UNCHANGED <<ruleVars, captureVars, inFlight>>

LoadRules ==
    /\ mainPc = "rules" /\ (OpenRules \/ LoadLine \/ EndOfRules)
    /\ UNCHANGED <<captureVars, mainPc, inFlight>>

\* Mutant of StartMetrics: main does not wait for the rules.
StartMetricsEarly ==
    /\ Goto("rules", "output")
    /\ UNCHANGED <<ruleVars, captureVars, inFlight>>

\* main ignores whether the rules were loaded, and whether the server started,
\* which it does not with --no-metrics.  The server is MetricsServer's.
StartMetrics ==
    /\ Goto("rules", "output") /\ rulesPc \in {"loaded", "absent"}
    /\ UNCHANGED <<ruleVars, captureVars, inFlight>>

OpenOutput ==
    /\ Goto("output", "reading") /\ OpenWriter
    /\ UNCHANGED <<ruleVars, inFlight>>

\* main returns with the server running; its destructor calls stop(), and
\* whether that ends is the subject of MetricsServer.
OpenOutputFails ==
    /\ Goto("output", "failed")
    /\ UNCHANGED <<ruleVars, captureVars, inFlight>>

-----------------------------------------------------------------------------
(* From the reader to the writer.                                          *)

PacketAt(i) == input.records[i].packet

\* Mutant of ReadPacket: every packet goes on.
ReadPacketAny ==
    /\ mainPc = "reading" /\ TakeRecord
    /\ inFlight' = inFlight \cup {taken'}
    /\ UNCHANGED <<ruleVars, mainPc>>

\* What is not TCP or UDP over IPv4 goes no further.
ReadPacket ==
    /\ mainPc = "reading" /\ TakeRecord
    /\ inFlight' = IF PacketAt(taken') \in Packets THEN inFlight \cup {taken'} ELSE inFlight
    /\ UNCHANGED <<ruleVars, mainPc>>

Flowing == mainPc \in {"reading", "stopping"}

\* A worker lets packet i pass and the writer thread writes it.
Forward(i) ==
    /\ Flowing /\ ShouldBlock(PacketAt(i)) = "FORWARD" /\ WritePacket(i)
    /\ inFlight' = inFlight \ {i}
    /\ UNCHANGED <<ruleVars, mainPc>>

\* A worker drops it, because of the rules or because an earlier packet of its
\* flow was dropped: which of them does not matter here.
Drop(i) ==
    /\ Flowing
    /\ inFlight' = inFlight \ {i}
    /\ UNCHANGED <<ruleVars, captureVars, mainPc>>

-----------------------------------------------------------------------------
(* End.                                                                    *)

EndOfCapture ==
    /\ Goto("reading", "stopping") /\ EndOfInput
    /\ UNCHANGED <<ruleVars, inFlight>>

\* The threads have been joined and the output is closed; what their queues
\* still held is lost.  With --daemon, and not --no-metrics, main stays.
Stop ==
    /\ \E to \in {"stopped", "daemon"} : Goto("stopping", to)
    /\ inFlight' = {}
    /\ UNCHANGED <<ruleVars, captureVars>>

StopMetrics ==
    /\ Goto("stopped", "finished")
    /\ UNCHANGED <<ruleVars, captureVars, inFlight>>

Finished == mainPc \in {"failed", "finished", "daemon"} /\ UNCHANGED vars

Start == OpenInput \/ OpenInputFails \/ LoadRules \/ StartMetrics \/ OpenOutput \/ OpenOutputFails
Decide(i) == Forward(i) \/ Drop(i)
End == EndOfCapture \/ Stop \/ StopMetrics

Next == Start \/ ReadPacket \/ (\E i \in inFlight : Decide(i)) \/ End \/ Finished

Spec == Init /\ [][Next]_vars

-----------------------------------------------------------------------------
(* Properties.                                                             *)

\* The variables have their types; packets in flight have been read.
TypeOK ==
    /\ RulesTypeOK /\ CaptureTypeOK
    /\ mainPc \in {"start", "rules", "output", "reading", "stopping", "daemon", "stopped",
                   "failed", "finished"}
    /\ inFlight \subseteq {i \in 1 .. taken : PacketAt(i) \in Packets}

\* Whatever a line of the rules file asks to block is not in the output, and
\* nothing is in it twice: the rules are complete before the first packet is
\* decided, and no way leads around them.
ListedNeverWritten ==
    /\ rulesFile \in RuleFiles =>
         \A k \in DOMAIN written, n \in DOMAIN rulesFile :
            ~AsksFor(rulesFile[n], PacketAt(written[k]))
    /\ \A j, k \in DOMAIN written : written[j] = written[k] => j = k

=============================================================================
