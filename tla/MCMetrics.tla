----------------------------- MODULE MCMetrics -----------------------------
(***************************************************************************)
(* Two workers with a packet each, of (5, 10] ms and forwarded or of over  *)
(* 10 ms and dropped, one of them with an exported queue size, and two     *)
(* scrapers.                                                               *)
(***************************************************************************)
EXTENDS MetricsServer

CONSTANTS s1, s2

MCKinds == {[protocol |-> "tcp", verdict |-> "forwarded", latency |-> 2],
            [protocol |-> "udp", verdict |-> "dropped", latency |-> 1]}

=============================================================================
