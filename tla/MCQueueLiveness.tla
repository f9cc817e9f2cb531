--------------------------- MODULE MCQueueLiveness ---------------------------
(***************************************************************************)
(* A producer that may wait for room, a consumer whose pops have no        *)
(* deadline, one that uses both pops, and the closing thread.              *)
(***************************************************************************)
EXTENDS ThreadSafeQueue, TLC

CONSTANTS p, c1, c2, m

MCThreads == {p, c1, c2, m}
MCCalls == p :> {"push"} @@ c1 :> {"pop"} @@ c2 :> {"pop", "popWithTimeout"}
           @@ m :> {"shutdown"}

=============================================================================
