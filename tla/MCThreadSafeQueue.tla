-------------------------- MODULE MCThreadSafeQueue --------------------------
(***************************************************************************)
(* One queue shared by two producers, two consumers and the thread that    *)
(* closes it and polls empty(), as output_queue in main.cpp is by the      *)
(* workers, the writer and main.                                           *)
(***************************************************************************)
EXTENDS ThreadSafeQueue, TLC

CONSTANTS p1, p2, c1, c2, m

MCThreads == {p1, p2, c1, c2, m}
MCCalls == p1 :> {"push"} @@ p2 :> {"push", "tryPush"} @@ c1 :> {"pop"}
           @@ c2 :> {"popWithTimeout"} @@ m :> {"shutdown", "empty"}

=============================================================================
