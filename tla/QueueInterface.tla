--------------------------- MODULE QueueInterface ---------------------------
(***************************************************************************)
(* The public face of the ThreadSafeQueue template in                      *)
(* include/thread_safe_queue.h: who calls it, with what, and what can come *)
(* back.  Shared by its abstract specification (BoundedQueue) and by the   *)
(* specification of its code (ThreadSafeQueue).                            *)
(***************************************************************************)
EXTENDS Naturals, Sequences

CONSTANTS Threads,    \* the threads that call the queue
          Items,      \* what is queued (a PacketJob in the program)
          NoItem,     \* no item: a parameter or local variable not in use
          Capacity,   \* max_size_
          Calls       \* Calls[t]: the operations thread t ever calls

PushOps == {"push", "tryPush"}
PopOps == {"pop", "popWithTimeout"}
Operations == PushOps \cup PopOps \cup {"shutdown", "empty"}

\* Outcomes that are not an item: push's true and false, pop's nullopt,
\* empty()'s two answers, shutdown's return, and an operation still running.
Outcomes == {"pending", "accepted", "refused", "nothing", "yes", "no", "closed"}

ASSUME CapacityAssumption == Capacity \in Nat \ {0}
ASSUME CallsAssumption == Calls \in [Threads -> SUBSET Operations]
ASSUME ItemsAssumption == Items \cap Outcomes = {} /\ NoItem \notin Items \cup Outcomes

=============================================================================
