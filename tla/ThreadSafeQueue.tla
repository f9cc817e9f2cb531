--------------------------- MODULE ThreadSafeQueue ---------------------------
(***************************************************************************)
(* include/thread_safe_queue.h at the grain of its synchronisation: a      *)
(* mutex, the two condition variables with their waiters, the deque, the   *)
(* atomic counter size_ that empty() reads without the lock, and the flag  *)
(* shutdown_.  A thread's program counter names the point it has reached   *)
(* inside the operation it is in:                                          *)
(*                                                                         *)
(*   lock    constructing the unique_lock / lock_guard                     *)
(*   test    holding the mutex, about to evaluate the wait predicate       *)
(*   block   holding the mutex, predicate false, about to wait             *)
(*   wait    on the condition variable, mutex released                     *)
(*   wake    notified, woken spuriously or out of time; needs the mutex    *)
(*   last    wait_for timed out, about to evaluate the predicate once more *)
(*   move    holding the mutex, about to push to or pop from queue_        *)
(*   count   queue_ changed, about to change size_ and notify              *)
(*   leave   holding the mutex, about to release it and return             *)
(*   notify1, notify2   shutdown(), before each of its notify_all calls    *)
(*   done    about to return, without the mutex                            *)
(***************************************************************************)
EXTENDS QueueInterface, FiniteSets

CONSTANT Nobody       \* the holder of a free mutex

ASSUME NobodyAssumption == Nobody \notin Threads
ASSUME ThreadsAssumption == IsFiniteSet(Threads)

VARIABLES queue_,     \* the std::queue
          size_,      \* the atomic item count
          shutdown_,  \* the atomic flag
          mutex_,     \* the thread holding the mutex, or Nobody
          pc,         \* pc[t], as listed above; "idle" outside the class
          op,         \* op[t]: the member function t is in, or "none"
          arg,        \* arg[t]: push's parameter
          item,       \* item[t]: pop's local variable
          expired,    \* expired[t]: the deadline of t's popWithTimeout has passed
          result      \* result[t]: the outcome of t's operation

vars == <<queue_, size_, shutdown_, mutex_, pc, op, arg, item, expired, result>>
data == <<queue_, size_, shutdown_>>

PCs == {"idle", "lock", "test", "block", "wait", "wake", "last", "move",
        "count", "leave", "notify1", "notify2", "done"}

\* The program points at which a thread holds the mutex.
Holding == {"test", "block", "last", "move", "count", "leave"}

Init ==
    /\ queue_ = <<>> /\ size_ = 0 /\ shutdown_ = FALSE
    /\ mutex_ = Nobody
    /\ pc = [t \in Threads |-> "idle"]
    /\ op = [t \in Threads |-> "none"]
    /\ arg = [t \in Threads |-> NoItem]
    /\ item = [t \in Threads |-> NoItem]
    /\ expired = [t \in Threads |-> FALSE]
    /\ result = [t \in Threads |-> "pending"]

-----------------------------------------------------------------------------
(* The two condition variables.                                            *)

OnNotEmpty == {t \in Threads : pc[t] = "wait" /\ op[t] \in PopOps}
OnNotFull  == {t \in Threads : pc[t] = "wait" /\ op[t] \in PushOps}

\* notify_one: one waiter, whichever the implementation picks, or nobody.
\* after is the new program counter of the notifying thread t.
NotifyOne(t, after, waiters) ==
    IF waiters = {}
    THEN pc' = [pc EXCEPT ![t] = after]
    ELSE \E w \in waiters : pc' = [pc EXCEPT ![t] = after, ![w] = "wake"]

NotifyAll(t, after, waiters) ==
    pc' = [u \in Threads |-> IF u = t THEN after
                             ELSE IF u \in waiters THEN "wake" ELSE pc[u]]

\* Mutant of Ready: max_size_ compared with <= instead of <.
ReadyOffByOne(t) == IF op[t] \in PushOps THEN Len(queue_) <= Capacity \/ shutdown_
                                         ELSE queue_ # <<>> \/ shutdown_

\* The predicates the two waits are given.
Ready(t) == IF op[t] \in PushOps THEN Len(queue_) < Capacity \/ shutdown_
                                 ELSE queue_ # <<>> \/ shutdown_

-----------------------------------------------------------------------------
Call(t) ==
    /\ pc[t] = "idle"
    /\ \E o \in Calls[t], i \in Items \cup {NoItem} :
         /\ o \in PushOps <=> i \in Items
         /\ op' = [op EXCEPT ![t] = o]
         /\ arg' = [arg EXCEPT ![t] = i]
    /\ pc' = [pc EXCEPT ![t] = "lock"]
    /\ UNCHANGED <<data, mutex_, item, expired, result>>

\* size() == 0, read without the lock.
Empty(t) ==
    /\ pc[t] = "lock" /\ op[t] = "empty"
    /\ result' = [result EXCEPT ![t] = IF size_ = 0 THEN "yes" ELSE "no"]
    /\ pc' = [pc EXCEPT ![t] = "done"]
    /\ UNCHANGED <<data, mutex_, op, arg, item, expired>>

\* Taking the mutex: at the start of an operation, or inside wait when the
\* thread has been woken; a timed wait that comes back after its deadline
\* evaluates the predicate one last time.
Acquire(t) ==
    /\ pc[t] \in {"lock", "wake"} /\ op[t] # "empty"
    /\ mutex_ = Nobody
    /\ mutex_' = t
    /\ pc' = [pc EXCEPT ![t] = IF pc[t] = "wake" /\ expired[t]
                               THEN "last" ELSE "test"]
    /\ UNCHANGED <<data, op, arg, item, expired, result>>

\* The predicate of a wait, and the checks after it, decide what happens next;
\* tryPush has the same checks and never waits.
Enter(t) ==
    /\ pc[t] \in {"test", "last"} /\ op[t] # "shutdown"
    /\ Ready(t)
    /\ IF op[t] \in PushOps
       THEN ~shutdown_
       ELSE queue_ # <<>>
    /\ pc' = [pc EXCEPT ![t] = "move"]
    /\ UNCHANGED <<data, mutex_, op, arg, item, expired, result>>

Block(t) ==
    /\ pc[t] = "test" /\ op[t] \in {"push", "pop", "popWithTimeout"}
    /\ ~Ready(t)
    /\ pc' = [pc EXCEPT ![t] = "block"]
    /\ UNCHANGED <<data, mutex_, op, arg, item, expired, result>>

\* Mutant of GiveUp: a pop returns nothing as soon as the queue is shut down.
GiveUpWithItemsLeft(t) ==
    /\ pc[t] \in {"test", "last"} /\ op[t] \in PushOps \cup PopOps
    /\ shutdown_
    /\ result' = [result EXCEPT ![t] = IF op[t] \in PushOps THEN "refused" ELSE "nothing"]
    /\ pc' = [pc EXCEPT ![t] = "leave"]
    /\ UNCHANGED <<data, mutex_, op, arg, item, expired>>

GiveUp(t) ==
    /\ pc[t] \in {"test", "last"}
    /\ \/ /\ op[t] \in PushOps
          /\ shutdown_ \/ (op[t] = "tryPush" /\ ~Ready(t))
          /\ result' = [result EXCEPT ![t] = "refused"]
       \/ /\ op[t] \in PopOps
          /\ queue_ = <<>>
          /\ shutdown_ \/ pc[t] = "last"
          /\ result' = [result EXCEPT ![t] = "nothing"]
    /\ pc' = [pc EXCEPT ![t] = "leave"]
    /\ UNCHANGED <<data, mutex_, op, arg, item, expired>>

\* wait releases the mutex and starts waiting in one step.
Wait(t) ==
    /\ pc[t] = "block"
    /\ mutex_' = Nobody
    /\ pc' = [pc EXCEPT ![t] = "wait"]
    /\ UNCHANGED <<data, op, arg, item, expired, result>>

\* The clock passes the deadline of a popWithTimeout, at any point of it.
Expire(t) ==
    /\ op[t] = "popWithTimeout" /\ ~expired[t]
    /\ expired' = [expired EXCEPT ![t] = TRUE]
    /\ UNCHANGED <<data, mutex_, pc, op, arg, item, result>>

\* Mutant of TimeOut: wait_for in a loop, each turn with a fresh timeout.
TimeOutRestarted(t) ==
    /\ pc[t] = "wait" /\ op[t] = "popWithTimeout" /\ expired[t]
    /\ pc' = [pc EXCEPT ![t] = "wake"]
    /\ expired' = [expired EXCEPT ![t] = FALSE]
    /\ UNCHANGED <<data, mutex_, op, arg, item, result>>

TimeOut(t) ==
    /\ pc[t] = "wait" /\ op[t] = "popWithTimeout" /\ expired[t]
    /\ pc' = [pc EXCEPT ![t] = "wake"]
    /\ UNCHANGED <<data, mutex_, op, arg, item, expired, result>>

SpuriousWakeup(t) ==
    /\ pc[t] = "wait"
    /\ pc' = [pc EXCEPT ![t] = "wake"]
    /\ UNCHANGED <<data, mutex_, op, arg, item, expired, result>>

MoveIn(t) ==
    /\ pc[t] = "move" /\ op[t] \in PushOps
    /\ queue_' = Append(queue_, arg[t])
    /\ pc' = [pc EXCEPT ![t] = "count"]
    /\ UNCHANGED <<size_, shutdown_, mutex_, op, arg, item, expired, result>>

MoveOut(t) ==
    /\ pc[t] = "move" /\ op[t] \in PopOps
    /\ item' = [item EXCEPT ![t] = Head(queue_)]
    /\ queue_' = Tail(queue_)
    /\ pc' = [pc EXCEPT ![t] = "count"]
    /\ UNCHANGED <<size_, shutdown_, mutex_, op, arg, expired, result>>

\* Mutants of CountIn: without ++size_; notifying only when the queue was empty.
CountInUncounted(t) ==
    /\ pc[t] = "count" /\ op[t] \in PushOps
    /\ NotifyOne(t, "leave", OnNotEmpty)
    /\ result' = [result EXCEPT ![t] = "accepted"]
    /\ UNCHANGED <<data, mutex_, op, arg, item, expired>>

CountInFirstOnly(t) ==
    /\ pc[t] = "count" /\ op[t] \in PushOps
    /\ size_' = size_ + 1
    /\ NotifyOne(t, "leave", IF Len(queue_) = 1 THEN OnNotEmpty ELSE {})
    /\ result' = [result EXCEPT ![t] = "accepted"]
    /\ UNCHANGED <<queue_, shutdown_, mutex_, op, arg, item, expired>>

\* ++size_ and not_empty_.notify_one(), under the mutex.
CountIn(t) ==
    /\ pc[t] = "count" /\ op[t] \in PushOps
    /\ size_' = size_ + 1
    /\ NotifyOne(t, "leave", OnNotEmpty)
    /\ result' = [result EXCEPT ![t] = "accepted"]
    /\ UNCHANGED <<queue_, shutdown_, mutex_, op, arg, item, expired>>

\* Mutant of CountOut: notifying only when the queue was full.
CountOutFullOnly(t) ==
    /\ pc[t] = "count" /\ op[t] \in PopOps
    /\ size_' = size_ - 1
    /\ NotifyOne(t, "leave", IF Len(queue_) = Capacity - 1 THEN OnNotFull ELSE {})
    /\ result' = [result EXCEPT ![t] = item[t]]
    /\ UNCHANGED <<queue_, shutdown_, mutex_, op, arg, item, expired>>

\* --size_ and not_full_.notify_one(), under the mutex.
CountOut(t) ==
    /\ pc[t] = "count" /\ op[t] \in PopOps
    /\ size_' = size_ - 1
    /\ NotifyOne(t, "leave", OnNotFull)
    /\ result' = [result EXCEPT ![t] = item[t]]
    /\ UNCHANGED <<queue_, shutdown_, mutex_, op, arg, item, expired>>

\* The function returns and its locals, the lock among them, are destroyed.
Exit(t) ==
    /\ pc' = [pc EXCEPT ![t] = "idle"]
    /\ op' = [op EXCEPT ![t] = "none"]
    /\ arg' = [arg EXCEPT ![t] = NoItem]
    /\ item' = [item EXCEPT ![t] = NoItem]
    /\ expired' = [expired EXCEPT ![t] = FALSE]
    /\ result' = [result EXCEPT ![t] = "pending"]
    /\ UNCHANGED data

Return(t) ==
    /\ pc[t] \in {"leave", "done"}
    /\ mutex_' = IF pc[t] = "leave" THEN Nobody ELSE mutex_
    /\ Exit(t)

-----------------------------------------------------------------------------
(* shutdown(): the flag under the mutex, the two notify_all after it.      *)

SetFlag(t) ==
    /\ pc[t] = "test" /\ op[t] = "shutdown"
    /\ shutdown_' = TRUE
    /\ mutex_' = Nobody
    /\ pc' = [pc EXCEPT ![t] = "notify1"]
    /\ result' = [result EXCEPT ![t] = "closed"]
    /\ UNCHANGED <<queue_, size_, op, arg, item, expired>>

\* Mutant of NotifyConsumers: notify_one instead of notify_all.
NotifyOneConsumer(t) ==
    /\ pc[t] = "notify1"
    /\ NotifyOne(t, "notify2", OnNotEmpty)
    /\ UNCHANGED <<data, mutex_, op, arg, item, expired, result>>

NotifyConsumers(t) ==
    /\ pc[t] = "notify1"
    /\ NotifyAll(t, "notify2", OnNotEmpty)
    /\ UNCHANGED <<data, mutex_, op, arg, item, expired, result>>

\* Mutant of NotifyProducers: not_full_ is not notified at all.
NotifyNoProducer(t) ==
    /\ pc[t] = "notify2"
    /\ pc' = [pc EXCEPT ![t] = "done"]
    /\ UNCHANGED <<data, mutex_, op, arg, item, expired, result>>

NotifyProducers(t) ==
    /\ pc[t] = "notify2"
    /\ NotifyAll(t, "done", OnNotFull)
    /\ UNCHANGED <<data, mutex_, op, arg, item, expired, result>>

-----------------------------------------------------------------------------
\* What thread t does once it runs and needs nobody else.
Step(t) ==
    \/ Empty(t) \/ Enter(t) \/ Block(t) \/ GiveUp(t) \/ Wait(t)
    \/ MoveIn(t) \/ MoveOut(t) \/ CountIn(t) \/ CountOut(t) \/ Return(t)
    \/ SetFlag(t) \/ NotifyConsumers(t) \/ NotifyProducers(t)

Next == \E t \in Threads :
          Call(t) \/ Acquire(t) \/ Expire(t) \/ TimeOut(t) \/ SpuriousWakeup(t) \/ Step(t)

Spec == Init /\ [][Next]_vars

\* Threads run, clocks advance, and a thread that keeps asking for a mutex
\* that keeps being released gets it.  Nobody is obliged to call the queue and
\* spurious wakeups need not happen.
Fairness ==
    \A t \in Threads : /\ WF_vars(Step(t))
                       /\ WF_vars(Expire(t))
                       /\ WF_vars(TimeOut(t))
                       /\ SF_vars(Acquire(t))

FairSpec == Spec /\ Fairness

-----------------------------------------------------------------------------
(* Properties.                                                             *)

TypeOK ==
    /\ queue_ \in Seq(Items)
    /\ size_ \in Nat
    /\ shutdown_ \in BOOLEAN
    /\ mutex_ \in Threads \cup {Nobody}
    /\ pc \in [Threads -> PCs]
    /\ op \in [Threads -> Operations \cup {"none"}]
    /\ arg \in [Threads -> Items \cup {NoItem}]
    /\ item \in [Threads -> Items \cup {NoItem}]
    /\ expired \in [Threads -> BOOLEAN]
    /\ result \in [Threads -> Items \cup Outcomes]

\* Backpressure: the deque never outgrows max_size_, and its length differs
\* from size_ only while the thread holding the mutex is between changing the
\* one and the other, so the lock-free empty() is wrong for no longer than that.
Bounded ==
    /\ Len(queue_) <= Capacity
    /\ size_ = Len(queue_) +
         (IF \E t \in Threads : pc[t] = "count" /\ op[t] \in PopOps THEN 1 ELSE 0) -
         (IF \E t \in Threads : pc[t] = "count" /\ op[t] \in PushOps THEN 1 ELSE 0)

\* No lost wakeup, consumers' side: while some consumer waits on not_empty_ of
\* an open queue, every queued item is matched by a consumer that will still
\* test the predicate or by a producer that has yet to notify.
Testing(ops) == {t \in Threads : /\ op[t] \in ops
                                 /\ pc[t] \in {"lock", "wake", "test", "last", "move"}}
Counting(ops) == {t \in Threads : op[t] \in ops /\ pc[t] = "count"}

NoStrandedItem ==
    OnNotEmpty # {} /\ ~shutdown_ =>
        Len(queue_) <= Cardinality(Testing(PopOps)) + Cardinality(Counting(PushOps))

\* The same for producers: while one waits on not_full_ of an open queue, every
\* free place is matched by a producer on its way or by a consumer about to notify.
NoStrandedRoom ==
    OnNotFull # {} /\ ~shutdown_ =>
        Capacity - Len(queue_) <= Cardinality(Testing(PushOps)) + Cardinality(Counting(PopOps))

\* "shutdown() unblocks ALL waiters via notify_all() (no deadlock on exit)":
\* once every shutdown call is over, nobody waits, nor is about to.
NobodyWaitsAfterShutdown ==
    shutdown_ /\ (\A t \in Threads : op[t] # "shutdown") =>
        \A t \in Threads : pc[t] \notin {"block", "wait"}

\* The queue as its callers see it: the thread between changing queue_ and
\* changing size_ has not taken effect yet.
Visible ==
    IF mutex_ = Nobody \/ mutex_ \notin Counting(Operations) THEN queue_
    ELSE IF op[mutex_] \in PushOps
         THEN SubSeq(queue_, 1, Len(queue_) - 1)
         ELSE <<item[mutex_]>> \o queue_

\* The code implements the abstract queue: FIFO order, nothing lost or
\* duplicated, refusal only by a shutdown (or a full queue for tryPush),
\* nullopt only from an empty queue, and empty() consistent with all of it.
Abstract == INSTANCE BoundedQueue WITH contents <- Visible, closed <- shutdown_

ImplementsBoundedQueue == Abstract!Spec

\* A timed pop comes back whatever the other threads do.
TimedPopReturns ==
    \A t \in Threads : op[t] = "popWithTimeout" ~> op[t] # "popWithTimeout"

\* Every operation that is running or that starts once the queue is shut down
\* comes back: join() on a thread blocked in the queue cannot hang.
ReturnAfterShutdown ==
    \A t \in Threads : shutdown_ /\ op[t] # "none" ~> op[t] = "none"

=============================================================================
