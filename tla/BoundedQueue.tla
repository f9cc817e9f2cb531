---------------------------- MODULE BoundedQueue ----------------------------
(***************************************************************************)
(* What include/thread_safe_queue.h promises its callers: a bounded FIFO   *)
(* queue whose operations take effect one at a time, at some moment        *)
(* between their call and their return.  push waits for room, pop waits    *)
(* for an item, a timed pop may give up, and shutdown closes the queue for *)
(* producers while consumers still get what was accepted before.           *)
(* ThreadSafeQueue is the code (mutex, two condition variables, a separate *)
(* counter) and is shown to implement this module.                         *)
(***************************************************************************)
EXTENDS QueueInterface

VARIABLES contents,   \* the items accepted and not yet taken, oldest first
          closed,     \* shutdown() has taken effect
          op,         \* op[t]: the operation thread t is in, or "none"
          arg,        \* arg[t]: the item the push t is in was called with
          result      \* result[t]: "pending" until the operation takes effect

vars == <<contents, closed, op, arg, result>>

TypeOK ==
    /\ contents \in Seq(Items) /\ Len(contents) <= Capacity
    /\ closed \in BOOLEAN
    /\ op \in [Threads -> Operations \cup {"none"}]
    /\ arg \in [Threads -> Items \cup {NoItem}]
    /\ result \in [Threads -> Items \cup Outcomes]

Init ==
    /\ contents = <<>>
    /\ closed = FALSE
    /\ op = [t \in Threads |-> "none"]
    /\ arg = [t \in Threads |-> NoItem]
    /\ result = [t \in Threads |-> "pending"]

Invoke(t) ==
    /\ op[t] = "none"
    /\ \E o \in Calls[t], i \in Items \cup {NoItem} :
         /\ o \in PushOps <=> i \in Items
         /\ op' = [op EXCEPT ![t] = o]
         /\ arg' = [arg EXCEPT ![t] = i]
    /\ UNCHANGED <<contents, closed, result>>

Finish(t, r) == /\ result[t] = "pending"
                /\ result' = [result EXCEPT ![t] = r]
                /\ UNCHANGED <<op, arg>>

Accept(t) ==
    /\ op[t] \in PushOps
    /\ ~closed /\ Len(contents) < Capacity
    /\ contents' = Append(contents, arg[t])
    /\ closed' = closed
    /\ Finish(t, "accepted")

\* A blocking push is refused only by a shutdown, tryPush also by a full queue.
Refuse(t) ==
    /\ op[t] \in PushOps
    /\ closed \/ (op[t] = "tryPush" /\ Len(contents) = Capacity)
    /\ UNCHANGED <<contents, closed>>
    /\ Finish(t, "refused")

Take(t) ==
    /\ op[t] \in PopOps
    /\ contents # <<>>
    /\ contents' = Tail(contents)
    /\ closed' = closed
    /\ Finish(t, Head(contents))

\* Nothing is returned only when there is nothing: on a closed queue, or when
\* the time of a timed pop is up.
TakeNothing(t) ==
    /\ op[t] \in PopOps
    /\ contents = <<>>
    /\ closed \/ op[t] = "popWithTimeout"
    /\ UNCHANGED <<contents, closed>>
    /\ Finish(t, "nothing")

Close(t) ==
    /\ op[t] = "shutdown"
    /\ closed' = TRUE
    /\ contents' = contents
    /\ Finish(t, "closed")

AskEmpty(t) ==
    /\ op[t] = "empty"
    /\ UNCHANGED <<contents, closed>>
    /\ Finish(t, IF contents = <<>> THEN "yes" ELSE "no")

Return(t) ==
    /\ op[t] # "none"
    /\ result[t] # "pending"
    /\ op' = [op EXCEPT ![t] = "none"]
    /\ arg' = [arg EXCEPT ![t] = NoItem]
    /\ result' = [result EXCEPT ![t] = "pending"]
    /\ UNCHANGED <<contents, closed>>

TakeEffect(t) == \/ Accept(t) \/ Refuse(t) \/ Take(t) \/ TakeNothing(t)
                 \/ Close(t) \/ AskEmpty(t)

Next == \E t \in Threads : Invoke(t) \/ TakeEffect(t) \/ Return(t)

Spec == Init /\ [][Next]_vars

=============================================================================
