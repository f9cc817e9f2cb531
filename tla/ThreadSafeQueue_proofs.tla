----------------------- MODULE ThreadSafeQueue_proofs -----------------------
(***************************************************************************)
(* Proofs about ThreadSafeQueue for any threads, items, capacity and       *)
(* calls.  The inductive invariant says who holds the mutex (MutexInv),    *)
(* what each program counter knows about its own operation (LocalInv),     *)
(* how size_ and the deque are related (SizeInv), and that a thread still  *)
(* waiting after the flag was set has its notify_all ahead (ShutdownInv).  *)
(***************************************************************************)
EXTENDS ThreadSafeQueue, SequenceTheorems, TLAPS

\* Mutual exclusion: the mutex belongs to the one thread inside the lock.
MutexInv == \A t \in Threads : pc[t] \in Holding <=> mutex_ = t

Waiting == {"push", "pop", "popWithTimeout"}

\* The program counter, the operation and the locals of a thread agree.
Local(t) ==
    /\ pc[t] = "idle" <=> op[t] = "none"
    /\ pc[t] \in {"block", "wait", "wake"} => op[t] \in Waiting
    /\ pc[t] = "last" => op[t] = "popWithTimeout"
    /\ pc[t] \in {"move", "count", "leave"} => op[t] \in PushOps \cup PopOps
    /\ pc[t] = "test" => op[t] \in PushOps \cup PopOps \cup {"shutdown"}
    /\ pc[t] \in {"notify1", "notify2"} => op[t] = "shutdown"
    /\ pc[t] = "done" => op[t] \in {"shutdown", "empty"}
    /\ IF op[t] \in PushOps THEN arg[t] \in Items ELSE arg[t] = NoItem
    /\ pc[t] = "count" /\ op[t] \in PopOps => item[t] \in Items
    /\ pc[t] \in {"leave", "notify1", "notify2", "done"} <=> result[t] # "pending"
    /\ expired[t] => op[t] = "popWithTimeout"

LocalInv == \A t \in Threads : Local(t)

\* What the thread inside the lock knows about the shared data.
SizeInv ==
    /\ Len(queue_) <= Capacity
    /\ \A t \in Threads :
         /\ pc[t] = "block" => ~Ready(t)
         /\ pc[t] = "move" /\ op[t] \in PushOps => Len(queue_) < Capacity /\ ~shutdown_
         /\ pc[t] = "move" /\ op[t] \in PopOps => queue_ # <<>>
         /\ pc[t] = "count" /\ op[t] \in PushOps =>
              size_ + 1 = Len(queue_) /\ ~shutdown_ /\ queue_[Len(queue_)] = arg[t]
         /\ pc[t] = "count" /\ op[t] \in PopOps => size_ = Len(queue_) + 1 /\ size_ <= Capacity
    /\ (\A t \in Threads : pc[t] # "count") => size_ = Len(queue_)

\* A consumer still waiting once the flag is set is about to be notified by a
\* shutdown() that has not reached its first notify_all, a producer by one
\* that has not reached its second.
ShutdownInv ==
    shutdown_ =>
        /\ \A t \in OnNotEmpty : \E u \in Threads : pc[u] = "notify1"
        /\ \A t \in OnNotFull : \E u \in Threads : pc[u] \in {"notify1", "notify2"}

IInv == TypeOK /\ MutexInv /\ LocalInv /\ SizeInv /\ ShutdownInv

-----------------------------------------------------------------------------
LEMMA CallIInv == ASSUME IInv, NEW t \in Threads, Call(t) PROVE IInv'
<1>0. PICK o \in Calls[t], i \in Items \cup {NoItem} :
        /\ o \in PushOps <=> i \in Items
        /\ op' = [op EXCEPT ![t] = o] /\ arg' = [arg EXCEPT ![t] = i]
  BY DEF Call
<1>o. o \in Operations
  BY CallsAssumption
<1>1. TypeOK'
  BY <1>0, <1>o DEF IInv, TypeOK, PCs, Call, data
<1>2. MutexInv'
  BY NobodyAssumption DEF IInv, TypeOK, MutexInv, Holding, Call, data
<1>3. LocalInv'
  <2>1. o # "none"
    BY <1>o DEF Operations, PushOps, PopOps
  <2>2. result[t] = "pending" /\ ~expired[t]
    BY DEF IInv, LocalInv, Local, TypeOK, Call, PushOps, PopOps
  <2> QED BY <1>0, <2>1, <2>2 DEF IInv, TypeOK, LocalInv, Local, Call, data, PushOps, PopOps
<1>4. SizeInv'
  BY DEF IInv, TypeOK, MutexInv, LocalInv, Local, SizeInv, Holding, Ready, PushOps, PopOps, Call, data
<1>5. ShutdownInv'
  BY DEF IInv, TypeOK, MutexInv, LocalInv, Local, ShutdownInv, OnNotEmpty, OnNotFull, PushOps, PopOps, Call, data
<1> QED BY <1>1, <1>2, <1>3, <1>4, <1>5 DEF IInv

LEMMA EmptyIInv == ASSUME IInv, NEW t \in Threads, Empty(t) PROVE IInv'
<1>1. TypeOK'
  BY DEF IInv, TypeOK, PCs, Operations, PushOps, PopOps, Outcomes, Empty, data
<1>2. MutexInv'
  BY NobodyAssumption DEF IInv, TypeOK, MutexInv, Holding, Empty, data
<1>3. LocalInv'
  BY ItemsAssumption DEF IInv, TypeOK, MutexInv, LocalInv, Local, Holding, Waiting, PushOps, PopOps, Empty, data
<1>4. SizeInv'
  BY DEF IInv, TypeOK, MutexInv, LocalInv, Local, SizeInv, Holding, Ready, PushOps, PopOps, Empty, data
<1>5. ShutdownInv'
  BY DEF IInv, TypeOK, MutexInv, LocalInv, Local, ShutdownInv, OnNotEmpty, OnNotFull, PushOps, PopOps, Empty, data
<1> QED BY <1>1, <1>2, <1>3, <1>4, <1>5 DEF IInv

LEMMA AcquireIInv == ASSUME IInv, NEW t \in Threads, Acquire(t) PROVE IInv'
<1>1. TypeOK'
  BY DEF IInv, TypeOK, PCs, Operations, PushOps, PopOps, Outcomes, Acquire, data
<1>2. MutexInv'
  BY NobodyAssumption DEF IInv, TypeOK, MutexInv, Holding, Acquire, data
<1>3. LocalInv'
  <2>1. pc[t] = "wake" /\ expired[t] => op[t] = "popWithTimeout"
    BY DEF IInv, LocalInv, Local
  <2>2. pc[t] \in {"lock", "wake"} => op[t] # "none"
    BY DEF IInv, LocalInv, Local, Acquire
  <2>3. op[t] \in PushOps \cup PopOps \cup {"shutdown"}
    BY <2>2 DEF Acquire, IInv, TypeOK, Operations
  <2>4. PICK c \in {"last", "test"} : /\ pc' = [pc EXCEPT ![t] = c]
                                      /\ c = "last" => op[t] = "popWithTimeout"
    BY <2>1 DEF Acquire
  <2>5. result[t] = "pending"
    BY DEF IInv, LocalInv, Local, Acquire
  <2> QED BY <2>2, <2>3, <2>4, <2>5 DEF IInv, TypeOK, LocalInv, Local, Acquire, data
<1>4. SizeInv'
  BY DEF IInv, TypeOK, MutexInv, LocalInv, Local, SizeInv, Holding, Ready, PushOps, PopOps, Acquire, data
<1>5. ShutdownInv'
  BY DEF IInv, TypeOK, MutexInv, LocalInv, Local, ShutdownInv, OnNotEmpty, OnNotFull, PushOps, PopOps, Acquire, data
<1> QED BY <1>1, <1>2, <1>3, <1>4, <1>5 DEF IInv

LEMMA EnterIInv == ASSUME IInv, NEW t \in Threads, Enter(t) PROVE IInv'
<1>1. TypeOK'
  BY DEF IInv, TypeOK, PCs, Operations, PushOps, PopOps, Outcomes, Enter, data
<1>2. MutexInv'
  BY NobodyAssumption DEF IInv, TypeOK, MutexInv, Holding, Enter, data
<1>3. LocalInv'
  BY ItemsAssumption DEF IInv, TypeOK, MutexInv, LocalInv, Local, Holding, Waiting, PushOps, PopOps, Enter, data
<1>4. SizeInv'
  BY DEF IInv, TypeOK, MutexInv, LocalInv, Local, SizeInv, Holding, Ready, PushOps, PopOps, Enter, data
<1>5. ShutdownInv'
  BY DEF IInv, TypeOK, MutexInv, LocalInv, Local, ShutdownInv, OnNotEmpty, OnNotFull, PushOps, PopOps, Enter, data
<1> QED BY <1>1, <1>2, <1>3, <1>4, <1>5 DEF IInv

LEMMA BlockIInv == ASSUME IInv, NEW t \in Threads, Block(t) PROVE IInv'
<1>1. TypeOK'
  BY DEF IInv, TypeOK, PCs, Operations, PushOps, PopOps, Outcomes, Block, data
<1>2. MutexInv'
  BY NobodyAssumption DEF IInv, TypeOK, MutexInv, Holding, Block, data
<1>3. LocalInv'
  BY ItemsAssumption DEF IInv, TypeOK, MutexInv, LocalInv, Local, Holding, Waiting, PushOps, PopOps, Block, data
<1>4. SizeInv'
  BY DEF IInv, TypeOK, MutexInv, LocalInv, Local, SizeInv, Holding, Ready, PushOps, PopOps, Block, data
<1>5. ShutdownInv'
  BY DEF IInv, TypeOK, MutexInv, LocalInv, Local, ShutdownInv, OnNotEmpty, OnNotFull, PushOps, PopOps, Block, data
<1> QED BY <1>1, <1>2, <1>3, <1>4, <1>5 DEF IInv

LEMMA GiveUpIInv == ASSUME IInv, NEW t \in Threads, GiveUp(t) PROVE IInv'
<1>1. TypeOK'
  BY DEF IInv, TypeOK, PCs, Operations, PushOps, PopOps, Outcomes, GiveUp, data
<1>2. MutexInv'
  BY NobodyAssumption DEF IInv, TypeOK, MutexInv, Holding, GiveUp, data
<1>3. LocalInv'
  BY ItemsAssumption DEF IInv, TypeOK, MutexInv, LocalInv, Local, Holding, Waiting, PushOps, PopOps, GiveUp, data
<1>4. SizeInv'
  BY DEF IInv, TypeOK, MutexInv, LocalInv, Local, SizeInv, Holding, Ready, PushOps, PopOps, GiveUp, data
<1>5. ShutdownInv'
  BY DEF IInv, TypeOK, MutexInv, LocalInv, Local, ShutdownInv, OnNotEmpty, OnNotFull, PushOps, PopOps, GiveUp, data
<1> QED BY <1>1, <1>2, <1>3, <1>4, <1>5 DEF IInv

LEMMA WaitIInv == ASSUME IInv, NEW t \in Threads, Wait(t) PROVE IInv'
<1>1. TypeOK'
  BY DEF IInv, TypeOK, PCs, Operations, PushOps, PopOps, Outcomes, Wait, data
<1>2. MutexInv'
  BY NobodyAssumption DEF IInv, TypeOK, MutexInv, Holding, Wait, data
<1>3. LocalInv'
  BY ItemsAssumption DEF IInv, TypeOK, MutexInv, LocalInv, Local, Holding, Waiting, PushOps, PopOps, Wait, data
<1>4. SizeInv'
  BY DEF IInv, TypeOK, MutexInv, LocalInv, Local, SizeInv, Holding, Ready, PushOps, PopOps, Wait, data
<1>5. ShutdownInv'
  <2>1. ~shutdown_
    BY DEF IInv, SizeInv, Ready, Wait
  <2> QED BY <2>1 DEF ShutdownInv, Wait, data
<1> QED BY <1>1, <1>2, <1>3, <1>4, <1>5 DEF IInv

LEMMA ExpireIInv == ASSUME IInv, NEW t \in Threads, Expire(t) PROVE IInv'
<1>1. TypeOK'
  BY DEF IInv, TypeOK, PCs, Operations, PushOps, PopOps, Outcomes, Expire, data
<1>2. MutexInv'
  BY NobodyAssumption DEF IInv, TypeOK, MutexInv, Holding, Expire, data
<1>3. LocalInv'
  BY ItemsAssumption DEF IInv, TypeOK, MutexInv, LocalInv, Local, Holding, Waiting, PushOps, PopOps, Expire, data
<1>4. SizeInv'
  BY DEF IInv, TypeOK, MutexInv, LocalInv, Local, SizeInv, Holding, Ready, PushOps, PopOps, Expire, data
<1>5. ShutdownInv'
  BY DEF IInv, TypeOK, MutexInv, LocalInv, Local, ShutdownInv, OnNotEmpty, OnNotFull, PushOps, PopOps, Expire, data
<1> QED BY <1>1, <1>2, <1>3, <1>4, <1>5 DEF IInv

LEMMA TimeOutIInv == ASSUME IInv, NEW t \in Threads, TimeOut(t) PROVE IInv'
<1>1. TypeOK'
  BY DEF IInv, TypeOK, PCs, Operations, PushOps, PopOps, Outcomes, TimeOut, data
<1>2. MutexInv'
  BY NobodyAssumption DEF IInv, TypeOK, MutexInv, Holding, TimeOut, data
<1>3. LocalInv'
  BY ItemsAssumption DEF IInv, TypeOK, MutexInv, LocalInv, Local, Holding, Waiting, PushOps, PopOps, TimeOut, data
<1>4. SizeInv'
  BY DEF IInv, TypeOK, MutexInv, LocalInv, Local, SizeInv, Holding, Ready, PushOps, PopOps, TimeOut, data
<1>5. ShutdownInv'
  BY DEF IInv, TypeOK, MutexInv, LocalInv, Local, ShutdownInv, OnNotEmpty, OnNotFull, PushOps, PopOps, TimeOut, data
<1> QED BY <1>1, <1>2, <1>3, <1>4, <1>5 DEF IInv

LEMMA SpuriousWakeupIInv == ASSUME IInv, NEW t \in Threads, SpuriousWakeup(t) PROVE IInv'
<1>1. TypeOK'
  BY DEF IInv, TypeOK, PCs, Operations, PushOps, PopOps, Outcomes, SpuriousWakeup, data
<1>2. MutexInv'
  BY NobodyAssumption DEF IInv, TypeOK, MutexInv, Holding, SpuriousWakeup, data
<1>3. LocalInv'
  BY ItemsAssumption DEF IInv, TypeOK, MutexInv, LocalInv, Local, Holding, Waiting, PushOps, PopOps, SpuriousWakeup, data
<1>4. SizeInv'
  BY DEF IInv, TypeOK, MutexInv, LocalInv, Local, SizeInv, Holding, Ready, PushOps, PopOps, SpuriousWakeup, data
<1>5. ShutdownInv'
  BY DEF IInv, TypeOK, MutexInv, LocalInv, Local, ShutdownInv, OnNotEmpty, OnNotFull, PushOps, PopOps, SpuriousWakeup, data
<1> QED BY <1>1, <1>2, <1>3, <1>4, <1>5 DEF IInv

LEMMA MoveInIInv == ASSUME IInv, NEW t \in Threads, MoveIn(t) PROVE IInv'
<1>0. /\ arg[t] \in Items
      /\ queue_' \in Seq(Items) /\ Len(queue_') = Len(queue_) + 1
      /\ queue_'[Len(queue_')] = arg[t]
  BY AppendProperties DEF IInv, TypeOK, LocalInv, Local, MoveIn
<1>1. TypeOK'
  BY <1>0 DEF IInv, TypeOK, PCs, MoveIn
<1>2. MutexInv'
  BY NobodyAssumption DEF IInv, TypeOK, MutexInv, Holding, MoveIn, data
<1>3. LocalInv'
  BY ItemsAssumption DEF IInv, TypeOK, MutexInv, LocalInv, Local, Holding, Waiting, PushOps, PopOps, MoveIn, data
<1>4. SizeInv'
  <2>1. \A u \in Threads : u # t => pc[u] \notin Holding
    BY DEF IInv, MutexInv, MoveIn, Holding
  <2>2. Len(queue_) < Capacity /\ ~shutdown_ /\ size_ = Len(queue_) /\ Len(queue_) \in Nat
    BY <2>1 DEF IInv, TypeOK, SizeInv, MoveIn, Holding
  <2>3. Len(queue_') <= Capacity
    BY <1>0, <2>2, CapacityAssumption
  <2>4. \A u \in Threads : pc'[u] \in Holding => u = t
    BY <2>1 DEF MoveIn, IInv, TypeOK
  <2>5. /\ pc'[t] = "count" /\ op'[t] \in PushOps /\ arg' = arg /\ size_' = size_
        /\ shutdown_' = shutdown_
    BY DEF MoveIn, IInv, TypeOK
  <2>6. op'[t] \notin PopOps
    BY <2>5 DEF PushOps, PopOps
  <2> QED BY <1>0, <2>2, <2>3, <2>4, <2>5, <2>6 DEF SizeInv, Holding
<1>5. ShutdownInv'
  BY DEF IInv, TypeOK, MutexInv, LocalInv, Local, ShutdownInv, OnNotEmpty, OnNotFull, PushOps, PopOps, MoveIn, data
<1> QED BY <1>1, <1>2, <1>3, <1>4, <1>5 DEF IInv

LEMMA MoveOutIInv == ASSUME IInv, NEW t \in Threads, MoveOut(t) PROVE IInv'
<1>0. /\ queue_ # <<>> /\ Head(queue_) \in Items
      /\ queue_' \in Seq(Items) /\ Len(queue_') = Len(queue_) - 1 /\ Len(queue_) \in Nat
  BY HeadTailProperties, EmptySeq DEF IInv, TypeOK, SizeInv, MoveOut
<1>1. TypeOK'
  BY <1>0 DEF IInv, TypeOK, PCs, MoveOut
<1>2. MutexInv'
  BY NobodyAssumption DEF IInv, TypeOK, MutexInv, Holding, MoveOut, data
<1>3. LocalInv'
  <2>1. item'[t] \in Items
    BY <1>0 DEF MoveOut, IInv, TypeOK
  <2> QED BY <2>1 DEF IInv, TypeOK, LocalInv, Local, Holding, MoveOut, PushOps, PopOps
<1>4. SizeInv'
  <2>1. \A u \in Threads : u # t => pc[u] \notin Holding
    BY DEF IInv, MutexInv, MoveOut, Holding
  <2>2. size_ = Len(queue_) /\ Len(queue_) <= Capacity
    BY <2>1 DEF IInv, TypeOK, SizeInv, MoveOut, Holding
  <2>3. Len(queue_') <= Capacity
    BY <1>0, <2>2, CapacityAssumption
  <2>4. \A u \in Threads : pc'[u] \in Holding => u = t
    BY <2>1 DEF MoveOut, IInv, TypeOK
  <2>5. pc'[t] = "count" /\ op'[t] \in PopOps /\ size_' = size_
    BY DEF MoveOut, IInv, TypeOK
  <2>6. op'[t] \notin PushOps
    BY <2>5 DEF PushOps, PopOps
  <2> QED BY <1>0, <2>2, <2>3, <2>4, <2>5, <2>6 DEF SizeInv, Holding
<1>5. ShutdownInv'
  BY DEF IInv, TypeOK, MutexInv, LocalInv, Local, ShutdownInv, OnNotEmpty, OnNotFull, PushOps, PopOps, MoveOut, data
<1> QED BY <1>1, <1>2, <1>3, <1>4, <1>5 DEF IInv

LEMMA CountInIInv == ASSUME IInv, NEW t \in Threads, CountIn(t) PROVE IInv'
<1>1. TypeOK'
  BY DEF IInv, TypeOK, PCs, Operations, PushOps, PopOps, Outcomes, CountIn, data, NotifyOne, OnNotEmpty
<1>2. MutexInv'
  BY NobodyAssumption DEF IInv, TypeOK, MutexInv, Holding, CountIn, data, NotifyOne, OnNotEmpty
<1>3. LocalInv'
  BY ItemsAssumption DEF IInv, TypeOK, MutexInv, LocalInv, Local, Holding, Waiting, PushOps, PopOps, CountIn, data, NotifyOne, OnNotEmpty
<1>4. SizeInv'
  BY DEF IInv, TypeOK, MutexInv, LocalInv, Local, SizeInv, Holding, Ready, PushOps, PopOps, CountIn, data, NotifyOne, OnNotEmpty
<1>5. ShutdownInv'
  BY DEF IInv, TypeOK, MutexInv, LocalInv, Local, ShutdownInv, OnNotEmpty, OnNotFull, PushOps, PopOps, CountIn, data, NotifyOne, OnNotEmpty
<1> QED BY <1>1, <1>2, <1>3, <1>4, <1>5 DEF IInv

LEMMA CountOutIInv == ASSUME IInv, NEW t \in Threads, CountOut(t) PROVE IInv'
<1>0. /\ item[t] \in Items /\ item[t] # "pending"
      /\ size_ \in Nat /\ Len(queue_) \in Nat /\ size_ = Len(queue_) + 1
  BY ItemsAssumption DEF IInv, TypeOK, LocalInv, Local, SizeInv, CountOut, Outcomes
<1>1. TypeOK'
  BY <1>0 DEF IInv, TypeOK, PCs, CountOut, NotifyOne, OnNotFull
<1>2. MutexInv'
  BY NobodyAssumption DEF IInv, TypeOK, MutexInv, Holding, CountOut, data, NotifyOne, OnNotFull
<1>3. LocalInv'
  <2>1. /\ pc[t] = "count" /\ op[t] \in PopOps
        /\ result' = [result EXCEPT ![t] = item[t]]
        /\ UNCHANGED <<op, arg, item, expired>>
        /\ \/ pc' = [pc EXCEPT ![t] = "leave"]
           \/ \E w \in OnNotFull : pc' = [pc EXCEPT ![t] = "leave", ![w] = "wake"]
    BY DEF CountOut, NotifyOne
  <2>2. \A w \in OnNotFull : w \in Threads /\ w # t /\ pc[w] = "wait" /\ op[w] \in PushOps
    BY <2>1 DEF OnNotFull
  <2>3. CASE pc' = [pc EXCEPT ![t] = "leave"]
    BY <1>0, <2>1, <2>3 DEF IInv, TypeOK, LocalInv, Local, Waiting, PushOps, PopOps
  <2>4. ASSUME NEW w \in OnNotFull, pc' = [pc EXCEPT ![t] = "leave", ![w] = "wake"]
        PROVE  LocalInv'
    <3>1. w \in Threads /\ w # t /\ pc[w] = "wait" /\ op[w] \in PushOps
      BY <2>2
    <3>2. pc \in [Threads -> PCs] /\ result \in [Threads -> Items \cup Outcomes]
      BY DEF IInv, TypeOK
    <3>3. /\ pc'[t] = "leave" /\ pc'[w] = "wake" /\ result'[t] # "pending"
          /\ \A u \in Threads \ {t} : result'[u] = result[u]
          /\ \A u \in Threads \ {t, w} : pc'[u] = pc[u]
      BY <1>0, <2>1, <2>4, <3>1, <3>2
    <3>4. Local(t) /\ Local(w) /\ \A u \in Threads : Local(u)
      BY <3>1 DEF IInv, LocalInv
    <3>5. Local(t)'
      BY <2>1, <3>3, <3>4 DEF Local, Waiting, PushOps, PopOps
    <3>6. Local(w)'
      BY <2>1, <3>1, <3>3, <3>4 DEF Local, Waiting, PushOps, PopOps
    <3>7. \A u \in Threads \ {t, w} : Local(u)'
      BY <2>1, <3>3, <3>4 DEF Local
    <3> QED BY <3>5, <3>6, <3>7 DEF LocalInv
  <2> QED BY <2>1, <2>3, <2>4
<1>4. SizeInv'
  BY DEF IInv, TypeOK, MutexInv, LocalInv, Local, SizeInv, Holding, Ready, PushOps, PopOps, CountOut, data, NotifyOne, OnNotFull
<1>5. ShutdownInv'
  <2>1. \A u \in Threads : pc[u] \in {"notify1", "notify2"} => pc'[u] = pc[u]
    BY DEF IInv, TypeOK, CountOut, NotifyOne, OnNotFull
  <2>2. OnNotEmpty' \subseteq OnNotEmpty /\ OnNotFull' \subseteq OnNotFull
    BY DEF IInv, TypeOK, CountOut, NotifyOne, OnNotEmpty, OnNotFull
  <2>3. shutdown_' = shutdown_
    BY DEF CountOut
  <2> QED BY <2>1, <2>2, <2>3 DEF IInv, ShutdownInv
<1> QED BY <1>1, <1>2, <1>3, <1>4, <1>5 DEF IInv

LEMMA ReturnIInv == ASSUME IInv, NEW t \in Threads, Return(t) PROVE IInv'
<1>1. TypeOK'
  BY DEF IInv, TypeOK, PCs, Operations, PushOps, PopOps, Outcomes, Return, data, Exit
<1>2. MutexInv'
  BY NobodyAssumption DEF IInv, TypeOK, MutexInv, Holding, Return, data, Exit
<1>3. LocalInv'
  BY ItemsAssumption DEF IInv, TypeOK, MutexInv, LocalInv, Local, Holding, Waiting, PushOps, PopOps, Return, data, Exit
<1>4. SizeInv'
  BY DEF IInv, TypeOK, MutexInv, LocalInv, Local, SizeInv, Holding, Ready, PushOps, PopOps, Return, data, Exit
<1>5. ShutdownInv'
  BY DEF IInv, TypeOK, MutexInv, LocalInv, Local, ShutdownInv, OnNotEmpty, OnNotFull, PushOps, PopOps, Return, data, Exit
<1> QED BY <1>1, <1>2, <1>3, <1>4, <1>5 DEF IInv

LEMMA SetFlagIInv == ASSUME IInv, NEW t \in Threads, SetFlag(t) PROVE IInv'
<1>1. TypeOK'
  BY DEF IInv, TypeOK, PCs, Operations, PushOps, PopOps, Outcomes, SetFlag, data
<1>2. MutexInv'
  BY NobodyAssumption DEF IInv, TypeOK, MutexInv, Holding, SetFlag, data
<1>3. LocalInv'
  BY ItemsAssumption DEF IInv, TypeOK, MutexInv, LocalInv, Local, Holding, Waiting, PushOps, PopOps, SetFlag, data
<1>4. SizeInv'
  BY DEF IInv, TypeOK, MutexInv, LocalInv, Local, SizeInv, Holding, Ready, PushOps, PopOps, SetFlag, data
<1>5. ShutdownInv'
  BY DEF IInv, TypeOK, MutexInv, LocalInv, Local, ShutdownInv, OnNotEmpty, OnNotFull, PushOps, PopOps, SetFlag, data
<1> QED BY <1>1, <1>2, <1>3, <1>4, <1>5 DEF IInv

LEMMA NotifyConsumersIInv == ASSUME IInv, NEW t \in Threads, NotifyConsumers(t) PROVE IInv'
<1>1. TypeOK'
  BY DEF IInv, TypeOK, PCs, Operations, PushOps, PopOps, Outcomes, NotifyConsumers, data, NotifyAll, OnNotEmpty
<1>2. MutexInv'
  BY NobodyAssumption DEF IInv, TypeOK, MutexInv, Holding, NotifyConsumers, data, NotifyAll, OnNotEmpty
<1>3. LocalInv'
  BY ItemsAssumption DEF IInv, TypeOK, MutexInv, LocalInv, Local, Holding, Waiting, PushOps, PopOps, NotifyConsumers, data, NotifyAll, OnNotEmpty
<1>4. SizeInv'
  BY DEF IInv, TypeOK, MutexInv, LocalInv, Local, SizeInv, Holding, Ready, PushOps, PopOps, NotifyConsumers, data, NotifyAll, OnNotEmpty
<1>5. ShutdownInv'
  BY DEF IInv, TypeOK, MutexInv, LocalInv, Local, ShutdownInv, OnNotEmpty, OnNotFull, PushOps, PopOps, NotifyConsumers, data, NotifyAll, OnNotEmpty
<1> QED BY <1>1, <1>2, <1>3, <1>4, <1>5 DEF IInv

LEMMA NotifyProducersIInv == ASSUME IInv, NEW t \in Threads, NotifyProducers(t) PROVE IInv'
<1>1. TypeOK'
  BY DEF IInv, TypeOK, PCs, Operations, PushOps, PopOps, Outcomes, NotifyProducers, data, NotifyAll, OnNotFull
<1>2. MutexInv'
  BY NobodyAssumption DEF IInv, TypeOK, MutexInv, Holding, NotifyProducers, data, NotifyAll, OnNotFull
<1>3. LocalInv'
  BY ItemsAssumption DEF IInv, TypeOK, MutexInv, LocalInv, Local, Holding, Waiting, PushOps, PopOps, NotifyProducers, data, NotifyAll, OnNotFull
<1>4. SizeInv'
  BY DEF IInv, TypeOK, MutexInv, LocalInv, Local, SizeInv, Holding, Ready, PushOps, PopOps, NotifyProducers, data, NotifyAll, OnNotFull
<1>5. ShutdownInv'
  BY DEF IInv, TypeOK, MutexInv, LocalInv, Local, ShutdownInv, OnNotEmpty, OnNotFull, PushOps, PopOps, NotifyProducers, data, NotifyAll, OnNotFull
<1> QED BY <1>1, <1>2, <1>3, <1>4, <1>5 DEF IInv

-----------------------------------------------------------------------------
LEMMA InitIInv == Init => IInv
<1> SUFFICES ASSUME Init PROVE IInv
  OBVIOUS
<1>1. TypeOK
  <2>1. queue_ \in Seq(Items)
    BY EmptySeq DEF Init
  <2>2. /\ pc \in [Threads -> PCs] /\ op \in [Threads -> Operations \cup {"none"}]
        /\ result \in [Threads -> Items \cup Outcomes]
    BY DEF Init, PCs, Outcomes
  <2> QED BY <2>1, <2>2 DEF Init, TypeOK
<1>2. MutexInv
  BY NobodyAssumption DEF Init, MutexInv, Holding
<1>3. LocalInv
  BY DEF Init, LocalInv, Local, PushOps, PopOps
<1>4. SizeInv
  BY CapacityAssumption DEF Init, SizeInv
<1>5. ShutdownInv
  BY DEF Init, ShutdownInv
<1> QED BY <1>1, <1>2, <1>3, <1>4, <1>5 DEF IInv

LEMMA NextIInv == IInv /\ [Next]_vars => IInv'
<1>1. IInv /\ UNCHANGED vars => IInv'
  BY DEF IInv, TypeOK, MutexInv, LocalInv, Local, SizeInv, ShutdownInv, Ready, OnNotEmpty,
         OnNotFull, vars
<1>2. ASSUME IInv, NEW t \in Threads, Step(t) PROVE IInv'
  BY <1>2, EmptyIInv, EnterIInv, BlockIInv, GiveUpIInv, WaitIInv, MoveInIInv, MoveOutIInv,
     CountInIInv, CountOutIInv, ReturnIInv, SetFlagIInv, NotifyConsumersIInv,
     NotifyProducersIInv DEF Step
<1> QED BY <1>1, <1>2, CallIInv, AcquireIInv, ExpireIInv, TimeOutIInv, SpuriousWakeupIInv DEF Next

LEMMA Invariance == Spec => []IInv
  BY InitIInv, NextIInv, PTL DEF Spec

\* Every variable keeps its type; in particular size_, an unsigned counter in
\* the code, never goes below zero.
THEOREM TypeCorrect == Spec => []TypeOK
<1>1. IInv => TypeOK
  BY DEF IInv
<1> QED BY <1>1, Invariance, PTL

\* The deque never holds more than max_size_ items and size_ is its length up
\* to the one operation inside the lock.
THEOREM BoundedHolds == Spec => []Bounded
<1>1. IInv => Bounded
  <2> SUFFICES ASSUME IInv PROVE Bounded
    OBVIOUS
  <2>1. Len(queue_) <= Capacity /\ Len(queue_) \in Nat /\ size_ \in Nat
    BY DEF IInv, SizeInv, TypeOK
  <2>2. \A t, u \in Threads : pc[t] = "count" /\ pc[u] = "count" => t = u
    BY DEF IInv, MutexInv, Holding
  <2>3. CASE \E t \in Threads : pc[t] = "count" /\ op[t] \in PushOps
    BY <2>1, <2>2, <2>3 DEF IInv, SizeInv, Bounded, PushOps, PopOps
  <2>4. CASE \E t \in Threads : pc[t] = "count" /\ op[t] \in PopOps
    BY <2>1, <2>2, <2>4 DEF IInv, SizeInv, Bounded, PushOps, PopOps
  <2>5. CASE \A t \in Threads : pc[t] # "count"
    BY <2>1, <2>5 DEF IInv, SizeInv, Bounded
  <2>6. \A t \in Threads : pc[t] = "count" => op[t] \in PushOps \cup PopOps
    BY DEF IInv, LocalInv, Local
  <2> QED BY <2>3, <2>4, <2>5, <2>6
<1> QED BY <1>1, Invariance, PTL

\* After the last shutdown() has returned no thread waits or is about to.
THEOREM NobodyWaits == Spec => []NobodyWaitsAfterShutdown
<1>1. IInv => NobodyWaitsAfterShutdown
  <2> SUFFICES ASSUME IInv, shutdown_, \A t \in Threads : op[t] # "shutdown",
                      NEW t \in Threads
               PROVE  pc[t] \notin {"block", "wait"}
    BY DEF NobodyWaitsAfterShutdown
  <2>1. \A u \in Threads : pc[u] \notin {"notify1", "notify2"}
    BY DEF IInv, LocalInv, Local
  <2>2. pc[t] # "wait"
    BY <2>1 DEF IInv, ShutdownInv, OnNotEmpty, OnNotFull, LocalInv, Local, Waiting, PushOps, PopOps
  <2>3. pc[t] # "block"
    BY DEF IInv, SizeInv, Ready
  <2> QED BY <2>2, <2>3
<1> QED BY <1>1, Invariance, PTL

-----------------------------------------------------------------------------
(* Refinement.  Visible is what the callers can tell of the deque; the     *)
(* step that changes size_ is the one at which an operation takes effect.  *)

Calm == \A t \in Threads : pc[t] # "count"

VisibleOK ==
    /\ Visible \in Seq(Items)
    /\ size_ = Len(Visible)
    /\ Calm => Visible = queue_
    /\ \A t \in Threads :
         pc[t] = "count" /\ op[t] \in PushOps => queue_ = Append(Visible, arg[t])
    /\ \A t \in Threads :
         pc[t] = "count" /\ op[t] \in PopOps =>
             Visible # <<>> /\ Head(Visible) = item[t] /\ Tail(Visible) = queue_

\* Taking away the last element and putting it back.
LEMMA FrontAppend ==
    ASSUME NEW S, NEW s \in Seq(S), Len(s) # 0
    PROVE  /\ SubSeq(s, 1, Len(s) - 1) \in Seq(S)
           /\ Len(SubSeq(s, 1, Len(s) - 1)) = Len(s) - 1
           /\ s = Append(SubSeq(s, 1, Len(s) - 1), s[Len(s)])
<1>1. Len(s) \in Nat \ {0} /\ \A i \in 1 .. Len(s) - 1 : s[i] \in S
  BY LenProperties, ElementOfSeq
<1>2. s[Len(s)] \in S
  BY <1>1, ElementOfSeq
<1> DEFINE f == SubSeq(s, 1, Len(s) - 1)
<1>3. f \in Seq(S) /\ Len(f) = Len(s) - 1 /\ \A i \in 1 .. Len(s) - 1 : f[i] = s[i]
  <2> DEFINE m == Len(s) - 1
  <2>1. m \in Int /\ 1 \in Int /\ \A i \in 1 .. m : s[i] \in S
    BY <1>1
  <2>2. /\ SubSeq(s, 1, m) \in Seq(S) /\ Len(SubSeq(s, 1, m)) = IF 1 <= m THEN m - 1 + 1 ELSE 0
        /\ \A i \in 1 .. m - 1 + 1 : SubSeq(s, 1, m)[i] = s[1 + i - 1]
    <3> HIDE DEF m
    <3> QED BY <2>1, SubSeqProperties
  <2>3. m \in Nat /\ \A i \in 1 .. m : 1 + i - 1 = i /\ i \in 1 .. m - 1 + 1
    BY <1>1
  <2> HIDE DEF m
  <2>4. Len(SubSeq(s, 1, m)) = m
    <3>1. CASE 1 <= m
      BY <2>2, <2>3, <3>1
    <3>2. CASE m = 0
      BY <2>2, <3>2
    <3> QED BY <2>3, <3>1, <3>2
  <2>5. \A i \in 1 .. m : SubSeq(s, 1, m)[i] = s[i]
    BY <2>2, <2>3
  <2> QED BY <2>2, <2>4, <2>5 DEF m
<1> HIDE DEF f
<1>4. /\ Append(f, s[Len(s)]) \in Seq(S) /\ Len(Append(f, s[Len(s)])) = Len(s)
      /\ \A i \in 1 .. Len(s) : Append(f, s[Len(s)])[i] = s[i]
  BY <1>1, <1>2, <1>3, AppendProperties
<1>5. s = Append(f, s[Len(s)])
  BY <1>4, SeqEqual
<1> QED BY <1>3, <1>5 DEF f

LEMMA HeadConcat ==
    ASSUME NEW S, NEW s \in Seq(S), NEW e \in S
    PROVE  /\ <<e>> \o s \in Seq(S) /\ Len(<<e>> \o s) = Len(s) + 1
           /\ <<e>> \o s # <<>> /\ Head(<<e>> \o s) = e /\ Tail(<<e>> \o s) = s
<1>1. <<e>> \in Seq(S) /\ Len(<<e>>) = 1 /\ <<e>>[1] = e
  OBVIOUS
<1> DEFINE q == <<e>> \o s
<1>2. /\ q \in Seq(S) /\ Len(q) = Len(s) + 1 /\ q[1] = e
      /\ \A i \in 1 .. Len(s) : q[i + 1] = s[i]
  BY <1>1, ConcatProperties, LenProperties
<1> HIDE DEF q
<1>3. q # <<>>
  BY <1>2, LenProperties, EmptySeq
<1>4. Tail(q) = s
  BY <1>2, <1>3, HeadTailProperties, LenProperties, SeqEqual
<1> QED BY <1>2, <1>3, <1>4 DEF q

LEMMA SameHeadTail ==
    ASSUME NEW S, NEW r \in Seq(S), NEW s \in Seq(S), r # <<>>, s # <<>>,
           Head(r) = Head(s), Tail(r) = Tail(s)
    PROVE  r = s
<1>1. Len(r) \in Nat \ {0} /\ Len(s) \in Nat \ {0}
  BY EmptySeq
<1>2. Len(r) = Len(s)
  BY <1>1, HeadTailProperties
<1>3. r[1] = s[1]
  BY <1>1
<1>4. ASSUME NEW i \in 2 .. Len(r) PROVE r[i] = s[i]
  <2>1. Len(Tail(r)) = Len(r) - 1 /\ \A j \in 1 .. Len(Tail(r)) : Tail(r)[j] = r[j + 1]
    BY HeadTailProperties
  <2>2. Len(Tail(s)) = Len(s) - 1 /\ \A j \in 1 .. Len(Tail(s)) : Tail(s)[j] = s[j + 1]
    BY HeadTailProperties
  <2>3. i - 1 \in 1 .. Len(r) - 1 /\ (i - 1) + 1 = i
    BY <1>1
  <2> QED BY <1>2, <2>1, <2>2, <2>3
<1>5. \A i \in 1 .. Len(r) : r[i] = s[i]
  BY <1>1, <1>3, <1>4
<1> QED BY <1>2, <1>5, SeqEqual

LEMMA VisibleFacts == IInv => VisibleOK
<1> SUFFICES ASSUME IInv PROVE VisibleOK
  OBVIOUS
<1>1. queue_ \in Seq(Items) /\ Len(queue_) \in Nat
  BY DEF IInv, TypeOK
<1>2. \A t, u \in Threads : pc[t] = "count" /\ pc[u] = "count" => t = u
  BY DEF IInv, MutexInv, Holding
<1>3. CASE Calm
  <2>1. Visible = queue_
    BY <1>3 DEF Visible, Counting, Calm
  <2> QED BY <1>1, <1>3, <2>1 DEF VisibleOK, Calm, IInv, SizeInv
<1>4. ASSUME NEW t \in Threads, pc[t] = "count", op[t] \in PushOps
      PROVE  VisibleOK
  <2>1. mutex_ = t /\ t \in Counting(Operations) /\ t # Nobody
    BY <1>4, NobodyAssumption DEF IInv, MutexInv, Holding, Counting, Operations
  <2>2. Visible = SubSeq(queue_, 1, Len(queue_) - 1)
    BY <1>4, <2>1 DEF Visible
  <2>3. size_ + 1 = Len(queue_) /\ queue_[Len(queue_)] = arg[t] /\ size_ \in Nat
    BY <1>4 DEF IInv, SizeInv, TypeOK
  <2>4. Visible \in Seq(Items) /\ Len(Visible) = size_ /\ queue_ = Append(Visible, arg[t])
    BY <1>1, <2>2, <2>3, FrontAppend
  <2>5. \A u \in Threads : pc[u] = "count" => u = t
    BY <1>2, <1>4
  <2>6. op[t] \notin PopOps
    BY <1>4 DEF PushOps, PopOps
  <2> QED BY <1>4, <2>4, <2>5, <2>6 DEF VisibleOK, Calm
<1>5. ASSUME NEW t \in Threads, pc[t] = "count", op[t] \in PopOps
      PROVE  VisibleOK
  <2>1. mutex_ = t /\ t \in Counting(Operations) /\ t # Nobody
    BY <1>5, NobodyAssumption DEF IInv, MutexInv, Holding, Counting, Operations
  <2>2. op[t] \notin PushOps
    BY <1>5 DEF PushOps, PopOps
  <2>3. Visible = <<item[t]>> \o queue_
    BY <2>1, <2>2 DEF Visible
  <2>4. item[t] \in Items /\ size_ = Len(queue_) + 1
    BY <1>5 DEF IInv, LocalInv, Local, SizeInv
  <2>5. /\ Visible \in Seq(Items) /\ Len(Visible) = size_ /\ Visible # <<>>
        /\ Head(Visible) = item[t] /\ Tail(Visible) = queue_
    BY <1>1, <2>3, <2>4, HeadConcat
  <2>6. \A u \in Threads : pc[u] = "count" => u = t
    BY <1>2, <1>5
  <2> QED BY <1>5, <2>2, <2>5, <2>6 DEF VisibleOK, Calm
<1>6. \A t \in Threads : pc[t] = "count" => op[t] \in PushOps \cup PopOps
  BY DEF IInv, LocalInv, Local
<1> QED BY <1>3, <1>4, <1>5, <1>6 DEF Calm

\* A step that leaves the deque alone and in which nobody enters or leaves the
\* point between queue_ and size_ is invisible.
LEMMA VisibleFrame ==
    ASSUME IInv, IInv', UNCHANGED <<queue_, item>>,
           \A t \in Threads : /\ pc'[t] = "count" <=> pc[t] = "count"
                              /\ pc[t] = "count" => op'[t] = op[t]
    PROVE  Visible' = Visible
<1>1. CASE Calm
  <2>1. Calm'
    BY <1>1 DEF Calm
  <2>2. VisibleOK /\ VisibleOK'
    BY VisibleFacts, PTL
  <2> QED BY <1>1, <2>1, <2>2 DEF VisibleOK
<1>2. ASSUME NEW t \in Threads, pc[t] = "count" PROVE Visible' = Visible
  <2>1. mutex_ = t /\ mutex_' = t
    BY <1>2 DEF IInv, MutexInv, Holding
  <2>2. op'[t] = op[t] /\ op[t] \in Operations
    BY <1>2 DEF IInv, LocalInv, Local, Operations
  <2> QED BY <1>2, <2>1, <2>2, NobodyAssumption DEF Visible, Counting
<1> QED BY <1>1, <1>2 DEF Calm

LEMMA InitRefines == Init => Abstract!Init
<1> SUFFICES ASSUME Init PROVE Abstract!Init
  OBVIOUS
<1>1. Visible = <<>>
  BY DEF Init, Visible
<1> QED BY <1>1 DEF Init, Abstract!Init

LEMMA CallRefines ==
    ASSUME IInv, IInv', NEW t \in Threads, Call(t) PROVE Abstract!Next
<1>1. Visible' = Visible
  <2>1. \A u \in Threads : /\ pc'[u] = "count" <=> pc[u] = "count"
                           /\ pc[u] = "count" => op'[u] = op[u]
    BY DEF Call, IInv, TypeOK
  <2> QED BY <2>1, VisibleFrame DEF Call, data
<1>2. op[t] = "none"
  BY DEF Call, IInv, LocalInv, Local
<1>3. Abstract!Invoke(t)
  BY <1>1, <1>2 DEF Call, Abstract!Invoke, Abstract!PushOps, PushOps, data
<1> QED BY <1>3 DEF Abstract!Next

LEMMA EmptyRefines ==
    ASSUME IInv, IInv', NEW t \in Threads, Empty(t) PROVE Abstract!Next
<1>1. Visible' = Visible
  <2>1. \A u \in Threads : /\ pc'[u] = "count" <=> pc[u] = "count"
                           /\ pc[u] = "count" => op'[u] = op[u]
    BY DEF Empty, IInv, TypeOK
  <2> QED BY <2>1, VisibleFrame DEF Empty, data
<1>2. size_ = 0 <=> Visible = <<>>
  BY VisibleFacts, EmptySeq DEF VisibleOK
<1>3. result[t] = "pending"
  BY DEF Empty, IInv, LocalInv, Local
<1>4. Abstract!AskEmpty(t)
  BY <1>1, <1>2, <1>3 DEF Empty, Abstract!AskEmpty, Abstract!Finish, data
<1> QED BY <1>4 DEF Abstract!Next, Abstract!TakeEffect

\* Inside the lock and outside the point between queue_ and size_.
LEMMA InsideVisible ==
    ASSUME IInv, NEW t \in Threads, pc[t] \in Holding \ {"count"}
    PROVE  Visible = queue_
<1>1. Calm
  BY DEF IInv, MutexInv, Holding, Calm
<1> QED BY <1>1, VisibleFacts DEF VisibleOK

LEMMA GiveUpRefines ==
    ASSUME IInv, IInv', NEW t \in Threads, GiveUp(t) PROVE Abstract!Next
<1>1. Visible' = Visible
  <2>1. \A u \in Threads : /\ pc'[u] = "count" <=> pc[u] = "count"
                           /\ pc[u] = "count" => op'[u] = op[u]
    BY DEF GiveUp, IInv, TypeOK
  <2> QED BY <2>1, VisibleFrame DEF GiveUp, data
<1>2. Visible = queue_
  BY InsideVisible DEF GiveUp, Holding
<1>3. result[t] = "pending"
  BY DEF GiveUp, IInv, LocalInv, Local
<1>4. CASE op[t] \in PushOps
  <2>1. op[t] \notin PopOps
    BY <1>4 DEF PushOps, PopOps
  <2>2. op[t] = "tryPush" /\ ~Ready(t) => Len(queue_) = Capacity
    BY <1>4, CapacityAssumption DEF Ready, IInv, SizeInv, TypeOK
  <2>3. Abstract!Refuse(t)
    BY <1>1, <1>2, <1>3, <1>4, <2>1, <2>2
    DEF GiveUp, Abstract!Refuse, Abstract!Finish, Abstract!PushOps, PushOps, data
  <2> QED BY <2>3 DEF Abstract!Next, Abstract!TakeEffect
<1>5. CASE op[t] \in PopOps
  <2>1. op[t] \notin PushOps
    BY <1>5 DEF PushOps, PopOps
  <2>2. pc[t] = "last" => op[t] = "popWithTimeout"
    BY DEF IInv, LocalInv, Local
  <2>3. Abstract!TakeNothing(t)
    BY <1>1, <1>2, <1>3, <1>5, <2>1, <2>2
    DEF GiveUp, Abstract!TakeNothing, Abstract!Finish, Abstract!PopOps, PopOps, data
  <2> QED BY <2>3 DEF Abstract!Next, Abstract!TakeEffect
<1> QED BY <1>4, <1>5 DEF GiveUp

\* Nothing an observer could see: the threads moving between program points.
LEMMA InvisibleRefines ==
    ASSUME IInv, IInv', NEW t \in Threads,
           \/ Acquire(t) \/ Expire(t) \/ TimeOut(t) \/ SpuriousWakeup(t) \/ Enter(t)
           \/ Block(t) \/ Wait(t) \/ NotifyConsumers(t) \/ NotifyProducers(t)
    PROVE  UNCHANGED Abstract!vars
<1>1. \A u \in Threads : pc'[u] = "count" <=> pc[u] = "count"
  BY DEF IInv, TypeOK, Acquire, Expire, TimeOut, SpuriousWakeup, Enter, Block, Wait,
         NotifyConsumers, NotifyProducers, NotifyAll, OnNotEmpty, OnNotFull
<1>2. UNCHANGED <<queue_, item, op, arg, result, shutdown_>>
  BY DEF Acquire, Expire, TimeOut, SpuriousWakeup, Enter, Block, Wait,
         NotifyConsumers, NotifyProducers, data
<1>3. Visible' = Visible
  BY <1>1, <1>2, VisibleFrame
<1> QED BY <1>2, <1>3 DEF Abstract!vars

LEMMA MoveRefines ==
    ASSUME IInv, IInv', NEW t \in Threads, MoveIn(t) \/ MoveOut(t)
    PROVE  UNCHANGED Abstract!vars
<1>1. Visible = queue_ /\ VisibleOK'
  <2>1. pc[t] = "move"
    BY DEF MoveIn, MoveOut
  <2>2. VisibleOK'
    BY VisibleFacts, PTL
  <2> QED BY <2>1, <2>2, InsideVisible DEF Holding
<1>2. UNCHANGED <<op, arg, result, shutdown_>>
  BY DEF MoveIn, MoveOut
<1>3. pc'[t] = "count"
  BY DEF MoveIn, MoveOut, IInv, TypeOK
<1>4. CASE MoveIn(t)
  <2>1. queue_' = Append(Visible', arg'[t]) /\ queue_' = Append(queue_, arg[t])
    BY <1>1, <1>2, <1>3, <1>4 DEF MoveIn, VisibleOK
  <2>2. Visible' \in Seq(Items) /\ queue_ \in Seq(Items) /\ arg[t] \in Items
    BY <1>1, <1>4 DEF VisibleOK, MoveIn, IInv, TypeOK, LocalInv, Local
  <2>3. Visible' = queue_
    <3> DEFINE r == Visible'
    <3> HIDE DEF r
    <3>1. r \in Seq(Items) /\ Append(r, arg[t]) = Append(queue_, arg[t])
      BY <1>2, <2>1, <2>2 DEF r
    <3>2. r = queue_
      BY <2>2, <3>1, AppendInjective
    <3> QED BY <3>2 DEF r
  <2> QED BY <1>1, <1>2, <2>3 DEF Abstract!vars
<1>5. CASE MoveOut(t)
  <2>1. /\ Visible' # <<>> /\ Head(Visible') = item'[t] /\ Tail(Visible') = queue_'
        /\ Visible' \in Seq(Items)
    BY <1>1, <1>2, <1>3, <1>5 DEF MoveOut, VisibleOK
  <2>2. /\ queue_ # <<>> /\ Head(queue_) = item'[t] /\ Tail(queue_) = queue_'
        /\ queue_ \in Seq(Items)
    BY <1>5 DEF MoveOut, IInv, TypeOK, SizeInv
  <2>3. Visible' = queue_
    <3> DEFINE r == Visible'
    <3> HIDE DEF r
    <3>1. /\ r \in Seq(Items) /\ r # <<>>
          /\ Head(r) = Head(queue_) /\ Tail(r) = Tail(queue_)
      BY <2>1, <2>2 DEF r
    <3>2. r = queue_
      BY <2>2, <3>1, SameHeadTail
    <3> QED BY <3>2 DEF r
  <2> QED BY <1>1, <1>2, <2>3 DEF Abstract!vars
<1> QED BY <1>4, <1>5

LEMMA CountInRefines ==
    ASSUME IInv, IInv', NEW t \in Threads, CountIn(t) PROVE Abstract!Next
<1>1. Calm'
  <2>1. \A u \in Threads : u # t => pc[u] # "count"
    BY DEF CountIn, IInv, MutexInv, Holding
  <2> QED BY <2>1 DEF Calm, CountIn, NotifyOne, OnNotEmpty, IInv, TypeOK
<1>2. Visible' = queue_ /\ queue_ = Append(Visible, arg[t]) /\ Visible \in Seq(Items)
      /\ size_ = Len(Visible)
  <2>1. VisibleOK /\ VisibleOK'
    BY VisibleFacts, PTL
  <2> QED BY <1>1, <2>1 DEF VisibleOK, CountIn
<1>3. Len(Visible) < Capacity /\ ~shutdown_ /\ result[t] = "pending"
  BY <1>2, CapacityAssumption DEF IInv, TypeOK, SizeInv, LocalInv, Local, CountIn
<1>4. Abstract!Accept(t)
  BY <1>2, <1>3 DEF CountIn, Abstract!Accept, Abstract!Finish, Abstract!PushOps, PushOps
<1> QED BY <1>4 DEF Abstract!Next, Abstract!TakeEffect

LEMMA CountOutRefines ==
    ASSUME IInv, IInv', NEW t \in Threads, CountOut(t) PROVE Abstract!Next
<1>1. Calm'
  <2>1. \A u \in Threads : u # t => pc[u] # "count"
    BY DEF CountOut, IInv, MutexInv, Holding
  <2> QED BY <2>1 DEF Calm, CountOut, NotifyOne, OnNotFull, IInv, TypeOK
<1>2. Visible' = queue_ /\ Visible # <<>> /\ Head(Visible) = item[t] /\ Tail(Visible) = queue_
  <2>1. VisibleOK /\ VisibleOK'
    BY VisibleFacts, PTL
  <2> QED BY <1>1, <2>1 DEF VisibleOK, CountOut
<1>3. result[t] = "pending"
  BY DEF IInv, LocalInv, Local, CountOut
<1>4. Abstract!Take(t)
  BY <1>2, <1>3 DEF CountOut, Abstract!Take, Abstract!Finish, Abstract!PopOps, PopOps
<1> QED BY <1>4 DEF Abstract!Next, Abstract!TakeEffect

LEMMA SetFlagRefines ==
    ASSUME IInv, IInv', NEW t \in Threads, SetFlag(t) PROVE Abstract!Next
<1>1. Visible' = Visible
  <2>1. \A u \in Threads : /\ pc'[u] = "count" <=> pc[u] = "count"
                           /\ pc[u] = "count" => op'[u] = op[u]
    BY DEF SetFlag, IInv, TypeOK
  <2> QED BY <2>1, VisibleFrame DEF SetFlag
<1>2. result[t] = "pending"
  BY DEF SetFlag, IInv, LocalInv, Local
<1>3. Abstract!Close(t)
  BY <1>1, <1>2 DEF SetFlag, Abstract!Close, Abstract!Finish
<1> QED BY <1>3 DEF Abstract!Next, Abstract!TakeEffect

LEMMA ReturnRefines ==
    ASSUME IInv, IInv', NEW t \in Threads, Return(t) PROVE Abstract!Next
<1>1. Visible' = Visible
  <2>1. \A u \in Threads : /\ pc'[u] = "count" <=> pc[u] = "count"
                           /\ pc[u] = "count" => op'[u] = op[u] /\ item'[u] = item[u]
    BY DEF Return, Exit, IInv, TypeOK
  <2>2. queue_' = queue_
    BY DEF Return, Exit, data
  <2>3. CASE Calm
    <3>1. Calm'
      BY <2>1, <2>3 DEF Calm
    <3>2. VisibleOK /\ VisibleOK'
      BY VisibleFacts, PTL
    <3> QED BY <2>2, <2>3, <3>1, <3>2 DEF VisibleOK
  <2>4. ASSUME NEW u \in Threads, pc[u] = "count" PROVE Visible' = Visible
    <3>1. mutex_ = u /\ mutex_' = u /\ pc'[u] = "count"
      BY <2>1, <2>4 DEF IInv, MutexInv, Holding
    <3>2. op'[u] = op[u] /\ op[u] \in Operations /\ item'[u] = item[u]
      BY <2>1, <2>4 DEF IInv, LocalInv, Local, Operations
    <3> QED BY <2>2, <2>4, <3>1, <3>2, NobodyAssumption DEF Visible, Counting
  <2> QED BY <2>3, <2>4 DEF Calm
<1>2. op[t] # "none" /\ result[t] # "pending"
  BY DEF Return, IInv, LocalInv, Local
<1>3. Abstract!Return(t)
  BY <1>1, <1>2 DEF Return, Exit, Abstract!Return, data
<1> QED BY <1>3 DEF Abstract!Next

LEMMA NextRefines == IInv /\ IInv' /\ [Next]_vars => [Abstract!Next]_(Abstract!vars)
<1> SUFFICES ASSUME IInv, IInv', [Next]_vars PROVE [Abstract!Next]_(Abstract!vars)
  OBVIOUS
<1>1. CASE UNCHANGED vars
  <2>1. Visible' = Visible
    BY <1>1, VisibleFrame DEF vars
  <2> QED BY <1>1, <2>1 DEF vars, Abstract!vars
<1>2. ASSUME NEW t \in Threads, Step(t) PROVE [Abstract!Next]_(Abstract!vars)
  BY <1>2, EmptyRefines, GiveUpRefines, InvisibleRefines, MoveRefines, CountInRefines,
     CountOutRefines, SetFlagRefines, ReturnRefines DEF Step
<1> QED BY <1>1, <1>2, CallRefines, InvisibleRefines DEF Next

\* The mutex, the two condition variables, the deque and the separate counter
\* together implement the bounded queue the rest of the program relies on.
THEOREM Refinement == Spec => ImplementsBoundedQueue
  BY Invariance, InitRefines, NextRefines, PTL DEF Spec, ImplementsBoundedQueue, Abstract!Spec

=============================================================================
