-------------------- MODULE ThreadSafeQueueWakeups_proofs --------------------
(***************************************************************************)
(* No wakeup of ThreadSafeQueue is lost, for any finite set of threads.    *)
(* NoStrandedItem and NoStrandedRoom are inductive beside the invariant of *)
(* ThreadSafeQueue_proofs.  They compare the queue with numbers of         *)
(* threads: a step either leaves the sets that are counted as large as     *)
(* they were (Grown), or takes the acting thread out of one of them        *)
(* (Left), adds it (Joined), or puts the thread it wakes in its place      *)
(* (Replaced).  The last section proves what of "every call comes back"    *)
(* needs no fairness.                                                      *)
(***************************************************************************)
EXTENDS ThreadSafeQueue_proofs, FiniteSetTheorems

LEMMA Finite ==
    ASSUME NEW S, S \subseteq Threads
    PROVE  IsFiniteSet(S) /\ Cardinality(S) \in Nat
  BY ThreadsAssumption, FS_Subset, FS_CardinalityType

\* The sets that are counted have only grown.
LEMMA Grown ==
    ASSUME NEW S, NEW T, NEW SS, NEW TT, S \subseteq SS, T \subseteq TT,
           SS \subseteq Threads, TT \subseteq Threads
    PROVE  Cardinality(S) + Cardinality(T) <= Cardinality(SS) + Cardinality(TT)
<1>1. /\ S \subseteq Threads /\ T \subseteq Threads
      /\ IsFiniteSet(SS) /\ IsFiniteSet(TT)
  BY Finite
<1>2. Cardinality(S) <= Cardinality(SS) /\ Cardinality(T) <= Cardinality(TT)
  BY <1>1, FS_Subset
<1>3. /\ Cardinality(S) \in Nat /\ Cardinality(T) \in Nat
      /\ Cardinality(SS) \in Nat /\ Cardinality(TT) \in Nat
  BY <1>1, Finite
<1> QED BY <1>2, <1>3

\* One thread has left S, T has only grown.
LEMMA Left ==
    ASSUME NEW S, NEW T, NEW SS, NEW TT, NEW t, S \subseteq SS \cup {t}, T \subseteq TT,
           SS \subseteq Threads, TT \subseteq Threads, t \in Threads
    PROVE  Cardinality(S) + Cardinality(T) <= Cardinality(SS) + Cardinality(TT) + 1
<1>1. SS \cup {t} \subseteq Threads
  OBVIOUS
<1>2. PICK more \in Nat : more = Cardinality(SS \cup {t})
  BY <1>1, Finite
<1>3. Cardinality(S) + Cardinality(T) <= more + Cardinality(TT)
  BY <1>1, <1>2, Grown
<1>4. IsFiniteSet(SS) /\ Cardinality(SS) \in Nat /\ Cardinality(TT) \in Nat
      /\ Cardinality(S) \in Nat /\ Cardinality(T) \in Nat
  BY <1>1, Finite
<1>5. more <= Cardinality(SS) + 1
  <2>1. more = IF t \in SS THEN Cardinality(SS) ELSE Cardinality(SS) + 1
    BY <1>2, <1>4, FS_AddElement, Zenon
  <2> QED BY <1>4, <2>1
<1> QED BY <1>3, <1>4, <1>5

\* One thread has left T and another has come to S.
LEMMA Replaced ==
    ASSUME NEW S, NEW T, NEW SS, NEW TT, NEW t, NEW w, S \cup {w} \subseteq SS, w \notin S,
           T \subseteq TT \cup {t}, SS \subseteq Threads, TT \subseteq Threads, t \in Threads
    PROVE  Cardinality(S) + Cardinality(T) <= Cardinality(SS) + Cardinality(TT)
<1>1. Cardinality(T) + Cardinality(S \cup {w}) <= Cardinality(TT) + Cardinality(SS) + 1
  BY Left
<1>2. /\ IsFiniteSet(S) /\ Cardinality(S) \in Nat /\ Cardinality(T) \in Nat
      /\ Cardinality(SS) \in Nat /\ Cardinality(TT) \in Nat
  BY Finite
<1>3. Cardinality(S \cup {w}) = Cardinality(S) + 1
  BY <1>2, FS_AddElement
<1> QED BY <1>1, <1>2, <1>3

\* A thread has come to T.
LEMMA Joined ==
    ASSUME NEW S, NEW T, NEW SS, NEW TT, NEW t, t \notin T, T \cup {t} \subseteq TT, S \subseteq SS,
           SS \subseteq Threads, TT \subseteq Threads
    PROVE  Cardinality(S) + Cardinality(T) + 1 <= Cardinality(SS) + Cardinality(TT)
<1>1. Cardinality(S) + Cardinality(T \cup {t}) <= Cardinality(SS) + Cardinality(TT)
  BY Grown
<1>2. IsFiniteSet(T) /\ Cardinality(T) \in Nat /\ Cardinality(S) \in Nat
      /\ Cardinality(SS) \in Nat /\ Cardinality(TT) \in Nat
  BY Finite
<1>3. Cardinality(T \cup {t}) = Cardinality(T) + 1
  BY <1>2, FS_AddElement
<1> QED BY <1>1, <1>2, <1>3

LEMMA Sets ==
    /\ Testing(PopOps) \subseteq Threads /\ Testing(PushOps) \subseteq Threads
    /\ Counting(PopOps) \subseteq Threads /\ Counting(PushOps) \subseteq Threads
    /\ Testing(PopOps)' \subseteq Threads /\ Testing(PushOps)' \subseteq Threads
    /\ Counting(PopOps)' \subseteq Threads /\ Counting(PushOps)' \subseteq Threads
  BY DEF Testing, Counting

\* The size of the sets that NoStrandedItem and NoStrandedRoom count.
Tests(ops) == Cardinality(Testing(ops))
Counts(ops) == Cardinality(Counting(ops))

LEMMA Sizes ==
    /\ Tests(PopOps) \in Nat /\ Tests(PushOps) \in Nat
    /\ Counts(PopOps) \in Nat /\ Counts(PushOps) \in Nat
    /\ Tests(PopOps)' \in Nat /\ Tests(PushOps)' \in Nat
    /\ Counts(PopOps)' \in Nat /\ Counts(PushOps)' \in Nat
  BY Sets, Finite DEF Tests, Counts

ItemsMatched ==
    OnNotEmpty # {} /\ ~shutdown_ => Len(queue_) <= Tests(PopOps) + Counts(PushOps)
RoomMatched ==
    OnNotFull # {} /\ ~shutdown_ => Capacity - Len(queue_) <= Tests(PushOps) + Counts(PopOps)

LEMMA Lengths ==
    IInv => /\ Capacity \in Nat /\ Len(queue_) \in Nat /\ Len(queue_) <= Capacity
            /\ queue_ = <<>> <=> Len(queue_) = 0
  BY CapacityAssumption, EmptySeq DEF IInv, TypeOK, SizeInv

-----------------------------------------------------------------------------
(* Steps that leave the queue alone.                                       *)

LEMMA QuietItems ==
    ASSUME IInv, ItemsMatched, UNCHANGED <<queue_, shutdown_>>, OnNotEmpty' \subseteq OnNotEmpty,
           Testing(PopOps) \subseteq Testing(PopOps)', Counting(PushOps) \subseteq Counting(PushOps)'
    PROVE  ItemsMatched'
<1>1. Tests(PopOps) + Counts(PushOps) <= Tests(PopOps)' + Counts(PushOps)'
  BY Sets, Grown DEF Tests, Counts
<1>2. SUFFICES ASSUME OnNotEmpty # {}, ~shutdown_
               PROVE  Len(queue_) <= Tests(PopOps)' + Counts(PushOps)'
  BY DEF ItemsMatched
<1>3. Len(queue_) <= Tests(PopOps) + Counts(PushOps)
  BY <1>2 DEF ItemsMatched
<1> QED BY <1>1, <1>3, Sizes, Lengths

LEMMA QuietRoom ==
    ASSUME IInv, RoomMatched, UNCHANGED <<queue_, shutdown_>>, OnNotFull' \subseteq OnNotFull,
           Testing(PushOps) \subseteq Testing(PushOps)', Counting(PopOps) \subseteq Counting(PopOps)'
    PROVE  RoomMatched'
<1>1. Tests(PushOps) + Counts(PopOps) <= Tests(PushOps)' + Counts(PopOps)'
  BY Sets, Grown DEF Tests, Counts
<1>2. SUFFICES ASSUME OnNotFull # {}, ~shutdown_
               PROVE  Capacity - Len(queue_) <= Tests(PushOps)' + Counts(PopOps)'
  BY DEF RoomMatched
<1>3. Capacity - Len(queue_) <= Tests(PushOps) + Counts(PopOps)
  BY <1>2 DEF RoomMatched
<1> QED BY <1>1, <1>3, Sizes, Lengths

LEMMA NoItems ==
    ASSUME IInv, UNCHANGED <<queue_, shutdown_>>, queue_ = <<>>
    PROVE  ItemsMatched'
<1>1. Len(queue_') = 0
  BY Lengths
<1> QED BY <1>1, Sizes DEF ItemsMatched

LEMMA NoRoom ==
    ASSUME IInv, UNCHANGED <<queue_, shutdown_>>, ~(Len(queue_) < Capacity)
    PROVE  RoomMatched'
<1>1. Capacity - Len(queue_') = 0
  BY Lengths
<1> QED BY <1>1, Sizes DEF RoomMatched

\* A thread that holds none of the two waits, and goes to no place where it is
\* counted less.
LEMMA QuietSteps ==
    ASSUME IInv, ItemsMatched, RoomMatched, NEW t \in Threads,
           Call(t) \/ Empty(t) \/ Acquire(t) \/ Enter(t) \/ Expire(t) \/ TimeOut(t)
             \/ SpuriousWakeup(t) \/ Return(t)
    PROVE  ItemsMatched' /\ RoomMatched'
<1>1. UNCHANGED <<queue_, shutdown_>>
  BY DEF Call, Empty, Acquire, Enter, Expire, TimeOut, SpuriousWakeup, Return, Exit, data
<1>2. OnNotEmpty' \subseteq OnNotEmpty /\ OnNotFull' \subseteq OnNotFull
  BY DEF IInv, TypeOK, Call, Empty, Acquire, Enter, Expire, TimeOut, SpuriousWakeup, Return, Exit,
         OnNotEmpty, OnNotFull
<1>3. /\ Testing(PopOps) \subseteq Testing(PopOps)'
      /\ Testing(PushOps) \subseteq Testing(PushOps)'
  BY DEF IInv, TypeOK, Call, Empty, Acquire, Enter, Expire, TimeOut, SpuriousWakeup, Return, Exit,
         Testing, PushOps, PopOps
<1>4. /\ Counting(PopOps) \subseteq Counting(PopOps)'
      /\ Counting(PushOps) \subseteq Counting(PushOps)'
  BY DEF IInv, TypeOK, Call, Empty, Acquire, Enter, Expire, TimeOut, SpuriousWakeup, Return, Exit,
         Counting, PushOps, PopOps
<1> QED BY <1>1, <1>2, <1>3, <1>4, QuietItems, QuietRoom

\* A consumer waits, or is about to, or gives up, only on an empty queue; a
\* producer on a full one, if it is open.
LEMMA WaitSteps ==
    ASSUME IInv, ItemsMatched, RoomMatched, NEW t \in Threads, Block(t) \/ GiveUp(t) \/ Wait(t)
    PROVE  ItemsMatched' /\ RoomMatched'
<1>1. UNCHANGED <<queue_, shutdown_, op>> /\ op[t] \in PushOps \cup PopOps
  BY DEF IInv, LocalInv, Local, Waiting, Block, GiveUp, Wait, data, PushOps, PopOps
<1>2. PICK to \in {"block", "leave", "wait"} : pc' = [pc EXCEPT ![t] = to]
  BY DEF Block, GiveUp, Wait
<1>3. CASE op[t] \in PopOps
  <2>1. queue_ = <<>>
    BY <1>3 DEF IInv, SizeInv, Ready, Block, GiveUp, Wait, PushOps, PopOps
  <2>2. /\ OnNotFull' \subseteq OnNotFull
        /\ Testing(PushOps) \subseteq Testing(PushOps)'
        /\ Counting(PopOps) \subseteq Counting(PopOps)'
    BY <1>1, <1>2, <1>3, pc[t] # "count"
       DEF IInv, TypeOK, OnNotFull, Testing, Counting, PushOps, PopOps, Block, GiveUp, Wait
  <2> QED BY <1>1, <2>1, <2>2, NoItems, QuietRoom
<1>4. CASE op[t] \in PushOps
  <2>1. shutdown_ \/ ~(Len(queue_) < Capacity)
    BY <1>4 DEF IInv, SizeInv, Ready, Block, GiveUp, Wait, PushOps, PopOps
  <2>2. RoomMatched'
    BY <1>1, <2>1, NoRoom DEF RoomMatched
  <2>3. /\ OnNotEmpty' \subseteq OnNotEmpty
        /\ Testing(PopOps) \subseteq Testing(PopOps)'
        /\ Counting(PushOps) \subseteq Counting(PushOps)'
    BY <1>1, <1>2, <1>4, pc[t] # "count"
       DEF IInv, TypeOK, OnNotEmpty, Testing, Counting, PushOps, PopOps, Block, GiveUp, Wait
  <2> QED BY <1>1, <2>2, <2>3, QuietItems
<1> QED BY <1>1, <1>3, <1>4

-----------------------------------------------------------------------------
(* Steps that change the queue: what is added to it or taken from it is    *)
(* matched by the thread that does so.                                     *)

LEMMA MoveInStep ==
    ASSUME IInv, ItemsMatched, RoomMatched, NEW t \in Threads, MoveIn(t)
    PROVE  ItemsMatched' /\ RoomMatched'
<1>1. /\ Len(queue_') = Len(queue_) + 1 /\ shutdown_' = shutdown_
      /\ OnNotEmpty' = OnNotEmpty /\ OnNotFull' = OnNotFull
  <2>1. queue_ \in Seq(Items) /\ arg[t] \in Items
    BY DEF IInv, TypeOK, LocalInv, Local, MoveIn
  <2> QED BY <2>1 DEF MoveIn, IInv, TypeOK, OnNotEmpty, OnNotFull
<1>2. /\ t \notin Counting(PushOps) /\ Counting(PushOps) \cup {t} \subseteq Counting(PushOps)'
      /\ Testing(PopOps) \subseteq Testing(PopOps)'
  BY DEF MoveIn, IInv, TypeOK, Testing, Counting, PushOps, PopOps
<1>3. Tests(PopOps) + Counts(PushOps) + 1 <= Tests(PopOps)' + Counts(PushOps)'
  BY <1>2, Sets, Joined DEF Tests, Counts
<1>4. /\ Testing(PushOps) \subseteq Testing(PushOps)' \cup {t}
      /\ Counting(PopOps) \subseteq Counting(PopOps)'
  BY DEF MoveIn, IInv, TypeOK, Testing, Counting, PushOps, PopOps
<1>5. Tests(PushOps) + Counts(PopOps) <= Tests(PushOps)' + Counts(PopOps)' + 1
  BY <1>4, Sets, Left DEF Tests, Counts
<1>6. ItemsMatched'
  BY <1>1, <1>3, Sizes, Lengths DEF ItemsMatched
<1>7. RoomMatched'
  BY <1>1, <1>5, Sizes, Lengths DEF RoomMatched
<1> QED BY <1>6, <1>7

LEMMA MoveOutStep ==
    ASSUME IInv, ItemsMatched, RoomMatched, NEW t \in Threads, MoveOut(t)
    PROVE  ItemsMatched' /\ RoomMatched'
<1>1. /\ Len(queue_') = Len(queue_) - 1 /\ shutdown_' = shutdown_
      /\ OnNotEmpty' = OnNotEmpty /\ OnNotFull' = OnNotFull
  <2>1. queue_ \in Seq(Items) /\ queue_ # <<>>
    BY DEF IInv, TypeOK, SizeInv, MoveOut
  <2>2. queue_' = Tail(queue_)
    BY DEF MoveOut
  <2>3. Len(Tail(queue_)) = Len(queue_) - 1
    BY <2>1, HeadTailProperties
  <2> QED BY <2>2, <2>3 DEF MoveOut, IInv, TypeOK, OnNotEmpty, OnNotFull
<1>2. /\ t \notin Counting(PopOps) /\ Counting(PopOps) \cup {t} \subseteq Counting(PopOps)'
      /\ Testing(PushOps) \subseteq Testing(PushOps)'
  BY DEF MoveOut, IInv, TypeOK, Testing, Counting, PushOps, PopOps
<1>3. Tests(PushOps) + Counts(PopOps) + 1 <= Tests(PushOps)' + Counts(PopOps)'
  BY <1>2, Sets, Joined DEF Tests, Counts
<1>4. /\ Testing(PopOps) \subseteq Testing(PopOps)' \cup {t}
      /\ Counting(PushOps) \subseteq Counting(PushOps)'
  BY DEF MoveOut, IInv, TypeOK, Testing, Counting, PushOps, PopOps
<1>5. Tests(PopOps) + Counts(PushOps) <= Tests(PopOps)' + Counts(PushOps)' + 1
  BY <1>4, Sets, Left DEF Tests, Counts
<1>6. RoomMatched'
  BY <1>1, <1>3, Sizes, Lengths DEF RoomMatched
<1>7. ItemsMatched'
  BY <1>1, <1>5, Sizes, Lengths DEF ItemsMatched
<1> QED BY <1>6, <1>7

-----------------------------------------------------------------------------
(* Steps that notify: the thread that has counted is replaced by the one   *)
(* it wakes, unless nobody waits.                                          *)

LEMMA CountInStep ==
    ASSUME IInv, ItemsMatched, RoomMatched, NEW t \in Threads, CountIn(t)
    PROVE  ItemsMatched' /\ RoomMatched'
<1>1. UNCHANGED <<queue_, shutdown_, op>> /\ NotifyOne(t, "leave", OnNotEmpty)
  BY DEF CountIn
<1>2. CASE OnNotEmpty = {}
  <2>1. pc' = [pc EXCEPT ![t] = "leave"]
    BY <1>1, <1>2 DEF NotifyOne
  <2>2. OnNotEmpty' = {}
    BY <1>1, <1>2, <2>1 DEF IInv, TypeOK, OnNotEmpty
  <2>3. /\ OnNotFull' \subseteq OnNotFull
        /\ Testing(PushOps) \subseteq Testing(PushOps)'
        /\ Counting(PopOps) \subseteq Counting(PopOps)'
    BY <1>1, <2>1 DEF IInv, TypeOK, CountIn, OnNotFull, Testing, Counting, PushOps, PopOps
  <2> QED BY <1>1, <2>2, <2>3, QuietRoom DEF ItemsMatched
<1>3. CASE OnNotEmpty # {}
  <2>1. PICK w \in OnNotEmpty : pc' = [pc EXCEPT ![t] = "leave", ![w] = "wake"]
    BY <1>1, <1>3 DEF NotifyOne
  <2>2. w \in Threads /\ pc[w] = "wait" /\ op[w] \in PopOps /\ pc[t] = "count" /\ op[t] \in PushOps
    BY <2>1 DEF OnNotEmpty, CountIn
  <2>3. /\ Testing(PopOps) \cup {w} \subseteq Testing(PopOps)' /\ w \notin Testing(PopOps)
        /\ Counting(PushOps) \subseteq Counting(PushOps)' \cup {t}
    BY <1>1, <2>1, <2>2 DEF IInv, TypeOK, Testing, Counting, PushOps, PopOps
  <2>4. Tests(PopOps) + Counts(PushOps) <= Tests(PopOps)' + Counts(PushOps)'
    BY <2>3, Sets, Replaced DEF Tests, Counts
  <2>5. ItemsMatched'
    BY <1>1, <1>3, <2>4, Sizes, Lengths DEF ItemsMatched
  <2>6. /\ OnNotFull' \subseteq OnNotFull
        /\ Testing(PushOps) \subseteq Testing(PushOps)'
        /\ Counting(PopOps) \subseteq Counting(PopOps)'
    BY <1>1, <2>1, <2>2 DEF IInv, TypeOK, OnNotFull, Testing, Counting, PushOps, PopOps
  <2> QED BY <1>1, <2>5, <2>6, QuietRoom
<1> QED BY <1>2, <1>3

LEMMA CountOutStep ==
    ASSUME IInv, ItemsMatched, RoomMatched, NEW t \in Threads, CountOut(t)
    PROVE  ItemsMatched' /\ RoomMatched'
<1>1. UNCHANGED <<queue_, shutdown_, op>> /\ NotifyOne(t, "leave", OnNotFull)
  BY DEF CountOut
<1>2. CASE OnNotFull = {}
  <2>1. pc' = [pc EXCEPT ![t] = "leave"]
    BY <1>1, <1>2 DEF NotifyOne
  <2>2. OnNotFull' = {}
    BY <1>1, <1>2, <2>1 DEF IInv, TypeOK, OnNotFull
  <2>3. /\ OnNotEmpty' \subseteq OnNotEmpty
        /\ Testing(PopOps) \subseteq Testing(PopOps)'
        /\ Counting(PushOps) \subseteq Counting(PushOps)'
    BY <1>1, <2>1 DEF IInv, TypeOK, CountOut, OnNotEmpty, Testing, Counting, PushOps, PopOps
  <2> QED BY <1>1, <2>2, <2>3, QuietItems DEF RoomMatched
<1>3. CASE OnNotFull # {}
  <2>1. PICK w \in OnNotFull : pc' = [pc EXCEPT ![t] = "leave", ![w] = "wake"]
    BY <1>1, <1>3 DEF NotifyOne
  <2>2. w \in Threads /\ pc[w] = "wait" /\ op[w] \in PushOps /\ pc[t] = "count" /\ op[t] \in PopOps
    BY <2>1 DEF OnNotFull, CountOut
  <2>3. /\ Testing(PushOps) \cup {w} \subseteq Testing(PushOps)' /\ w \notin Testing(PushOps)
        /\ Counting(PopOps) \subseteq Counting(PopOps)' \cup {t}
    BY <1>1, <2>1, <2>2 DEF IInv, TypeOK, Testing, Counting, PushOps, PopOps
  <2>4. Tests(PushOps) + Counts(PopOps) <= Tests(PushOps)' + Counts(PopOps)'
    BY <2>3, Sets, Replaced DEF Tests, Counts
  <2>5. RoomMatched'
    BY <1>1, <1>3, <2>4, Sizes, Lengths DEF RoomMatched
  <2>6. /\ OnNotEmpty' \subseteq OnNotEmpty
        /\ Testing(PopOps) \subseteq Testing(PopOps)'
        /\ Counting(PushOps) \subseteq Counting(PushOps)'
    BY <1>1, <2>1, <2>2 DEF IInv, TypeOK, OnNotEmpty, Testing, Counting, PushOps, PopOps
  <2> QED BY <1>1, <2>5, <2>6, QuietItems
<1> QED BY <1>2, <1>3

LEMMA ShutdownSteps ==
    ASSUME IInv, ItemsMatched, RoomMatched, NEW t \in Threads,
           SetFlag(t) \/ NotifyConsumers(t) \/ NotifyProducers(t)
    PROVE  ItemsMatched' /\ RoomMatched'
<1>1. CASE SetFlag(t)
  BY <1>1 DEF SetFlag, ItemsMatched, RoomMatched
<1>2. CASE NotifyConsumers(t)
  <2>1. OnNotEmpty' = {}
    BY <1>2 DEF IInv, TypeOK, NotifyConsumers, NotifyAll, OnNotEmpty
  <2>2. UNCHANGED <<queue_, shutdown_, op>>
    BY <1>2 DEF NotifyConsumers, data
  <2>3. /\ OnNotFull' \subseteq OnNotFull
        /\ Testing(PushOps) \subseteq Testing(PushOps)'
        /\ Counting(PopOps) \subseteq Counting(PopOps)'
    BY <1>2, <2>2 DEF IInv, TypeOK, NotifyConsumers, NotifyAll, OnNotEmpty, OnNotFull, Testing,
                     Counting, PushOps, PopOps
  <2> QED BY <2>1, <2>2, <2>3, QuietRoom DEF ItemsMatched
<1>3. CASE NotifyProducers(t)
  <2>1. OnNotFull' = {}
    BY <1>3 DEF IInv, TypeOK, NotifyProducers, NotifyAll, OnNotFull
  <2>2. UNCHANGED <<queue_, shutdown_, op>>
    BY <1>3 DEF NotifyProducers, data
  <2>3. /\ OnNotEmpty' \subseteq OnNotEmpty
        /\ Testing(PopOps) \subseteq Testing(PopOps)'
        /\ Counting(PushOps) \subseteq Counting(PushOps)'
    BY <1>3, <2>2 DEF IInv, TypeOK, NotifyProducers, NotifyAll, OnNotEmpty, OnNotFull, Testing,
                     Counting, PushOps, PopOps
  <2> QED BY <2>1, <2>2, <2>3, QuietItems DEF RoomMatched
<1> QED BY <1>1, <1>2, <1>3

LEMMA Matched == Spec => [](ItemsMatched /\ RoomMatched)
<1>1. Init => ItemsMatched /\ RoomMatched
  BY DEF Init, ItemsMatched, RoomMatched, OnNotEmpty, OnNotFull
<1>2. ASSUME IInv, ItemsMatched, RoomMatched, [Next]_vars
      PROVE  ItemsMatched' /\ RoomMatched'
  <2>1. CASE UNCHANGED vars
    <3>1. UNCHANGED <<queue_, shutdown_, pc, op>>
      BY <2>1 DEF vars
    <3>2. /\ OnNotEmpty' \subseteq OnNotEmpty /\ OnNotFull' \subseteq OnNotFull
          /\ Testing(PopOps) \subseteq Testing(PopOps)'
          /\ Testing(PushOps) \subseteq Testing(PushOps)'
          /\ Counting(PopOps) \subseteq Counting(PopOps)'
          /\ Counting(PushOps) \subseteq Counting(PushOps)'
      BY <3>1 DEF OnNotEmpty, OnNotFull, Testing, Counting
    <3> QED BY <1>2, <3>1, <3>2, QuietItems, QuietRoom
  <2>2. CASE Next
    <3>1. PICK t \in Threads :
             Call(t) \/ Acquire(t) \/ Expire(t) \/ TimeOut(t) \/ SpuriousWakeup(t) \/ Step(t)
      BY <2>2 DEF Next
    <3>2. CASE Step(t)
      BY <1>2, <3>2, QuietSteps, WaitSteps, MoveInStep, MoveOutStep, CountInStep, CountOutStep,
         ShutdownSteps DEF Step
    <3> QED BY <1>2, <3>1, <3>2, QuietSteps
  <2> QED BY <1>2, <2>1, <2>2
<1> QED BY <1>1, <1>2, Invariance, PTL DEF Spec

\* While a consumer waits on an open queue, each item is matched by a consumer
\* that will look or a producer that will notify: no wakeup is lost.
THEOREM NoStrandedItemHolds == Spec => []NoStrandedItem
<1>1. ItemsMatched => NoStrandedItem
  BY DEF ItemsMatched, NoStrandedItem, Tests, Counts
<1> QED BY <1>1, Matched, PTL

\* The same of free places and waiting producers.
THEOREM NoStrandedRoomHolds == Spec => []NoStrandedRoom
<1>1. RoomMatched => NoStrandedRoom
  BY DEF RoomMatched, NoStrandedRoom, Tests, Counts
<1> QED BY <1>1, Matched, PTL

-----------------------------------------------------------------------------
(* Every call comes back.  What of it needs no fairness: some thread can   *)
(* always take its next step, and each step of a thread that may no longer *)
(* wait takes it nearer to its return.                                     *)

\* The guards of what thread t does by itself: Empty, Acquire, TimeOut, Enter,
\* GiveUp, Block, MoveOut and MoveIn, and the rest of Step.
GetsOn(t) ==
    \/ pc[t] = "lock" /\ op[t] = "empty"
    \/ pc[t] \in {"lock", "wake"} /\ op[t] # "empty" /\ mutex_ = Nobody
    \/ pc[t] = "wait" /\ op[t] = "popWithTimeout" /\ expired[t]
    \/ /\ pc[t] \in {"test", "last"} /\ op[t] # "shutdown" /\ Ready(t)
       /\ IF op[t] \in PushOps THEN ~shutdown_ ELSE queue_ # <<>>
    \/ /\ pc[t] \in {"test", "last"}
       /\ \/ op[t] \in PushOps /\ (shutdown_ \/ (op[t] = "tryPush" /\ ~Ready(t)))
          \/ op[t] \in PopOps /\ queue_ = <<>> /\ (shutdown_ \/ pc[t] = "last")
    \/ pc[t] = "test" /\ op[t] \in {"push", "pop", "popWithTimeout"} /\ ~Ready(t)
    \/ pc[t] = "move" /\ (op[t] \in PushOps \/ (op[t] \in PopOps /\ queue_ # <<>>))
    \/ pc[t] = "count" /\ op[t] \in PushOps \cup PopOps
    \/ pc[t] = "test" /\ op[t] = "shutdown"
    \/ pc[t] \in {"block", "leave", "notify1", "notify2", "done"}

\* A thread inside the class that is not rightly waiting, for an item or for
\* room in an open queue, is one that gets on, or some other one does.
SomebodyGetsOn ==
    \A t \in Threads : pc[t] # "idle" /\ (pc[t] = "wait" => shutdown_ \/ expired[t])
        => \E u \in Threads : GetsOn(u)

\* The steps a thread has still to take once the queue is shut down, at most,
\* and those of a popWithTimeout once its deadline has passed.
AfterShutdown ==
    [block |-> 10, wait |-> 9, wake |-> 8, lock |-> 8, test |-> 7, last |-> 7, move |-> 6,
     count |-> 5, leave |-> 4, notify1 |-> 3, notify2 |-> 2, done |-> 1, idle |-> 0]
AfterDeadline ==
    [lock |-> 12, test |-> 11, block |-> 10, wait |-> 9, wake |-> 8, last |-> 7, move |-> 6,
     count |-> 5, leave |-> 4, notify1 |-> 3, notify2 |-> 2, done |-> 1, idle |-> 0]

NearerReturn ==
    [][\A t \in Threads : shutdown_ /\ pc[t] # "idle" =>
         pc'[t] = pc[t] \/ AfterShutdown[pc'[t]] < AfterShutdown[pc[t]]]_vars

NearerTimeOut ==
    [][\A t \in Threads : expired[t] =>
         \/ pc'[t] = "idle"
         \/ expired'[t] /\ (pc'[t] = pc[t] \/ AfterDeadline[pc'[t]] < AfterDeadline[pc[t]])]_vars

LEMMA HolderGetsOn ==
    ASSUME IInv, NEW t \in Threads, pc[t] \in Holding
    PROVE  GetsOn(t)
<1>1. Local(t) /\ op[t] \in Operations \cup {"none"}
  BY DEF IInv, LocalInv, TypeOK
<1>2. CASE pc[t] = "test" /\ op[t] \in PushOps
  BY <1>2 DEF GetsOn, Ready, PushOps
<1>3. CASE pc[t] \in {"test", "last"} /\ op[t] \in PopOps
  BY <1>3 DEF GetsOn, Ready, PushOps, PopOps
<1>4. CASE pc[t] = "test" /\ op[t] = "shutdown"
  BY <1>4 DEF GetsOn
<1>5. CASE pc[t] = "move"
  BY <1>1, <1>5 DEF IInv, SizeInv, Local, GetsOn
<1>6. CASE pc[t] \in {"count", "block", "leave"}
  BY <1>1, <1>6 DEF Local, GetsOn
<1>7. pc[t] = "last" => op[t] \in PopOps
  BY <1>1 DEF Local, PopOps
<1>8. pc[t] = "test" => op[t] \in PushOps \/ op[t] \in PopOps \/ op[t] = "shutdown"
  BY <1>1 DEF Local
<1> QED BY <1>2, <1>3, <1>4, <1>5, <1>6, <1>7, <1>8 DEF Holding

\* The lock and the two waits cannot leave everybody standing.
THEOREM SomebodyGetsOnHolds == Spec => []SomebodyGetsOn
<1>1. ASSUME IInv PROVE SomebodyGetsOn
  <2> SUFFICES ASSUME NEW t \in Threads, pc[t] # "idle", pc[t] = "wait" => shutdown_ \/ expired[t]
               PROVE  \E u \in Threads : GetsOn(u)
    BY DEF SomebodyGetsOn
  <2>1. CASE mutex_ # Nobody
    BY <1>1, <2>1, HolderGetsOn DEF IInv, TypeOK, MutexInv
  <2>2. CASE mutex_ = Nobody /\ pc[t] = "wait"
    <3>1. CASE expired[t]
      <4>1. op[t] = "popWithTimeout"
        BY <1>1, <3>1 DEF IInv, LocalInv, Local
      <4>2. GetsOn(t)
        BY <2>2, <3>1, <4>1 DEF GetsOn
      <4> QED BY <4>2
    <3>2. CASE shutdown_
      <4>1. op[t] \in PopOps \cup PushOps
        BY <1>1, <2>2 DEF IInv, LocalInv, Local, Waiting, PushOps, PopOps
      <4>2. t \in OnNotEmpty \/ t \in OnNotFull
        BY <2>2, <4>1 DEF OnNotEmpty, OnNotFull
      <4>3. PICK u \in Threads : pc[u] \in {"notify1", "notify2"}
        BY <1>1, <3>2, <4>2 DEF IInv, ShutdownInv
      <4>4. GetsOn(u)
        BY <4>3 DEF GetsOn
      <4> QED BY <4>4
    <3> QED BY <2>2, <3>1, <3>2
  <2>3. CASE mutex_ = Nobody /\ pc[t] # "wait"
    <3>1. pc[t] \notin Holding
      BY <1>1, <2>3, NobodyAssumption DEF IInv, MutexInv
    <3>2. pc[t] \in {"lock", "wake", "notify1", "notify2", "done"}
      BY <1>1, <2>3, <3>1 DEF IInv, TypeOK, PCs, Holding
    <3>3. pc[t] = "wake" => op[t] # "empty"
      BY <1>1 DEF IInv, LocalInv, Local, Waiting
    <3>4. GetsOn(t)
      BY <2>3, <3>2, <3>3 DEF GetsOn
    <3> QED BY <3>4
  <2> QED BY <2>1, <2>2, <2>3
<1> QED BY <1>1, Invariance, PTL

\* What the steps of any thread do to the program counter of t.
Notified(t) == pc[t] = "wait" /\ pc'[t] = "wake" /\ expired'[t] = expired[t]

LEMMA OthersStep ==
    ASSUME IInv, NEW t \in Threads, NEW u \in Threads, u # t,
           Call(u) \/ Acquire(u) \/ Expire(u) \/ TimeOut(u) \/ SpuriousWakeup(u) \/ Step(u)
    PROVE  (pc'[t] = pc[t] /\ expired'[t] = expired[t]) \/ Notified(t)
<1>1. expired'[t] = expired[t]
  BY DEF IInv, TypeOK, Call, Acquire, Expire, TimeOut, SpuriousWakeup, Step, Empty, Enter, Block,
         GiveUp, Wait, MoveIn, MoveOut, CountIn, CountOut, Return, Exit, SetFlag, NotifyConsumers,
         NotifyProducers
<1>2. CASE CountIn(u)
  BY <1>1, <1>2 DEF IInv, TypeOK, CountIn, NotifyOne, OnNotEmpty, Notified
<1>3. CASE CountOut(u)
  BY <1>1, <1>3 DEF IInv, TypeOK, CountOut, NotifyOne, OnNotFull, Notified
<1>4. CASE NotifyConsumers(u) \/ NotifyProducers(u)
  BY <1>1, <1>4 DEF NotifyConsumers, NotifyProducers, NotifyAll, OnNotEmpty, OnNotFull, Notified
<1>5. CASE \/ Call(u) \/ Acquire(u) \/ Expire(u) \/ TimeOut(u) \/ SpuriousWakeup(u)
           \/ Empty(u) \/ Enter(u) \/ Block(u) \/ GiveUp(u) \/ Wait(u) \/ MoveIn(u) \/ MoveOut(u)
           \/ Return(u) \/ SetFlag(u)
  BY <1>1, <1>5 DEF IInv, TypeOK, Call, Acquire, Expire, TimeOut, SpuriousWakeup, Empty, Enter,
         Block, GiveUp, Wait, MoveIn, MoveOut, Return, Exit, SetFlag
<1> QED BY <1>2, <1>3, <1>4, <1>5 DEF Step

\* Where a step of its own takes thread t.
Ahead(t) ==
    \/ pc[t] = "lock" /\ pc'[t] \in {"test", "done"}
    \/ pc[t] = "test" /\ pc'[t] \in {"move", "leave", "notify1"}
    \/ pc[t] = "test" /\ pc'[t] = "block" /\ ~shutdown_
    \/ pc[t] = "last" /\ pc'[t] \in {"move", "leave"}
    \/ pc[t] = "block" /\ pc'[t] = "wait"
    \/ pc[t] = "wait" /\ pc'[t] = "wake"
    \/ pc[t] = "wake" /\ pc'[t] = IF expired[t] THEN "last" ELSE "test"
    \/ pc[t] = "move" /\ pc'[t] = "count"
    \/ pc[t] = "count" /\ pc'[t] = "leave"
    \/ pc[t] = "notify1" /\ pc'[t] = "notify2"
    \/ pc[t] = "notify2" /\ pc'[t] = "done"

LEMMA OwnStep ==
    ASSUME IInv, NEW t \in Threads,
           Acquire(t) \/ Expire(t) \/ TimeOut(t) \/ SpuriousWakeup(t) \/ Step(t)
    PROVE  \/ pc[t] \in {"leave", "done"} /\ pc'[t] = "idle"
           \/ (expired[t] => expired'[t]) /\ (pc'[t] = pc[t] \/ Ahead(t))
<1>1. CASE Acquire(t)
  BY <1>1 DEF IInv, TypeOK, LocalInv, Local, Acquire, Ahead
<1>2. CASE Expire(t) \/ TimeOut(t) \/ SpuriousWakeup(t)
  BY <1>2 DEF IInv, TypeOK, Expire, TimeOut, SpuriousWakeup, Ahead
<1>3. CASE Empty(t) \/ Enter(t) \/ GiveUp(t) \/ Wait(t) \/ SetFlag(t)
  BY <1>3 DEF IInv, TypeOK, Empty, Enter, GiveUp, Wait, SetFlag, Ahead
<1>4. CASE Block(t)
  BY <1>4 DEF IInv, TypeOK, Block, Ready, Ahead
<1>5. CASE MoveIn(t) \/ MoveOut(t)
  BY <1>5 DEF IInv, TypeOK, MoveIn, MoveOut, Ahead
<1>6. CASE CountIn(t)
  BY <1>6 DEF IInv, TypeOK, CountIn, NotifyOne, OnNotEmpty, Ahead
<1>7. CASE CountOut(t)
  BY <1>7 DEF IInv, TypeOK, CountOut, NotifyOne, OnNotFull, Ahead
<1>8. CASE NotifyConsumers(t) \/ NotifyProducers(t)
  BY <1>8 DEF IInv, TypeOK, NotifyConsumers, NotifyProducers, NotifyAll, Ahead
<1>9. CASE Return(t)
  BY <1>9 DEF IInv, TypeOK, Return, Exit
<1> QED BY <1>1, <1>2, <1>3, <1>4, <1>5, <1>6, <1>7, <1>8, <1>9 DEF Step

\* From any thread's point of view, a step of the program leaves it where it
\* is, brings it in or back out, or takes it one program point ahead.
LEMMA EveryStep ==
    ASSUME IInv, [Next]_vars, NEW t \in Threads, pc[t] # "idle"
    PROVE  \/ pc[t] \in {"leave", "done"} /\ pc'[t] = "idle"
           \/ (expired[t] => expired'[t]) /\ (pc'[t] = pc[t] \/ Ahead(t))
<1>1. CASE UNCHANGED vars
  BY <1>1 DEF vars
<1>2. ASSUME NEW u \in Threads,
             Call(u) \/ Acquire(u) \/ Expire(u) \/ TimeOut(u) \/ SpuriousWakeup(u) \/ Step(u)
      PROVE  \/ pc[t] \in {"leave", "done"} /\ pc'[t] = "idle"
             \/ (expired[t] => expired'[t]) /\ (pc'[t] = pc[t] \/ Ahead(t))
  <2>1. CASE u = t
    BY <1>2, <2>1, OwnStep DEF Call
  <2>2. CASE u # t
    BY <1>2, <2>2, OthersStep DEF Notified, Ahead
  <2> QED BY <2>1, <2>2
<1> QED BY <1>1, <1>2 DEF Next

\* A call that is running once the queue is shut down never goes back: at most
\* ten steps of its thread bring it to its return.
THEOREM NearerReturnHolds == Spec => NearerReturn
<1>1. ASSUME IInv, [Next]_vars, NEW t \in Threads, shutdown_, pc[t] # "idle"
      PROVE  pc'[t] = pc[t] \/ AfterShutdown[pc'[t]] < AfterShutdown[pc[t]]
  BY <1>1, EveryStep DEF Ahead, AfterShutdown
<1>2. IInv /\ [Next]_vars =>
        [\A t \in Threads : shutdown_ /\ pc[t] # "idle" =>
           pc'[t] = pc[t] \/ AfterShutdown[pc'[t]] < AfterShutdown[pc[t]]]_vars
  BY <1>1
<1> QED BY <1>2, Invariance, PTL DEF Spec, NearerReturn

\* The same of a timed pop from its deadline on, on an open queue too.
THEOREM NearerTimeOutHolds == Spec => NearerTimeOut
<1>1. ASSUME IInv, [Next]_vars, NEW t \in Threads, expired[t]
      PROVE  \/ pc'[t] = "idle"
             \/ expired'[t] /\ (pc'[t] = pc[t] \/ AfterDeadline[pc'[t]] < AfterDeadline[pc[t]])
  <2>1. pc[t] # "idle" /\ op[t] = "popWithTimeout"
    BY <1>1 DEF IInv, LocalInv, Local
  <2> QED BY <1>1, <2>1, EveryStep DEF Ahead, AfterDeadline
<1>2. IInv /\ [Next]_vars =>
        [\A t \in Threads : expired[t] =>
           \/ pc'[t] = "idle"
           \/ expired'[t] /\ (pc'[t] = pc[t] \/ AfterDeadline[pc'[t]] < AfterDeadline[pc[t]])]_vars
  BY <1>1
<1> QED BY <1>2, Invariance, PTL DEF Spec, NearerTimeOut

=============================================================================
