-------------------------- MODULE DataReadyProofs ---------------------------
(***************************************************************************)
(* Proofs about DataReady, for any finite sets of consumers and producers. *)
(***************************************************************************)
EXTENDS DataReady, FiniteSetTheorems, TLAPS

\* Before the flag goes up every notification is still to come, and a consumer
\* that tests the flag or works does not sleep; afterwards no consumer falls
\* asleep again.
IInv ==
    /\ TypeOK
    /\ NothingProcessedEarly
    /\ ~data_ready => \A p \in Producers : pc[p] \in {"prepare", "publish"}
    /\ NoLostWakeup

\* The sets of threads, as far as the proofs use them.
LEMMA Sets ==
    /\ IsFiniteSet(Consumers) /\ IsFiniteSet(Producers)
    /\ \A t \in Threads : t # Nobody /\ (t \in Consumers <=> t \notin Producers)
  BY ThreadsAssumption DEF Threads

\* The counts of the sleepers and of the notifications to come.
LEMMA Counts ==
    ASSUME TypeOK
    PROVE  /\ IsFiniteSet(waiting) /\ IsFiniteSet(ToNotify)
           /\ Cardinality(waiting) \in Nat /\ Cardinality(ToNotify) \in Nat
           /\ Cardinality(waiting) <= Cardinality(Consumers)
           /\ Cardinality(Consumers) \in Nat /\ Cardinality(Producers) \in Nat
  <1>1. waiting \subseteq Consumers /\ ToNotify \subseteq Producers
    BY DEF TypeOK, ToNotify
  <1> QED
    BY <1>1, Sets, FS_Subset, FS_CardinalityType

\* At the start nobody sleeps.
LEMMA InitIInv == Init => IInv
  <1> SUFFICES ASSUME Init PROVE IInv
    OBVIOUS
  <1>1. TypeOK
    <2>1. pc \in [Threads -> {"wait", "prepare"}]
      BY DEF Init
    <2>2. pc \in [Threads -> Locations]
      BY <2>1 DEF Locations
    <2> QED
      BY <2>2 DEF Init, TypeOK
  <1>2. NothingProcessedEarly /\ \A p \in Producers : pc[p] \in {"prepare", "publish"}
    BY Sets, SMT DEF Init, NothingProcessedEarly, Threads
  <1>3. Cardinality(waiting) = 0
    BY FS_EmptySet DEF Init
  <1>4. NoLostWakeup
    BY <1>1, <1>3, Counts DEF NoLostWakeup
  <1> QED
    BY <1>1, <1>2, <1>4 DEF IInv

\* Whatever a consumer does but to fall asleep, and whatever a producer does
\* but to notify, the count of the sleepers stays covered.
LEMMA StillCovered ==
    ASSUME TypeOK, TypeOK', NoLostWakeup, waiting' \subseteq waiting, ToNotify' = ToNotify
    PROVE  NoLostWakeup'
  <1>1. Cardinality(waiting') <= Cardinality(waiting)
    BY Counts, FS_Subset
  <1>2. /\ Cardinality(waiting) \in Nat /\ Cardinality(waiting') \in Nat
        /\ Cardinality(ToNotify) \in Nat
    BY Counts, FS_Subset, FS_CardinalityType
  <1>3. Cardinality(ToNotify)' = Cardinality(ToNotify)
    OBVIOUS
  <1> QED
    BY <1>1, <1>2, <1>3 DEF NoLostWakeup, EnoughProducers

\* Every step of a consumer keeps the invariant.
LEMMA ConsumerStep ==
    ASSUME IInv, NEW t \in Consumers, Consume(t) \/ SpuriousWakeup(t)
    PROVE  IInv'
  <1>1. t \in Threads /\ t \notin Producers
    BY Sets DEF Threads
  <1>2. TypeOK'
    BY <1>1, SMT DEF IInv, TypeOK, Consume, Lock, Wait, Process, Return, SpuriousWakeup,
                     GoTo, Threads, Locations
  <1>3. \A p \in Producers : pc'[p] = pc[p]
    <2>1. pc \in [Threads -> Locations]
      BY DEF IInv, TypeOK
    <2>2. pc' = pc \/ \E l \in {"test", "wait", "process", "done"} : pc' = [pc EXCEPT ![t] = l]
      BY DEF Consume, Lock, Wait, Process, Return, SpuriousWakeup, GoTo
    <2> QED
      BY <1>1, <2>1, <2>2, Sets DEF Threads
  <1>4. NothingProcessedEarly' /\ data_ready' = data_ready
    BY <1>1, SMT DEF IInv, TypeOK, NothingProcessedEarly, Consume, Lock, Wait, Process,
                     Return, SpuriousWakeup, GoTo, Threads
  <1>5. ToNotify' = ToNotify
    BY <1>3 DEF ToNotify
  <1>6. NoLostWakeup'
    <2>1. CASE Wait(t)
      <3>1. ToNotify = Producers
        BY <2>1 DEF Wait, IInv, ToNotify
      <3>2. Cardinality(waiting') <= Cardinality(Consumers) /\ Cardinality(waiting') \in Nat
        BY <1>2, Sets, FS_Subset, FS_CardinalityType DEF TypeOK
      <3>3. Cardinality(ToNotify)' = Cardinality(Producers)
        BY <3>1, <1>5
      <3>4. TypeOK
        BY DEF IInv
      <3> QED
        BY <3>2, <3>3, <3>4, Counts DEF NoLostWakeup, EnoughProducers
    <2>2. CASE ~Wait(t)
      <3>1. waiting' \subseteq waiting
        BY <2>2 DEF Consume, Lock, Process, Return, SpuriousWakeup
      <3> QED
        BY <3>1, <1>2, <1>5, StillCovered DEF IInv
    <2> QED
      BY <2>1, <2>2
  <1> QED
    BY <1>2, <1>3, <1>4, <1>6 DEF IInv

\* Every step of a producer keeps the invariant.
LEMMA ProducerStep ==
    ASSUME IInv, NEW t \in Producers, Produce(t)
    PROVE  IInv'
  <1>1. t \in Threads /\ t \notin Consumers
    BY Sets DEF Threads
  <1>2. /\ pc \in [Threads -> Locations]
        /\ \E l \in {"publish", "notify", "done"} : pc' = [pc EXCEPT ![t] = l]
    BY DEF IInv, TypeOK, Produce, LockToPublish, Publish, Notify, GoTo
  <1>3. \A c \in Consumers : pc'[c] = pc[c]
    BY <1>2, <1>1, Sets DEF Threads
  <1>4. TypeOK'
    <2>1. pc' \in [Threads -> Locations]
      BY <1>2 DEF Locations
    <2>2. data_ready' \in BOOLEAN /\ mut' \in Threads \cup {Nobody}
      BY <1>1 DEF IInv, TypeOK, Produce, LockToPublish, Publish, Notify
    <2>3. waiting' \subseteq waiting
      BY DEF Produce, LockToPublish, Publish, Notify
    <2> QED
      BY <1>3, <2>1, <2>2, <2>3 DEF IInv, TypeOK
  <1>5. data_ready => data_ready'
    BY DEF Produce, LockToPublish, Publish, Notify
  <1>6. NothingProcessedEarly'
    BY <1>3, <1>5 DEF IInv, NothingProcessedEarly
  <1>7. ~data_ready' => \A p \in Producers : pc'[p] \in {"prepare", "publish"}
    BY <1>1, SMT DEF IInv, TypeOK, Produce, LockToPublish, Publish, Notify, GoTo, Threads
  <1>8. NoLostWakeup'
    <2>1. CASE LockToPublish(t) \/ Publish(t)
      <3>1. ToNotify' = ToNotify /\ waiting' = waiting
        BY <2>1, <1>1, SMT DEF IInv, TypeOK, LockToPublish, Publish, GoTo, ToNotify, Threads
      <3> QED
        BY <3>1, <1>4, StillCovered DEF IInv
    <2>2. CASE Notify(t)
      <3>1. t \in ToNotify /\ ToNotify' = ToNotify \ {t}
        BY <2>2, <1>1, SMT DEF IInv, TypeOK, Notify, GoTo, ToNotify, Threads
      <3>2. TypeOK
        BY DEF IInv
      <3>3. Cardinality(ToNotify') = Cardinality(ToNotify) - 1 /\ Cardinality(ToNotify') \in Nat
        BY <3>1, <3>2, Counts, FS_RemoveElement, FS_CardinalityType
      <3>4. CASE waiting = {} /\ waiting' = waiting
        BY <3>3, <3>4, FS_EmptySet DEF NoLostWakeup
      <3>5. CASE \E c \in waiting : waiting' = waiting \ {c}
        <4>1. Cardinality(waiting') = Cardinality(waiting) - 1
          BY <3>5, <3>2, Counts, FS_RemoveElement
        <4> QED
          BY <4>1, <3>2, <3>3, Counts DEF IInv, NoLostWakeup, EnoughProducers
      <3> QED
        BY <2>2, <3>4, <3>5 DEF Notify
    <2> QED
      BY <2>1, <2>2 DEF Produce
  <1> QED
    BY <1>4, <1>6, <1>7, <1>8 DEF IInv

\* In every reachable state the invariant holds.
THEOREM Invariance == Spec => []IInv
  <1>1. IInv /\ [Next]_vars => IInv'
    <2> SUFFICES ASSUME IInv, [Next]_vars PROVE IInv'
      OBVIOUS
    <2>1. CASE UNCHANGED vars
      BY <2>1 DEF vars, IInv, TypeOK, NothingProcessedEarly, NoLostWakeup, ToNotify
    <2> QED
      BY <2>1, ConsumerStep, ProducerStep DEF Next
  <1> QED
    BY InitIInv, <1>1, PTL DEF Spec

\* However many consumers and producers there are, every variable keeps its type.
THEOREM TypeCorrect == Spec => []TypeOK
  BY Invariance, PTL DEF IInv

\* With a producer for every consumer, a notification is still to come for
\* every consumer that sleeps, in spite of spurious wakeups and although
\* notify_one is called without the mutex.
THEOREM NoWakeupIsLost == Spec => []NoLostWakeup
  BY Invariance, PTL DEF IInv

\* No consumer, notified or not, processes the data before they are ready.
THEOREM ProcessesReadyData == Spec => []NothingProcessedEarly
  BY Invariance, PTL DEF IInv
-----------------------------------------------------------------------------
\* The places with mut held, and a thread that can go on if nobody disturbs
\* it, without a wakeup for no reason.
Holding == {"test", "process", "publish"}
MutHeld == \A t \in Threads : mut = t <=> pc[t] \in Holding
CanGoOn(t) == \/ pc[t] \in Holding \cup {"notify"}
              \/ pc[t] \in {"wait", "prepare"} /\ t \notin waiting /\ mut = Nobody
NoDeadlock == EnoughProducers => Finished \/ \E t \in Threads : CanGoOn(t)

LEMMA NextKeepsMut ==
    ASSUME TypeOK, MutHeld, [Next]_vars
    PROVE  MutHeld'
  <1>1. /\ pc \in [Threads -> Locations] /\ Consumers \subseteq Threads
        /\ Producers \subseteq Threads /\ \A t \in Threads : t # Nobody
    BY Sets DEF TypeOK, Threads
  <1>2. ASSUME NEW t \in Threads, NEW l, pc[t] \notin Holding, mut = Nobody, mut' = t,
               GoTo(t, l), l \in Holding
        PROVE  MutHeld'
    BY <1>1, <1>2 DEF MutHeld, GoTo
  <1>3. ASSUME NEW t \in Threads, NEW l, pc[t] \in Holding, mut' = Nobody,
               GoTo(t, l), l \notin Holding
        PROVE  MutHeld'
    BY <1>1, <1>3 DEF MutHeld, GoTo
  <1>4. ASSUME NEW t \in Threads, NEW l, pc[t] \in Holding <=> l \in Holding, mut' = mut,
               GoTo(t, l)
        PROVE  MutHeld'
    BY <1>1, <1>4 DEF MutHeld, GoTo
  <1>5. ASSUME NEW t \in Consumers, Consume(t)
        PROVE  MutHeld'
    <2>1. CASE Lock(t)
      BY <1>1, <1>2, <2>1 DEF Lock, Holding
    <2>2. CASE Wait(t) \/ Return(t)
      BY <1>1, <1>3, <2>2 DEF Wait, Return, Holding
    <2>3. CASE Process(t)
      BY <1>1, <1>4, <2>3 DEF Process, Holding
    <2> QED
      BY <1>5, <2>1, <2>2, <2>3 DEF Consume
  <1>6. ASSUME NEW t \in Producers, Produce(t)
        PROVE  MutHeld'
    <2>1. CASE LockToPublish(t)
      BY <1>1, <1>2, <2>1 DEF LockToPublish, Holding
    <2>2. CASE Publish(t)
      BY <1>1, <1>3, <2>2 DEF Publish, Holding
    <2>3. CASE Notify(t)
      BY <1>1, <1>4, <2>3 DEF Notify, Holding
    <2> QED
      BY <1>6, <2>1, <2>2, <2>3 DEF Produce
  <1>7. CASE (\E t \in Consumers : SpuriousWakeup(t)) \/ UNCHANGED vars
    BY <1>7 DEF SpuriousWakeup, vars, MutHeld
  <1> QED
    BY <1>5, <1>6, <1>7 DEF Next

LEMMA SomebodyGoesOn ==
    ASSUME IInv, MutHeld
    PROVE  NoDeadlock
  <1> SUFFICES ASSUME EnoughProducers, ~Finished, \A t \in Threads : ~CanGoOn(t)
               PROVE  FALSE
    BY DEF NoDeadlock
  <1>1. /\ pc \in [Threads -> Locations] /\ waiting \subseteq Consumers
        /\ Producers \subseteq Threads /\ mut \in Threads \cup {Nobody}
    BY DEF IInv, TypeOK, Threads
  <1>2. mut = Nobody
    <2>1. ASSUME mut \in Threads
          PROVE  FALSE
      BY <2>1 DEF MutHeld, CanGoOn
    <2> QED
      BY <1>1, <2>1
  <1>3. \A t \in Threads : pc[t] = "done" \/ t \in waiting
    BY <1>1, <1>2 DEF CanGoOn, Holding, Locations
  <1>4. ToNotify = {}
    BY <1>1, <1>3, Sets DEF ToNotify
  <1>5. Cardinality(waiting) <= 0
    BY <1>4, FS_EmptySet DEF IInv, NoLostWakeup
  <1>6. waiting = {}
    BY <1>5, Counts, FS_EmptySet DEF IInv
  <1> QED
    BY <1>3, <1>6 DEF Finished

\* With a producer for every consumer the threads never all stop before they
\* are done: each one that is left sleeps or wants mut only while another, by
\* itself, can go on (sync_test.cc:242-259).
THEOREM NeverStuck == Spec => []NoDeadlock
  <1>1. Init => MutHeld
    BY Sets, SMT DEF Init, MutHeld, Holding, Threads
  <1>2. IInv /\ MutHeld /\ [Next]_vars => MutHeld'
    BY NextKeepsMut DEF IInv
  <1>3. IInv /\ MutHeld => NoDeadlock
    BY SomebodyGoesOn
  <1> QED
    BY <1>1, <1>2, <1>3, Invariance, PTL DEF Spec
=============================================================================
