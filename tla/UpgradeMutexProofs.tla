-------------------------- MODULE UpgradeMutexProofs --------------------------
(***************************************************************************)
(* What holds of UpgradeMutex for every set of threads, every capacity and *)
(* every mix of calls and conversions, with and without deadlines.         *)
(***************************************************************************)
EXTENDS UpgradeMutex, FiniteSetTheorems, TLAPS

\* The inductive invariant: the state word is exact, a writer owns the mutex
\* only when the count is zero, and it sleeps only while the count is not.
IInv ==
    /\ TypeOK
    /\ StateWordExact
    /\ Owners # {} => readers = 0
    /\ WriterNotForgotten

Counted == Sharers \cup Upgraders

\* What a step of t may be for the threads that use the lock.
AbstractStep(t) ==
    \/ Abstract!Announce(t) \/ Abstract!GiveUp(t) \/ Abstract!AcquireExclusive(t)
    \/ Abstract!AcquireShared(t) \/ Abstract!AcquireUpgrade(t) \/ Abstract!Release(t)
    \/ Abstract!SharedToExclusive(t) \/ Abstract!SharedToUpgrade(t)
    \/ Abstract!UpgradeToExclusive(t) \/ Abstract!UpgradeToShared(t)
    \/ Abstract!ExclusiveToShared(t) \/ Abstract!ExclusiveToUpgrade(t)
    \/ UNCHANGED Abstract!vars

-----------------------------------------------------------------------------
\* A thread is in the sets of its place, and not asleep unless it waits.
LEMMA Placed ==
    ASSUME TypeOK, NEW t \in Threads
    PROVE  /\ t \in Entering <=> pc[t] \in {"enterX", "enterS", "enterU"}
           /\ t \in Sharers <=> pc[t] \in {"holdS", "waitSX", "waitSU", "wakeS"}
           /\ t \in Upgraders <=> pc[t] \in {"holdU", "waitUX", "wakeU"}
           /\ t \in Drainers <=> pc[t] \in {"drainX", "drainUX"}
           /\ t \in Owners <=> pc[t] = "holdX"
           /\ t \in Waiters <=> pc[t] \in {"waitSX", "waitSU", "waitUX"}
           /\ t \in gate1 => pc[t] \in {"enterX", "enterS", "enterU"}
           /\ t \in gate2 => pc[t] \in {"drainX", "drainUX", "waitSX", "waitSU", "waitUX"}
  BY DEF TypeOK, In, Entering, Sharers, Upgraders, Drainers, Owners, Waiters

\* A thread that goes to l is in the sets of l and in no other; the other
\* threads stay in theirs, and the deadline of the thread is forgotten.
LEMMA Moved ==
    ASSUME TypeOK, NEW t \in Threads, NEW l \in Locations, GoTo(t, l)
    PROVE  /\ pc' \in [Threads -> Locations]
           /\ Entering' = IF l \in {"enterX", "enterS", "enterU"}
                            THEN Entering \cup {t} ELSE Entering \ {t}
           /\ Sharers' = IF l \in {"holdS", "waitSX", "waitSU", "wakeS"}
                           THEN Sharers \cup {t} ELSE Sharers \ {t}
           /\ Upgraders' = IF l \in {"holdU", "waitUX", "wakeU"}
                             THEN Upgraders \cup {t} ELSE Upgraders \ {t}
           /\ Drainers' = IF l \in {"drainX", "drainUX"}
                            THEN Drainers \cup {t} ELSE Drainers \ {t}
           /\ Owners' = IF l = "holdX" THEN Owners \cup {t} ELSE Owners \ {t}
           /\ Waiters' = IF l \in {"waitSX", "waitSU", "waitUX"}
                           THEN Waiters \cup {t} ELSE Waiters \ {t}
           /\ timedOut' = timedOut \ {t}
           /\ \A s \in timedOut' : HasDeadline(s)'
  <1>1. /\ pc \in [Threads -> Locations] /\ pc' = [pc EXCEPT ![t] = l]
        /\ timedOut' = timedOut \ {t}
    BY DEF TypeOK, GoTo
  <1>2. pc' \in [Threads -> Locations]
    BY <1>1
  <1>3. ASSUME NEW ls
        PROVE  In(ls)' = IF l \in ls THEN In(ls) \cup {t} ELSE In(ls) \ {t}
    BY <1>1 DEF In
  <1>4. ASSUME NEW s \in timedOut'
        PROVE  HasDeadline(s)'
    <2>1. s \in Threads /\ s # t /\ HasDeadline(s)
      BY <1>1 DEF TypeOK
    <2>2. pc'[s] = pc[s]
      BY <2>1, <1>1
    <2> QED
      BY <2>1, <2>2 DEF HasDeadline, Waiters, In
  <1>5. Entering' = IF l \in {"enterX", "enterS", "enterU"}
                      THEN Entering \cup {t} ELSE Entering \ {t}
    BY <1>3 DEF Entering
  <1>6. Sharers' = IF l \in {"holdS", "waitSX", "waitSU", "wakeS"}
                     THEN Sharers \cup {t} ELSE Sharers \ {t}
    BY <1>3 DEF Sharers
  <1>7. Upgraders' = IF l \in {"holdU", "waitUX", "wakeU"}
                       THEN Upgraders \cup {t} ELSE Upgraders \ {t}
    BY <1>3 DEF Upgraders
  <1>8. Drainers' = IF l \in {"drainX", "drainUX"}
                      THEN Drainers \cup {t} ELSE Drainers \ {t}
    BY <1>3 DEF Drainers
  <1>9. Owners' = IF l = "holdX" THEN Owners \cup {t} ELSE Owners \ {t}
    BY <1>3 DEF Owners
  <1>10. Waiters' = IF l \in {"waitSX", "waitSU", "waitUX"}
                      THEN Waiters \cup {t} ELSE Waiters \ {t}
    BY <1>3 DEF Waiters
  <1> QED
    BY <1>1, <1>2, <1>4, <1>5, <1>6, <1>7, <1>8, <1>9, <1>10

\* In particular, the sets of neither its old place nor its new one stay.
LEMMA Unmoved ==
    ASSUME TypeOK, NEW t \in Threads, NEW l \in Locations, GoTo(t, l)
    PROVE  LET Outside(ls) == pc[t] \notin ls /\ l \notin ls
           IN  /\ Outside({"holdS", "waitSX", "waitSU", "wakeS"}) => Sharers' = Sharers
               /\ Outside({"holdU", "waitUX", "wakeU"}) => Upgraders' = Upgraders
               /\ Outside({"drainX", "drainUX"}) => Drainers' = Drainers
               /\ Outside({"holdX"}) => Owners' = Owners
  <1>1. /\ pc[t] \notin {"holdS", "waitSX", "waitSU", "wakeS"} => t \notin Sharers
        /\ pc[t] \notin {"holdU", "waitUX", "wakeU"} => t \notin Upgraders
        /\ pc[t] \notin {"drainX", "drainUX"} => t \notin Drainers
        /\ pc[t] \notin {"holdX"} => t \notin Owners
    BY Placed
  <1>2. l \notin {"holdS", "waitSX", "waitSU", "wakeS"} => Sharers' = Sharers \ {t}
    BY Moved
  <1>3. l \notin {"holdU", "waitUX", "wakeU"} => Upgraders' = Upgraders \ {t}
    BY Moved
  <1>4. l \notin {"drainX", "drainUX"} => Drainers' = Drainers \ {t}
    BY Moved
  <1>5. l \notin {"holdX"} => Owners' = Owners \ {t}
    BY Moved
  <1> QED
    BY <1>1, <1>2, <1>3, <1>4, <1>5

\* The holders in shared or upgradable mode can be counted, and the count
\* follows a thread that enters or leaves.
LEMMA Counting ==
    /\ Cardinality(Counted) \in Nat
    /\ Cardinality(Counted) = 0 <=> Counted = {}
    /\ \A t : t \notin Counted => Cardinality(Counted \cup {t}) = Cardinality(Counted) + 1
    /\ \A t \in Counted : Cardinality(Counted \ {t}) = Cardinality(Counted) - 1
    /\ \A t : Cardinality({t}) = 1
    /\ \A t : Cardinality(Counted) = 1 /\ t \in Counted => Counted = {t}
  <1>1. IsFiniteSet(Counted)
    <2>1. Counted \subseteq Threads
      BY DEF Counted, Sharers, Upgraders, In
    <2> QED
      BY <2>1, ThreadsAssumption, FS_Subset
  <1>2. \A t : t \notin Counted => Cardinality(Counted \cup {t}) = Cardinality(Counted) + 1
    BY <1>1, FS_AddElement
  <1>3. \A t \in Counted : Cardinality(Counted \ {t}) = Cardinality(Counted) - 1
    BY <1>1, FS_RemoveElement
  <1>4. Cardinality(Counted) \in Nat /\ (Cardinality(Counted) = 0 <=> Counted = {})
    BY <1>1, FS_CardinalityType, FS_EmptySet
  <1>5. \A t : Cardinality({t}) = 1
    BY FS_Singleton
  <1>6. ASSUME NEW t \in Counted, Cardinality(Counted) = 1
        PROVE  Counted = {t}
    <2>1. IsFiniteSet(Counted \ {t}) /\ Cardinality(Counted \ {t}) = 0
      BY <1>1, <1>3, <1>6, FS_RemoveElement
    <2>2. Counted \ {t} = {}
      BY <2>1, FS_EmptySet
    <2> QED
      BY <2>2
  <1> QED
    BY <1>2, <1>3, <1>4, <1>5, <1>6

\* A step that moves t to l keeps the types: t may join the sleepers of a gate
\* only where the code waits on that gate.
LEMMA TypeKept ==
    ASSUME TypeOK, NEW t \in Threads, NEW l \in Locations, GoTo(t, l),
           writeEntered' \in BOOLEAN, upgradableEntered' \in BOOLEAN,
           readers' \in 0 .. NReaders,
           gate1' \subseteq gate1 \cup {t},
           t \in gate1' => l \in {"enterX", "enterS", "enterU"},
           gate2' \subseteq gate2 \cup {t},
           t \in gate2' => l \in {"drainX", "drainUX", "waitSX", "waitSU", "waitUX"}
    PROVE  TypeOK'
  <1>1. gate1' \subseteq Entering'
    BY Moved DEF TypeOK
  <1>2. gate2' \subseteq Drainers' \cup Waiters'
    BY Moved DEF TypeOK
  <1>3. timedOut' \subseteq Threads \ (gate1' \cup gate2')
    BY Moved DEF TypeOK
  <1> QED
    BY <1>1, <1>2, <1>3, Moved DEF TypeOK

\* A step that moves t among places of one kind and leaves state_ alone.
LEMMA SameKind ==
    ASSUME IInv, NEW t \in Threads, NEW l \in Locations, GoTo(t, l),
           UNCHANGED state, TypeOK',
           Sharers' = Sharers, Upgraders' = Upgraders, Owners' = Owners,
           Drainers' = Drainers, gate2' \cap Drainers \subseteq gate2
    PROVE  IInv' /\ AbstractStep(t)
  <1>1. UNCHANGED Abstract!vars
    BY DEF Abstract!vars
  <1> QED
    BY <1>1 DEF IInv, state, StateWordExact, WriterNotForgotten, AbstractStep

\* A step that moves nobody: only the sleepers and the deadlines change.
LEMMA StillKeepsIInv ==
    ASSUME IInv, UNCHANGED <<state, pc>>,
           gate1' \subseteq Entering, gate2' \subseteq Drainers \cup Waiters,
           timedOut' \subseteq Threads \ (gate1' \cup gate2'),
           \A t \in timedOut' : HasDeadline(t),
           \A t \in gate2' \cap Drainers : readers > 0
    PROVE  IInv' /\ UNCHANGED Abstract!vars
  <1>1. /\ Sharers' = Sharers /\ Upgraders' = Upgraders /\ Drainers' = Drainers
        /\ Owners' = Owners /\ Entering' = Entering /\ Waiters' = Waiters
    BY DEF Sharers, Upgraders, Drainers, Owners, Entering, Waiters, In
  <1>2. \A t \in timedOut' : HasDeadline(t)'
    BY <1>1 DEF HasDeadline
  <1>3. TypeOK'
    BY <1>1, <1>2 DEF IInv, TypeOK, state
  <1> QED
    BY <1>1, <1>3 DEF IInv, StateWordExact, WriterNotForgotten, state,
                      Abstract!vars

LEMMA SleepKeepsIInv ==
    ASSUME IInv, NEW t \in Threads, NEW l \in {"enterX", "enterS", "enterU"},
           pc[t] \in {"idle", l}, SleepOnGate1(t, l)
    PROVE  IInv' /\ AbstractStep(t)
  <1>1. /\ GoTo(t, l) /\ gate1' = gate1 \cup {t} /\ gate2' = gate2 /\ UNCHANGED state
        /\ l \in Locations /\ TypeOK
    BY DEF SleepOnGate1, Locations, IInv
  <1>2. TypeOK'
    BY <1>1, TypeKept, Placed DEF TypeOK, state
  <1>3. /\ Sharers' = Sharers /\ Upgraders' = Upgraders
        /\ Owners' = Owners /\ Drainers' = Drainers
    BY <1>1, Unmoved
  <1> QED
    BY <1>1, <1>2, <1>3, SameKind

LEMMA GiveUpKeepsIInv ==
    ASSUME IInv, NEW t \in Threads, GiveUpGate1(t),
           pc[t] \in {"enterX", "enterS", "enterU"}
    PROVE  IInv' /\ AbstractStep(t)
  <1>1. /\ GoTo(t, "idle") /\ UNCHANGED <<gate1, gate2>> /\ UNCHANGED state
        /\ "idle" \in Locations /\ TypeOK /\ t \notin gate1 \cup gate2
    BY DEF GiveUpGate1, Locations, IInv, TypeOK
  <1>2. TypeOK'
    BY <1>1, TypeKept DEF TypeOK, state
  <1>3. /\ Sharers' = Sharers /\ Upgraders' = Upgraders
        /\ Owners' = Owners /\ Drainers' = Drainers
    BY <1>1, Unmoved
  <1> QED
    BY <1>1, <1>2, <1>3, SameKind

\* A request for a kind of ownership: if its pass through the loop keeps the
\* invariant, so does the call.
LEMMA RetryKeepsIInv ==
    ASSUME IInv, NEW t \in Threads, NEW l \in {"enterX", "enterS", "enterU"},
           NEW ACTION pass, NEW STATE closed,
           pass => IInv' /\ AbstractStep(t),
           Request(t, l, pass, closed) \/ Retry(t, l, pass, closed)
    PROVE  IInv' /\ AbstractStep(t)
  BY SleepKeepsIInv, GiveUpKeepsIInv DEF Request, Retry, Awake, WaitAgain

\* A writer sets write_entered_ when nobody else has a bit: it is alone with
\* the n holders that are left.
LEMMA OwnOrDrainKeepsIInv ==
    ASSUME IInv, NEW t \in Threads, NEW n \in 0 .. NReaders, NEW l \in {"drainX", "drainUX"},
           OwnOrDrain(t, n, l), t \notin gate1 \cup gate2,
           Owners \cup Drainers = {}, Upgraders \subseteq {t},
           t \notin Sharers, n = Cardinality(Sharers)
    PROVE  IInv' /\ AbstractStep(t)
  <1>1. /\ writeEntered' = TRUE /\ upgradableEntered' = FALSE /\ readers' = n
        /\ gate1' = gate1 /\ l \in Locations /\ "holdX" \in Locations /\ TypeOK
    BY DEF OwnOrDrain, State, Locations, IInv
  <1>4. n = 0 <=> Sharers = {}
    <2>1. IsFiniteSet(Sharers)
      <3>1. Sharers \subseteq Threads
        BY DEF Sharers, In
      <3> QED
        BY <3>1, ThreadsAssumption, FS_Subset
    <2> QED
      BY <2>1, FS_EmptySet
  <1>2. CASE n = 0 /\ GoTo(t, "holdX") /\ UNCHANGED gate2
    <2>1. /\ Owners' = {t} /\ Drainers' = {} /\ Upgraders' = {} /\ Sharers' = Sharers
      <3>1. /\ Owners' = Owners \cup {t} /\ Drainers' = Drainers \ {t}
            /\ Upgraders' = Upgraders \ {t} /\ Sharers' = Sharers \ {t}
        BY <1>1, <1>2, Moved
      <3> QED
        BY <3>1
    <2>2. TypeOK'
      BY <1>1, <1>2, TypeKept DEF TypeOK
    <2>3. Abstract!AcquireExclusive(t) \/ Abstract!UpgradeToExclusive(t)
      BY <1>2, <1>4, <2>1 DEF Abstract!AcquireExclusive, Abstract!UpgradeToExclusive
    <2>4. IInv'
      BY <1>1, <1>2, <2>1, <2>2 DEF IInv, StateWordExact, WriterNotForgotten
    <2> QED
      BY <2>3, <2>4 DEF AbstractStep
  <1>3. CASE n > 0 /\ GoTo(t, l) /\ gate2' = gate2 \cup {t}
    <2>1. /\ Owners' = {} /\ Drainers' = {t} /\ Upgraders' = {} /\ Sharers' = Sharers
      BY <1>1, <1>3, Moved
    <2>2. TypeOK'
      BY <1>1, <1>3, TypeKept DEF TypeOK
    <2>3. Abstract!Announce(t) \/ Abstract!UpgradeToExclusive(t)
      BY <1>3, <1>4, <2>1 DEF Abstract!Announce, Abstract!UpgradeToExclusive,
                             Abstract!OpenToUpgrader, Abstract!OpenToReaders
    <2>4. IInv'
      BY <1>1, <1>3, <2>1, <2>2 DEF IInv, StateWordExact, WriterNotForgotten
    <2> QED
      BY <2>3, <2>4 DEF AbstractStep
  <1> QED
    BY <1>2, <1>3 DEF OwnOrDrain

LEMMA CloseGate1KeepsIInv ==
    ASSUME IInv, NEW t \in Threads, CloseGate1(t),
           pc[t] \in {"idle", "enterX"}, t \notin gate1
    PROVE  IInv' /\ AbstractStep(t)
  <1>1. Owners \cup Drainers = {} /\ Upgraders = {} /\ readers = Cardinality(Sharers)
    BY DEF CloseGate1, ClosedToWriters, IInv, StateWordExact
  <1>2. t \notin gate2 /\ t \notin Sharers /\ readers \in 0 .. NReaders
    BY Placed DEF IInv, TypeOK
  <1> QED
    BY <1>1, <1>2, OwnOrDrainKeepsIInv DEF CloseGate1

\* The writer in its loop on gate2_ gets in, gives its bit back or sleeps; the
\* one of unlock_upgrade_and_lock has no deadline.
LEMMA DrainKeepsIInv ==
    ASSUME IInv, NEW t \in Threads, NEW l \in {"drainX", "drainUX"}, Drain(t, l)
    PROVE  IInv' /\ AbstractStep(t)
  <1>1. /\ pc[t] = l /\ t \notin gate1 \cup gate2 /\ gate1' = gate1 /\ TypeOK
        /\ l \in Locations /\ "holdX" \in Locations /\ "idle" \in Locations
    BY DEF Drain, Awake, IInv, Locations
  <1>2. t \in Drainers
    BY <1>1, Placed
  <1>3. Drainers = {t} /\ Owners = {} /\ Upgraders = {} /\ writeEntered
    <2>1. t \notin Owners /\ t \notin Upgraders
      BY <1>1, Placed
    <2> QED
      BY <1>2, <2>1 DEF IInv, StateWordExact
  <1>4. CASE readers = 0 /\ GoTo(t, "holdX") /\ UNCHANGED <<state, gate2>>
    <2>1. /\ Owners' = {t} /\ Drainers' = {} /\ Upgraders' = {} /\ Sharers' = Sharers
      <3>1. /\ Owners' = Owners \cup {t} /\ Drainers' = Drainers \ {t}
        BY <1>1, <1>4, Moved
      <3>2. Upgraders' = Upgraders /\ Sharers' = Sharers
        BY <1>1, <1>4, Unmoved
      <3> QED
        BY <1>3, <3>1, <3>2
    <2>2. TypeOK'
      BY <1>1, <1>4, TypeKept DEF TypeOK, state
    <2>3. IInv'
      BY <1>1, <1>3, <1>4, <2>1, <2>2 DEF IInv, StateWordExact, WriterNotForgotten, state
    <2>4. Abstract!AcquireExclusive(t)
      BY <1>3, <1>4, <2>1, Counting DEF IInv, StateWordExact, Counted,
         Abstract!AcquireExclusive
    <2> QED
      BY <2>3, <2>4 DEF AbstractStep
  <1>5. CASE readers > 0 /\ State(FALSE, upgradableEntered, readers) /\ GoTo(t, "idle")
             /\ UNCHANGED gate2
    <2>1. /\ Owners' = {} /\ Drainers' = {} /\ Upgraders' = {} /\ Sharers' = Sharers
      <3>1. Drainers' = Drainers \ {t}
        BY <1>1, <1>5, Moved
      <3>2. Owners' = Owners /\ Upgraders' = Upgraders /\ Sharers' = Sharers
        BY <1>1, <1>5, Unmoved
      <3> QED
        BY <1>3, <3>1, <3>2
    <2>2. TypeOK'
      BY <1>1, <1>5, TypeKept DEF TypeOK, State
    <2>3. IInv'
      BY <1>3, <1>5, <2>1, <2>2 DEF IInv, StateWordExact, WriterNotForgotten, State
    <2>4. Abstract!GiveUp(t)
      BY <1>3, <2>1 DEF Abstract!GiveUp
    <2> QED
      BY <2>3, <2>4 DEF AbstractStep
  <1>6. CASE /\ readers > 0 /\ t \notin timedOut /\ gate2' = gate2 \cup {t}
             /\ UNCHANGED <<state, pc, timedOut>>
    <2>1. /\ gate1' \subseteq Entering /\ gate2' \subseteq Drainers \cup Waiters
          /\ \A s \in timedOut' : HasDeadline(s)
      BY <1>1, <1>2, <1>6 DEF TypeOK
    <2>2. timedOut' \subseteq Threads \ (gate1' \cup gate2')
      BY <1>1, <1>6 DEF TypeOK
    <2> QED
      BY <1>6, <2>1, <2>2, StillKeepsIInv DEF AbstractStep
  <1> QED
    BY <1>4, <1>5, <1>6 DEF Drain

\* The owner is alone in the mutex, whatever it goes on to.
LEMMA OwnerAlone ==
    ASSUME IInv, NEW t \in Threads, pc[t] = "holdX"
    PROVE  /\ Owners = {t} /\ Drainers = {} /\ Upgraders = {} /\ Sharers = {}
           /\ t \notin gate1 \cup gate2 /\ readers = 0
  <1>1. t \in Owners /\ t \notin gate1 \cup gate2
    BY Placed DEF IInv
  <1>2. readers = 0 /\ Counted = {}
    BY <1>1, Counting DEF IInv, StateWordExact, Counted
  <1>3. t \notin Drainers /\ t \notin Upgraders
    BY Placed DEF IInv
  <1> QED
    BY <1>1, <1>2, <1>3 DEF IInv, StateWordExact, Counted

\* unlock() and the conversions that start from exclusive ownership store a
\* whole new state word, which counts the caller alone, or nobody.
LEMMA LeaveExclusiveKeepsIInv ==
    ASSUME IInv, NEW t \in Threads,
           Unlock(t) \/ ExclusiveToShared(t) \/ ExclusiveToUpgrade(t)
    PROVE  IInv' /\ AbstractStep(t)
  <1>1. /\ pc[t] = "holdX" /\ TypeOK /\ gate2' = gate2 /\ gate1' \subseteq gate1
        /\ "idle" \in Locations /\ "wakeS" \in Locations /\ "wakeU" \in Locations
        /\ writeEntered' = FALSE /\ readers' \in {0, 1}
    BY DEF Unlock, ExclusiveToShared, ExclusiveToUpgrade, State, IInv, Locations
  <1>2. /\ Owners = {t} /\ Drainers = {} /\ Upgraders = {} /\ Sharers = {}
        /\ t \notin gate1 \cup gate2
    BY <1>1, OwnerAlone
  <1>6. /\ gate1' \subseteq gate1 \cup {t} /\ t \notin gate1'
        /\ gate2' \subseteq gate2 \cup {t} /\ t \notin gate2'
    BY <1>1, <1>2
  <1>7. writeEntered' \in BOOLEAN /\ upgradableEntered' \in BOOLEAN
    BY <1>1 DEF Unlock, ExclusiveToShared, ExclusiveToUpgrade, State
  <1>8. readers' \in 0 .. NReaders
    BY <1>1, NReadersAssumption
  <1>3. CASE Unlock(t)
    <2>1. GoTo(t, "idle") /\ State(FALSE, FALSE, 0)
      BY <1>3 DEF Unlock
    <2>2. Owners' = {} /\ Drainers' = {} /\ Upgraders' = {} /\ Sharers' = {}
      <3>1. Owners' = Owners \ {t}
        BY <1>1, <2>1, Moved
      <3> QED
        BY <1>1, <1>2, <2>1, <3>1, Unmoved
    <2>3. TypeOK'
      BY <1>1, <1>6, <1>7, <1>8, <2>1, TypeKept
    <2>4. Cardinality({}) = 0
      BY FS_EmptySet
    <2>5. IInv'
      BY <1>1, <2>1, <2>2, <2>3, <2>4 DEF IInv, StateWordExact, WriterNotForgotten, State
    <2>6. Abstract!Release(t)
      BY <1>2, <2>2 DEF Abstract!Release
    <2> QED
      BY <2>5, <2>6 DEF AbstractStep
  <1>4. CASE ExclusiveToShared(t)
    <2>1. GoTo(t, "wakeS") /\ State(FALSE, FALSE, 1)
      BY <1>4 DEF ExclusiveToShared
    <2>2. Owners' = {} /\ Drainers' = {} /\ Upgraders' = {} /\ Sharers' = {t}
      <3>1. Owners' = Owners \ {t} /\ Sharers' = Sharers \cup {t}
        BY <1>1, <2>1, Moved
      <3> QED
        BY <1>1, <1>2, <2>1, <3>1, Unmoved
    <2>3. TypeOK'
      BY <1>1, <1>6, <1>7, <1>8, <2>1, TypeKept
    <2>4. IInv'
      BY <1>1, <2>1, <2>2, <2>3, Counting DEF IInv, StateWordExact, WriterNotForgotten, State
    <2>5. Abstract!ExclusiveToShared(t)
      BY <1>2, <2>2 DEF Abstract!ExclusiveToShared
    <2> QED
      BY <2>4, <2>5 DEF AbstractStep
  <1>5. CASE ExclusiveToUpgrade(t)
    <2>1. GoTo(t, "wakeU") /\ State(FALSE, TRUE, 1)
      BY <1>5 DEF ExclusiveToUpgrade
    <2>2. Owners' = {} /\ Drainers' = {} /\ Upgraders' = {t} /\ Sharers' = {}
      <3>1. Owners' = Owners \ {t} /\ Upgraders' = Upgraders \cup {t}
        BY <1>1, <2>1, Moved
      <3> QED
        BY <1>1, <1>2, <2>1, <3>1, Unmoved
    <2>3. TypeOK'
      BY <1>1, <1>6, <1>7, <1>8, <2>1, TypeKept
    <2>4. IInv'
      BY <1>1, <2>1, <2>2, <2>3, Counting DEF IInv, StateWordExact, WriterNotForgotten, State
    <2>5. Abstract!ExclusiveToUpgrade(t)
      BY <1>2, <2>2 DEF Abstract!ExclusiveToUpgrade
    <2> QED
      BY <2>4, <2>5 DEF AbstractStep
  <1> QED
    BY <1>3, <1>4, <1>5

\* A reader enters: no writer has the bit, and the count has room.
LEMMA CountInKeepsIInv ==
    ASSUME IInv, NEW t \in Threads, CountIn(t),
           pc[t] \in {"idle", "enterS"}, t \notin gate1
    PROVE  IInv' /\ AbstractStep(t)
  <1>1. /\ ~writeEntered /\ readers # NReaders /\ TypeOK /\ "holdS" \in Locations
        /\ GoTo(t, "holdS") /\ UNCHANGED <<gate1, gate2, writeEntered, upgradableEntered>>
        /\ readers' = readers + 1
    BY DEF CountIn, ClosedToReaders, State, IInv, Locations
  <1>2. t \notin gate2 /\ t \notin Counted
    BY <1>1, Placed DEF Counted
  <1>3. /\ Sharers' = Sharers \cup {t} /\ Upgraders' = Upgraders
        /\ Owners' = Owners /\ Drainers' = Drainers
    BY <1>1, Moved, Unmoved
  <1>4. Owners = {} /\ Drainers = {}
    BY <1>1 DEF IInv, StateWordExact
  <1>5. readers' = Cardinality(Sharers' \cup Upgraders')
    <2>1. Sharers' \cup Upgraders' = Counted \cup {t}
      BY <1>3 DEF Counted
    <2> QED
      BY <1>1, <1>2, <2>1, Counting DEF IInv, StateWordExact, Counted
  <1>6. readers' \in 0 .. NReaders
    BY <1>1, NReadersAssumption DEF TypeOK
  <1>7. TypeOK'
    BY <1>1, <1>2, <1>6, TypeKept DEF TypeOK
  <1>8. IInv'
    BY <1>1, <1>3, <1>4, <1>5, <1>7 DEF IInv, StateWordExact, WriterNotForgotten
  <1>9. Abstract!AcquireShared(t)
    BY <1>2, <1>3, <1>4 DEF Counted, Abstract!AcquireShared, Abstract!OpenToReaders
  <1> QED
    BY <1>8, <1>9 DEF AbstractStep

\* The upgrader enters: nobody else has a bit of the state word.
LEMMA CountUpgraderInKeepsIInv ==
    ASSUME IInv, NEW t \in Threads, CountUpgraderIn(t),
           pc[t] \in {"idle", "enterU"}, t \notin gate1
    PROVE  IInv' /\ AbstractStep(t)
  <1>1. /\ ~writeEntered /\ ~upgradableEntered /\ readers # NReaders /\ TypeOK
        /\ "holdU" \in Locations /\ GoTo(t, "holdU") /\ UNCHANGED <<gate1, gate2, writeEntered>>
        /\ upgradableEntered' = TRUE /\ readers' = readers + 1
    BY DEF CountUpgraderIn, ClosedToUpgraders, ClosedToWriters, State, IInv, Locations
  <1>2. t \notin gate2 /\ t \notin Counted
    BY <1>1, Placed DEF Counted
  <1>3. /\ Sharers' = Sharers /\ Upgraders' = Upgraders \cup {t}
        /\ Owners' = Owners /\ Drainers' = Drainers
    BY <1>1, Moved, Unmoved
  <1>4. Owners = {} /\ Drainers = {} /\ Upgraders = {}
    BY <1>1 DEF IInv, StateWordExact
  <1>5. readers' = Cardinality(Sharers' \cup Upgraders')
    <2>1. Sharers' \cup Upgraders' = Counted \cup {t}
      BY <1>3 DEF Counted
    <2> QED
      BY <1>1, <1>2, <2>1, Counting DEF IInv, StateWordExact, Counted
  <1>6. readers' \in 0 .. NReaders
    BY <1>1, NReadersAssumption DEF TypeOK
  <1>7. TypeOK'
    BY <1>1, <1>2, <1>6, TypeKept DEF TypeOK
  <1>8. IInv'
    BY <1>1, <1>3, <1>4, <1>5, <1>7 DEF IInv, StateWordExact, WriterNotForgotten
  <1>9. Abstract!AcquireUpgrade(t)
    BY <1>2, <1>3, <1>4 DEF Counted, Abstract!AcquireUpgrade, Abstract!OpenToUpgrader,
       Abstract!OpenToReaders
  <1> QED
    BY <1>8, <1>9 DEF AbstractStep

\* unlock_shared(): when the count becomes zero, nobody is left on gate2_ but
\* the writer, and notify_one wakes it.
LEMMA UnlockSharedKeepsIInv ==
    ASSUME IInv, NEW t \in Threads, UnlockShared(t)
    PROVE  IInv' /\ AbstractStep(t)
  <1>1. /\ pc[t] = "holdS" /\ GoTo(t, "idle") /\ readers' = readers - 1
        /\ UNCHANGED <<writeEntered, upgradableEntered>>
        /\ gate1' \subseteq gate1 /\ gate2' \subseteq gate2
        /\ "idle" \in Locations /\ TypeOK
    BY DEF UnlockShared, State, WakeDrainer, WakeIntoRoom, NotifyOne, IInv, Locations
  <1>2. t \in Counted /\ t \in Sharers /\ t \notin Upgraders /\ t \notin gate1 \cup gate2
    BY <1>1, Placed DEF Counted
  <1>3. readers \in Nat /\ readers > 0 /\ Owners = {}
    BY <1>2, Counting DEF IInv, StateWordExact, Counted
  <1>4. /\ Sharers' = Sharers \ {t} /\ Upgraders' = Upgraders
        /\ Owners' = Owners /\ Drainers' = Drainers
    BY <1>1, Moved, Unmoved
  <1>5. readers' = Cardinality(Sharers' \cup Upgraders')
    <2>1. Sharers' \cup Upgraders' = Counted \ {t}
      BY <1>2, <1>4 DEF Counted
    <2> QED
      BY <1>1, <1>2, <2>1, Counting DEF IInv, StateWordExact, Counted
  <1>6. readers' \in 0 .. NReaders
    BY <1>1, <1>3, NReadersAssumption DEF TypeOK
  <1>7. TypeOK'
    BY <1>1, <1>2, <1>6, TypeKept DEF TypeOK
  <1>8. WriterNotForgotten'
    <2>1. CASE readers' = 0 /\ writeEntered
      <3>1. Counted \ {t} = {}
        <4>1. readers = 1
          BY <1>1, <1>3, <2>1
        <4>2. Cardinality(Counted) = 1
          BY <4>1 DEF IInv, StateWordExact, Counted
        <4> QED
          BY <1>2, <4>2, Counting
      <3>2. Waiters \subseteq Counted
        BY DEF Waiters, Counted, Sharers, Upgraders, In
      <3>3. \A s, w \in gate2 : s = w
        BY <1>2, <3>1, <3>2 DEF IInv, TypeOK, StateWordExact
      <3>4. NotifyOne(gate2, gate2')
        BY <2>1 DEF UnlockShared, WakeDrainer
      <3>5. gate2' = {}
        BY <3>3, <3>4 DEF NotifyOne
      <3> QED
        BY <3>5 DEF WriterNotForgotten
    <2>2. CASE readers' # 0
      BY <1>1, <1>3, <2>2 DEF WriterNotForgotten
    <2>3. CASE ~writeEntered
      BY <1>4, <2>3 DEF WriterNotForgotten, IInv, StateWordExact
    <2> QED
      BY <2>1, <2>2, <2>3
  <1>9. IInv'
    BY <1>1, <1>3, <1>4, <1>5, <1>7, <1>8 DEF IInv, StateWordExact
  <1>10. Abstract!Release(t)
    BY <1>2, <1>3, <1>4 DEF Abstract!Release
  <1> QED
    BY <1>9, <1>10 DEF AbstractStep

\* The upgrader has the only bit of the state word.
LEMMA UpgraderAlone ==
    ASSUME IInv, NEW t \in Upgraders
    PROVE  /\ Owners = {} /\ Drainers = {} /\ Upgraders = {t} /\ ~writeEntered
           /\ t \notin Sharers /\ readers \in 1 .. NReaders
           /\ readers - 1 = Cardinality(Sharers)
  <1>1. t \in Threads /\ t \notin Sharers /\ t \notin Owners /\ t \notin Drainers
    <2>1. t \in Threads
      BY DEF Upgraders, In
    <2> QED
      BY <2>1, Placed DEF IInv
  <1>2. Owners = {} /\ Drainers = {} /\ Upgraders = {t} /\ ~writeEntered
    BY <1>1 DEF IInv, StateWordExact
  <1>3. Counted \ {t} = Sharers /\ t \in Counted
    BY <1>1, <1>2 DEF Counted
  <1>4. readers - 1 = Cardinality(Sharers)
    BY <1>3, Counting DEF IInv, StateWordExact, Counted
  <1>5. readers \in 0 .. NReaders /\ readers # 0
    BY <1>3, Counting DEF IInv, TypeOK, StateWordExact, Counted
  <1> QED
    BY <1>1, <1>2, <1>4, <1>5, NReadersAssumption

\* unlock_upgrade() and unlock_upgrade_and_lock_shared() clear the bit.
LEMMA LeaveUpgradeKeepsIInv ==
    ASSUME IInv, NEW t \in Threads, UnlockUpgrade(t) \/ UpgradeToShared(t)
    PROVE  IInv' /\ AbstractStep(t)
  <1>1. /\ pc[t] = "holdU" /\ UNCHANGED <<gate1, gate2, writeEntered>>
        /\ upgradableEntered' = FALSE /\ TypeOK
        /\ "wakeIdle" \in Locations /\ "wakeS" \in Locations
    BY DEF UnlockUpgrade, UpgradeToShared, State, IInv, Locations
  <1>2. t \in Upgraders /\ t \notin gate1 \cup gate2
    BY <1>1, Placed
  <1>3. /\ Owners = {} /\ Drainers = {} /\ Upgraders = {t} /\ ~writeEntered
        /\ t \notin Sharers /\ readers \in 1 .. NReaders
        /\ readers - 1 = Cardinality(Sharers)
    BY <1>2, UpgraderAlone
  <1>4. writeEntered' \in BOOLEAN /\ upgradableEntered' \in BOOLEAN
    BY <1>1 DEF TypeOK
  <1>5. CASE UnlockUpgrade(t)
    <2>1. GoTo(t, "wakeIdle") /\ readers' = readers - 1
      BY <1>5 DEF UnlockUpgrade, State
    <2>2. Owners' = {} /\ Drainers' = {} /\ Upgraders' = {} /\ Sharers' = Sharers
      <3>1. Upgraders' = Upgraders \ {t}
        BY <1>1, <2>1, Moved
      <3> QED
        BY <1>1, <1>3, <2>1, <3>1, Unmoved
    <2>3. readers' \in 0 .. NReaders
      BY <1>3, <2>1, NReadersAssumption
    <2>4. TypeOK'
      BY <1>1, <1>2, <1>4, <2>1, <2>3, TypeKept
    <2>5. IInv'
      BY <1>1, <1>3, <2>1, <2>2, <2>4 DEF IInv, StateWordExact, WriterNotForgotten
    <2>6. Abstract!Release(t)
      BY <1>3, <2>2 DEF Abstract!Release
    <2> QED
      BY <2>5, <2>6 DEF AbstractStep
  <1>6. CASE UpgradeToShared(t)
    <2>1. GoTo(t, "wakeS") /\ readers' = readers
      BY <1>6 DEF UpgradeToShared, State
    <2>2. Owners' = {} /\ Drainers' = {} /\ Upgraders' = {} /\ Sharers' = Sharers \cup {t}
      <3>1. Upgraders' = Upgraders \ {t} /\ Sharers' = Sharers \cup {t}
        BY <1>1, <2>1, Moved
      <3> QED
        BY <1>1, <1>3, <2>1, <3>1, Unmoved
    <2>3. readers' \in 0 .. NReaders
      BY <1>3, <2>1, NReadersAssumption
    <2>4. TypeOK'
      BY <1>1, <1>2, <1>4, <2>1, <2>3, TypeKept
    <2>5. Sharers' \cup Upgraders' = Sharers \cup Upgraders
      BY <1>3, <2>2
    <2>6. readers' = Cardinality(Sharers' \cup Upgraders')
      BY <2>1, <2>5 DEF IInv, StateWordExact
    <2>7. StateWordExact'
      BY <1>1, <1>3, <2>2, <2>6 DEF StateWordExact
    <2>8. IInv'
      BY <2>2, <2>4, <2>7 DEF IInv, WriterNotForgotten
    <2>9. Abstract!UpgradeToShared(t)
      BY <1>3, <2>2 DEF Abstract!UpgradeToShared
    <2> QED
      BY <2>8, <2>9 DEF AbstractStep
  <1> QED
    BY <1>5, <1>6

\* A conversion that cannot be done now, or has expired, changes no ownership.
LEMMA PendingKeepsIInv ==
    ASSUME IInv, NEW t \in Threads,
           NEW hold, NEW wait,
           \/ hold = "holdS" /\ wait \in {"waitSX", "waitSU"}
           \/ hold = "holdU" /\ wait = "waitUX",
           CannotConvert(t, hold, wait) \/ ConversionExpires(t, hold, wait)
    PROVE  IInv' /\ AbstractStep(t)
  <1>1. /\ hold \in Locations /\ wait \in Locations /\ TypeOK
        /\ UNCHANGED state /\ gate1' = gate1
        /\ pc[t] = hold \/ Awake(t, wait)
    BY DEF CannotConvert, ConversionExpires, Locations, IInv
  <1>2. t \notin gate1 \cup gate2
    BY <1>1, Placed DEF Awake
  <1>3. PICK l \in {hold, wait} : GoTo(t, l)
    BY DEF CannotConvert, ConversionExpires
  <1>4. gate2' \subseteq gate2 \cup {t} /\ (t \in gate2' => l = wait)
    <2>1. CASE CannotConvert(t, hold, wait)
      <3>1. GoTo(t, wait) /\ gate2' = gate2 \cup {t}
        BY <2>1 DEF CannotConvert
      <3>2. l = wait
        BY <1>1, <1>3, <3>1 DEF GoTo, TypeOK
      <3> QED
        BY <3>1, <3>2
    <2>2. CASE ConversionExpires(t, hold, wait)
      BY <1>2, <2>2 DEF ConversionExpires
    <2> QED
      BY <2>1, <2>2
  <1>5. /\ writeEntered' \in BOOLEAN /\ upgradableEntered' \in BOOLEAN
        /\ readers' \in 0 .. NReaders
    BY <1>1 DEF TypeOK, state
  <1>6. TypeOK'
    BY <1>1, <1>2, <1>3, <1>4, <1>5, TypeKept
  <1>7. /\ Sharers' = Sharers /\ Upgraders' = Upgraders
        /\ Owners' = Owners /\ Drainers' = Drainers /\ t \notin Drainers
    <2>1. pc[t] \in {hold, wait} /\ l \in Locations
      BY <1>1, <1>3 DEF Awake
    <2>2. Owners' = Owners /\ Drainers' = Drainers /\ t \notin Drainers
      BY <1>1, <1>3, <2>1, Unmoved, Placed
    <2>3. CASE hold = "holdS"
      <3>1. wait \in {"waitSX", "waitSU"}
        BY <2>3
      <3>2. t \in Sharers /\ Sharers' = Sharers \cup {t}
        BY <1>1, <1>3, <2>1, <2>3, <3>1, Moved, Placed
      <3>3. Upgraders' = Upgraders
        BY <1>1, <1>3, <2>1, <2>3, <3>1, Unmoved
      <3> QED
        BY <2>2, <3>2, <3>3
    <2>4. CASE hold = "holdU"
      <3>1. wait = "waitUX"
        BY <2>4
      <3>2. t \in Upgraders /\ Upgraders' = Upgraders \cup {t}
        BY <1>1, <1>3, <2>1, <2>4, <3>1, Moved, Placed
      <3>3. Sharers' = Sharers
        BY <1>1, <1>3, <2>1, <2>4, <3>1, Unmoved
      <3> QED
        BY <2>2, <3>2, <3>3
    <2> QED
      BY <2>3, <2>4
  <1> QED
    BY <1>1, <1>3, <1>4, <1>6, <1>7, SameKind

\* try_unlock_shared_and_lock, now or after a wait: state_ == 1 says that the
\* caller is the only holder, and that no writer waits for it.
LEMMA SharedToExclusiveKeepsIInv ==
    ASSUME IInv, NEW t \in Threads, SharedToExclusive(t)
    PROVE  IInv' /\ AbstractStep(t)
  <1>1. CASE /\ OnlySharer /\ State(TRUE, FALSE, 0) /\ GoTo(t, "holdX")
             /\ UNCHANGED <<gate1, gate2>>
    <2>1. /\ pc[t] \in {"holdS", "waitSX"} /\ t \notin gate1 \cup gate2
          /\ TypeOK /\ "holdX" \in Locations
      BY Placed DEF SharedToExclusive, Asks, Awake, IInv, Locations
    <2>2. t \in Sharers
      BY <2>1, Placed
    <2>3. Owners = {} /\ Drainers = {} /\ Upgraders = {}
      BY <1>1 DEF OnlySharer, state, IInv, StateWordExact
    <2>4. Sharers = {t}
      <3>1. Cardinality(Counted) = 1 /\ Counted = Sharers
        BY <1>1, <2>3 DEF OnlySharer, state, IInv, StateWordExact, Counted
      <3> QED
        BY <2>2, <3>1, Counting
    <2>5. Owners' = {t} /\ Drainers' = {} /\ Upgraders' = {} /\ Sharers' = {}
      <3>1. Owners' = Owners \cup {t} /\ Sharers' = Sharers \ {t}
        BY <1>1, <2>1, Moved
      <3>2. Drainers' = Drainers /\ Upgraders' = Upgraders
        BY <1>1, <2>1, Unmoved
      <3> QED
        BY <2>3, <2>4, <3>1, <3>2
    <2>6. /\ writeEntered' = TRUE /\ upgradableEntered' = FALSE /\ readers' = 0
          /\ readers' \in 0 .. NReaders
      BY <1>1, NReadersAssumption DEF State
    <2>7. TypeOK'
      BY <1>1, <2>1, <2>6, TypeKept
    <2>8. Cardinality({}) = 0
      BY FS_EmptySet
    <2>9. IInv'
      BY <2>5, <2>6, <2>7, <2>8 DEF IInv, StateWordExact, WriterNotForgotten
    <2>10. Abstract!SharedToExclusive(t)
      BY <2>3, <2>4, <2>5 DEF Abstract!SharedToExclusive, Abstract!OpenToUpgrader,
         Abstract!OpenToReaders
    <2> QED
      BY <2>9, <2>10 DEF AbstractStep
  <1> QED
    BY <1>1, PendingKeepsIInv DEF SharedToExclusive

\* A reader becomes the upgrader when nobody else has a bit.
LEMMA SharedToUpgradeKeepsIInv ==
    ASSUME IInv, NEW t \in Threads, SharedToUpgrade(t)
    PROVE  IInv' /\ AbstractStep(t)
  <1>1. CASE /\ ~ClosedToWriters /\ State(writeEntered, TRUE, readers)
             /\ GoTo(t, "holdU") /\ UNCHANGED <<gate1, gate2>>
    <2>1. /\ pc[t] \in {"holdS", "waitSU"} /\ t \notin gate1 \cup gate2
          /\ TypeOK /\ "holdU" \in Locations
      BY Placed DEF SharedToUpgrade, Asks, Awake, IInv, Locations
    <2>2. t \in Sharers
      BY <2>1, Placed
    <2>3. Owners = {} /\ Drainers = {} /\ Upgraders = {} /\ ~writeEntered
      BY <1>1 DEF ClosedToWriters, IInv, StateWordExact
    <2>4. Owners' = {} /\ Drainers' = {} /\ Upgraders' = {t} /\ Sharers' = Sharers \ {t}
      <3>1. Upgraders' = Upgraders \cup {t} /\ Sharers' = Sharers \ {t}
        BY <1>1, <2>1, Moved
      <3>2. Drainers' = Drainers /\ Owners' = Owners
        BY <1>1, <2>1, Unmoved
      <3> QED
        BY <2>3, <3>1, <3>2
    <2>5. /\ ~writeEntered' /\ writeEntered' = writeEntered
          /\ upgradableEntered' = TRUE /\ readers' = readers
      BY <1>1, <2>3 DEF State
    <2>6. Sharers' \cup Upgraders' = Sharers \cup Upgraders
      BY <2>2, <2>3, <2>4
    <2>7. readers' = Cardinality(Sharers' \cup Upgraders')
      BY <2>5, <2>6 DEF IInv, StateWordExact
    <2>8. /\ writeEntered' \in BOOLEAN /\ upgradableEntered' \in BOOLEAN
          /\ readers' \in 0 .. NReaders
      BY <2>1, <2>5 DEF TypeOK
    <2>9. TypeOK'
      BY <1>1, <2>1, <2>8, TypeKept
    <2>10. StateWordExact'
      BY <2>4, <2>5, <2>7 DEF StateWordExact
    <2>11. IInv'
      BY <2>4, <2>9, <2>10 DEF IInv, WriterNotForgotten
    <2>12. Abstract!SharedToUpgrade(t)
      BY <2>2, <2>3, <2>4 DEF Abstract!SharedToUpgrade, Abstract!OpenToUpgrader,
         Abstract!OpenToReaders
    <2> QED
      BY <2>11, <2>12 DEF AbstractStep
  <1> QED
    BY <1>1, PendingKeepsIInv DEF SharedToUpgrade

\* The upgrader becomes the owner when it is the only holder left.
LEMMA TryUpgradeToExclusiveKeepsIInv ==
    ASSUME IInv, NEW t \in Threads, TryUpgradeToExclusive(t)
    PROVE  IInv' /\ AbstractStep(t)
  <1>1. CASE /\ readers = 1 /\ State(TRUE, FALSE, 0) /\ GoTo(t, "holdX")
             /\ UNCHANGED <<gate1, gate2>>
    <2>1. /\ pc[t] \in {"holdU", "waitUX"} /\ t \notin gate1 \cup gate2
          /\ TypeOK /\ "holdX" \in Locations
      BY Placed DEF TryUpgradeToExclusive, Asks, Awake, IInv, Locations
    <2>2. t \in Upgraders
      BY <2>1, Placed
    <2>3. /\ Owners = {} /\ Drainers = {} /\ Upgraders = {t} /\ t \notin Sharers
          /\ Cardinality(Sharers) = 0
      BY <1>1, <2>2, UpgraderAlone
    <2>4. Sharers = {}
      <3>1. Counted = {t}
        BY <1>1, <2>2, Counting DEF IInv, StateWordExact, Counted
      <3> QED
        BY <2>3, <3>1 DEF Counted
    <2>5. Owners' = {t} /\ Drainers' = {} /\ Upgraders' = {} /\ Sharers' = {}
      <3>1. Owners' = Owners \cup {t} /\ Upgraders' = Upgraders \ {t}
        BY <1>1, <2>1, Moved
      <3>2. Drainers' = Drainers /\ Sharers' = Sharers
        BY <1>1, <2>1, Unmoved
      <3> QED
        BY <2>3, <2>4, <3>1, <3>2
    <2>6. /\ writeEntered' = TRUE /\ upgradableEntered' = FALSE /\ readers' = 0
          /\ readers' \in 0 .. NReaders
      BY <1>1, NReadersAssumption DEF State
    <2>7. TypeOK'
      BY <1>1, <2>1, <2>6, TypeKept
    <2>8. Cardinality({}) = 0
      BY FS_EmptySet
    <2>9. IInv'
      BY <2>5, <2>6, <2>7, <2>8 DEF IInv, StateWordExact, WriterNotForgotten
    <2>10. Abstract!UpgradeToExclusive(t)
      BY <2>3, <2>4, <2>5 DEF Abstract!UpgradeToExclusive
    <2> QED
      BY <2>9, <2>10 DEF AbstractStep
  <1> QED
    BY <1>1, PendingKeepsIInv DEF TryUpgradeToExclusive

\* unlock_upgrade_and_lock exchanges one bit for the other.
LEMMA UpgradeToExclusiveKeepsIInv ==
    ASSUME IInv, NEW t \in Threads, UpgradeToExclusive(t)
    PROVE  IInv' /\ AbstractStep(t)
  <1>1. pc[t] = "holdU" /\ OwnOrDrain(t, readers - 1, "drainUX")
    BY DEF UpgradeToExclusive
  <1>2. t \in Upgraders /\ t \notin gate1 \cup gate2
    BY <1>1, Placed DEF IInv
  <1>3. /\ Owners = {} /\ Drainers = {} /\ Upgraders = {t} /\ t \notin Sharers
        /\ readers \in 1 .. NReaders /\ readers - 1 = Cardinality(Sharers)
    BY <1>2, UpgraderAlone
  <1>4. readers - 1 \in 0 .. NReaders
    BY <1>3, NReadersAssumption
  <1> QED
    BY <1>1, <1>2, <1>3, <1>4, OwnOrDrainKeepsIInv

\* The notify_all after the release of mut_, and wake-ups without a notifier.
LEMMA WakeKeepsIInv ==
    ASSUME IInv, NEW t \in Threads,
           \/ Wake(t, "wakeIdle", "idle") \/ Wake(t, "wakeS", "holdS")
           \/ Wake(t, "wakeU", "holdU")
    PROVE  IInv' /\ AbstractStep(t)
  <1>1. TypeOK /\ UNCHANGED state /\ gate1' = {} /\ gate2' = gate2
    BY DEF Wake, IInv
  <1>2. PICK l \in {"idle", "holdS", "holdU"} :
            /\ GoTo(t, l)
            /\ pc[t] = IF l = "idle" THEN "wakeIdle" ELSE IF l = "holdS" THEN "wakeS" ELSE "wakeU"
    BY DEF Wake
  <1>3. l \in Locations /\ t \notin gate2
    BY <1>1, <1>2, Placed DEF Locations
  <1>4. /\ writeEntered' \in BOOLEAN /\ upgradableEntered' \in BOOLEAN
        /\ readers' \in 0 .. NReaders
    BY <1>1 DEF TypeOK, state
  <1>5. TypeOK'
    BY <1>1, <1>2, <1>3, <1>4, TypeKept
  <1>6. Owners' = Owners /\ Drainers' = Drainers
    BY <1>1, <1>2, <1>3, Unmoved
  <1>7. Sharers' = Sharers /\ Upgraders' = Upgraders
    <2>1. CASE l = "idle"
      BY <1>1, <1>2, <1>3, <2>1, Unmoved
    <2>2. CASE l = "holdS"
      <3>1. t \in Sharers /\ Sharers' = Sharers \cup {t}
        BY <1>1, <1>2, <1>3, <2>2, Moved, Placed
      <3>2. Upgraders' = Upgraders
        BY <1>1, <1>2, <1>3, <2>2, Unmoved
      <3> QED
        BY <3>1, <3>2
    <2>3. CASE l = "holdU"
      <3>1. t \in Upgraders /\ Upgraders' = Upgraders \cup {t}
        BY <1>1, <1>2, <1>3, <2>3, Moved, Placed
      <3>2. Sharers' = Sharers
        BY <1>1, <1>2, <1>3, <2>3, Unmoved
      <3> QED
        BY <3>1, <3>2
    <2> QED
      BY <2>1, <2>2, <2>3
  <1> QED
    BY <1>1, <1>2, <1>3, <1>5, <1>6, <1>7, SameKind

LEMMA EnvironmentKeepsIInv ==
    ASSUME IInv, NEW t \in Threads, SpuriousWakeup(t) \/ Timeout(t)
    PROVE  IInv' /\ AbstractStep(t)
  <1>1. /\ UNCHANGED <<state, pc>> /\ gate1' = gate1 \ {t} /\ gate2' = gate2 \ {t}
        /\ timedOut' = timedOut \/ (HasDeadline(t) /\ timedOut' = timedOut \cup {t})
    BY DEF SpuriousWakeup, Timeout
  <1>2. /\ gate1' \subseteq Entering /\ gate2' \subseteq Drainers \cup Waiters
        /\ timedOut' \subseteq Threads \ (gate1' \cup gate2')
        /\ \A s \in timedOut' : HasDeadline(s)
    BY <1>1 DEF IInv, TypeOK
  <1>3. \A s \in gate2' \cap Drainers : readers > 0
    BY <1>1 DEF IInv, WriterNotForgotten
  <1> QED
    BY <1>1, <1>2, <1>3, StillKeepsIInv DEF AbstractStep

-----------------------------------------------------------------------------
LEMMA InitIInv == Init => IInv /\ Abstract!Init
  <1> SUFFICES ASSUME Init PROVE IInv /\ Abstract!Init
    OBVIOUS
  <1>1. /\ Sharers = {} /\ Upgraders = {} /\ Drainers = {} /\ Owners = {}
        /\ gate1 = {} /\ gate2 = {} /\ timedOut = {}
        /\ writeEntered = FALSE /\ upgradableEntered = FALSE /\ readers = 0
    BY DEF Init, Sharers, Upgraders, Drainers, Owners, In
  <1>2. pc \in [Threads -> Locations]
    BY DEF Init, Locations
  <1>3. readers \in 0 .. NReaders
    BY <1>1, NReadersAssumption
  <1>4. TypeOK
    BY <1>1, <1>2, <1>3 DEF TypeOK
  <1>5. readers = Cardinality(Sharers \cup Upgraders)
    BY <1>1, FS_EmptySet
  <1> QED
    BY <1>1, <1>4, <1>5 DEF IInv, StateWordExact, WriterNotForgotten, Abstract!Init

\* Every step keeps the invariant, and is one of the lock the threads see.
LEMMA StepKeepsIInv ==
    ASSUME IInv, NEW t \in Threads,
           \/ Acquire(t) \/ Proceed(t) \/ Release(t) \/ Convert(t)
           \/ SpuriousWakeup(t) \/ Timeout(t)
    PROVE  IInv' /\ AbstractStep(t)
  <1>1. CASE Lock(t) \/ RetryLock(t)
    <2>1. pc[t] \in {"idle", "enterX"} /\ t \notin gate1
      BY <1>1, Placed DEF Lock, RetryLock, Request, Retry, Awake, IInv
    <2>2. CloseGate1(t) => IInv' /\ AbstractStep(t)
      BY <2>1, CloseGate1KeepsIInv
    <2> QED
      BY <1>1, <2>2, RetryKeepsIInv DEF Lock, RetryLock
  <1>2. CASE TryLock(t)
    <2>1. CloseGate1(t) /\ pc[t] = "idle"
      BY <1>2 DEF TryLock, CloseGate1, ClosedToWriters, OwnOrDrain, State, state
    <2>2. t \notin gate1
      BY <2>1, Placed DEF IInv
    <2> QED
      BY <2>1, <2>2, CloseGate1KeepsIInv
  <1>3. CASE LockShared(t) \/ RetryLockShared(t) \/ TryLockShared(t)
    <2>1. pc[t] \in {"idle", "enterS"} /\ t \notin gate1
      BY <1>3, Placed DEF LockShared, RetryLockShared, TryLockShared, Request, Retry,
                          Awake, IInv
    <2>2. CountIn(t) => IInv' /\ AbstractStep(t)
      BY <2>1, CountInKeepsIInv
    <2> QED
      BY <1>3, <2>2, RetryKeepsIInv DEF LockShared, RetryLockShared, TryLockShared
  <1>4. CASE LockUpgrade(t) \/ RetryLockUpgrade(t) \/ TryLockUpgrade(t)
    <2>1. pc[t] \in {"idle", "enterU"} /\ t \notin gate1
      BY <1>4, Placed DEF LockUpgrade, RetryLockUpgrade, TryLockUpgrade, Request, Retry,
                          Awake, IInv
    <2>2. CountUpgraderIn(t) => IInv' /\ AbstractStep(t)
      BY <2>1, CountUpgraderInKeepsIInv
    <2> QED
      BY <1>4, <2>2, RetryKeepsIInv DEF LockUpgrade, RetryLockUpgrade, TryLockUpgrade
  <1>5. CASE Drain(t, "drainX") \/ Drain(t, "drainUX")
    BY <1>5, DrainKeepsIInv
  <1>6. CASE \/ Wake(t, "wakeIdle", "idle") \/ Wake(t, "wakeS", "holdS")
             \/ Wake(t, "wakeU", "holdU")
    BY <1>6, WakeKeepsIInv
  <1>7. CASE Release(t)
    BY <1>7, LeaveExclusiveKeepsIInv, UnlockSharedKeepsIInv, LeaveUpgradeKeepsIInv
    DEF Release
  <1>8. CASE Convert(t)
    BY <1>8, SharedToExclusiveKeepsIInv, SharedToUpgradeKeepsIInv,
       TryUpgradeToExclusiveKeepsIInv, UpgradeToExclusiveKeepsIInv,
       LeaveUpgradeKeepsIInv, LeaveExclusiveKeepsIInv DEF Convert
  <1>9. CASE SpuriousWakeup(t) \/ Timeout(t)
    BY <1>9, EnvironmentKeepsIInv
  <1> QED
    BY <1>1, <1>2, <1>3, <1>4, <1>5, <1>6, <1>7, <1>8, <1>9 DEF Acquire, Proceed

LEMMA NextIInv == IInv /\ [Next]_vars => IInv'
  <1>1. ASSUME IInv, Next PROVE IInv'
    BY <1>1, StepKeepsIInv DEF Next
  <1>2. ASSUME IInv, UNCHANGED vars PROVE IInv'
    <2>1. UNCHANGED <<state, pc>> /\ UNCHANGED <<gate1, gate2, timedOut>>
      BY <1>2 DEF vars, state
    <2> QED
      BY <1>2, <2>1, StillKeepsIInv DEF IInv, TypeOK, WriterNotForgotten
  <1> QED
    BY <1>1, <1>2

\* The invariant holds of every behaviour of the mutex.
THEOREM Invariance == Spec => []IInv
  BY InitIInv, NextIInv, PTL DEF Spec

\* Exclusive ownership is exclusive, whichever way a thread got it.
THEOREM MutualExclusion == Spec => []Exclusion
  <1>1. IInv => Exclusion
    <2> SUFFICES ASSUME IInv, NEW t \in Owners
                 PROVE  Owners = {t} /\ Sharers \cup Upgraders = {}
      BY DEF Exclusion
    <2>1. t \in Threads /\ pc[t] = "holdX"
      BY DEF Owners, In
    <2> QED
      BY <2>1, OwnerAlone
  <1> QED
    BY <1>1, Invariance, PTL

\* The state word counts the holders, and each bit stands for one thread.
THEOREM StateWordIsExact == Spec => []StateWordExact
  <1>1. IInv => StateWordExact
    BY DEF IInv
  <1> QED
    BY <1>1, Invariance, PTL

\* The last holder that leaves wakes the writer, although conversions share
\* gate2_ with it and only one sleeper is notified.
THEOREM WriterIsNotForgotten == Spec => []WriterNotForgotten
  <1>1. IInv => WriterNotForgotten
    BY DEF IInv
  <1> QED
    BY <1>1, Invariance, PTL

\* The mutex implements the lock it promises: acquisition, release and every
\* conversion are single steps for the threads that use it.
THEOREM Refinement == Spec => ImplementsUpgradeLock
  <1>1. IInv /\ [Next]_vars => [Abstract!Next]_(Abstract!vars)
    <2> SUFFICES ASSUME IInv, [Next]_vars
                 PROVE  [Abstract!Next]_(Abstract!vars)
      OBVIOUS
    <2>1. CASE Next
      <3>1. PICK t \in Threads : AbstractStep(t)
        BY <2>1, StepKeepsIInv DEF Next
      <3> QED
        BY <3>1 DEF AbstractStep, Abstract!Next
    <2>2. CASE UNCHANGED vars
      BY <2>2 DEF vars, Abstract!vars, Sharers, Upgraders, Drainers, Owners, In
    <2> QED
      BY <2>1, <2>2
  <1> QED
    BY <1>1, InitIInv, Invariance, PTL DEF Spec, ImplementsUpgradeLock, Abstract!Spec

\* unlock_upgrade_and_lock lets nobody in between the two ownerships.
THEOREM UpgradeStaysExclusive == Spec => UpgradeIsExclusive
  <1> DEFINE Alone == \A t \in Threads :
          pc[t] = "drainUX" => Owners' \subseteq {t} /\ Sharers' \subseteq Sharers
                               /\ Upgraders' = {}
  <1>1. IInv /\ [Next]_vars => Alone
    <2> SUFFICES ASSUME IInv, [Next]_vars, NEW t \in Threads, pc[t] = "drainUX"
                 PROVE  /\ Owners' \subseteq {t} /\ Sharers' \subseteq Sharers
                        /\ Upgraders' = {}
      OBVIOUS
    <2>1. t \in Drainers /\ t \notin Owners /\ t \notin Upgraders
      BY Placed DEF IInv
    <2>2. Drainers = {t} /\ Owners = {} /\ Upgraders = {}
      BY <2>1 DEF IInv, StateWordExact
    <2>3. CASE Next
      <3>1. PICK s \in Threads : AbstractStep(s)
        BY <2>3, StepKeepsIInv DEF Next
      <3> QED
        BY <2>2, <3>1 DEF AbstractStep, Abstract!Announce, Abstract!GiveUp,
           Abstract!AcquireExclusive, Abstract!AcquireShared, Abstract!AcquireUpgrade,
           Abstract!Release, Abstract!SharedToExclusive, Abstract!SharedToUpgrade,
           Abstract!UpgradeToExclusive, Abstract!UpgradeToShared,
           Abstract!ExclusiveToShared, Abstract!ExclusiveToUpgrade,
           Abstract!OpenToUpgrader, Abstract!OpenToReaders, Abstract!vars
    <2>4. CASE UNCHANGED vars
      BY <2>2, <2>4 DEF vars, Sharers, Upgraders, Owners, In
    <2> QED
      BY <2>3, <2>4
  <1> QED
    BY <1>1, Invariance, PTL DEF Spec, UpgradeIsExclusive

-----------------------------------------------------------------------------
\* A thread that holds nothing leaves room in the count when the count has
\* room for every thread.
LEMMA RoomLeft ==
    ASSUME IInv, Cardinality(Threads) <= NReaders, NEW t \in Threads, t \notin Counted
    PROVE  readers # NReaders
  <1>1. Counted \subseteq Threads \ {t}
    BY DEF Counted, Sharers, Upgraders, In
  <1>2. /\ IsFiniteSet(Threads \ {t})
        /\ Cardinality(Threads \ {t}) = Cardinality(Threads) - 1
        /\ Cardinality(Threads) \in Nat
    BY ThreadsAssumption, FS_RemoveElement, FS_CardinalityType
  <1>3. Cardinality(Counted) <= Cardinality(Threads \ {t})
    BY <1>1, <1>2, FS_Subset
  <1> QED
    BY <1>2, <1>3, Counting, NReadersAssumption DEF IInv, StateWordExact, Counted

\* Who may be asleep on gate1_ when no notify_all is about to come.
Wakers == In({"wakeIdle", "wakeS", "wakeU"})
SleepersBlocked ==
    \/ Wakers # {}
    \/ /\ gate1 # {} => ClosedToWriters
       /\ gate1 \cap In({"enterS"}) # {} => writeEntered

LEMMA WhereEnters ==
    ASSUME TypeOK, NEW t \in Threads, NEW l \in Locations, GoTo(t, l)
    PROVE  /\ In({"enterS"})' = IF l = "enterS" THEN In({"enterS"}) \cup {t}
                                               ELSE In({"enterS"}) \ {t}
           /\ Wakers' = IF l \in {"wakeIdle", "wakeS", "wakeU"}
                          THEN Wakers \cup {t} ELSE Wakers \ {t}
  <1>1. pc \in [Threads -> Locations] /\ pc' = [pc EXCEPT ![t] = l]
    BY DEF TypeOK, GoTo
  <1>2. ASSUME NEW ls
        PROVE  In(ls)' = IF l \in ls THEN In(ls) \cup {t} ELSE In(ls) \ {t}
    BY <1>1 DEF In
  <1>3. In({"enterS"})' = IF l = "enterS" THEN In({"enterS"}) \cup {t}
                                          ELSE In({"enterS"}) \ {t}
    BY <1>2
  <1>4. Wakers' = IF l \in {"wakeIdle", "wakeS", "wakeU"}
                    THEN Wakers \cup {t} ELSE Wakers \ {t}
    BY <1>2 DEF Wakers
  <1> QED
    BY <1>3, <1>4

\* The step of a thread that neither sleeps on gate1_ nor opens it.
LEMMA StaysBlocked ==
    ASSUME IInv, SleepersBlocked, NEW t \in Threads, NEW l \in Locations, GoTo(t, l),
           t \notin Wakers, l \notin {"enterX", "enterS", "enterU"},
           gate1' \subseteq gate1,
           ClosedToWriters => ClosedToWriters', writeEntered => writeEntered'
    PROVE  SleepersBlocked'
  <1>1. In({"enterS"})' \subseteq In({"enterS"}) /\ Wakers \subseteq Wakers'
    BY WhereEnters DEF IInv
  <1> QED
    BY <1>1 DEF SleepersBlocked

LEMMA SleepStaysBlocked ==
    ASSUME IInv, SleepersBlocked, Cardinality(Threads) <= NReaders,
           NEW t \in Threads, NEW l \in {"enterX", "enterS", "enterU"},
           pc[t] \in {"idle", l}, SleepOnGate1(t, l),
           l = "enterX" => ClosedToWriters,
           l = "enterS" => ClosedToReaders,
           l = "enterU" => ClosedToUpgraders
    PROVE  SleepersBlocked'
  <1>1. /\ GoTo(t, l) /\ gate1' = gate1 \cup {t} /\ UNCHANGED state /\ l \in Locations
        /\ TypeOK
    BY DEF SleepOnGate1, Locations, IInv
  <1>2. t \notin Counted /\ t \notin Wakers
    BY <1>1, Placed DEF Counted, Wakers, In
  <1>3. readers # NReaders
    BY <1>2, RoomLeft
  <1>4. ClosedToWriters /\ (l = "enterS" => writeEntered)
    BY <1>3 DEF ClosedToReaders, ClosedToUpgraders, ClosedToWriters
  <1>5. /\ In({"enterS"})' \subseteq IF l = "enterS" THEN In({"enterS"}) \cup {t} ELSE In({"enterS"})
        /\ Wakers \subseteq Wakers'
    BY <1>1, <1>2, WhereEnters
  <1>6. t \in In({"enterS"})' => l = "enterS"
    BY <1>1, WhereEnters
  <1>7. ClosedToWriters' = ClosedToWriters /\ writeEntered' = writeEntered
    BY <1>1 DEF ClosedToWriters, state
  <1> QED
    BY <1>1, <1>4, <1>5, <1>6, <1>7 DEF SleepersBlocked

\* A request that passes its loop only sets bits; one that does not pass
\* sleeps on a closed gate1_, or gives up.
LEMMA RequestStaysBlocked ==
    ASSUME IInv, SleepersBlocked, Cardinality(Threads) <= NReaders,
           NEW t \in Threads, NEW l \in {"enterX", "enterS", "enterU"},
           NEW ACTION pass, NEW STATE closed,
           pass => SleepersBlocked',
           closed => /\ l = "enterX" => ClosedToWriters
                     /\ l = "enterS" => ClosedToReaders
                     /\ l = "enterU" => ClosedToUpgraders,
           Request(t, l, pass, closed) \/ Retry(t, l, pass, closed)
    PROVE  SleepersBlocked'
  <1>1. CASE closed /\ SleepOnGate1(t, l)
    <2>1. pc[t] \in {"idle", l}
      BY DEF Request, Retry, Awake
    <2> QED
      BY <1>1, <2>1, SleepStaysBlocked
  <1>2. CASE Awake(t, l) /\ GiveUpGate1(t)
    <2>1. /\ GoTo(t, "idle") /\ "idle" \in Locations /\ gate1' \subseteq gate1
          /\ t \notin Wakers /\ UNCHANGED state
      BY <1>2 DEF GiveUpGate1, Locations, Awake, Wakers, In
    <2>2. ClosedToWriters' = ClosedToWriters /\ writeEntered' = writeEntered
      BY <2>1 DEF ClosedToWriters, state
    <2> QED
      BY <2>1, <2>2, StaysBlocked
  <1> QED
    BY <1>1, <1>2 DEF Request, Retry, WaitAgain

\* A pass through a loop on gate1_, and the other steps that set bits only.
LEMMA PassStaysBlocked ==
    ASSUME IInv, SleepersBlocked, NEW t \in Threads, t \notin Wakers,
           \/ CountIn(t) \/ CountUpgraderIn(t)
           \/ \E n \in Nat, l \in {"drainX", "drainUX"} : OwnOrDrain(t, n, l)
    PROVE  SleepersBlocked'
  <1>1. PICK l \in {"holdS", "holdU", "holdX", "drainX", "drainUX"} : GoTo(t, l)
    BY DEF CountIn, CountUpgraderIn, OwnOrDrain
  <1>2. gate1' \subseteq gate1 /\ l \in Locations
    BY DEF CountIn, CountUpgraderIn, OwnOrDrain, Locations
  <1>3. /\ ClosedToWriters => ClosedToWriters'
        /\ writeEntered => writeEntered'
    BY DEF CountIn, CountUpgraderIn, OwnOrDrain, State, ClosedToWriters
  <1> QED
    BY <1>1, <1>2, <1>3, StaysBlocked

LEMMA ConvertStaysBlocked ==
    ASSUME IInv, SleepersBlocked, NEW t \in Threads, Convert(t)
    PROVE  SleepersBlocked'
  <1>1. CASE ExclusiveToShared(t) \/ ExclusiveToUpgrade(t) \/ UpgradeToShared(t)
    <2>1. PICK l \in {"wakeS", "wakeU"} : GoTo(t, l)
      BY <1>1 DEF ExclusiveToShared, ExclusiveToUpgrade, UpgradeToShared
    <2>2. t \in Wakers'
      BY <2>1, WhereEnters DEF IInv, Locations
    <2> QED
      BY <2>2 DEF SleepersBlocked
  <1>2. CASE UpgradeToExclusive(t)
    <2>1. t \notin Wakers /\ t \in Upgraders
      BY <1>2, Placed DEF UpgradeToExclusive, Wakers, In, IInv
    <2>2. readers - 1 \in Nat
      BY <2>1, UpgraderAlone
    <2> QED
      BY <1>2, <2>1, <2>2, PassStaysBlocked DEF UpgradeToExclusive
  <1>3. CASE SharedToExclusive(t) \/ SharedToUpgrade(t) \/ TryUpgradeToExclusive(t)
    <2>1. t \notin Wakers
      BY <1>3 DEF SharedToExclusive, SharedToUpgrade, TryUpgradeToExclusive, Asks, Awake,
                  Wakers, In
    <2>2. PICK l \in {"holdX", "holdU", "holdS", "waitSX", "waitSU", "waitUX"} : GoTo(t, l)
      BY <1>3 DEF SharedToExclusive, SharedToUpgrade, TryUpgradeToExclusive,
                  CannotConvert, ConversionExpires
    <2>3. gate1' \subseteq gate1 /\ l \in Locations
      BY <1>3 DEF SharedToExclusive, SharedToUpgrade, TryUpgradeToExclusive,
                  CannotConvert, ConversionExpires, Locations
    <2>4. /\ ClosedToWriters => ClosedToWriters'
          /\ writeEntered => writeEntered'
      BY <1>3 DEF SharedToExclusive, SharedToUpgrade, TryUpgradeToExclusive,
                  CannotConvert, ConversionExpires, State, state, ClosedToWriters
    <2> QED
      BY <2>1, <2>2, <2>3, <2>4, StaysBlocked
  <1> QED
    BY <1>1, <1>2, <1>3 DEF Convert

\* Without deadlines on exclusive requests, and with room in the count for
\* every thread, nobody sleeps on an open gate1_, except in the moment between
\* the release of mut_ and the notify_all that follows it.
THEOREM NoWakeupIsLost ==
    ASSUME UntilX = {}, Cardinality(Threads) <= NReaders
    PROVE  Spec => []NoLostWakeup
  <1>1. Init => SleepersBlocked
    BY DEF Init, SleepersBlocked
  <1>2. IInv /\ SleepersBlocked /\ [Next]_vars => SleepersBlocked'
    <2> SUFFICES ASSUME IInv, SleepersBlocked, [Next]_vars PROVE SleepersBlocked'
      OBVIOUS
    <2>1. ASSUME NEW t \in Threads, CloseGate1(t), t \notin Wakers PROVE SleepersBlocked'
      BY <2>1, PassStaysBlocked DEF CloseGate1, IInv, TypeOK
    <2>2. ASSUME NEW t \in Threads, Lock(t) \/ RetryLock(t) PROVE SleepersBlocked'
      <3>1. t \notin Wakers
        BY <2>2 DEF Lock, RetryLock, Request, Retry, Awake, Wakers, In
      <3>2. CloseGate1(t) => SleepersBlocked'
        BY <2>1, <3>1
      <3> QED
        BY <2>2, <3>2, RequestStaysBlocked DEF Lock, RetryLock
    <2>3. ASSUME NEW t \in Threads, TryLock(t) PROVE SleepersBlocked'
      <3>1. CloseGate1(t) /\ t \notin Wakers
        BY <2>3 DEF TryLock, CloseGate1, ClosedToWriters, OwnOrDrain, State, state, Wakers, In
      <3> QED
        BY <2>1, <3>1
    <2>4. ASSUME NEW t \in Threads, LockShared(t) \/ RetryLockShared(t) \/ TryLockShared(t)
          PROVE  SleepersBlocked'
      <3>1. t \notin Wakers
        BY <2>4 DEF LockShared, RetryLockShared, TryLockShared, Request, Retry, Awake, Wakers, In
      <3>2. CountIn(t) => SleepersBlocked'
        BY <3>1, PassStaysBlocked
      <3> QED
        BY <2>4, <3>2, RequestStaysBlocked DEF LockShared, RetryLockShared, TryLockShared
    <2>5. ASSUME NEW t \in Threads, LockUpgrade(t) \/ RetryLockUpgrade(t) \/ TryLockUpgrade(t)
          PROVE  SleepersBlocked'
      <3>1. t \notin Wakers
        BY <2>5 DEF LockUpgrade, RetryLockUpgrade, TryLockUpgrade, Request, Retry, Awake,
                    Wakers, In
      <3>2. CountUpgraderIn(t) => SleepersBlocked'
        BY <3>1, PassStaysBlocked
      <3> QED
        BY <2>5, <3>2, RequestStaysBlocked DEF LockUpgrade, RetryLockUpgrade, TryLockUpgrade
    <2>6. ASSUME NEW t \in Threads, NEW l \in {"drainX", "drainUX"}, Drain(t, l)
          PROVE  SleepersBlocked'
      <3>1. t \notin timedOut /\ t \notin Wakers
        BY <2>6 DEF Drain, Awake, IInv, TypeOK, HasDeadline, Waiters, Wakers, In
      <3>2. CASE GoTo(t, "holdX") /\ UNCHANGED state /\ UNCHANGED gate1
        <4>1. "holdX" \in Locations
          BY DEF Locations
        <4> QED
          BY <3>1, <3>2, <4>1, StaysBlocked DEF state, ClosedToWriters
      <3>3. CASE UNCHANGED <<state, pc, gate1>>
        BY <3>3 DEF SleepersBlocked, state, ClosedToWriters, Wakers, In
      <3> QED
        BY <2>6, <3>1, <3>2, <3>3 DEF Drain
    <2>7. ASSUME NEW t \in Threads, NEW l, NEW back, Wake(t, l, back) PROVE SleepersBlocked'
      BY <2>7 DEF Wake, SleepersBlocked
    <2>8. ASSUME NEW t \in Threads, Unlock(t) PROVE SleepersBlocked'
      BY <2>8 DEF Unlock, SleepersBlocked
    <2>9. ASSUME NEW t \in Threads, UnlockShared(t) PROVE SleepersBlocked'
      <3>1. /\ GoTo(t, "idle") /\ "idle" \in Locations /\ t \notin Wakers
            /\ gate1' \subseteq gate1
        BY <2>9 DEF UnlockShared, WakeIntoRoom, NotifyOne, Locations, Wakers, In
      <3>2. /\ ClosedToWriters' = ClosedToWriters /\ writeEntered' = writeEntered
        BY <2>9 DEF UnlockShared, State, ClosedToWriters
      <3> QED
        BY <3>1, <3>2, StaysBlocked
    <2>10. ASSUME NEW t \in Threads, UnlockUpgrade(t) PROVE SleepersBlocked'
      <3>1. GoTo(t, "wakeIdle") /\ "wakeIdle" \in Locations
        BY <2>10 DEF UnlockUpgrade, Locations
      <3>2. t \in Wakers'
        BY <3>1, WhereEnters DEF IInv
      <3> QED
        BY <3>2 DEF SleepersBlocked
    <2>11. ASSUME NEW t \in Threads, SpuriousWakeup(t) \/ Timeout(t) PROVE SleepersBlocked'
      BY <2>11 DEF SpuriousWakeup, Timeout, SleepersBlocked, state, ClosedToWriters, Wakers, In
    <2>12. CASE UNCHANGED vars
      BY <2>12 DEF vars, SleepersBlocked, ClosedToWriters, Wakers, In
    <2> QED
      BY <2>2, <2>3, <2>4, <2>5, <2>6, <2>7, <2>8, <2>9, <2>10, <2>11, <2>12,
         ConvertStaysBlocked DEF Next, Acquire, Proceed, Release
  <1>3. IInv /\ SleepersBlocked => NoLostWakeup
    BY DEF SleepersBlocked, NoLostWakeup, ClosedToReaders, ClosedToUpgraders, Wakers
  <1> QED
    BY <1>1, <1>2, <1>3, Invariance, PTL DEF Spec

\* The requests, and one whose next step is to enter.
Requests == Entering \cup Drainers
CanEnter(t) == \/ (Awake(t, "drainX") \/ Awake(t, "drainUX")) /\ readers = 0
               \/ Awake(t, "enterX") /\ ~ClosedToWriters /\ readers = 0
               \/ Awake(t, "enterS") /\ ~ClosedToReaders
               \/ Awake(t, "enterU") /\ ~ClosedToUpgraders
FreeMutexIsTaken ==
    Owners \cup Sharers \cup Upgraders = {} /\ Requests # {} =>
        \/ In({"wakeIdle"}) # {}
        \/ \E t \in Requests : CanEnter(t)

\* The requests never all sleep beside a mutex that nobody holds: one of them
\* is awake and finds its gate open, or the notify_all of unlock_upgrade that
\* wakes them is about to come, under the conditions of NoWakeupIsLost.
THEOREM NeverStuck ==
    ASSUME UntilX = {}, Cardinality(Threads) <= NReaders
    PROVE  Spec => []FreeMutexIsTaken
  <1>1. IInv /\ NoLostWakeup => FreeMutexIsTaken
    <2> SUFFICES ASSUME IInv, NoLostWakeup, Owners \cup Sharers \cup Upgraders = {},
                        In({"wakeIdle"}) = {}, NEW t \in Requests
                 PROVE  \E u \in Requests : CanEnter(u)
      BY DEF FreeMutexIsTaken
    <2>1. readers = 0 /\ ~upgradableEntered
      <3>1. Sharers \cup Upgraders = {} /\ Upgraders = {}
        OBVIOUS
      <3> QED
        BY <3>1, FS_EmptySet DEF IInv, StateWordExact
    <2>2. gate2 = {}
      <3>1. Waiters = {}
        BY DEF Waiters, Sharers, Upgraders, In
      <3> QED
        BY <2>1, <3>1 DEF IInv, TypeOK, WriterNotForgotten
    <2>3. CASE Drainers # {}
      <3>1. PICK u \in Drainers : TRUE
        BY <2>3
      <3>2. u \in Threads /\ pc[u] \in {"drainX", "drainUX"} /\ u \in Requests
        BY <3>1 DEF Drainers, In, Requests
      <3>3. u \notin gate1
        BY <3>2 DEF IInv, TypeOK, Entering, In
      <3> QED
        BY <2>1, <2>2, <3>2, <3>3 DEF CanEnter, Awake
    <2>4. CASE Drainers = {}
      <3>1. ~ClosedToWriters
        BY <2>1, <2>4 DEF IInv, StateWordExact, ClosedToWriters
      <3>2. ~ClosedToReaders /\ ~ClosedToUpgraders
        BY <2>1, <3>1, NReadersAssumption DEF ClosedToReaders, ClosedToUpgraders, ClosedToWriters
      <3>3. In({"wakeIdle", "wakeS", "wakeU"}) = {}
        BY DEF Sharers, Upgraders, In
      <3>4. gate1 = {}
        <4>1. gate1 \subseteq In({"enterX"}) \cup In({"enterS"}) \cup In({"enterU"})
          BY DEF IInv, TypeOK, Entering, In
        <4> QED
          BY <3>1, <3>2, <3>3, <4>1 DEF NoLostWakeup
      <3>5. pc[t] \in {"enterX", "enterS", "enterU"}
        BY <2>4 DEF Requests, Entering, In
      <3> QED
        BY <2>1, <2>2, <3>1, <3>2, <3>4, <3>5 DEF CanEnter, Awake
    <2> QED
      BY <2>3, <2>4
  <1> QED
    BY <1>1, Invariance, NoWakeupIsLost, PTL
=============================================================================
