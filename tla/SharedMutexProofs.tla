-------------------------- MODULE SharedMutexProofs --------------------------
(***************************************************************************)
(* What holds of SharedMutex for every set of threads, every capacity and  *)
(* every mix of calls with and without deadlines.                          *)
(***************************************************************************)
EXTENDS SharedMutex, FiniteSetTheorems, TLAPS

\* The inductive invariant: the state word is exact, a writer owns the mutex
\* only when the count is zero, and the writer on gate2_ has readers to wait for.
IInv ==
    /\ TypeOK
    /\ StateWordExact
    /\ At("holdX") # {} => readers = 0
    /\ WriterNotForgotten

-----------------------------------------------------------------------------
\* A thread that goes to l is at l afterwards and nowhere else, the other
\* threads stay where they are, and its deadline, if any, is forgotten.
LEMMA Moved ==
    ASSUME TypeOK, NEW t \in Threads, NEW l \in Locations, GoTo(t, l)
    PROVE  /\ pc' \in [Threads -> Locations]
           /\ \A m \in Locations :
                 At(m)' = IF m = l THEN At(m) \cup {t} ELSE At(m) \ {t}
           /\ timedOut' = timedOut \ {t}
           /\ \A s \in timedOut' : HasDeadline(s)'
  <1>1. pc \in [Threads -> Locations] /\ pc' = [pc EXCEPT ![t] = l]
    BY DEF TypeOK, GoTo
  <1>2. pc' \in [Threads -> Locations]
    BY <1>1
  <1>3. ASSUME NEW m \in Locations
        PROVE  At(m)' = IF m = l THEN At(m) \cup {t} ELSE At(m) \ {t}
    BY <1>1 DEF At
  <1>4. timedOut' = timedOut \ {t}
    BY DEF GoTo
  <1>5. ASSUME NEW s \in timedOut'
        PROVE  HasDeadline(s)'
    <2>1. s \in Threads /\ s # t /\ HasDeadline(s)
      BY <1>4 DEF TypeOK
    <2>2. pc'[s] = pc[s]
      BY <2>1, <1>1
    <2> QED
      BY <2>1, <2>2 DEF HasDeadline
  <1> QED
    BY <1>2, <1>3, <1>4, <1>5

\* A thread is at one place only, and awake while it is not in a wait.
LEMMA Placed ==
    ASSUME TypeOK, NEW t \in Threads
    PROVE  /\ \A m \in Locations : t \in At(m) <=> pc[t] = m
           /\ pc[t] \in {"idle", "holdX", "holdS"} =>
                 t \notin gate1 \cup gate2 /\ t \notin timedOut
  <1>1. \A m \in Locations : t \in At(m) <=> pc[t] = m
    BY DEF At
  <1>2. pc[t] \in {"idle", "holdX", "holdS"} => t \notin gate1 \cup gate2
    BY <1>1 DEF TypeOK, Locations
  <1>3. pc[t] \in {"idle", "holdX", "holdS"} => t \notin timedOut
    BY DEF TypeOK, HasDeadline
  <1> QED
    BY <1>1, <1>2, <1>3

LEMMA MovedFrom ==
    ASSUME TypeOK, NEW t \in Threads, NEW l \in Locations, GoTo(t, l)
    PROVE  /\ At(l)' = At(l) \cup {t}
           /\ \A m \in Locations : m # l => At(m)' = At(m) \ {t}
           /\ \A m \in Locations : m # l /\ m # pc[t] => At(m)' = At(m)
  <1>1. \A m \in Locations : m # pc[t] => t \notin At(m)
    BY Placed
  <1> QED
    BY <1>1, Moved

\* The threads inside in shared mode can be counted.
LEMMA SharersFinite ==
    /\ IsFiniteSet(At("holdS"))
    /\ Cardinality(At("holdS")) \in Nat
    /\ Cardinality(At("holdS")) = 0 <=> At("holdS") = {}
  <1>1. At("holdS") \subseteq Threads
    BY DEF At
  <1>2. IsFiniteSet(At("holdS"))
    BY <1>1, ThreadsAssumption, FS_Subset
  <1> QED
    BY <1>2, FS_CardinalityType, FS_EmptySet

\* The count follows a thread that enters or leaves in shared mode.
LEMMA CountOneMore ==
    ASSUME NEW t \in Threads, t \notin At("holdS"),
           At("holdS")' = At("holdS") \cup {t}
    PROVE  Cardinality(At("holdS"))' = Cardinality(At("holdS")) + 1
  <1>1. Cardinality(At("holdS") \cup {t}) = Cardinality(At("holdS")) + 1
    BY SharersFinite, FS_AddElement
  <1> QED
    BY <1>1

LEMMA CountOneLess ==
    ASSUME NEW t \in At("holdS"), At("holdS")' = At("holdS") \ {t}
    PROVE  Cardinality(At("holdS"))' = Cardinality(At("holdS")) - 1
  <1>1. Cardinality(At("holdS") \ {t}) = Cardinality(At("holdS")) - 1
    BY SharersFinite, FS_RemoveElement
  <1> QED
    BY <1>1

-----------------------------------------------------------------------------
LEMMA InitIInv == Init => IInv
  <1> SUFFICES ASSUME Init PROVE IInv
    OBVIOUS
  <1>1. \A l \in Locations \ {"idle"} : At(l) = {}
    BY DEF Init, At, Locations
  <1>2. /\ At("enterX") = {} /\ At("enterS") = {} /\ At("drainX") = {}
        /\ At("holdX") = {} /\ At("holdS") = {}
    BY <1>1 DEF Locations
  <1>3. TypeOK
    <2>1. readers \in 0 .. NReaders
      BY NReadersAssumption DEF Init
    <2>2. writeEntered \in BOOLEAN
      BY DEF Init
    <2>3. pc \in [Threads -> Locations]
      BY DEF Init, Locations
    <2>4. timedOut = {} /\ gate1 = {} /\ gate2 = {}
      BY DEF Init
    <2> QED
      BY <2>1, <2>2, <2>3, <2>4 DEF TypeOK
  <1>4. StateWordExact
    BY <1>2, SharersFinite DEF Init, StateWordExact
  <1> QED
    BY <1>2, <1>3, <1>4 DEF Init, IInv, WriterNotForgotten

-----------------------------------------------------------------------------
\* A request that goes to sleep on gate1_ takes nothing from the mutex.
LEMMA SleepKeepsIInv ==
    ASSUME IInv, NEW t \in Threads, NEW l \in {"enterX", "enterS"},
           pc[t] \in {"idle", l}, SleepOnGate1(t, l)
    PROVE  IInv'
  <1>1. GoTo(t, l) /\ gate1' = gate1 \cup {t}
        /\ UNCHANGED <<writeEntered, readers, gate2>>
    BY DEF SleepOnGate1
  <1>2. TypeOK /\ l \in Locations
    BY DEF IInv, Locations
  <1> USE <1>2
  <1>3. /\ At("drainX")' = At("drainX") /\ At("holdX")' = At("holdX")
        /\ At("holdS")' = At("holdS")
        /\ (At("enterX") \cup At("enterS"))' = At("enterX") \cup At("enterS") \cup {t}
    BY <1>1, MovedFrom DEF Locations
  <1>4. TypeOK'
    BY <1>1, <1>3, Moved, Placed DEF TypeOK
  <1>5. StateWordExact'
    BY <1>1, <1>3 DEF IInv, StateWordExact
  <1>6. (At("holdX") # {} => readers = 0)' /\ WriterNotForgotten'
    BY <1>1, <1>3 DEF IInv, WriterNotForgotten
  <1> QED
    BY <1>4, <1>5, <1>6 DEF IInv

\* A writer closes gate1_: nobody has the bit write_entered_, so the new
\* holder of the bit is alone, and it waits only for readers that are inside.
LEMMA CloseGate1KeepsIInv ==
    ASSUME IInv, NEW t \in Threads, CloseGate1(t),
           pc[t] \in {"idle", "enterX"}, t \notin gate1
    PROVE  IInv'
  <1> USE DEF IInv
  <1>1. /\ ~writeEntered /\ writeEntered' = TRUE
        /\ readers' = readers /\ gate1' = gate1
    BY DEF CloseGate1
  <1>2. At("drainX") = {} /\ At("holdX") = {} /\ gate2 = {}
    BY <1>1 DEF StateWordExact, TypeOK
  <1>3. CASE readers = 0 /\ GoTo(t, "holdX") /\ UNCHANGED gate2
    <2>1. /\ At("holdX")' = {t} /\ At("drainX")' = {} /\ At("holdS")' = At("holdS")
          /\ At("enterX") \ {t} \subseteq At("enterX")' /\ At("enterS")' = At("enterS")
      BY <1>2, <1>3, MovedFrom DEF Locations
    <2>2. TypeOK'
      BY <1>1, <1>2, <1>3, <2>1, Moved DEF TypeOK, Locations
    <2>3. StateWordExact' /\ WriterNotForgotten'
      BY <1>1, <1>2, <1>3, <2>1 DEF StateWordExact, WriterNotForgotten
    <2> QED
      BY <1>1, <1>3, <2>2, <2>3
  <1>4. CASE readers > 0 /\ GoTo(t, "drainX") /\ gate2' = gate2 \cup {t}
    <2>1. /\ At("drainX")' = {t} /\ At("holdX")' = {} /\ At("holdS")' = At("holdS")
          /\ At("enterX") \ {t} \subseteq At("enterX")' /\ At("enterS")' = At("enterS")
      BY <1>2, <1>4, MovedFrom DEF Locations
    <2>2. TypeOK'
      BY <1>1, <1>2, <1>4, <2>1, Moved DEF TypeOK, Locations
    <2>3. StateWordExact' /\ WriterNotForgotten'
      BY <1>1, <1>2, <1>4, <2>1 DEF StateWordExact, WriterNotForgotten
    <2> QED
      BY <2>1, <2>2, <2>3
  <1> QED
    BY <1>3, <1>4 DEF CloseGate1

\* A reader enters: no writer has the bit, and the count has room.
LEMMA CountInKeepsIInv ==
    ASSUME IInv, NEW t \in Threads, CountIn(t),
           pc[t] \in {"idle", "enterS"}, t \notin gate1
    PROVE  IInv'
  <1> USE DEF IInv
  <1>1. /\ ~writeEntered /\ readers # NReaders /\ readers' = readers + 1
        /\ GoTo(t, "holdS") /\ UNCHANGED <<writeEntered, gate1, gate2>>
    BY DEF CountIn, ClosedToReaders
  <1>2. At("drainX") = {} /\ At("holdX") = {} /\ gate2 = {}
    BY <1>1 DEF StateWordExact, TypeOK
  <1>3. /\ At("holdX")' = {} /\ At("drainX")' = {}
        /\ At("holdS")' = At("holdS") \cup {t} /\ t \notin At("holdS")
        /\ At("enterX")' = At("enterX") /\ At("enterS") \ {t} \subseteq At("enterS")'
    BY <1>1, <1>2, MovedFrom, Placed DEF Locations
  <1>4. readers' \in 0 .. NReaders
    BY <1>1, NReadersAssumption DEF TypeOK
  <1>5. TypeOK'
    BY <1>1, <1>2, <1>3, <1>4, Moved DEF TypeOK, Locations
  <1>6. StateWordExact'
    BY <1>1, <1>3, CountOneMore DEF StateWordExact
  <1> QED
    BY <1>1, <1>2, <1>3, <1>5, <1>6 DEF WriterNotForgotten

\* A request that gives up on gate1_ leaves the state word alone.
LEMMA GiveUpKeepsIInv ==
    ASSUME IInv, NEW t \in Threads, GiveUpGate1(t),
           pc[t] \in {"enterX", "enterS"}
    PROVE  IInv'
  <1> USE DEF IInv
  <1>1. /\ t \notin gate1 /\ GoTo(t, "idle")
        /\ UNCHANGED <<writeEntered, readers, gate1, gate2>>
    BY DEF GiveUpGate1, TypeOK
  <1>2. /\ At("holdX")' = At("holdX") /\ At("drainX")' = At("drainX")
        /\ At("holdS")' = At("holdS")
        /\ At("enterX") \ {t} \subseteq At("enterX")'
        /\ At("enterS") \ {t} \subseteq At("enterS")'
    BY <1>1, MovedFrom DEF Locations
  <1>3. TypeOK'
    BY <1>1, <1>2, Moved DEF TypeOK, Locations
  <1>4. StateWordExact' /\ WriterNotForgotten'
    BY <1>1, <1>2 DEF StateWordExact, WriterNotForgotten
  <1> QED
    BY <1>1, <1>2, <1>3, <1>4

\* The writer in the loop on gate2_ gets in, gives its bit back or sleeps.
LEMMA DrainKeepsIInv ==
    ASSUME IInv, NEW t \in Threads, Drain(t)
    PROVE  IInv'
  <1> USE DEF IInv
  <1>1. /\ pc[t] = "drainX" /\ t \notin gate1 \cup gate2
        /\ readers' = readers /\ gate1' = gate1
    BY DEF Drain, Awake
  <1>2. t \in At("drainX")
    BY <1>1 DEF At
  <1>3. At("drainX") = {t} /\ At("holdX") = {} /\ writeEntered /\ gate2 = {}
    BY <1>1, <1>2, Placed DEF StateWordExact, TypeOK, Locations
  <1>4. CASE readers = 0 /\ GoTo(t, "holdX") /\ UNCHANGED <<writeEntered, gate2>>
    <2>1. /\ At("holdX")' = {t} /\ At("drainX")' = {} /\ At("holdS")' = At("holdS")
          /\ At("enterX")' = At("enterX") /\ At("enterS")' = At("enterS")
      BY <1>1, <1>3, <1>4, MovedFrom DEF Locations
    <2>2. TypeOK'
      BY <1>1, <1>3, <1>4, <2>1, Moved DEF TypeOK, Locations
    <2>3. StateWordExact' /\ WriterNotForgotten'
      BY <1>1, <1>3, <1>4, <2>1 DEF StateWordExact, WriterNotForgotten
    <2> QED
      BY <1>1, <1>4, <2>2, <2>3
  <1>5. CASE readers > 0 /\ GiveUpGate2(t)
    <2>1. GoTo(t, "idle") /\ writeEntered' = FALSE /\ gate2' = gate2
      BY <1>5 DEF GiveUpGate2
    <2>2. /\ At("holdX")' = {} /\ At("drainX")' = {} /\ At("holdS")' = At("holdS")
          /\ At("enterX")' = At("enterX") /\ At("enterS")' = At("enterS")
      BY <1>1, <1>3, <2>1, MovedFrom DEF Locations
    <2>3. TypeOK'
      BY <1>1, <1>3, <2>1, <2>2, Moved DEF TypeOK, Locations
    <2>4. StateWordExact' /\ WriterNotForgotten'
      BY <1>1, <1>3, <2>1, <2>2 DEF StateWordExact, WriterNotForgotten
    <2> QED
      BY <2>2, <2>3, <2>4
  <1>6. CASE /\ readers > 0 /\ t \notin timedOut /\ gate2' = gate2 \cup {t}
             /\ UNCHANGED <<writeEntered, pc, timedOut>>
    <2>1. \A l \in Locations : At(l)' = At(l)
      BY <1>6 DEF At
    <2>2. /\ At("holdX")' = {} /\ At("drainX")' = {t} /\ At("holdS")' = At("holdS")
          /\ At("enterX")' = At("enterX") /\ At("enterS")' = At("enterS")
      BY <1>3, <2>1 DEF Locations
    <2>3. \A s \in timedOut' : HasDeadline(s)'
      BY <1>6 DEF TypeOK, HasDeadline
    <2>4. TypeOK'
      BY <1>1, <1>3, <1>6, <2>2, <2>3 DEF TypeOK
    <2>5. StateWordExact' /\ WriterNotForgotten'
      BY <1>1, <1>3, <1>6, <2>2 DEF StateWordExact, WriterNotForgotten
    <2> QED
      BY <2>2, <2>4, <2>5
  <1> QED
    BY <1>4, <1>5, <1>6 DEF Drain

\* try_lock succeeds on a mutex that nobody has or drains.
LEMMA TryLockKeepsIInv ==
    ASSUME IInv, NEW t \in Threads, TryLock(t)
    PROVE  IInv'
  <1>1. CloseGate1(t) /\ pc[t] = "idle"
    BY DEF TryLock, CloseGate1
  <1>2. t \notin gate1
    BY <1>1, Placed DEF IInv
  <1> QED
    BY <1>1, <1>2, CloseGate1KeepsIInv

\* unlock() clears the state word, and the caller was the only one in it.
LEMMA UnlockKeepsIInv ==
    ASSUME IInv, NEW t \in Threads, Unlock(t)
    PROVE  IInv'
  <1> USE DEF IInv
  <1>1. /\ pc[t] = "holdX" /\ GoTo(t, "idle") /\ gate1' = {} /\ gate2' = gate2
        /\ writeEntered' = FALSE /\ readers' = 0
    BY DEF Unlock, WakeSleepers, NotifyAll
  <1>2. t \in At("holdX")
    BY <1>1 DEF At
  <1>3. At("holdX") = {t} /\ At("drainX") = {} /\ readers = 0 /\ gate2 = {}
    BY <1>1, <1>2, Placed DEF StateWordExact, TypeOK, Locations
  <1>4. /\ At("holdX")' = {} /\ At("drainX")' = {} /\ At("holdS")' = At("holdS")
    BY <1>1, <1>3, MovedFrom DEF Locations
  <1>5. TypeOK'
    BY <1>1, <1>3, <1>4, NReadersAssumption, Moved DEF TypeOK, Locations
  <1>6. StateWordExact' /\ WriterNotForgotten'
    BY <1>1, <1>3, <1>4 DEF StateWordExact, WriterNotForgotten
  <1> QED
    BY <1>1, <1>5, <1>6

\* unlock_shared(): the count was not zero, and when it becomes zero the
\* writer on gate2_, the only thread there, is woken.
LEMMA UnlockSharedKeepsIInv ==
    ASSUME IInv, NEW t \in Threads, UnlockShared(t)
    PROVE  IInv'
  <1> USE DEF IInv
  <1>1. /\ pc[t] = "holdS" /\ GoTo(t, "idle") /\ readers' = readers - 1
        /\ writeEntered' = writeEntered
    BY DEF UnlockShared
  <1>2. gate1' \subseteq gate1 /\ gate2' \subseteq gate2
    BY DEF UnlockShared, WakeDrainer, WakeIntoRoom, NotifyOne
  <1>3. t \in At("holdS") /\ t \notin gate1 \cup gate2
    BY <1>1, Placed DEF Locations
  <1>4. readers \in Nat /\ readers > 0 /\ At("holdX") = {}
    BY <1>3, SharersFinite DEF StateWordExact
  <1>5. /\ At("holdX")' = {} /\ At("drainX")' = At("drainX")
        /\ At("holdS")' = At("holdS") \ {t}
        /\ At("enterX")' = At("enterX") /\ At("enterS")' = At("enterS")
    BY <1>1, <1>4, MovedFrom DEF Locations
  <1>6. readers' \in 0 .. NReaders
    BY <1>1, <1>4, NReadersAssumption DEF TypeOK
  <1>7. TypeOK'
    BY <1>1, <1>2, <1>5, <1>6, Moved DEF TypeOK, Locations
  <1>8. StateWordExact'
    BY <1>1, <1>3, <1>4, <1>5, CountOneLess DEF StateWordExact
  <1>9. WriterNotForgotten'
    <2>1. CASE writeEntered /\ readers' = 0
      <3>1. NotifyOne(gate2, gate2')
        BY <2>1 DEF UnlockShared, WakeDrainer
      <3>2. \A s, w \in gate2 : s = w
        BY DEF StateWordExact, TypeOK
      <3>3. gate2' = {}
        BY <3>1, <3>2 DEF NotifyOne
      <3> QED
        BY <3>3 DEF WriterNotForgotten
    <2>2. CASE ~(writeEntered /\ readers' = 0)
      BY <1>1, <1>2, <1>4, <2>2 DEF WriterNotForgotten
    <2> QED
      BY <2>1, <2>2
  <1> QED
    BY <1>5, <1>7, <1>8, <1>9

\* A wait that ends by itself or at its deadline only wakes its thread.
LEMMA WakeKeepsIInv ==
    ASSUME IInv, NEW t \in Threads, SpuriousWakeup(t) \/ Timeout(t)
    PROVE  IInv'
  <1> USE DEF IInv
  <1>1. /\ UNCHANGED <<writeEntered, readers, pc>>
        /\ gate1' = gate1 \ {t} /\ gate2' = gate2 \ {t}
    BY DEF SpuriousWakeup, Timeout
  <1>2. \A l \in Locations : At(l)' = At(l)
    BY <1>1 DEF At
  <1>3. /\ At("holdX")' = At("holdX") /\ At("drainX")' = At("drainX")
        /\ At("holdS")' = At("holdS")
        /\ At("enterX")' = At("enterX") /\ At("enterS")' = At("enterS")
    BY <1>2 DEF Locations
  <1>4. /\ timedOut' \subseteq Threads \ (gate1' \cup gate2')
        /\ \A s \in timedOut' : HasDeadline(s)'
    BY <1>1 DEF SpuriousWakeup, Timeout, TypeOK, HasDeadline
  <1>5. TypeOK'
    BY <1>1, <1>3, <1>4 DEF TypeOK
  <1>6. StateWordExact' /\ WriterNotForgotten'
    BY <1>1, <1>3 DEF StateWordExact, WriterNotForgotten
  <1> QED
    BY <1>1, <1>3, <1>5, <1>6

-----------------------------------------------------------------------------
LEMMA NextIInv == IInv /\ [Next]_vars => IInv'
  <1> SUFFICES ASSUME IInv, [Next]_vars PROVE IInv'
    OBVIOUS
  <1>1. ASSUME NEW t \in Threads, Lock(t) PROVE IInv'
    <2>1. pc[t] = "idle" /\ t \notin gate1
      BY <1>1, Placed DEF Lock, IInv
    <2> QED
      BY <1>1, <2>1, CloseGate1KeepsIInv, SleepKeepsIInv DEF Lock
  <1>2. ASSUME NEW t \in Threads, RetryLock(t) PROVE IInv'
    <2>1. pc[t] = "enterX" /\ t \notin gate1
      BY <1>2 DEF RetryLock, Awake
    <2> QED
      BY <1>2, <2>1, CloseGate1KeepsIInv, SleepKeepsIInv, GiveUpKeepsIInv
      DEF RetryLock, WaitAgain
  <1>3. ASSUME NEW t \in Threads, LockShared(t) PROVE IInv'
    <2>1. pc[t] = "idle" /\ t \notin gate1
      BY <1>3, Placed DEF LockShared, IInv
    <2> QED
      BY <1>3, <2>1, CountInKeepsIInv, SleepKeepsIInv DEF LockShared
  <1>4. ASSUME NEW t \in Threads, RetryLockShared(t) PROVE IInv'
    <2>1. pc[t] = "enterS" /\ t \notin gate1
      BY <1>4 DEF RetryLockShared, Awake
    <2> QED
      BY <1>4, <2>1, CountInKeepsIInv, SleepKeepsIInv, GiveUpKeepsIInv
      DEF RetryLockShared, WaitAgain
  <1>5. ASSUME NEW t \in Threads, TryLockShared(t) PROVE IInv'
    <2>1. pc[t] = "idle" /\ t \notin gate1
      BY <1>5, Placed DEF TryLockShared, IInv
    <2> QED
      BY <1>5, <2>1, CountInKeepsIInv DEF TryLockShared
  <1>6. CASE UNCHANGED vars
    BY <1>6 DEF vars, IInv, TypeOK, StateWordExact, WriterNotForgotten, At,
                HasDeadline
  <1> QED
    BY <1>1, <1>2, <1>3, <1>4, <1>5, <1>6, DrainKeepsIInv, TryLockKeepsIInv,
       UnlockKeepsIInv, UnlockSharedKeepsIInv, WakeKeepsIInv DEF Next

\* The invariant holds of every behaviour of the mutex.
THEOREM Invariance == Spec => []IInv
  BY InitIInv, NextIInv, PTL DEF Spec

\* The variables keep their types, and only threads that wait are asleep.
THEOREM TypeCorrect == Spec => []TypeOK
  <1>1. IInv => TypeOK
    BY DEF IInv
  <1> QED
    BY <1>1, Invariance, PTL

\* lock() gives exclusive ownership, whatever the others do.
THEOREM MutualExclusion == Spec => []Exclusion
  <1>1. IInv => Exclusion
    BY SharersFinite DEF IInv, Exclusion, StateWordExact
  <1> QED
    BY <1>1, Invariance, PTL

\* The state word counts the readers, and never carries into its write bit.
THEOREM StateWordIsExact == Spec => []StateWordExact
  <1>1. IInv => StateWordExact
    BY DEF IInv
  <1> QED
    BY <1>1, Invariance, PTL

\* The last reader wakes the writer: gate2_ has no sleeper without readers.
THEOREM WriterIsNotForgotten == Spec => []WriterNotForgotten
  <1>1. IInv => WriterNotForgotten
    BY DEF IInv
  <1> QED
    BY <1>1, Invariance, PTL

-----------------------------------------------------------------------------
\* What a step does to the holders and to the writer that drains: either
\* nothing or exactly one of the steps of the abstract lock.
LEMMA StepSimulation ==
    ASSUME IInv, NEW t \in Threads,
           \/ Lock(t) \/ TryLock(t) \/ LockShared(t) \/ TryLockShared(t)
           \/ RetryLock(t) \/ Drain(t) \/ RetryLockShared(t)
           \/ Unlock(t) \/ UnlockShared(t)
           \/ SpuriousWakeup(t) \/ Timeout(t)
    PROVE  \/ Abstract!Announce(t) \/ Abstract!GiveUp(t)
           \/ Abstract!AcquireExclusive(t) \/ Abstract!ReleaseExclusive(t)
           \/ Abstract!AcquireShared(t) \/ Abstract!ReleaseShared(t)
           \/ UNCHANGED Abstract!vars
  <1> USE DEF IInv
  <1>0. /\ readers = 0 <=> At("holdS") = {}
        /\ readers > 0 <=> At("holdS") # {}
        /\ \A m \in Locations : t \in At(m) <=> pc[t] = m
    BY SharersFinite, Placed DEF StateWordExact
  <1>1. ASSUME CloseGate1(t), pc[t] \in {"idle", "enterX"}
        PROVE  Abstract!Announce(t) \/ Abstract!AcquireExclusive(t)
    <2>1. At("drainX") = {} /\ At("holdX") = {} /\ t \notin At("holdS")
      BY <1>0, <1>1 DEF CloseGate1, StateWordExact, Locations
    <2>2. CASE readers = 0 /\ GoTo(t, "holdX")
      <3>1. At("holdX")' = {t} /\ At("drainX")' = {} /\ At("holdS")' = At("holdS")
        BY <1>1, <2>1, <2>2, MovedFrom DEF Locations
      <3> QED
        BY <1>0, <2>1, <2>2, <3>1 DEF Abstract!AcquireExclusive
    <2>3. CASE readers > 0 /\ GoTo(t, "drainX")
      <3>1. At("holdX")' = {} /\ At("drainX")' = {t} /\ At("holdS")' = At("holdS")
        BY <1>1, <2>1, <2>3, MovedFrom DEF Locations
      <3> QED
        BY <1>0, <2>1, <2>3, <3>1 DEF Abstract!Announce
    <2> QED
      BY <1>1, <2>2, <2>3 DEF CloseGate1
  <1>2. ASSUME CountIn(t), pc[t] \in {"idle", "enterS"}
        PROVE  Abstract!AcquireShared(t)
    <2>1. ~writeEntered /\ GoTo(t, "holdS")
      BY <1>2 DEF CountIn, ClosedToReaders
    <2>2. At("drainX") = {} /\ At("holdX") = {} /\ t \notin At("holdS")
      BY <1>0, <1>2, <2>1 DEF StateWordExact, Locations
    <2>3. At("holdX")' = {} /\ At("drainX")' = {} /\ At("holdS")' = At("holdS") \cup {t}
      BY <1>2, <2>1, <2>2, MovedFrom DEF Locations
    <2> QED
      BY <2>2, <2>3 DEF Abstract!AcquireShared
  <1>3. ASSUME NEW l \in {"idle", "enterX", "enterS"}, GoTo(t, l),
               pc[t] \in {"idle", "enterX", "enterS"}
        PROVE  UNCHANGED Abstract!vars
    BY <1>3, MovedFrom DEF Locations, Abstract!vars
  <1>4. ASSUME UNCHANGED pc
        PROVE  UNCHANGED Abstract!vars
    BY <1>4 DEF At, Abstract!vars
  <1>5. CASE TryLock(t)
    <2>1. CloseGate1(t) /\ pc[t] = "idle"
      BY <1>5 DEF TryLock, CloseGate1
    <2> QED
      BY <1>1, <2>1
  <1>6. CASE Lock(t) \/ RetryLock(t)
    BY <1>1, <1>3, <1>6 DEF Lock, RetryLock, Awake, GiveUpGate1, WaitAgain,
                            SleepOnGate1
  <1>7. CASE LockShared(t) \/ RetryLockShared(t) \/ TryLockShared(t)
    BY <1>2, <1>3, <1>7 DEF LockShared, RetryLockShared, TryLockShared, Awake,
                            GiveUpGate1, WaitAgain, SleepOnGate1
  <1>8. CASE Drain(t)
    <2>1. pc[t] = "drainX" /\ At("drainX") = {t} /\ At("holdX") = {}
      BY <1>0, <1>8 DEF Drain, Awake, StateWordExact, Locations
    <2>2. CASE readers = 0 /\ GoTo(t, "holdX")
      <3>1. At("holdX")' = {t} /\ At("drainX")' = {} /\ At("holdS")' = At("holdS")
        BY <2>1, <2>2, MovedFrom DEF Locations
      <3> QED
        BY <1>0, <2>1, <2>2, <3>1 DEF Abstract!AcquireExclusive
    <2>3. CASE GoTo(t, "idle")
      <3>1. At("holdX")' = {} /\ At("drainX")' = {} /\ At("holdS")' = At("holdS")
        BY <2>1, <2>3, MovedFrom DEF Locations
      <3> QED
        BY <2>1, <3>1 DEF Abstract!GiveUp
    <2> QED
      BY <1>4, <1>8, <2>2, <2>3 DEF Drain, GiveUpGate2
  <1>9. CASE Unlock(t)
    <2>1. pc[t] = "holdX" /\ GoTo(t, "idle") /\ At("holdX") = {t} /\ At("drainX") = {}
      BY <1>0, <1>9 DEF Unlock, StateWordExact, Locations
    <2>2. At("holdX")' = {} /\ At("drainX")' = {} /\ At("holdS")' = At("holdS")
      BY <2>1, MovedFrom DEF Locations
    <2> QED
      BY <2>1, <2>2 DEF Abstract!ReleaseExclusive
  <1>10. CASE UnlockShared(t)
    <2>1. pc[t] = "holdS" /\ GoTo(t, "idle") /\ t \in At("holdS")
      BY <1>0, <1>10 DEF UnlockShared, Locations
    <2>2. /\ At("holdX")' = At("holdX") /\ At("drainX")' = At("drainX")
          /\ At("holdS")' = At("holdS") \ {t}
      BY <2>1, MovedFrom DEF Locations
    <2> QED
      BY <2>1, <2>2 DEF Abstract!ReleaseShared
  <1>11. CASE SpuriousWakeup(t) \/ Timeout(t)
    BY <1>4, <1>11 DEF SpuriousWakeup, Timeout
  <1> QED
    BY <1>5, <1>6, <1>7, <1>8, <1>9, <1>10, <1>11

\* The mutex implements the lock it promises: seen through the threads that
\* hold it and the writer that drains it, every step is a step of RWLock.
THEOREM Refinement == Spec => ImplementsRWLock
  <1>1. Init => Abstract!Init
    BY DEF Init, Abstract!Init, At
  <1>2. IInv /\ [Next]_vars => [Abstract!Next]_(Abstract!vars)
    <2> SUFFICES ASSUME IInv, [Next]_vars
                 PROVE  [Abstract!Next]_(Abstract!vars)
      OBVIOUS
    <2>1. CASE Next
      <3>1. PICK t \in Threads :
                \/ Lock(t) \/ TryLock(t) \/ LockShared(t) \/ TryLockShared(t)
                \/ RetryLock(t) \/ Drain(t) \/ RetryLockShared(t)
                \/ Unlock(t) \/ UnlockShared(t)
                \/ SpuriousWakeup(t) \/ Timeout(t)
        BY <2>1 DEF Next
      <3> QED
        BY <3>1, StepSimulation DEF Abstract!Next
    <2>2. CASE UNCHANGED vars
      BY <2>2 DEF vars, Abstract!vars, At
    <2> QED
      BY <2>1, <2>2
  <1> QED
    BY <1>1, <1>2, Invariance, PTL DEF Spec, ImplementsRWLock, Abstract!Spec

\* While a writer that has closed gate1_ waits, nobody becomes a reader.
THEOREM GateStaysClosed == Spec => GateClosedToReaders
  <1> DEFINE Closed == \A t \in Threads : pc[t] = "drainX" /\ pc'[t] = "drainX" =>
                                             At("holdS")' \subseteq At("holdS")
  <1>1. IInv /\ [Next]_vars => Closed
    <2> SUFFICES ASSUME IInv, [Next]_vars, NEW t \in Threads,
                        pc[t] = "drainX", pc'[t] = "drainX"
                 PROVE  At("holdS")' \subseteq At("holdS")
      OBVIOUS
    <2>1. t \in At("drainX") /\ t \in At("drainX")'
      BY DEF At
    <2>2. CASE Next
      <3>1. PICK s \in Threads :
              \/ Abstract!Announce(s) \/ Abstract!GiveUp(s)
              \/ Abstract!AcquireExclusive(s) \/ Abstract!ReleaseExclusive(s)
              \/ Abstract!AcquireShared(s) \/ Abstract!ReleaseShared(s)
              \/ UNCHANGED Abstract!vars
        BY <2>2, StepSimulation DEF Next
      <3> QED
        BY <2>1, <3>1 DEF Abstract!Announce, Abstract!GiveUp,
              Abstract!AcquireExclusive, Abstract!ReleaseExclusive,
              Abstract!AcquireShared, Abstract!ReleaseShared, Abstract!vars
    <2>3. CASE UNCHANGED vars
      BY <2>3 DEF vars, At
    <2> QED
      BY <2>2, <2>3
  <1> QED
    BY <1>1, Invariance, PTL DEF Spec, GateClosedToReaders

-----------------------------------------------------------------------------
\* A thread that is not inside in shared mode leaves room in the count when
\* the count has room for every thread.
LEMMA RoomLeft ==
    ASSUME IInv, Cardinality(Threads) <= NReaders,
           NEW t \in Threads, pc[t] # "holdS"
    PROVE  readers < NReaders
  <1>1. At("holdS") \subseteq Threads \ {t}
    BY DEF At
  <1>2. /\ IsFiniteSet(Threads \ {t})
        /\ Cardinality(Threads \ {t}) = Cardinality(Threads) - 1
        /\ Cardinality(Threads) \in Nat
    BY ThreadsAssumption, FS_RemoveElement, FS_CardinalityType
  <1>3. Cardinality(At("holdS")) <= Cardinality(Threads \ {t})
    BY <1>1, <1>2, FS_Subset
  <1> QED
    BY <1>2, <1>3, SharersFinite, NReadersAssumption DEF IInv, StateWordExact

\* Without deadlines on exclusive requests, and with room in the count for
\* every thread, gate1_ has no sleeper unless a writer has entered, and that
\* writer will wake them all: the two notify_one of unlock_shared suffice.
THEOREM NoWakeupIsLost ==
    ASSUME UntilX = {}, Cardinality(Threads) <= NReaders
    PROVE  Spec => []NoLostWakeup
  <1> DEFINE Sleep == gate1 # {} => writeEntered
  <1>1. Init => Sleep
    BY DEF Init
  <1>2. IInv /\ Sleep /\ [Next]_vars => Sleep'
    <2> SUFFICES ASSUME IInv, Sleep, [Next]_vars PROVE Sleep'
      OBVIOUS
    <2>1. ASSUME NEW t \in Threads, ClosedToReaders, pc[t] # "holdS"
          PROVE  writeEntered
      <3>1. readers < NReaders /\ readers \in Nat /\ NReaders \in Nat
        BY <2>1, RoomLeft, NReadersAssumption DEF IInv, TypeOK
      <3> QED
        BY <2>1, <3>1 DEF ClosedToReaders
    <2>2. ASSUME NEW t \in Threads, Lock(t) \/ RetryLock(t) \/ TryLock(t)
          PROVE  Sleep'
      BY <2>2 DEF Lock, RetryLock, TryLock, CloseGate1, GiveUpGate1, WaitAgain,
                  SleepOnGate1
    <2>3. ASSUME NEW t \in Threads, LockShared(t) \/ RetryLockShared(t) \/ TryLockShared(t)
          PROVE  Sleep'
      <3>1. pc[t] # "holdS"
        BY <2>3 DEF LockShared, RetryLockShared, TryLockShared, Awake
      <3> QED
        BY <2>1, <2>3, <3>1 DEF LockShared, RetryLockShared, TryLockShared, CountIn,
                    GiveUpGate1, WaitAgain, SleepOnGate1
    <2>4. ASSUME NEW t \in Threads, Drain(t)
          PROVE  Sleep'
      <3>1. t \notin timedOut
        BY <2>4 DEF Drain, Awake, IInv, TypeOK, HasDeadline
      <3> QED
        BY <2>4, <3>1 DEF Drain, GiveUpGate2
    <2>5. ASSUME NEW t \in Threads, Unlock(t) \/ UnlockShared(t)
          PROVE  Sleep'
      BY <2>5 DEF Unlock, UnlockShared, WakeSleepers, WakeIntoRoom, NotifyAll,
                  NotifyOne
    <2>6. ASSUME NEW t \in Threads, SpuriousWakeup(t) \/ Timeout(t)
          PROVE  Sleep'
      BY <2>6 DEF SpuriousWakeup, Timeout
    <2>7. CASE UNCHANGED vars
      BY <2>7 DEF vars
    <2> QED
      BY <2>2, <2>3, <2>4, <2>5, <2>6, <2>7 DEF Next
  <1>3. IInv /\ Sleep => NoLostWakeup
    BY DEF IInv, NoLostWakeup, ClosedToReaders
  <1> QED
    BY <1>1, <1>2, <1>3, Invariance, PTL DEF Spec

\* The requests, who is inside, and a request whose next step is to enter.
Requests == At("enterX") \cup At("enterS") \cup At("drainX")
Inside == At("holdX") \cup At("holdS")
CanEnter(t) == \/ Awake(t, "drainX") /\ readers = 0
               \/ Awake(t, "enterX") /\ ~writeEntered /\ readers = 0
               \/ Awake(t, "enterS") /\ ~ClosedToReaders
FreeMutexIsTaken == Inside = {} /\ Requests # {} => \E t \in Requests : CanEnter(t)

\* The requests never all sleep beside a mutex that nobody holds: one of them
\* is awake and finds its gate open, under the conditions of NoWakeupIsLost.
THEOREM NeverStuck ==
    ASSUME UntilX = {}, Cardinality(Threads) <= NReaders
    PROVE  Spec => []FreeMutexIsTaken
  <1>1. IInv /\ NoLostWakeup => FreeMutexIsTaken
    <2> SUFFICES ASSUME IInv, NoLostWakeup, Inside = {}, NEW t \in Requests
                 PROVE  \E u \in Requests : CanEnter(u)
      BY DEF FreeMutexIsTaken
    <2>1. readers = 0
      BY FS_EmptySet DEF IInv, StateWordExact, Inside
    <2>2. gate2 = {}
      BY <2>1 DEF NoLostWakeup, WriterNotForgotten
    <2>3. CASE At("drainX") # {}
      <3>1. PICK u \in At("drainX") : TRUE
        BY <2>3
      <3>2. u \notin gate1
        BY <3>1 DEF IInv, TypeOK, At
      <3> QED
        BY <2>1, <2>2, <3>1, <3>2 DEF CanEnter, Awake, Requests, At
    <2>4. CASE At("drainX") = {}
      <3>1. ~writeEntered
        BY <2>4 DEF IInv, StateWordExact, Inside
      <3>2. ~ClosedToReaders
        BY <2>1, <3>1, NReadersAssumption DEF ClosedToReaders
      <3>3. gate1 = {}
        BY <3>2 DEF NoLostWakeup
      <3>4. pc[t] \in {"enterX", "enterS"}
        BY <2>4 DEF Requests, At
      <3> QED
        BY <2>1, <2>2, <3>1, <3>2, <3>3, <3>4 DEF CanEnter, Awake
    <2> QED
      BY <2>3, <2>4
  <1> QED
    BY <1>1, Invariance, NoWakeupIsLost, PTL
=============================================================================
