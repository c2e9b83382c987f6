---------------------------- MODULE UpgradeMutex ----------------------------
(***************************************************************************)
(* ting::upgrade_mutex (extern/ref/ting/shared_mutex and shared_mutex.cpp),*)
(* the mutex of SharedMutex with a third mode, upgradable ownership, and   *)
(* conversions between the modes.  It is a monitor in the same way, with   *)
(* one difference: four members notify gate1_ after they have released     *)
(* mut_, so their notify_all is an action of its own (Wake).               *)
(***************************************************************************)
EXTENDS Naturals, FiniteSets

CONSTANTS
    Threads,    \* the threads that use the mutex
    NReaders,   \* n_readers_, the largest number of holders state_ can count
    UntilX,     \* the threads that call try_lock_until instead of lock
    UntilS,     \* the threads that call try_lock_shared_until
    UntilU      \* the threads that call try_lock_upgrade_until

ASSUME ThreadsAssumption == IsFiniteSet(Threads)
ASSUME NReadersAssumption == NReaders \in Nat \ {0}
ASSUME UntilAssumption ==
    UntilX \subseteq Threads /\ UntilS \subseteq Threads /\ UntilU \subseteq Threads

VARIABLES
    writeEntered,       \* the bit write_entered_ of state_
    upgradableEntered,  \* the bit upgradable_entered_ of state_
    readers,            \* the other bits: the readers and the upgrader
    gate1,              \* the threads asleep on gate1_
    gate2,              \* the threads asleep on gate2_
    pc,                 \* where each thread is
    timedOut            \* the threads whose wait_until returned a timeout

state == <<writeEntered, upgradableEntered, readers>>
vars == <<writeEntered, upgradableEntered, readers, gate1, gate2, pc, timedOut>>

(***************************************************************************)
(* enter*   in the loop on gate1_ of a request of one of the three kinds   *)
(* drainX   in the loop on gate2_ of lock and try_lock_until               *)
(* drainUX  in the loop on gate2_ of unlock_upgrade_and_lock               *)
(* waitSX, waitSU, waitUX  in the loop on gate2_ of a conversion that has  *)
(*          a deadline; the caller keeps its ownership while it waits      *)
(* wake*    between the release of mut_ and notify_all on gate1_, in a     *)
(*          member that returns to idle, holdS or holdU                    *)
(* hold*    in the caller's section of one of the three kinds              *)
(***************************************************************************)
Locations == {"idle", "enterX", "enterS", "enterU", "drainX", "drainUX",
              "waitSX", "waitSU", "waitUX", "wakeIdle", "wakeS", "wakeU",
              "holdX", "holdS", "holdU"}

In(ls) == {t \in Threads : pc[t] \in ls}

Entering == In({"enterX", "enterS", "enterU"})
Sharers == In({"holdS", "waitSX", "waitSU", "wakeS"})
Upgraders == In({"holdU", "waitUX", "wakeU"})
Drainers == In({"drainX", "drainUX"})
Owners == In({"holdX"})
Waiters == In({"waitSX", "waitSU", "waitUX"})

HasDeadline(t) == \/ pc[t] \in {"enterX", "drainX"} /\ t \in UntilX
                  \/ pc[t] = "enterS" /\ t \in UntilS
                  \/ pc[t] = "enterU" /\ t \in UntilU
                  \/ t \in Waiters

Init ==
    /\ writeEntered = FALSE /\ upgradableEntered = FALSE /\ readers = 0
    /\ gate1 = {} /\ gate2 = {} /\ timedOut = {}
    /\ pc = [t \in Threads |-> "idle"]
-----------------------------------------------------------------------------
GoTo(t, l) == pc' = [pc EXCEPT ![t] = l] /\ timedOut' = timedOut \ {t}

\* The value that a member stores in state_.
State(w, u, n) == writeEntered' = w /\ upgradableEntered' = u /\ readers' = n

SleepOnGate1(t, l) ==
    GoTo(t, l) /\ gate1' = gate1 \cup {t} /\ UNCHANGED <<state, gate2>>

NotifyOne(gate, gateNext) ==
    IF gate = {} THEN gateNext = {} ELSE \E w \in gate : gateNext = gate \ {w}

Awake(t, l) == pc[t] = l /\ t \notin gate1 \cup gate2

GiveUpGate1(t) == t \in timedOut /\ GoTo(t, "idle") /\ UNCHANGED <<state, gate1, gate2>>
WaitAgain(t, l) == t \notin timedOut /\ SleepOnGate1(t, l)

\* A request of t whose loop on gate1_ is l: its first pass, and the later
\* ones.  It passes the loop, which is the action pass, unless it is closed.
Request(t, l, pass, closed) ==
    pc[t] = "idle" /\ (pass \/ (closed /\ SleepOnGate1(t, l)))
Retry(t, l, pass, closed) ==
    Awake(t, l) /\ (pass \/ (closed /\ (GiveUpGate1(t) \/ WaitAgain(t, l))))

(***************************************************************************)
(* Exclusive ownership                                                     *)
(***************************************************************************)
UpgraderNotChecked == writeEntered
ClosedToWriters == writeEntered \/ upgradableEntered

\* t has set write_entered_ and n holders are left to wait for, at l.
OwnOrDrainUnmarked(t, n, l) ==
    /\ State(n = 0, FALSE, n)
    /\ \/ n = 0 /\ GoTo(t, "holdX") /\ UNCHANGED gate2
       \/ n > 0 /\ GoTo(t, l) /\ gate2' = gate2 \cup {t}
    /\ UNCHANGED gate1
OwnOrDrain(t, n, l) ==
    /\ State(TRUE, FALSE, n)
    /\ \/ n = 0 /\ GoTo(t, "holdX") /\ UNCHANGED gate2
       \/ n > 0 /\ GoTo(t, l) /\ gate2' = gate2 \cup {t}
    /\ UNCHANGED gate1

CloseGate1(t) == ~ClosedToWriters /\ OwnOrDrain(t, readers, "drainX")

Lock(t) == Request(t, "enterX", CloseGate1(t), ClosedToWriters)
RetryLock(t) == Retry(t, "enterX", CloseGate1(t), ClosedToWriters)

\* The loops on gate2_ of a writer.  The one with a deadline, which is never
\* at drainUX, takes its bit back when it gives up.
Drain(t, l) ==
    /\ Awake(t, l)
    /\ \/ readers = 0 /\ GoTo(t, "holdX") /\ UNCHANGED <<state, gate2>>
       \/ /\ readers > 0 /\ t \in timedOut
          /\ State(FALSE, upgradableEntered, readers)
          /\ GoTo(t, "idle")
          /\ UNCHANGED gate2
       \/ /\ readers > 0 /\ t \notin timedOut
          /\ gate2' = gate2 \cup {t}
          /\ UNCHANGED <<state, pc, timedOut>>
    /\ UNCHANGED gate1

TryLock(t) ==
    /\ pc[t] = "idle"
    /\ state = <<FALSE, FALSE, 0>>
    /\ State(TRUE, FALSE, 0) /\ GoTo(t, "holdX")
    /\ UNCHANGED <<gate1, gate2>>

Unlock(t) ==
    /\ pc[t] = "holdX"
    /\ State(FALSE, FALSE, 0) /\ GoTo(t, "idle")
    /\ gate1' = {}
    /\ UNCHANGED gate2

(***************************************************************************)
(* Shared ownership                                                        *)
(***************************************************************************)
ClosedToReaders == writeEntered \/ readers = NReaders

CountIn(t) ==
    /\ ~ClosedToReaders
    /\ State(writeEntered, upgradableEntered, readers + 1) /\ GoTo(t, "holdS")
    /\ UNCHANGED <<gate1, gate2>>

LockShared(t) == Request(t, "enterS", CountIn(t), ClosedToReaders)
RetryLockShared(t) == Retry(t, "enterS", CountIn(t), ClosedToReaders)
TryLockShared(t) == pc[t] = "idle" /\ CountIn(t)

WakeDrainerTooSoon ==
    IF writeEntered /\ readers' = 1
      THEN NotifyOne(gate2, gate2') ELSE UNCHANGED gate2
WakeDrainer ==
    IF writeEntered /\ readers' = 0
      THEN NotifyOne(gate2, gate2') ELSE UNCHANGED gate2
WakeIntoRoom ==
    IF ~writeEntered /\ readers' = NReaders - 1
      THEN NotifyOne(gate1, gate1') ELSE UNCHANGED gate1

UnlockShared(t) ==
    /\ pc[t] = "holdS"
    /\ State(writeEntered, upgradableEntered, readers - 1) /\ GoTo(t, "idle")
    /\ WakeDrainer /\ WakeIntoRoom

(***************************************************************************)
(* Upgradable ownership                                                    *)
(***************************************************************************)
ClosedToUpgraders == ClosedToWriters \/ readers = NReaders

CountUpgraderIn(t) ==
    /\ ~ClosedToUpgraders
    /\ State(writeEntered, TRUE, readers + 1) /\ GoTo(t, "holdU")
    /\ UNCHANGED <<gate1, gate2>>

LockUpgrade(t) == Request(t, "enterU", CountUpgraderIn(t), ClosedToUpgraders)
RetryLockUpgrade(t) == Retry(t, "enterU", CountUpgraderIn(t), ClosedToUpgraders)
TryLockUpgrade(t) == pc[t] = "idle" /\ CountUpgraderIn(t)

UnlockUpgrade(t) ==
    /\ pc[t] = "holdU"
    /\ State(writeEntered, FALSE, readers - 1) /\ GoTo(t, "wakeIdle")
    /\ UNCHANGED <<gate1, gate2>>

\* gate1_.notify_all() after mut_ has been released, and the return.
WakeForgotten(t, l, back) ==
    pc[t] = l /\ GoTo(t, back) /\ UNCHANGED <<state, gate1, gate2>>
Wake(t, l, back) ==
    /\ pc[t] = l
    /\ GoTo(t, back)
    /\ gate1' = {}
    /\ UNCHANGED <<state, gate2>>

(***************************************************************************)
(* From one kind of ownership to another                                   *)
(***************************************************************************)

\* A conversion with a deadline, which t asks for at hold and waits for at
\* wait, while it cannot be done: t sleeps on gate2_, or returns false.
CannotConvert(t, hold, wait) ==
    /\ \/ pc[t] = hold
       \/ Awake(t, wait) /\ t \notin timedOut
    /\ GoTo(t, wait)
    /\ gate2' = gate2 \cup {t}
    /\ UNCHANGED <<state, gate1>>
ConversionExpires(t, hold, wait) ==
    /\ Awake(t, wait) /\ t \in timedOut
    /\ GoTo(t, hold)
    /\ UNCHANGED <<state, gate1, gate2>>

Asks(t, hold, wait) == pc[t] = hold \/ Awake(t, wait)

OnlyCount == readers = 1
OnlySharer == state = <<FALSE, FALSE, 1>>
SharedToExclusive(t) ==
    /\ Asks(t, "holdS", "waitSX")
    /\ \/ /\ OnlySharer
          /\ State(TRUE, FALSE, 0) /\ GoTo(t, "holdX")
          /\ UNCHANGED <<gate1, gate2>>
       \/ ~OnlySharer /\ (\/ CannotConvert(t, "holdS", "waitSX")
                          \/ ConversionExpires(t, "holdS", "waitSX"))

SharedToUpgrade(t) ==
    /\ Asks(t, "holdS", "waitSU")
    /\ \/ /\ ~ClosedToWriters
          /\ State(writeEntered, TRUE, readers) /\ GoTo(t, "holdU")
          /\ UNCHANGED <<gate1, gate2>>
       \/ ClosedToWriters /\ (\/ CannotConvert(t, "holdS", "waitSU")
                              \/ ConversionExpires(t, "holdS", "waitSU"))

\* try_unlock_upgrade_and_lock, and its form with a deadline.
TryUpgradeToExclusive(t) ==
    /\ Asks(t, "holdU", "waitUX")
    /\ \/ /\ readers = 1
          /\ State(TRUE, FALSE, 0) /\ GoTo(t, "holdX")
          /\ UNCHANGED <<gate1, gate2>>
       \/ readers # 1 /\ (\/ CannotConvert(t, "holdU", "waitUX")
                          \/ ConversionExpires(t, "holdU", "waitUX"))

\* unlock_upgrade_and_lock: upgradable_entered_ becomes write_entered_ at once.
UpgradeToExclusive(t) == pc[t] = "holdU" /\ OwnOrDrain(t, readers - 1, "drainUX")

UpgradeToShared(t) ==
    /\ pc[t] = "holdU"
    /\ State(writeEntered, FALSE, readers) /\ GoTo(t, "wakeS")
    /\ UNCHANGED <<gate1, gate2>>
ExclusiveToShared(t) ==
    /\ pc[t] = "holdX"
    /\ State(FALSE, FALSE, 1) /\ GoTo(t, "wakeS")
    /\ UNCHANGED <<gate1, gate2>>
ExclusiveToUpgrade(t) ==
    /\ pc[t] = "holdX"
    /\ State(FALSE, TRUE, 1) /\ GoTo(t, "wakeU")
    /\ UNCHANGED <<gate1, gate2>>

(***************************************************************************)
(* The environment                                                         *)
(***************************************************************************)
SpuriousWakeup(t) ==
    /\ t \in gate1 \cup gate2
    /\ gate1' = gate1 \ {t} /\ gate2' = gate2 \ {t}
    /\ UNCHANGED <<state, pc, timedOut>>

Timeout(t) ==
    /\ HasDeadline(t) /\ t \notin timedOut
    /\ gate1' = gate1 \ {t} /\ gate2' = gate2 \ {t}
    /\ timedOut' = timedOut \cup {t}
    /\ UNCHANGED <<state, pc>>

-----------------------------------------------------------------------------
Acquire(t) == Lock(t) \/ TryLock(t) \/ LockShared(t) \/ TryLockShared(t)
              \/ LockUpgrade(t) \/ TryLockUpgrade(t)
Proceed(t) == RetryLock(t) \/ RetryLockShared(t) \/ RetryLockUpgrade(t)
              \/ Drain(t, "drainX") \/ Drain(t, "drainUX")
              \/ Wake(t, "wakeIdle", "idle") \/ Wake(t, "wakeS", "holdS")
              \/ Wake(t, "wakeU", "holdU")
Release(t) == Unlock(t) \/ UnlockShared(t) \/ UnlockUpgrade(t)
Convert(t) == SharedToExclusive(t) \/ SharedToUpgrade(t) \/ TryUpgradeToExclusive(t)
              \/ UpgradeToExclusive(t) \/ UpgradeToShared(t)
              \/ ExclusiveToShared(t) \/ ExclusiveToUpgrade(t)

Next == \E t \in Threads :
            \/ Acquire(t) \/ Proceed(t) \/ Release(t) \/ Convert(t)
            \/ SpuriousWakeup(t) \/ Timeout(t)

Spec == Init /\ [][Next]_vars

(***************************************************************************)
(* Fairness.  A thread that is awake gets mut_, time passes, and a section *)
(* ends even when its thread tries conversions again and again in it: the  *)
(* release is taken if it is possible for ever or again and again.         *)
(***************************************************************************)
Fairness ==
    \A t \in Threads :
        /\ WF_vars(Proceed(t)) /\ WF_vars(Timeout(t)) /\ SF_vars(Release(t))
        /\ WF_vars(t \in Waiters /\ Convert(t))

FairSpec == Spec /\ Fairness
-----------------------------------------------------------------------------
\* The values of the variables, and who may be asleep where.
TypeOK ==
    /\ writeEntered \in BOOLEAN /\ upgradableEntered \in BOOLEAN
    /\ readers \in 0 .. NReaders
    /\ pc \in [Threads -> Locations]
    /\ gate1 \subseteq Entering
    /\ gate2 \subseteq Drainers \cup Waiters
    /\ timedOut \subseteq Threads \ (gate1 \cup gate2)
    /\ \A t \in timedOut : HasDeadline(t)

\* A thread in its exclusive section is alone in the mutex, whichever way it
\* got there: lock, try_lock, or one of the four conversions.
Exclusion == \A t \in Owners : Owners = {t} /\ Sharers \cup Upgraders = {}

\* state_ tells the truth: the count is the number of readers plus the
\* upgrader, each bit stands for exactly one thread, and never both are set.
StateWordExact ==
    /\ readers = Cardinality(Sharers \cup Upgraders)
    /\ writeEntered <=> Owners \cup Drainers # {}
    /\ upgradableEntered <=> Upgraders # {}
    /\ \A s, t \in Owners \cup Drainers \cup Upgraders : s = t

\* gate2_ is notified once, when the count reaches zero (shared_mutex.cpp:187):
\* the one sleeper that is woken then is the writer, since a conversion that
\* sleeps there keeps its caller in the count.
WriterNotForgotten == \A t \in gate2 \cap Drainers : readers > 0

\* No thread sleeps on an open gate1_, except while the notify_all that will
\* wake it is about to come.
NoLostWakeup ==
    \/ In({"wakeIdle", "wakeS", "wakeU"}) # {}
    \/ /\ gate1 \cap In({"enterX"}) # {} => ClosedToWriters
       /\ gate1 \cap In({"enterS"}) # {} => ClosedToReaders
       /\ gate1 \cap In({"enterU"}) # {} => ClosedToUpgraders

\* unlock_upgrade_and_lock: from upgradable to exclusive ownership no other
\* thread owns the mutex, and nobody enters it (shared_mutex.cpp:288-297).
UpgradeIsExclusive ==
    [][\A t \in Threads :
          pc[t] = "drainUX" => Owners' \subseteq {t} /\ Sharers' \subseteq Sharers
                               /\ Upgraders' = {}]_vars

\* A writer without deadline that has closed gate1_ gets the mutex, although
\* the readers it waits for may be waiting for a conversion it prevents: every
\* conversion that can wait has a deadline.
WriterServed ==
    \A t \in Threads :
        (pc[t] = "drainUX" \/ (pc[t] = "drainX" /\ t \notin UntilX)) ~> pc[t] = "holdX"
-----------------------------------------------------------------------------
Abstract == INSTANCE UpgradeLock WITH
    owner <- Owners, sharers <- Sharers, upgrader <- Upgraders, announced <- Drainers

\* For the threads that use it the mutex is that lock: every call and every
\* conversion is one step, or two if it announces itself (shared_mutex.cpp:118-319).
ImplementsUpgradeLock == Abstract!Spec
=============================================================================
