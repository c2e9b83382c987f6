----------------------------- MODULE SharedMutex -----------------------------
(***************************************************************************)
(* ting::shared_mutex (extern/ref/ting/shared_mutex and shared_mutex.cpp). *)
(*                                                                         *)
(* The mutex is a monitor: the internal mut_ is held from the entry of a   *)
(* member function, or from the return of a wait, up to the next wait or   *)
(* the return, so each such stretch of code is one action.  A condition    *)
(* variable is the set of threads asleep on it: wait joins the set, notify *)
(* removes from it, and a thread that is awake inside a loop runs the loop *)
(* again when it gets mut_.                                                *)
(*                                                                         *)
(* A thread always uses the same form of a call, with or without deadline. *)
(* One that mixes the forms is two threads here, of which one is idle.     *)
(***************************************************************************)
EXTENDS Naturals, FiniteSets

CONSTANTS
    Threads,    \* the threads that use the mutex
    NReaders,   \* n_readers_, the largest number of readers state_ can count
    UntilX,     \* the threads that call try_lock_until instead of lock
    UntilS      \* the threads that call try_lock_shared_until

ASSUME ThreadsAssumption == IsFiniteSet(Threads)
ASSUME NReadersAssumption == NReaders \in Nat \ {0}
ASSUME UntilAssumption == UntilX \subseteq Threads /\ UntilS \subseteq Threads

VARIABLES
    writeEntered,   \* the bit write_entered_ of state_
    readers,        \* the other bits of state_: the number of readers
    gate1,          \* the threads asleep on gate1_
    gate2,          \* the threads asleep on gate2_
    pc,             \* where each thread is
    timedOut        \* the threads whose wait_until returned cv_status::timeout

vars == <<writeEntered, readers, gate1, gate2, pc, timedOut>>

(***************************************************************************)
(* "enterX" and "enterS" are the loops on gate1_ of an exclusive and of a  *)
(* shared request, "drainX" is the loop on gate2_ of a writer that has set *)
(* write_entered_, "holdX" and "holdS" are the callers' critical sections. *)
(***************************************************************************)
Locations == {"idle", "enterX", "drainX", "enterS", "holdX", "holdS"}

At(l) == {t \in Threads : pc[t] = l}
HasDeadline(t) == \/ pc[t] \in {"enterX", "drainX"} /\ t \in UntilX
                  \/ pc[t] = "enterS" /\ t \in UntilS

Init ==
    /\ writeEntered = FALSE /\ readers = 0
    /\ gate1 = {} /\ gate2 = {} /\ timedOut = {}
    /\ pc = [t \in Threads |-> "idle"]
-----------------------------------------------------------------------------
GoTo(t, l) == pc' = [pc EXCEPT ![t] = l] /\ timedOut' = timedOut \ {t}

\* gate1_.wait, in the loop l.
SleepOnGate1(t, l) ==
    /\ GoTo(t, l)
    /\ gate1' = gate1 \cup {t}
    /\ UNCHANGED <<writeEntered, readers, gate2>>

\* notify_one wakes one sleeper, whichever, if there is one; notify_all all.
NotifyOne(gate, gateNext) ==
    IF gate = {} THEN gateNext = {} ELSE \E w \in gate : gateNext = gate \ {w}
NotifyAll(gate, gateNext) == gateNext = {}

\* t runs its loop: it has been notified, or woken up for no reason.
Awake(t, l) == pc[t] = l /\ t \notin gate1 \cup gate2

\* The condition of t's loop still holds.  A *_until call whose wait ended
\* with a timeout returns false; any other call waits again.
GiveUpGate1(t) == t \in timedOut /\ GoTo(t, "idle")
                  /\ UNCHANGED <<writeEntered, readers, gate1, gate2>>
WaitAgain(t, l) == t \notin timedOut /\ SleepOnGate1(t, l)

(***************************************************************************)
(* Exclusive ownership                                                     *)
(***************************************************************************)

\* Past the loop on gate1_: t sets write_entered_ and owns the mutex, or has
\* to wait on gate2_ until the readers that are inside have left.
CloseGate1(t) ==
    /\ ~writeEntered
    /\ writeEntered' = TRUE
    /\ \/ readers = 0 /\ GoTo(t, "holdX") /\ UNCHANGED gate2
       \/ readers > 0 /\ GoTo(t, "drainX") /\ gate2' = gate2 \cup {t}
    /\ UNCHANGED <<readers, gate1>>

\* lock() and try_lock_until(), up to the first wait or the return.
Lock(t) ==
    /\ pc[t] = "idle"
    /\ CloseGate1(t) \/ (writeEntered /\ SleepOnGate1(t, "enterX"))

\* The loop on gate1_ of a request that has slept there.
RetryLock(t) ==
    /\ Awake(t, "enterX")
    /\ \/ CloseGate1(t)
       \/ writeEntered /\ (GiveUpGate1(t) \/ WaitAgain(t, "enterX"))

\* The loop on gate2_.  The writer that gives up takes its bit back.
GiveUpGate2Keeping(t) == t \in timedOut /\ GoTo(t, "idle")
                         /\ UNCHANGED <<writeEntered, gate2>>
GiveUpGate2(t) == t \in timedOut /\ GoTo(t, "idle")
                  /\ writeEntered' = FALSE /\ UNCHANGED gate2

Drain(t) ==
    /\ Awake(t, "drainX")
    /\ \/ readers = 0 /\ GoTo(t, "holdX") /\ UNCHANGED <<writeEntered, gate2>>
       \/ readers > 0 /\ GiveUpGate2(t)
       \/ /\ readers > 0 /\ t \notin timedOut
          /\ gate2' = gate2 \cup {t}
          /\ UNCHANGED <<writeEntered, pc, timedOut>>
    /\ UNCHANGED <<readers, gate1>>

\* try_lock(), when it returns true; otherwise it changes nothing.
TryLock(t) ==
    /\ pc[t] = "idle"
    /\ ~writeEntered /\ readers = 0
    /\ writeEntered' = TRUE
    /\ GoTo(t, "holdX")
    /\ UNCHANGED <<readers, gate1, gate2>>

\* unlock() writes all of state_, and wakes every sleeper of gate1_.
WakeOneSleeper == NotifyOne(gate1, gate1')
WakeSleepers == NotifyAll(gate1, gate1')

Unlock(t) ==
    /\ pc[t] = "holdX"
    /\ writeEntered' = FALSE /\ readers' = 0
    /\ WakeSleepers
    /\ GoTo(t, "idle")
    /\ UNCHANGED gate2

(***************************************************************************)
(* Shared ownership                                                        *)
(***************************************************************************)
WriterNotChecked == readers = NReaders
ClosedToReaders == writeEntered \/ readers = NReaders

CountIn(t) ==
    /\ ~ClosedToReaders
    /\ readers' = readers + 1
    /\ GoTo(t, "holdS")
    /\ UNCHANGED <<writeEntered, gate1, gate2>>

\* lock_shared() and try_lock_shared_until(), up to the first wait or return.
LockShared(t) ==
    /\ pc[t] = "idle"
    /\ CountIn(t) \/ (ClosedToReaders /\ SleepOnGate1(t, "enterS"))

RetryLockShared(t) ==
    /\ Awake(t, "enterS")
    /\ \/ CountIn(t)
       \/ ClosedToReaders /\ (GiveUpGate1(t) \/ WaitAgain(t, "enterS"))

\* try_lock_shared(), when it returns true.
TryLockShared(t) == pc[t] = "idle" /\ CountIn(t)

\* unlock_shared(): the last reader wakes the writer that waits on gate2_; if
\* there is no writer, the one that makes room wakes a sleeper of gate1_.
WakeDrainerTooSoon ==
    IF writeEntered /\ readers' = 1
      THEN NotifyOne(gate2, gate2') ELSE UNCHANGED gate2
WakeDrainer ==
    IF writeEntered /\ readers' = 0
      THEN NotifyOne(gate2, gate2') ELSE UNCHANGED gate2
WakeIntoRoom ==
    IF ~writeEntered /\ readers' = NReaders - 1
      THEN NotifyOne(gate1, gate1') ELSE UNCHANGED gate1

UnlockShared(t) ==
    /\ pc[t] = "holdS"
    /\ readers' = readers - 1
    /\ WakeDrainer /\ WakeIntoRoom
    /\ GoTo(t, "idle")
    /\ UNCHANGED writeEntered

(***************************************************************************)
(* The environment                                                         *)
(***************************************************************************)
\* A wait returns although nobody notified it.
SpuriousWakeup(t) ==
    /\ t \in gate1 \cup gate2
    /\ gate1' = gate1 \ {t} /\ gate2' = gate2 \ {t}
    /\ UNCHANGED <<writeEntered, readers, pc, timedOut>>

\* The deadline of a wait_until passes, perhaps after a notification.
Timeout(t) ==
    /\ HasDeadline(t) /\ t \notin timedOut
    /\ gate1' = gate1 \ {t} /\ gate2' = gate2 \ {t}
    /\ timedOut' = timedOut \cup {t}
    /\ UNCHANGED <<writeEntered, readers, pc>>

Retry(t) == RetryLock(t) \/ Drain(t) \/ RetryLockShared(t)
Release(t) == Unlock(t) \/ UnlockShared(t)

Next == \E t \in Threads :
            \/ Lock(t) \/ TryLock(t) \/ LockShared(t) \/ TryLockShared(t)
            \/ RetryLock(t) \/ Drain(t) \/ RetryLockShared(t)
            \/ Unlock(t) \/ UnlockShared(t)
            \/ SpuriousWakeup(t) \/ Timeout(t)

Spec == Init /\ [][Next]_vars
-----------------------------------------------------------------------------
(***************************************************************************)
(* Fairness.  A thread that is awake gets mut_ and runs (weak fairness: it *)
(* stays awake until it does), a critical section ends, time passes.  The  *)
(* threads need not ask for the mutex, and a wait need not end for no      *)
(* reason.  Nothing says which of the threads that are awake runs first.   *)
(***************************************************************************)
Fairness ==
    \A t \in Threads : WF_vars(Retry(t)) /\ WF_vars(Release(t))
                       /\ WF_vars(Timeout(t))

FairSpec == Spec /\ Fairness
-----------------------------------------------------------------------------
\* The values of the variables, and who may be asleep where.
TypeOK ==
    /\ writeEntered \in BOOLEAN
    /\ readers \in 0 .. NReaders
    /\ pc \in [Threads -> Locations]
    /\ gate1 \subseteq At("enterX") \cup At("enterS")
    /\ gate2 \subseteq At("drainX")
    /\ timedOut \subseteq Threads \ (gate1 \cup gate2)
    /\ \A t \in timedOut : HasDeadline(t)

\* lock() gives exclusive ownership (shared_mutex.cpp:24-33): while a thread
\* is in its exclusive section no other thread is in a section of either kind.
Exclusion ==
    \A t \in At("holdX") : At("holdX") = {t} /\ At("holdS") = {}

\* The bits of state_ tell the truth: readers is the number of threads inside
\* in shared mode, and never reaches the bit write_entered_; that bit is set
\* exactly while one thread drains the readers or holds the mutex.
StateWordExact ==
    /\ readers = Cardinality(At("holdS"))
    /\ writeEntered <=> At("drainX") \cup At("holdX") # {}
    /\ \A s, t \in At("drainX") \cup At("holdX") : s = t

\* Nobody sleeps on a gate that is open (notify_one of shared_mutex.cpp:92 and
\* 97, notify_all of 52): the writer on gate2_ only while readers are inside,
\* a request on gate1_ only while a writer has entered or the count is full.
WriterNotForgotten == gate2 # {} => writeEntered /\ readers > 0
NoLostWakeup == WriterNotForgotten /\ (gate1 # {} => ClosedToReaders)

\* From the moment a writer has set write_entered_ and as long as it waits, no
\* thread becomes a reader (shared_mutex.cpp:28-31 against 60): the set of
\* readers it waits for only shrinks.
GateClosedToReaders ==
    [][\A t \in Threads :
          pc[t] = "drainX" /\ pc'[t] = "drainX" => At("holdS")' \subseteq At("holdS")]_vars

\* Readers cannot starve a writer: the writer without deadline that has
\* passed gate1_ gets the mutex.
WriterServed == \A t \in Threads \ UntilX : pc[t] = "drainX" ~> pc[t] = "holdX"

\* Many readers at one time (sync_primitives/notes.txt:43): a reader does not
\* wait for ever while no writer is inside or about to be.
ReaderAdmitted ==
    \A t \in Threads :
        pc[t] = "enterS" ~> (pc[t] # "enterS" \/ writeEntered)
-----------------------------------------------------------------------------
\* The lock that the threads see.
Abstract == INSTANCE RWLock WITH
    owner <- At("holdX"), sharers <- At("holdS"), announced <- At("drainX")

\* For the threads that use it, the mutex with its two gates, its state word
\* and its deadlines is that lock (shared_mutex.cpp:24-99).
ImplementsRWLock == Abstract!Spec
=============================================================================
