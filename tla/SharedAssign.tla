---------------------------- MODULE SharedAssign ----------------------------
(***************************************************************************)
(* Copy assignment of class B of parallel_data_structures                  *)
(* (ds_safe_assign_test.cc), whose mutex is a boost::shared_mutex.  It     *)
(* makes an exclusive and a shared lock and gives both to boost::lock, but *)
(* both are locks of the mutex of the target: the source is never locked.  *)
(***************************************************************************)
EXTENDS Naturals, FiniteSets

CONSTANTS
    Objects,        \* the objects of class B
    Threads,        \* the threads
    Target, Source, \* the objects *this and rhs of the assignment of a thread
    Nobody          \* the exclusive owner of a mutex that has none

VARIABLES
    value,      \* data_ of every object
    writer,     \* the exclusive owner of mut_ of every object
    readers,    \* the threads that hold mut_ shared
    pc,         \* where each thread is
    exclusiveFirst  \* whether boost::lock begins with the exclusive lock

vars == <<value, writer, readers, pc, exclusiveFirst>>

Init ==
    /\ value = [o \in Objects |-> o]
    /\ writer = [o \in Objects |-> Nobody]
    /\ readers = [o \in Objects |-> {}]
    /\ pc = [t \in Threads |-> "idle"]
    /\ exclusiveFirst = [t \in Threads |-> TRUE]
-----------------------------------------------------------------------------
GoTo(t, l) == pc' = [pc EXCEPT ![t] = l]

\* What boost::shared_mutex grants.
CanOwn(o) == writer[o] = Nobody /\ readers[o] = {}
CanShare(o) == writer[o] = Nobody

\* Takes the mutex of o in one of the two modes.
Take(t, o, exclusive) ==
    \/ /\ exclusive /\ CanOwn(o)
       /\ writer' = [writer EXCEPT ![o] = t] /\ UNCHANGED readers
    \/ /\ ~exclusive /\ CanShare(o)
       /\ readers' = [readers EXCEPT ![o] = @ \cup {t}] /\ UNCHANGED writer

\* The mutexes that lhs_lock and rhs_lock refer to.
Locked(t, exclusive) == Target[t]

\* lhs = rhs, when they are different objects.
Begin(t) ==
    /\ pc[t] = "idle" /\ Target[t] # Source[t]
    /\ GoTo(t, "block")
    /\ exclusiveFirst' = [exclusiveFirst EXCEPT ![t] = TRUE]
    /\ UNCHANGED <<value, writer, readers>>

LockFirst(t) ==
    /\ pc[t] = "block" /\ GoTo(t, "try")
    /\ Take(t, Locked(t, exclusiveFirst[t]), exclusiveFirst[t])
    /\ UNCHANGED <<value, exclusiveFirst>>

CanTakeSecond(t) ==
    IF exclusiveFirst[t] THEN CanShare(Locked(t, FALSE)) ELSE CanOwn(Locked(t, TRUE))
TrySecond(t) ==
    /\ pc[t] = "try"
    /\ \/ Take(t, Locked(t, ~exclusiveFirst[t]), ~exclusiveFirst[t]) /\ GoTo(t, "assign")
       \/ ~CanTakeSecond(t) /\ GoTo(t, "backOff") /\ UNCHANGED <<writer, readers>>
    /\ UNCHANGED <<value, exclusiveFirst>>

\* Releases what t holds of the mutexes of its two locks.
Release(t) ==
    /\ writer' = [o \in Objects |-> IF writer[o] = t THEN Nobody ELSE writer[o]]
    /\ readers' = [o \in Objects |-> readers[o] \ {t}]

BackOff(t) ==
    /\ pc[t] = "backOff" /\ GoTo(t, "block") /\ Release(t)
    /\ exclusiveFirst' = [exclusiveFirst EXCEPT ![t] = ~@]
    /\ UNCHANGED value

Assign(t) ==
    /\ pc[t] = "assign" /\ GoTo(t, "idle") /\ Release(t)
    /\ value' = [value EXCEPT ![Target[t]] = value[Source[t]]]
    /\ UNCHANGED exclusiveFirst

Step(t) == LockFirst(t) \/ TrySecond(t) \/ BackOff(t) \/ Assign(t)

Next == \E t \in Threads : Begin(t) \/ Step(t)

Spec == Init /\ [][Next]_vars

\* Every thread that is inside an assignment runs, and gets a mutex that is
\* free again and again.
FairSpec == Spec /\ \A t \in Threads : SF_vars(Step(t))
-----------------------------------------------------------------------------
\* An assignment that has begun completes: what "thread-safe copy ctor and
\* assign" (ds_safe_assign_test.cc:40) asks of operator= at the very least.
AssignCompletes == \A t \in Threads : pc[t] = "block" ~> pc[t] = "idle"
=============================================================================
