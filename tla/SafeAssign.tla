----------------------------- MODULE SafeAssign -----------------------------
(***************************************************************************)
(* Copy assignment of class A of parallel_data_structures, called in loops *)
(* by several threads (ds_safe_assign_test.cc).  An object is a vector and *)
(* its mutex.  The assignment takes both mutexes with boost::lock, which   *)
(* blocks on one, tries the other, and on a failure releases the first and *)
(* starts again from the one it could not get.                             *)
(***************************************************************************)
EXTENDS Naturals

CONSTANTS
    Objects,        \* the objects of class A
    Threads,        \* the threads, each in the loop of task1
    Target, Source, \* the objects *a and *b of each thread
    Size,           \* the number of elements of every vector
    Rounds,         \* the bound of the loop of task1, 100000 in the code
    Nobody          \* the owner of a free mutex

ASSUME TasksAssumption ==
    Target \in [Threads -> Objects] /\ Source \in [Threads -> Objects]
ASSUME BoundsAssumption == Size \in Nat \ {0} /\ Rounds \in Nat
ASSUME NobodyAssumption == Nobody \notin Threads

VARIABLES
    data,       \* the elements of data_ of every object
    owner,      \* the owner of mut_ of every object
    pc,         \* where each thread is
    first,      \* the object whose mutex boost::lock takes first
    copied,     \* how many elements the assignment has copied
    rounds      \* how many assignments the loop of the thread has done

vars == <<data, owner, pc, first, copied, rounds>>

Cells == 1 .. Size
Locations == {"loop", "block", "try", "backOff", "copy", "unlockRhs", "unlockLhs"}

\* The other one of the two objects that t locks.
Second(t) == IF first[t] = Target[t] THEN Source[t] ELSE Target[t]

\* The elements of a vector are told apart by the object they come from.
Init ==
    /\ data = [o \in Objects |-> [i \in Cells |-> o]]
    /\ owner = [o \in Objects |-> Nobody]
    /\ pc = [t \in Threads |-> "loop"]
    /\ first = Target
    /\ copied = [t \in Threads |-> 0]
    /\ rounds = [t \in Threads |-> 0]
-----------------------------------------------------------------------------
GoTo(t, l) == pc' = [pc EXCEPT ![t] = l]
Take(t, o) == owner[o] = Nobody /\ owner' = [owner EXCEPT ![o] = t]
Free(o) == owner' = [owner EXCEPT ![o] = Nobody]

\* a = a: the test of the addresses skips everything.
SelfAssign(t) ==
    /\ pc[t] = "loop" /\ rounds[t] < Rounds /\ Target[t] = Source[t]
    /\ rounds' = [rounds EXCEPT ![t] = @ + 1]
    /\ UNCHANGED <<data, owner, pc, first, copied>>

\* The assignment makes its two deferred locks and calls lock(lhs, rhs).
Begin(t) ==
    /\ pc[t] = "loop" /\ rounds[t] < Rounds /\ Target[t] # Source[t]
    /\ GoTo(t, "block")
    /\ first' = [first EXCEPT ![t] = Target[t]]
    /\ UNCHANGED <<data, owner, copied, rounds>>

LockFirst(t) ==
    /\ pc[t] = "block" /\ Take(t, first[t]) /\ GoTo(t, "try")
    /\ UNCHANGED <<data, first, copied, rounds>>

\* Version V0 of the source, which blocks on the second mutex as well.
BlockOnSecond(t) ==
    /\ pc[t] = "try" /\ Take(t, Second(t)) /\ GoTo(t, "copy")
    /\ UNCHANGED <<data, first, copied, rounds>>
\* A version that does not lock the second object.
ForgetSecond(t) ==
    /\ pc[t] = "try" /\ GoTo(t, "copy")
    /\ UNCHANGED <<data, owner, first, copied, rounds>>
\* Try the other mutex: go on with both, or give the first one back.
TrySecond(t) ==
    /\ pc[t] = "try"
    /\ \/ Take(t, Second(t)) /\ GoTo(t, "copy")
       \/ owner[Second(t)] # Nobody /\ GoTo(t, "backOff") /\ UNCHANGED owner
    /\ UNCHANGED <<data, first, copied, rounds>>

\* An attempt that keeps the mutex it has got.
BackOffHolding(t) ==
    /\ pc[t] = "backOff" /\ GoTo(t, "block")
    /\ first' = [first EXCEPT ![t] = Second(t)]
    /\ UNCHANGED <<data, owner, copied, rounds>>
\* The attempt failed: release, and begin with the mutex that was taken.
BackOff(t) ==
    /\ pc[t] = "backOff" /\ Free(first[t]) /\ GoTo(t, "block")
    /\ first' = [first EXCEPT ![t] = Second(t)]
    /\ UNCHANGED <<data, copied, rounds>>

\* data_ = rhs.data_, one element.
CopyCell(t) ==
    LET i == copied[t] + 1
    IN  /\ pc[t] = "copy"
        /\ data' = [data EXCEPT ![Target[t]][i] = data[Source[t]][i]]
        /\ IF i = Size
             THEN GoTo(t, "unlockRhs") /\ copied' = [copied EXCEPT ![t] = 0]
             ELSE UNCHANGED pc /\ copied' = [copied EXCEPT ![t] = i]
        /\ UNCHANGED <<owner, first, rounds>>

\* The locks are destroyed in the reverse order of their construction.
UnlockRhs(t) ==
    /\ pc[t] = "unlockRhs" /\ Free(Source[t]) /\ GoTo(t, "unlockLhs")
    /\ UNCHANGED <<data, first, copied, rounds>>
UnlockLhs(t) ==
    /\ pc[t] = "unlockLhs" /\ Free(Target[t]) /\ GoTo(t, "loop")
    /\ rounds' = [rounds EXCEPT ![t] = @ + 1]
    /\ UNCHANGED <<data, first, copied>>

Step(t) == \/ SelfAssign(t) \/ Begin(t) \/ LockFirst(t) \/ TrySecond(t) \/ BackOff(t)
           \/ CopyCell(t) \/ UnlockRhs(t) \/ UnlockLhs(t)

\* The loops have ended and the threads can be joined.
Finished == \A t \in Threads : pc[t] = "loop" /\ rounds[t] = Rounds
Joined == Finished /\ UNCHANGED vars

Next == Joined \/ \E t \in Threads : Step(t)

Spec == Init /\ [][Next]_vars

\* Every thread runs; nothing says that it wins a race for a mutex.
FairSpec == Spec /\ \A t \in Threads : WF_vars(Step(t))
-----------------------------------------------------------------------------
\* The values of the variables; the copy index is back at 0 when a copy ends
\* (ds_safe_assign_test.cc:68).
TypeOK ==
    /\ data \in [Objects -> [Cells -> Objects]]
    /\ owner \in [Objects -> Threads \cup {Nobody}]
    /\ pc \in [Threads -> Locations]
    /\ first \in [Threads -> Objects]
    /\ copied \in [Threads -> 0 .. Size - 1]
    /\ rounds \in [Threads -> 0 .. Rounds]

\* The assignment of t is half done with o.
Writing(t, o) == o = Target[t] /\ pc[t] = "copy" /\ copied[t] > 0

\* No torn copy: a vector that no assignment is half done with is one some
\* object began with, never a mixture (ds_safe_assign_test.cc:62-68).
WholeVectors ==
    \A o \in Objects :
        (\A t \in Threads : ~Writing(t, o)) => \A i, j \in Cells : data[o][i] = data[o][j]

\* The next step of t does not wait: only the first mutex is waited for.
CanGoOn(t) ==
    \/ pc[t] = "loop" /\ rounds[t] < Rounds
    \/ pc[t] = "block" /\ owner[first[t]] = Nobody
    \/ pc[t] \notin {"loop", "block"}

\* Opposite assignments do not deadlock ("deadlock - v0",
\* ds_safe_assign_test.cc:82): until all loops have ended some thread can go on,
\* since whoever waits for a mutex holds none.
NoDeadlock == Finished \/ \E t \in Threads : CanGoOn(t)

\* Nobody keeps a mutex for ever, even while its thread cannot get the other.
MutexReturned ==
    \A o \in Objects, t \in Threads : owner[o] = t ~> owner[o] # t
-----------------------------------------------------------------------------
\* The value of an object: from the first element on, the target of an
\* assignment counts as having the value of its source, which is locked.
ValueOf(o) ==
    IF \E t \in Threads : Writing(t, o)
      THEN data[Source[CHOOSE t \in Threads : Writing(t, o)]]
      ELSE data[o]

Abstract == INSTANCE AtomicAssign
    WITH value <- [o \in Objects |-> ValueOf(o)],
         Initial <- [o \in Objects |-> [i \in Cells |-> o]]

\* For the threads that use the objects, an assignment is one step, however
\* the mutexes were got and the elements copied (ds_safe_assign_test.cc:55-71).
ImplementsAtomicAssign == Abstract!Spec
=============================================================================
