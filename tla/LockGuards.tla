----------------------------- MODULE LockGuards -----------------------------
(***************************************************************************)
(* The lock objects of ting/shared_mutex: shared_lock, upgrade_lock, the   *)
(* constructors that ting adds to std::unique_lock, and transfer_lock, over *)
(* upgrade mutexes.  Every member is a step; what a mutex grants, and how  *)
(* it changes a mode atomically, is what UpgradeMutex is shown to do.  A   *)
(* member that throws changes nothing and is left out.                     *)
(***************************************************************************)
EXTENDS Integers, FiniteSets

CONSTANTS
    Mutexes,
    SharedLocks, UpgradeLocks, UniqueLocks, \* the lock objects of each type
    Null,       \* the null pointer, and "no transfer_lock"
    MaxLoose    \* bounds the ownerships that release has left to the program

Modes == {"shared", "upgrade", "unique"}
Guards == SharedLocks \cup UpgradeLocks \cup UniqueLocks
Mode(g) == CASE g \in SharedLocks -> "shared"
             [] g \in UpgradeLocks -> "upgrade"
             [] g \in UniqueLocks -> "unique"

ASSUME NullAssumption == Null \notin Mutexes \cup Guards
ASSUME BoundAssumption == MaxLoose \in Nat
ASSUME TypesAssumption ==
    /\ IsFiniteSet(Guards)
    /\ SharedLocks \cap UpgradeLocks = {}
    /\ SharedLocks \cap UniqueLocks = {}
    /\ UpgradeLocks \cap UniqueLocks = {}

VARIABLES
    held,       \* how often every mutex is owned in every mode
    alive,      \* the lock objects that exist
    guard,      \* m_ and owns_ of every lock object
    loose,      \* the ownerships that release has taken from the lock objects
    transfer    \* from_lock_ and to_lock_ of the transfer_lock

vars == <<held, alive, guard, loose, transfer>>

Empty == [m |-> Null, owns |-> FALSE]
NoTransfer == [from |-> Null, to |-> Empty]

Init ==
    /\ held = [m \in Mutexes |-> [k \in Modes |-> 0]]
    /\ alive = {}
    /\ guard = [g \in Guards |-> Empty]
    /\ loose = [m \in Mutexes |-> [k \in Modes |-> 0]]
    /\ transfer = NoTransfer
-----------------------------------------------------------------------------
\* What an upgrade mutex grants to somebody who owns nothing of it.
CanLock(m, k) ==
    /\ held[m]["unique"] = 0
    /\ k \in {"upgrade", "unique"} => held[m]["upgrade"] = 0
    /\ k = "unique" => held[m]["shared"] = 0

\* What it grants to an owner in mode k that wants to have mode l instead.
CanChange(m, k, l) ==
    /\ l = "unique" => held[m]["shared"] = IF k = "shared" THEN 1 ELSE 0
    /\ k = "shared" => held[m]["upgrade"] = 0

Acquire(m, k) == held' = [held EXCEPT ![m][k] = @ + 1]
Surrender(m, k) == held' = [held EXCEPT ![m][k] = @ - 1]
Change(m, k, l) == held' = [held EXCEPT ![m][k] = @ - 1, ![m][l] = @ + 1]

\* What a destructor and a move assignment do first: if (owns_) m_->unlock().
UnlockIfOwned(g) ==
    IF guard[g].owns THEN Surrender(guard[g].m, Mode(g)) ELSE UNCHANGED held

\* The constructors without lock and without mutex.
Construct(g, m) ==
    /\ g \notin alive
    /\ alive' = alive \cup {g}
    /\ guard' = [guard EXCEPT ![g] = [m |-> m, owns |-> FALSE]]
    /\ UNCHANGED <<held, loose, transfer>>

\* The constructors that lock, try, or try until a deadline.
ConstructLocked(g, m) ==
    /\ g \notin alive /\ CanLock(m, Mode(g))
    /\ Acquire(m, Mode(g))
    /\ alive' = alive \cup {g}
    /\ guard' = [guard EXCEPT ![g] = [m |-> m, owns |-> TRUE]]
    /\ UNCHANGED <<loose, transfer>>

\* adopt_lock: the program owns the mutex already.
Adopt(g, m) ==
    /\ g \notin alive /\ loose[m][Mode(g)] > 0
    /\ loose' = [loose EXCEPT ![m][Mode(g)] = @ - 1]
    /\ alive' = alive \cup {g}
    /\ guard' = [guard EXCEPT ![g] = [m |-> m, owns |-> TRUE]]
    /\ UNCHANGED <<held, transfer>>

\* The destructor; no program destroys what its transfer_lock refers to.
Destroy(g) ==
    /\ g \in alive /\ transfer.from # g
    /\ UnlockIfOwned(g)
    /\ alive' = alive \ {g}
    /\ guard' = [guard EXCEPT ![g] = Empty]
    /\ UNCHANGED <<loose, transfer>>

\* The move constructor.
MoveConstruct(g, h) ==
    /\ g \notin alive /\ h \in alive /\ Mode(g) = Mode(h)
    /\ alive' = alive \cup {g}
    /\ guard' = [guard EXCEPT ![g] = guard[h], ![h] = Empty]
    /\ UNCHANGED <<held, loose, transfer>>

\* A move assignment that forgets what it owned.
OverwriteAssign(g, h) ==
    /\ {g, h} \subseteq alive /\ Mode(g) = Mode(h)
    /\ guard' = [guard EXCEPT ![g] = guard[h], ![h] = Empty]
    /\ UNCHANGED <<held, alive, loose, transfer>>
\* The move assignment; to itself it unlocks and lets go of the mutex.
MoveAssign(g, h) ==
    /\ {g, h} \subseteq alive /\ Mode(g) = Mode(h)
    /\ UnlockIfOwned(g)
    /\ guard' = [guard EXCEPT ![g] = guard[h], ![h] = Empty]
    /\ UNCHANGED <<alive, loose, transfer>>

\* The conversions that always succeed, if need be after waiting.
Conversions == {<<"upgrade", "shared">>, <<"unique", "shared">>,
                <<"unique", "upgrade">>, <<"upgrade", "unique">>}
\* Those that may fail, with try_to_lock or a deadline.
TryConversions == {<<"shared", "upgrade">>, <<"upgrade", "unique">>, <<"shared", "unique">>}

\* A lock object made from one of another type, which gives up its mutex.
Convert(g, h) ==
    /\ g \notin alive /\ h \in alive
    /\ <<Mode(h), Mode(g)>> \in Conversions \cup TryConversions
    /\ IF guard[h].owns
         THEN /\ CanChange(guard[h].m, Mode(h), Mode(g))
              /\ Change(guard[h].m, Mode(h), Mode(g))
         ELSE UNCHANGED held
    /\ alive' = alive \cup {g}
    /\ guard' = [guard EXCEPT ![g] = guard[h], ![h] = Empty]
    /\ UNCHANGED <<loose, transfer>>

\* The conversion fails: the new object is empty, the source keeps all it has.
ConvertFails(g, h) ==
    /\ g \notin alive /\ h \in alive /\ guard[h].owns
    /\ <<Mode(h), Mode(g)>> \in TryConversions
    /\ alive' = alive \cup {g}
    /\ UNCHANGED <<held, guard, loose, transfer>>

\* lock, and try_lock and try_lock_until when they succeed; when they fail
\* nothing changes.
Lock(g) ==
    /\ g \in alive /\ guard[g].m # Null /\ ~guard[g].owns
    /\ CanLock(guard[g].m, Mode(g))
    /\ Acquire(guard[g].m, Mode(g))
    /\ guard' = [guard EXCEPT ![g].owns = TRUE]
    /\ UNCHANGED <<alive, loose, transfer>>

\* unlock, which throws if the lock object owns nothing.
Unlock(g) ==
    /\ g \in alive /\ guard[g].owns
    /\ Surrender(guard[g].m, Mode(g))
    /\ guard' = [guard EXCEPT ![g].owns = FALSE]
    /\ UNCHANGED <<alive, loose, transfer>>

Swap(g, h) ==
    /\ {g, h} \subseteq alive /\ Mode(g) = Mode(h)
    /\ guard' = [guard EXCEPT ![g] = guard[h], ![h] = guard[g]]
    /\ UNCHANGED <<held, alive, loose, transfer>>

\* release: the ownership, if any, is now the program's.
Release(g) ==
    /\ g \in alive
    /\ IF guard[g].owns
         THEN /\ loose[guard[g].m][Mode(g)] < MaxLoose
              /\ loose' = [loose EXCEPT ![guard[g].m][Mode(g)] = @ + 1]
         ELSE UNCHANGED loose
    /\ guard' = [guard EXCEPT ![g] = Empty]
    /\ UNCHANGED <<held, alive, transfer>>

\* The modes that a transfer_lock can go to and come back from.
TransferMode(g) == IF Mode(g) = "upgrade" THEN "unique" ELSE "upgrade"

\* transfer_lock(fl): to_lock_ takes over from fl.
BeginTransfer(g) ==
    /\ g \in alive /\ Mode(g) # "shared" /\ transfer = NoTransfer
    /\ IF guard[g].owns
         THEN /\ CanChange(guard[g].m, Mode(g), TransferMode(g))
              /\ Change(guard[g].m, Mode(g), TransferMode(g))
         ELSE UNCHANGED held
    /\ transfer' = [from |-> g, to |-> guard[g]]
    /\ guard' = [guard EXCEPT ![g] = Empty]
    /\ UNCHANGED <<alive, loose>>

\* ~transfer_lock: from_lock_ = FromLock(move(to_lock_)), where the conversion
\* back comes before the unlock of what from_lock_ has come to own meanwhile.
EndTransfer ==
    LET g == transfer.from
        to == transfer.to
        back == IF to.owns THEN [held EXCEPT ![to.m][TransferMode(g)] = @ - 1,
                                             ![to.m][Mode(g)] = @ + 1]
                ELSE held
    IN  /\ transfer # NoTransfer
        /\ to.owns => CanChange(to.m, TransferMode(g), Mode(g))
        /\ held' = IF guard[g].owns THEN [back EXCEPT ![guard[g].m][Mode(g)] = @ - 1] ELSE back
        /\ guard' = [guard EXCEPT ![g] = to]
        /\ transfer' = NoTransfer
        /\ UNCHANGED <<alive, loose>>

\* The program unlocks what release has given it.
UnlockLoose(m, k) ==
    /\ loose[m][k] > 0
    /\ Surrender(m, k)
    /\ loose' = [loose EXCEPT ![m][k] = @ - 1]
    /\ UNCHANGED <<alive, guard, transfer>>

Next ==
    \/ \E g \in Guards, m \in Mutexes \cup {Null} : Construct(g, m)
    \/ \E g \in Guards, m \in Mutexes : ConstructLocked(g, m) \/ Adopt(g, m)
    \/ \E g \in Guards : Destroy(g) \/ Lock(g) \/ Unlock(g) \/ Release(g) \/ BeginTransfer(g)
    \/ \E g, h \in Guards :
          \/ MoveConstruct(g, h) \/ MoveAssign(g, h) \/ Swap(g, h)
          \/ Convert(g, h) \/ ConvertFails(g, h)
    \/ EndTransfer
    \/ \E m \in Mutexes, k \in Modes : UnlockLoose(m, k)

Spec == Init /\ [][Next]_vars
-----------------------------------------------------------------------------
LockStates == [m : Mutexes \cup {Null}, owns : BOOLEAN]

\* The values of the variables; a mutex is never unlocked more often than it
\* is locked, and owns_ is set only together with m_ (shared_mutex:835).
TypeOK ==
    /\ held \in [Mutexes -> [Modes -> Nat]]
    /\ loose \in [Mutexes -> [Modes -> 0 .. MaxLoose]]
    /\ alive \subseteq Guards
    /\ guard \in [Guards -> LockStates]
    /\ transfer \in [from : {Null} \cup UpgradeLocks \cup UniqueLocks, to : LockStates]
    /\ \A g \in Guards : guard[g].owns => g \in alive /\ guard[g].m # Null

\* The ownerships of m in mode k that somebody will give back.
Owners(m, k) ==
    Cardinality({g \in Guards : Mode(g) = k /\ guard[g] = [m |-> m, owns |-> TRUE]})
    + loose[m][k]
    + (IF transfer.to = [m |-> m, owns |-> TRUE] /\ TransferMode(transfer.from) = k THEN 1 ELSE 0)

\* Nothing is leaked and nothing is unlocked twice: after any sequence of
\* moves, conversions that succeed or fail, swaps, releases and transfers,
\* every ownership of a mutex belongs to exactly one lock object, to a
\* transfer_lock or to the program that called release (shared_mutex:682-1211).
OwnershipExact == \A m \in Mutexes, k \in Modes : held[m][k] = Owners(m, k)
=============================================================================
