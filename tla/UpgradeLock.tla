----------------------------- MODULE UpgradeLock -----------------------------
(***************************************************************************)
(* What a mutex with upgradable ownership promises.  It is the lock of     *)
(* RWLock with one more mode: a single thread, the upgrader, may share the *)
(* lock with the readers and turn its ownership into an exclusive one      *)
(* without ever letting another writer in between.  Ownership of one kind  *)
(* is turned into another in one step.                                     *)
(***************************************************************************)
CONSTANT Threads

VARIABLES
    owner,      \* the thread that holds the lock exclusively, as a set
    sharers,    \* the threads that hold the lock shared
    upgrader,   \* the thread with upgradable ownership, as a set
    announced   \* the writer that waits for the sharers to leave, as a set

vars == <<owner, sharers, upgrader, announced>>

Init == owner = {} /\ sharers = {} /\ upgrader = {} /\ announced = {}

\* Nobody has the lock exclusively, or is about to.
OpenToReaders == owner = {} /\ announced = {}
OpenToUpgrader == OpenToReaders /\ upgrader = {}

Announce(t) ==
    /\ OpenToUpgrader /\ sharers # {} /\ t \notin sharers
    /\ announced' = {t}
    /\ UNCHANGED <<owner, sharers, upgrader>>

GiveUp(t) ==
    /\ announced = {t}
    /\ announced' = {}
    /\ UNCHANGED <<owner, sharers, upgrader>>

AcquireExclusive(t) ==
    /\ owner = {} /\ sharers = {} /\ upgrader = {} /\ announced \in {{}, {t}}
    /\ owner' = {t} /\ announced' = {}
    /\ UNCHANGED <<sharers, upgrader>>

AcquireShared(t) ==
    /\ OpenToReaders /\ t \notin sharers \cup upgrader
    /\ sharers' = sharers \cup {t}
    /\ UNCHANGED <<owner, upgrader, announced>>

AcquireUpgrade(t) ==
    /\ OpenToUpgrader /\ t \notin sharers
    /\ upgrader' = {t}
    /\ UNCHANGED <<owner, sharers, announced>>

Release(t) ==
    /\ t \in owner \cup sharers \cup upgrader
    /\ owner' = owner \ {t} /\ sharers' = sharers \ {t} /\ upgrader' = upgrader \ {t}
    /\ UNCHANGED announced

(***************************************************************************)
(* From one kind of ownership to another                                   *)
(***************************************************************************)
SharedToExclusive(t) ==
    /\ OpenToUpgrader /\ sharers = {t}
    /\ owner' = {t} /\ sharers' = {}
    /\ UNCHANGED <<upgrader, announced>>

SharedToUpgrade(t) ==
    /\ OpenToUpgrader /\ t \in sharers
    /\ upgrader' = {t} /\ sharers' = sharers \ {t}
    /\ UNCHANGED <<owner, announced>>

\* The upgrader becomes the owner, or the next owner once the readers leave.
UpgradeToExclusive(t) ==
    /\ upgrader = {t} /\ upgrader' = {}
    /\ \/ sharers = {} /\ owner' = {t} /\ UNCHANGED announced
       \/ sharers # {} /\ announced' = {t} /\ UNCHANGED owner
    /\ UNCHANGED sharers

UpgradeToShared(t) ==
    /\ upgrader = {t}
    /\ upgrader' = {} /\ sharers' = sharers \cup {t}
    /\ UNCHANGED <<owner, announced>>

ExclusiveToShared(t) ==
    /\ owner = {t}
    /\ owner' = {} /\ sharers' = {t}
    /\ UNCHANGED <<upgrader, announced>>

ExclusiveToUpgrade(t) ==
    /\ owner = {t}
    /\ owner' = {} /\ upgrader' = {t}
    /\ UNCHANGED <<sharers, announced>>

Next == \E t \in Threads :
            \/ Announce(t) \/ GiveUp(t) \/ AcquireExclusive(t)
            \/ AcquireShared(t) \/ AcquireUpgrade(t) \/ Release(t)
            \/ SharedToExclusive(t) \/ SharedToUpgrade(t)
            \/ UpgradeToExclusive(t) \/ UpgradeToShared(t)
            \/ ExclusiveToShared(t) \/ ExclusiveToUpgrade(t)

Spec == Init /\ [][Next]_vars
=============================================================================
