------------------------------- MODULE RWLock -------------------------------
(***************************************************************************)
(* What a readers/writer mutex with two gates promises to the threads that *)
(* use it.  Many threads may hold the lock shared, or one may hold it      *)
(* exclusively.  A writer that finds readers inside announces itself: from *)
(* that moment no reader is admitted, the readers that are inside leave,   *)
(* and the announced writer is the next owner, unless it gives up.         *)
(***************************************************************************)
CONSTANT Threads

VARIABLES
    owner,      \* the thread that holds the lock exclusively, as a set
    sharers,    \* the threads that hold the lock shared
    announced   \* the writer that waits for the sharers to leave, as a set

vars == <<owner, sharers, announced>>

Init == owner = {} /\ sharers = {} /\ announced = {}

\* A writer that cannot take the lock yet closes it to new readers.
Announce(t) ==
    /\ owner = {} /\ announced = {} /\ sharers # {} /\ t \notin sharers
    /\ announced' = {t}
    /\ UNCHANGED <<owner, sharers>>

\* A writer with a deadline gives up, and readers may enter again.
GiveUp(t) ==
    /\ announced = {t}
    /\ announced' = {}
    /\ UNCHANGED <<owner, sharers>>

AcquireExclusive(t) ==
    /\ owner = {} /\ sharers = {} /\ announced \in {{}, {t}}
    /\ owner' = {t}
    /\ announced' = {}
    /\ UNCHANGED sharers

ReleaseExclusive(t) ==
    /\ owner = {t}
    /\ owner' = {}
    /\ UNCHANGED <<sharers, announced>>

AcquireShared(t) ==
    /\ owner = {} /\ announced = {} /\ t \notin sharers
    /\ sharers' = sharers \cup {t}
    /\ UNCHANGED <<owner, announced>>

ReleaseShared(t) ==
    /\ t \in sharers
    /\ sharers' = sharers \ {t}
    /\ UNCHANGED <<owner, announced>>

Next == \E t \in Threads :
            \/ Announce(t) \/ GiveUp(t)
            \/ AcquireExclusive(t) \/ ReleaseExclusive(t)
            \/ AcquireShared(t) \/ ReleaseShared(t)

Spec == Init /\ [][Next]_vars
=============================================================================
