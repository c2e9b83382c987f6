----------------------------- MODULE DataReady ------------------------------
(***************************************************************************)
(* The hand-over through a condition variable in                           *)
(* lot_of_code/tests/sync_test.cc: wait_for_data_to_process sleeps until   *)
(* data_ready, prepare_data_for_processing sets it under the mutex and     *)
(* calls notify_one after it has released the mutex.                       *)
(***************************************************************************)
EXTENDS FiniteSets, Naturals

CONSTANTS
    Consumers,  \* the threads that call wait_for_data_to_process
    Producers,  \* the threads that call prepare_data_for_processing
    Nobody      \* the owner of mut when it is free

Threads == Consumers \cup Producers

ASSUME ThreadsAssumption ==
    /\ IsFiniteSet(Consumers) /\ IsFiniteSet(Producers)
    /\ Consumers \cap Producers = {}
    /\ Nobody \notin Threads

VARIABLES
    data_ready, \* the flag
    mut,        \* the owner of mut
    waiting,    \* the consumers asleep in cond.wait
    pc          \* where each thread is

vars == <<data_ready, mut, waiting, pc>>

Locations == {"wait", "test", "process", "prepare", "publish", "notify", "done"}

Init ==
    /\ data_ready = FALSE
    /\ mut = Nobody
    /\ waiting = {}
    /\ pc = [t \in Threads |-> IF t \in Consumers THEN "wait" ELSE "prepare"]
-----------------------------------------------------------------------------
GoTo(t, l) == pc' = [pc EXCEPT ![t] = l]

\* wait_for_data_to_process gets mut, at its start or when cond.wait returns.
Lock(t) ==
    /\ pc[t] = "wait" /\ t \notin waiting /\ mut = Nobody
    /\ mut' = t
    /\ GoTo(t, "test")
    /\ UNCHANGED <<data_ready, waiting>>

\* while (!data_ready) cond.wait(lock): mut is released and the consumer asleep
\* in one step.
Wait(t) ==
    /\ pc[t] = "test" /\ ~data_ready
    /\ waiting' = waiting \cup {t}
    /\ mut' = Nobody
    /\ GoTo(t, "wait")
    /\ UNCHANGED data_ready

\* A consumer that believes whoever woke it.
ProcessUntested(t) ==
    /\ pc[t] = "test"
    /\ GoTo(t, "process")
    /\ UNCHANGED <<data_ready, mut, waiting>>
\* The loop ends, and process_data runs with mut held.
Process(t) ==
    /\ pc[t] = "test" /\ data_ready
    /\ GoTo(t, "process")
    /\ UNCHANGED <<data_ready, mut, waiting>>

Return(t) ==
    /\ pc[t] = "process"
    /\ mut' = Nobody
    /\ GoTo(t, "done")
    /\ UNCHANGED <<data_ready, waiting>>

\* prepare_data_for_processing has its data and gets mut.
LockToPublish(t) ==
    /\ pc[t] = "prepare" /\ mut = Nobody
    /\ mut' = t
    /\ GoTo(t, "publish")
    /\ UNCHANGED <<data_ready, waiting>>

\* A producer that finds the flag up and saves itself the notification.
PublishOnce(t) ==
    /\ pc[t] = "publish"
    /\ data_ready' = TRUE
    /\ mut' = Nobody
    /\ GoTo(t, IF data_ready THEN "done" ELSE "notify")
    /\ UNCHANGED waiting
\* data_ready = true, and the block of the lock_guard ends.
Publish(t) ==
    /\ pc[t] = "publish"
    /\ data_ready' = TRUE
    /\ mut' = Nobody
    /\ GoTo(t, "notify")
    /\ UNCHANGED waiting

\* cond.notify_one, without mut.
Notify(t) ==
    /\ pc[t] = "notify"
    /\ \/ waiting = {} /\ UNCHANGED waiting
       \/ \E c \in waiting : waiting' = waiting \ {c}
    /\ GoTo(t, "done")
    /\ UNCHANGED <<data_ready, mut>>

\* cond.wait may return without a notification.
SpuriousWakeup(t) ==
    /\ t \in waiting
    /\ waiting' = waiting \ {t}
    /\ UNCHANGED <<data_ready, mut, pc>>

Consume(t) == Lock(t) \/ Wait(t) \/ Process(t) \/ Return(t)
Produce(t) == LockToPublish(t) \/ Publish(t) \/ Notify(t)

Finished == \A t \in Threads : pc[t] = "done"

Next ==
    \/ \E t \in Consumers : Consume(t) \/ SpuriousWakeup(t)
    \/ \E t \in Producers : Produce(t)
    \/ Finished /\ UNCHANGED vars

Spec == Init /\ [][Next]_vars

\* Every thread runs, and gets mut if mut is free again and again, although
\* spurious wakeups may compete for it for ever.
FairSpec ==
    /\ Spec
    /\ \A t \in Consumers : SF_vars(Consume(t))
    /\ \A t \in Producers : SF_vars(Produce(t))
-----------------------------------------------------------------------------
\* The values of the variables; only a consumer in its loop can be asleep.
TypeOK ==
    /\ data_ready \in BOOLEAN
    /\ mut \in Threads \cup {Nobody}
    /\ waiting \subseteq Consumers
    /\ pc \in [Threads -> Locations]
    /\ \A t \in waiting : pc[t] = "wait"

\* The producers whose notify_one is still to come.
ToNotify == {t \in Producers : pc[t] \in {"prepare", "publish", "notify"}}

\* notify_one wakes one consumer at most, and a consumer that finds the flag up
\* wakes no other: that all are served takes a producer for every consumer.
EnoughProducers == Cardinality(Consumers) <= Cardinality(Producers)

\* No lost wakeup: for every consumer still asleep a notification is still to
\* come, although the flag is set and the notification sent in two steps with
\* mut free between them (sync_test.cc:255-259).
NoLostWakeup == EnoughProducers => Cardinality(waiting) <= Cardinality(ToNotify)

\* process_data never runs before the data is ready, whatever woke the
\* consumer (sync_test.cc:242-245).
NothingProcessedEarly ==
    \A t \in Consumers : pc[t] \in {"process", "done"} => data_ready

\* Every consumer gets the data in the end.
AllServed == EnoughProducers => \A t \in Consumers : <>(pc[t] = "done")
=============================================================================
