------------------------------ MODULE FibTask -------------------------------
(***************************************************************************)
(* The fork-join Fibonacci of projects_adaptations/tbb_only/tests: FibTask *)
(* of base_test.cc, which keeps the results it knows in a                  *)
(* concurrent_hash_map, and the FibTask of                                 *)
(* goal_no_raw_sync_primitives_test.cc, which has no table and a larger    *)
(* cutoff.  The task scheduler is external: a worker with nothing to run,  *)
(* or one whose topmost task waits, may run any spawned task on top of it. *)
(***************************************************************************)
EXTENDS Integers, FiniteSets, Sequences, SequencesExt

CONSTANTS
    N,          \* bounds the argument of ParallelFib
    Versions,   \* the programs: the argument n of ParallelFib, the CutOff below
                \* which a task has no children, and whether it Connects the table
    Workers,    \* the threads of the scheduler
    NoTask      \* what holds the accessor of an unlocked entry

\* task_scheduler_init starts at least one.
ASSUME WorkersAssumption == Workers # {}
ASSUME ArgumentsAssumption ==
    N \in Nat /\ \A v \in Versions : v.n \in 0 .. N /\ v.CutOff \in Nat \ {0, 1} /\ v.Connect \in BOOLEAN

\* SerialFib, the reference definition.
SerialFib[n \in 0 .. N] == IF n < 2 THEN n ELSE SerialFib[n - 1] + SerialFib[n - 2]

\* A task is the path from the root to it: 1 leads to the child for n-1, 2 to
\* the child for n-2.
Argument(v, path) == v.n - Len(path) - Cardinality({i \in DOMAIN path : path[i] = 2})
TasksOf(v) == {path \in UNION {[1 .. l -> {1, 2}] : l \in 0 .. v.n} :
                 \A i \in 1 .. Len(path) : Argument(v, SubSeq(path, 1, i - 1)) >= v.CutOff}
Root == <<>>

ASSUME NoTaskAssumption == \A v \in Versions : NoTask \notin TasksOf(v)

VARIABLES
    version,    \* the program that runs
    pc,         \* where every task is
    sum,        \* the result of every task, in the variable of its parent
    refCount,   \* the reference count of every task
    stack,      \* the tasks every worker runs, the topmost one last
    table,      \* the values of g_task_table
    accessor    \* the task that holds the accessor of every entry

vars == <<version, pc, sum, refCount, stack, table, accessor>>

Arguments == 0 .. N
Tasks == DOMAIN pc
n(t) == Argument(version, t)
Children(t) == {t \o <<1>>, t \o <<2>>} \cap Tasks

Init ==
    /\ version \in Versions
    /\ pc = [t \in TasksOf(version) |-> IF t = Root THEN "spawned" ELSE "none"]
    /\ sum = [t \in Tasks |-> 0]
    /\ refCount = [t \in Tasks |-> 0]
    /\ stack = [w \in Workers |-> <<>>]
    /\ table = [k \in {} |-> 0]
    /\ accessor = [k \in Arguments |-> NoTask]
-----------------------------------------------------------------------------
GoTo(t, l) == pc' = [pc EXCEPT ![t] = l]
Top(w) == IF stack[w] = <<>> THEN NoTask ELSE Last(stack[w])
Known(k) == k \in DOMAIN table
Locked(k) == accessor[k] # NoTask

\* The scheduler runs a spawned task on a worker that has nothing to do.
Run(w, t) ==
    /\ pc[t] = "spawned"
    /\ Top(w) # NoTask => pc[Top(w)] = "wait"
    /\ stack' = [stack EXCEPT ![w] = Append(@, t)]
    /\ GoTo(t, IF version.Connect THEN "find" ELSE "compute")
    /\ UNCHANGED <<sum, refCount, table, accessor>>

\* One accessor for the whole of execute, taken when the entry is not there.
FindOrInsert(t) ==
    /\ pc[t] = "find" /\ ~Locked(n(t))
    /\ IF Known(n(t))
         THEN /\ sum' = [sum EXCEPT ![t] = table[n(t)]]
              /\ GoTo(t, "return") /\ UNCHANGED accessor
         ELSE GoTo(t, "compute") /\ accessor' = [accessor EXCEPT ![n(t)] = t] /\ UNCHANGED sum
    /\ UNCHANGED <<refCount, stack, table>>
\* g_task_table.find waits while another task holds the accessor of the entry.
Find(t) ==
    /\ pc[t] = "find" /\ ~Locked(n(t))
    /\ IF Known(n(t))
         THEN sum' = [sum EXCEPT ![t] = table[n(t)]] /\ GoTo(t, "return")
         ELSE GoTo(t, "compute") /\ UNCHANGED sum
    /\ UNCHANGED <<refCount, stack, table, accessor>>

Remember(t) == GoTo(t, IF version.Connect THEN "insert" ELSE "return")

\* No children for a small argument.
Leaf(t) ==
    /\ pc[t] = "compute" /\ n(t) < version.CutOff
    /\ sum' = [sum EXCEPT ![t] = SerialFib[n(t)]]
    /\ Remember(t)
    /\ UNCHANGED <<refCount, stack, table, accessor>>

\* set_ref_count(2): one child short.
ForkOneShort(t) ==
    /\ pc[t] = "compute" /\ n(t) >= version.CutOff
    /\ refCount' = [refCount EXCEPT ![t] = 2]
    /\ pc' = [pc EXCEPT ![t] = "fork", ![t \o <<2>>] = "spawned"]
    /\ UNCHANGED <<sum, stack, table, accessor>>
\* The children are allocated, the count is set, and b is spawned.
Fork(t) ==
    /\ pc[t] = "compute" /\ n(t) >= version.CutOff
    /\ refCount' = [refCount EXCEPT ![t] = 3]
    /\ pc' = [pc EXCEPT ![t] = "fork", ![t \o <<2>>] = "spawned"]
    /\ UNCHANGED <<sum, stack, table, accessor>>

\* spawn_and_wait_for_all(a), first half.
SpawnLast(t) ==
    /\ pc[t] = "fork"
    /\ pc' = [pc EXCEPT ![t] = "wait", ![t \o <<1>>] = "spawned"]
    /\ UNCHANGED <<sum, refCount, stack, table, accessor>>

\* All children have returned: the wait ends, and x and y are added.
AddUp(t) ==
    /\ pc[t] = "wait" /\ refCount[t] = 1
    /\ refCount' = [refCount EXCEPT ![t] = 0]
    /\ sum' = [sum EXCEPT ![t] = sum[t \o <<1>>] + sum[t \o <<2>>]]
    /\ Remember(t)
    /\ UNCHANGED <<stack, table, accessor>>

\* A new entry starts with 0.
NewEntry(m) == table' = [k \in DOMAIN table \cup {m} |-> IF k = m THEN 0 ELSE table[k]]
\* An insert that gives back the accessor before the value is there.
InsertUnlocked(t) ==
    /\ pc[t] = "insert" /\ ~Locked(n(t))
    /\ IF Known(n(t))
         THEN GoTo(t, "return") /\ UNCHANGED table
         ELSE NewEntry(n(t)) /\ GoTo(t, "store")
    /\ UNCHANGED <<sum, refCount, stack, accessor>>
\* g_task_table.insert waits for the accessor.
Insert(t) ==
    /\ pc[t] = "insert" /\ ~Locked(n(t))
    /\ IF Known(n(t))
         THEN GoTo(t, "return") /\ UNCHANGED <<table, accessor>>
         ELSE /\ NewEntry(n(t))
              /\ accessor' = [accessor EXCEPT ![n(t)] = t]
              /\ GoTo(t, "store")
    /\ UNCHANGED <<sum, refCount, stack>>

\* a->second = *sum, and the accessor is destroyed.
Store(t) ==
    /\ pc[t] = "store"
    /\ table' = [table EXCEPT ![n(t)] = sum[t]]
    /\ accessor' = [accessor EXCEPT ![n(t)] = NoTask]
    /\ GoTo(t, "return")
    /\ UNCHANGED <<sum, refCount, stack>>

\* execute returns NULL: the scheduler counts the parent down.
Return(w, t) ==
    /\ pc[t] = "return"
    /\ GoTo(t, "done")
    /\ stack' = [stack EXCEPT ![w] = Front(@)]
    /\ refCount' = IF t = Root THEN refCount ELSE [refCount EXCEPT ![Front(t)] = @ - 1]
    /\ UNCHANGED <<sum, table, accessor>>

\* One step of execute of the topmost task of w.
Execute(w) ==
    \E t \in Tasks :
        /\ t = Top(w)
        /\ UNCHANGED version
        /\ \/ Find(t) \/ Leaf(t) \/ Fork(t) \/ SpawnLast(t)
           \/ AddUp(t) \/ Insert(t) \/ Store(t) \/ Return(w, t)
Schedule(w) == \E t \in Tasks : Run(w, t) /\ UNCHANGED version

\* spawn_root_and_wait returns: nothing is left to run.
Returned == pc[Root] = "done"

Next ==
    \/ \E w \in Workers : Execute(w) \/ Schedule(w)
    \/ Returned /\ UNCHANGED vars

Spec == Init /\ [][Next]_vars

\* Every worker runs the task on top of its stack, and takes one if it can.
FairSpec == Spec /\ \A w \in Workers : WF_vars(Execute(w)) /\ WF_vars(Schedule(w))
-----------------------------------------------------------------------------
\* Where a task is while execute runs.
Running == {"find", "compute", "fork", "wait", "insert", "store", "return"}

\* The values of the variables; no reference count ever passes 3 or 0.
TypeOK ==
    /\ version \in Versions
    /\ pc \in [TasksOf(version) -> {"none", "spawned", "done"} \cup Running]
    /\ sum \in [Tasks -> Nat]
    /\ refCount \in [Tasks -> 0 .. 3]
    /\ stack \in [Workers -> Seq(Tasks)]
    /\ DOMAIN table \subseteq Arguments /\ table \in [DOMAIN table -> Nat]
    /\ accessor \in [Arguments -> Tasks \cup {NoTask}]

\* Every result that a task has left is the right one, whichever worker ran its
\* children and whether it was computed or found in the table: x and y are
\* never added too early (base_test.cc:50, 70-73).
ResultsRight ==
    \A t \in Tasks :
        pc[t] \in {"insert", "store", "return", "done"} => sum[t] = SerialFib[n(t)]

\* No task finds an entry whose value is not there yet (base_test.cc:81-82).
TableRight == \A k \in DOMAIN table : ~Locked(k) => table[k] = SerialFib[k]

Unfinished(t) == {c \in Children(t) : pc[c] # "done"}

\* While a task waits, its count is one more than its unfinished children.
RefCountExact ==
    \A t \in Tasks : pc[t] \in {"fork", "wait"} =>
        refCount[t] = 1 + Cardinality(Unfinished(t))

\* An accessor is held only by a task that runs, never by one that waits for
\* its children under another: no worker waits for an entry that its own stack
\* holds (the scopes of base_test.cc:47-53, 77-83).
AccessorNotHeldInWait ==
    \A k \in Arguments : Locked(k) => \E w \in Workers : Top(w) = accessor[k]

\* The guards of a worker's steps: its topmost task can go on, or it takes another.
CanGoOn(w) ==
    \/ /\ Top(w) \in Tasks
       /\ \/ pc[Top(w)] \in {"compute", "fork", "store", "return"}
          \/ pc[Top(w)] \in {"find", "insert"} /\ ~Locked(n(Top(w)))
          \/ pc[Top(w)] = "wait" /\ refCount[Top(w)] = 1
    \/ /\ Top(w) # NoTask => pc[Top(w)] = "wait"
       /\ \E t \in Tasks : pc[t] = "spawned"

\* Until ParallelFib has returned some worker can go on: a task that waits is
\* never buried for good under tasks that wait for it, although a worker that
\* waits takes whatever is spawned (base_test.cc:70, 85), and no accessor closes
\* a circle.
NoDeadlock == Returned \/ \E w \in Workers : CanGoOn(w)

\* ParallelFib returns (base_test.cc:70 waits for nothing that never comes).
FibReturned == <>Returned
=============================================================================
