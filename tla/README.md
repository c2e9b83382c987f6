# Verification of accelerators

`accelerators` is a collection of programs about concurrency: a readers/writer
mutex and an upgrade mutex, tests that study thread-safe copying, a shared bank
account and a hand-over through a condition variable, task programs on TBB, a
parser, a masked voxel leaf, a matrix generator, and small programs in CUDA,
OpenMP, Scala and Go. This directory holds TLA+
models of the parts that have state and interaction, TLC runs on small
instances, and TLAPS proofs for every value of the constants.

Paths below are relative to `src/`. `HX` is `extern/ref/ting/shared_mutex` (the
header) and `CPP` is `extern/ref/ting/shared_mutex.cpp`.

## 1. Inventory

| Component | State | Operations | Interaction | Hard behaviour |
|---|---|---|---|---|
| `ting::shared_mutex` (HX 291-402, CPP 1-99) | state word (write bit, reader count), gates 1 and 2, `mut_` | lock, try_lock, try_lock_until, the three shared forms, both unlocks | any threads | lost wake-ups, starvation, deadlines during a drain |
| `ting::upgrade_mutex` (HX 404-677, CPP 101-321) | the same with a second bit | the above, the three upgrade forms, seven conversions and their `_until` forms | any threads | conversions that wait inside, two kinds of sleepers on gate 2, notify after unlock |
| lock objects `shared_lock`, `upgrade_lock`, `unique_lock` conversions, `transfer_lock` (HX 682-1211) | pointer and `owns_` | construct, adopt, move, convert, lock, unlock, swap, release, destroy | call a mutex, take over from each other | ownership leaked or given back twice |
| class `A`, `task1` (`parallel_data_structures/ds_safe_assign_test.cc`) | a vector and a mutex for every object | copy assignment under `boost::lock` | threads over shared objects | deadlock on opposite assignments, torn copies |
| class `B` (same file) | a vector and a `shared_mutex` | copy assignment | as above | never completes, see section 6 |
| `BankAccount` (`lot_of_code/tests/sync_test.cc`) | balance, recursive mutex | Deposit, Withdraw, GetBalance, bankAgent, Joe, ATMWithdrawal | three threads | lost update, two withdrawals seen apart |
| `data_ready` (same file) | flag, mutex, condition variable | wait_for_data_to_process, prepare_data_for_processing | consumers and producers | lost or spurious wake-ups |
| `AccountManager` (same file) | two externally locked accounts | Checking2Saving | none, nothing calls it | transfer in two steps |
| `FibTask` (`projects_adaptations/tbb_only/tests`) | reference counts, results, table of known results | execute, ParallelFib | task scheduler, `concurrent_hash_map` | join too early, stale lookup, accessor held across a wait |
| Kaleidoscope (`mem-cpu-deep/My/main.cpp`) | current token, lexer state | gettok, the parser, three handlers, MainLoop | sequential | precedence and grouping, what is skipped after an error |
| `DataLeafNode` (`bit_masking.cc`) | bit mask and data of a leaf | toOffset, fromOffset, setActive, traverse | sequential | neighbouring bits of a cell, offsets that overlap |
| `Pouring` (`course_scala/W7.scala`) | levels of paths, explored states | moves, extend, from, solution | sequential, lazy | first solution the shortest, end of the search |
| intel-competition-2010 | matrix and generator seed | main, parse, PRNG, fill | sequential | order of the parameters, int overflow, fixed buffers |
| `cuda/book/ch1.cu`, `cuda/book/book.cu` | host arrays, buffers of the device | copy, launch, kernel, wait, compare | threads of a kernel; the host does not wait for a launch | last block larger than the rest, errors that only a later call tells |
| OpenMP `matmul.c` | three matrices | serial product, parallel product | a team of threads shares out the rows | what is private to a thread |
| TBB loops, other OpenMP programs | arrays | data-parallel loops | iterations share nothing written | |

The lock objects call the mutexes; nothing else in the repository uses
`ting`. The classes `A` and `B`, the account and the hand-over use Boost
mutexes, the tasks use TBB: those libraries are not in the repository and are
modelled, marked external, by what their callers rely on; so are the CUDA
runtime and the OpenMP team. `CHECK`, in which `ch1.cu` wraps its calls, is a
macro of the CUDA book's `common.h`, which the repository holds. The parser, the leaf, the generator, the two CUDA
programs, `matmul.c` and `Pouring` run by themselves. The remaining files are
notes, stubs, launchers and vendored code; `PROJECT.json` lists each group
with the reason it is left out.

What makes the components correct:

- the mutexes: exclusion; the state word counts exactly who is inside; nobody
  sleeps on an open gate; a writer that has closed the gate is served; all of
  it is one abstract lock, whose conversions are atomic;
- the lock objects: every ownership belongs to exactly one object, whatever is
  moved, converted, swapped, released or destroyed;
- assignment: whole vectors, no deadlock, one atomic step;
- the account: locked sections are atomic, for the balance and for readers;
- the hand-over: no lost wake-up, nothing processed early, all served;
- the tasks: right results in every schedule, right table, the root returns;
- the parser: it accepts the sentences of its language and nothing else, its
  trees group as the precedences say, and it goes on after every error;
- the leaf: `traverse` lists the voxels that were activated and no other;
- the generator: every printed matrix is the stated pseudo-random sequence,
  moved by its mean;
- the device programs and `matmul.c`: the result of the threads is the result of
  the host's loop, in every order of the threads, and no failure is taken for a result;
- `Pouring`: the solution works, none is shorter, and none is missed.

## 2. Modules

| Module | Models | Abstract module it implements | Proofs |
|---|---|---|---|
| `SharedMutex` | `shared_mutex` | `RWLock` | `SharedMutexProofs` |
| `UpgradeMutex` | `upgrade_mutex` | `UpgradeLock` | `UpgradeMutexProofs` |
| `LockGuards` | lock objects over mutexes that behave as `UpgradeLock` | | `LockGuardsProofs` |
| `SafeAssign` | class `A` and `task1` | `AtomicAssign` | `SafeAssignProofs` |
| `SharedAssign` | class `B` | | `SafeAssignProofs` |
| `BankAccount` | the account and its threads | `Ledger` | `BankAccountProofs` |
| `DataReady` | the hand-over | | `DataReadyProofs` |
| `FibTask` | both versions of `FibTask` | | `FibTaskProofs` |
| `Kaleidoscope`, `KaleidoscopeGrammar` | the parser; its language, defined without a parser | | |
| `LeafNode` | `DataLeafNode` | | `ProgramsProofs` |
| `MatrixGenerator` | intel-competition-2010 | | `ProgramsProofs` |
| `CudaDevice` with `SumMatrix`, `Reciprocal` | the CUDA runtime; `ch1.cu`, `book.cu` | | `ProgramsProofs` |
| `ParallelProduct` | `matmul.c` | | `ProgramsProofs` |
| `Pouring` | `Pouring` of `W7.scala` | | `ProgramsProofs` |
| `Programs` | one of the seven programs above, whichever was started | | |

Properties that only a theorem states (`FreeMutexIsTaken`, `GuardsExclude`,
`NoneAssigned`, the `NoDeadlock` of the hand-over) are defined in the module of the proofs.

Every `MC*` module only gives names to the values a `.cfg` needs. An operator
whose name says what it forgets (`OverwriteAssign`, `WakeForgotten`,
`LockUnchecked`, ...) stands beside the definition it corrupts: it is a plausible
bug of that definition, no action uses it, and it shows that the properties
would notice.

### SharedMutex and UpgradeMutex

Both are monitors. `mut_` is held from the entry of a member, or the return of
a wait, to the next wait or the return, so such a stretch is one action. A
request has a first pass (`Lock`, `LockShared`, `LockUpgrade`) and a loop
(`Retry*`, `Drain`) that it runs again whenever it is awake. A condition
variable is the set of sleepers: `notify_one` removes any one, `notify_all`
empties it, `SpuriousWakeup` removes one for no reason. `Timeout` ends the wait
of a call with a deadline, also after a notification, and the loop tests its
condition before the status, as the code does. `unlock_upgrade` and the
conversions `unlock_upgrade_and_lock_shared`, `unlock_and_lock_shared` and
`unlock_and_lock_upgrade` notify after `mut_` is released: `Wake` is that
second step. `state_` is split into its bits and its count; `StateWordExact`
says that the split never overflows.

The sets `UntilX`, `UntilS`, `UntilU` say who uses a deadline. A thread uses
one form throughout; a thread that mixes the forms is two threads here. The
`try_lock` forms fire when they return true and change nothing otherwise. The
`_for` forms convert a duration and call `_until`.

`RWLock` is what users see: many sharers or one owner, and a writer that has
announced itself keeps new sharers out. The mapping takes the owner, the
sharers and the announced writer from the locations of the threads.
`UpgradeLock` adds the upgrader and the conversions.

### LockGuards

The mutexes are counters of ownership per mode, with the grants that
`UpgradeMutex` is shown to give; the objects are the pointer and `owns_`. Every
member is one step. A conversion that may fail (`ConvertFails`) may do so at
any time, since a deadline may pass and the mutex may be refused to it for the
sake of a writer that waits. Members that throw change nothing and are left
out. `loose` counts what `release` has handed to the program, which may adopt
or unlock it. `EndTransfer` is one step although the conversion back may wait:
`UpgradeMutex` is shown to make conversions atomic. Use of one object by two
threads at once is undefined for the class and does not occur.

### SafeAssign and SharedAssign

`boost::lock` is external: block on one, try the other, give the first back
and start from the other. The vector is copied element by element. The
elements are told apart by the object they come from, so a mixture shows.
`AtomicAssign` is an assignment in one step; the mapping lets it happen when
the first element is copied. `Joined` stands for the joins that follow the
loops: with it TLC's deadlock check is on, and `NoDeadlock` states the same by
the guards of a thread, in a form that can be proved. `SharedAssign` keeps both locks of
class `B` on the mutex they have in the code, that of the target.

### BankAccount

A locked section is the sequence of the amounts it adds; `+=` and `-=` are a
load and a store. `ATMWithdrawal` is one section of two amounts, under
`strict_lock`; no function adds more than two amounts in one section. The mutex
is recursive in the code, but no section locks again what it holds. `Ledger`
runs a section in one step.

### DataReady

`Wait` releases `mut` and sleeps in one step, which is what a condition
variable promises; setting the flag and `notify_one` are two steps with `mut`
free in between. The data-handling functions of the source are empty and are
labels here.

### FibTask

The scheduler is external: an idle worker, or one whose topmost task waits,
takes any spawned task and runs it on top. A task is the path from the root to
it. `Find` waits for the accessor of the entry; `Insert` makes the entry visible with 0
and holds its accessor until `Store`. A version of the program is its argument,
its `CutOff` and whether it connects the table: `CutOff` 2 with the table is
`base_test.cc`, `CutOff` 4 without it is `goal_no_raw_sync_primitives_test.cc`,
and the run has both. The table starts empty, as in the only test. `CanGoOn` says
which workers can go on, by the guards of their actions.

### Kaleidoscope

`gettok` and the parser are recursive operators from a state of the lexer to a
state and a tree, function for function. A text is a sequence of characters in
which a run of letters counts as one; the value of a number is its text.
MainLoop is the state machine: an action is one turn of it, with the handler it
calls and the token the handler skips after an error. `KaleidoscopeGrammar`
says what the tokens, sentences and trees are in another way: by position, by
depth of parentheses, and by splitting an expression at the operator that is
applied last. The comment at `main.cpp:249` separates arguments with nothing;
the code wants commas, and the grammar is that of the code.

### LeafNode

A cell of the mask is the set of its bits; an offset has the width the code
gives it, by `%` and `\div` for its masks and shifts. `traverse` is the two
loops, a bit at a time. `active` is a history variable: the value every voxel
was last given, which nothing reads but the property.

### MatrixGenerator

`parse` and `fill` with ints that wrap around beyond `IntMax`, loop turn by loop
turn. The numbers of a line are at most `Limit`, 20000 in `main.cc:6`; with it the
product of two of them and a third fit an int, which `LimitAssumption` asks of
the two constants, but their sum over the matrix need not. `addons.cc:59` makes the mean of three
floats: the sum, the number of elements and their quotient are each rounded to
the nearest float (`Floats`: so many units, a power of two, that they fill the
`Mantissa` bits; a tie goes to the even one), as single-precision arithmetic
does; the sum with 0.5 is in double, where it is exact, and is cut off. A float
keeps its value to one part in 2^`Mantissa`, 24 bits in the build, so a mean next
to a half may tip over it: the line `25 41 18963 1 1 19988` has the mean
19456.4995, and the code takes 19457. `GeneratedRight` therefore asks for a
mean within one half of the quotient plus 4 / 2^`Mantissa` of it, which for sums
below 2^`Mantissa` / 8 leaves only the nearest int. A build that keeps excess
precision (x87) rounds less often; the bound is the same. `Debug/addons.cc` is an
older copy that no makefile compiles; it takes the parameters in another order,
which is the mutant of `parse`.

### CudaDevice, SumMatrix and Reciprocal

A launch gives the device threads that have done nothing and returns; the
threads run in any order beside the host until a call that waits. Two things may
go wrong with a kernel: it is not launched, which only `cudaGetLastError` tells,
or it breaks off, which every later call that waits tells. `ch1.cu` asks for
both; `book.cu` does not ask after its launch (`book.cu:40`), so its property
says what comes back then: the numbers as they were. Any checked call may also
fail for a reason of its own, the first two before anything is allocated
(`ch1.cu:122, 124`), and the program exits.

### ParallelProduct

A thread takes a row that no thread has taken, and its inner loops run turn by
turn with its own `i`, `j`, `k` and `temp`. A sum beyond `MaxInt` is converted as
x86 does; for n near 2000 the code can meet that (`matmul.c:59, 76`), and both
products then agree on the wrong element. `arr3` holds the result of the serial
loops when the team begins, in the code as in the model, so `ProductRight` could
not tell a row that no thread takes.

### Pouring

A level of paths is made when the search asks for it, which is what the lazy
stream does; the code computes `more` one level earlier, which nobody sees.
`explored` grows by whole levels, so two paths of one level may end in the same
state, as in the code.

## 3. Runs

| Run | Instance | What it shows |
|---|---|---|
| `shared_mutex_safety` | 4 threads, 2 with deadlines, room for 2 readers | `Exclusion`, `StateWordExact`, `WriterNotForgotten`, `GateClosedToReaders`, `ImplementsRWLock`, `WriterServed` |
| `shared_mutex_wakeups` | 3 threads, no `try_lock_until`, room for all | `NoLostWakeup`, `ReaderAdmitted` |
| `shared_mutex_forgotten` | 3 threads, one may use `try_lock_until` | `ReaderAdmitted` fails, section 6 |
| `upgrade_mutex_safety` | 4 threads, room for 2, deadlines in all modes | `Exclusion`, `StateWordExact`, `WriterNotForgotten`, `UpgradeIsExclusive`, `ImplementsUpgradeLock` |
| `upgrade_mutex_wakeups` | 3 threads, no `try_lock_until`, room for all | `NoLostWakeup`, `WriterServed` |
| `lock_guards` | 2 mutexes, 2 + 2 + 1 objects, one transfer | `OwnershipExact` |
| `safe_assign` | 3 objects, 5 threads, vectors of 2, 1 round | `WholeVectors`, `NoDeadlock`, `ImplementsAtomicAssign`, `MutexReturned` |
| `shared_assign_completes` | one thread, two objects | `AssignCompletes` fails, section 6 |
| `bank_account_test` | bankAgent, Joe, two ATMs, 3 turns | `SeenAtomically`, `ImplementsLedger` |
| `data_ready` | 3 consumers, 3 producers | `NoLostWakeup`, `NothingProcessedEarly`, `AllServed` |
| `fib_task` | 2 workers; ParallelFib(4) with the table, ParallelFib(6) without | `ResultsRight`, `TableRight`, `RefCountExact`, `NoDeadlock`, `FibReturned` |
| `programs` | seven programs, see below | `TreesRight`, `AcceptsExactly`, `MakesHeadway` (parser), `TraverseExact` (leaf), `GeneratedRight`, `DeviceEqualsHost`, `ReciprocalsAgree`, `ProductRight`, `SolutionShortest`, `NothingMissed` |

The type invariants are theorems and are not run again.

Why the bounds are enough to meet the interesting cases:

- Mutexes: with four threads there are two writers, one draining and one
  behind gate 1, and two readers; room for two makes the count full, so that
  requests also wait for room. The runs about wake-ups have room for everybody,
  because beyond a full count the code does lose wake-ups (see the hazard at
  CPP:192): that takes as many holders as the count can hold, 2^31 - 1 and
  2^30 - 1.
- Lock objects: a move, a swap or an assignment concerns two objects; two
  mutexes tell apart what is overwritten from what overwrites it. `MaxLoose = 1`
  bounds what a program keeps after `release`. The two mutexes are
  interchangeable, hence the symmetry; the run has no liveness property.
- Assignments: two opposite ones, a self-assignment, and a cycle of three, all
  at the same time; a vector of two elements can be torn. One round, since a
  second one starts from the same state but for the data; `Rounds` bounds
  the 100000 rounds of the test.
- Account: three turns of the ten; two ATMs, so that ATM meets ATM. The amounts
  are those of the code.
- Hand-over: three sleepers can be asleep at once, woken in any order.
- Tasks: for 4 with the table, fib(2) is computed twice, so two tasks can race
  for one entry; for 6 with `CutOff` 4, four tasks fork, three of them one below the
  other. Two workers suffice for every race between two tasks, and for tasks on top of others.
- Parser: all texts of up to four of 14 characters, and longer ones of the
  shapes where something can go wrong: up to five tokens of definitions and
  externs, parameter lists, argument lists, and three operators of the four in every
  combination, with and without parentheses.
- Leaf: `DIM` 2, where a cell has two bits and an offset three parts; a
  property of every `DIM` is the theorem.
- Generator: `Limit` 20 and `IntMax` 511, that is ints of 10 bits, and cases on
  both sides of the overflow of the sum; the example of the ReadMe among them. A
  mantissa of 6 bits is shorter than a sum, as 24 bits are in the build: sums,
  quotients, and in some cases the mean itself, are changed by the rounding. Units from
  2^-12 to 2^12 (`MaxExponent`) suffice for every quotient: `TakeMean` would
  have no step without one, and the run would report a deadlock.
- CUDA: nx = 4 with blocks of 3, and 5 numbers with blocks of 2: the last block
  is not full. All sizes are the theorems.
- Product: 2 rows, 2 threads and `MaxInt` 1, so that sums on both sides of it occur.
- Pouring: one, two and three glasses, with common divisors and without, the
  problem of `W7.scala` and a glass of capacity 0 among them, and targets 0 to 8, measurable or not.

The seven programs of `Programs` share a run because they share nothing else: a
behaviour starts one of them, chosen in `Init`, and the others never begin, so
each is explored exactly as if it were alone.

Deadlock is checked in every run. The programs that end, those of `SafeAssign`,
`BankAccount`, `DataReady`, `FibTask` and of `Programs` but the leaf, have an
explicit final step.

## 4. Fairness

- `SharedMutex`: weak fairness per thread of running when awake, of leaving a
  section and of a deadline passing. A thread that is awake stays so until it
  gets `mut_`. Nobody has to ask for the mutex, and spurious wake-ups are never
  relied on.
- `UpgradeMutex`: the same, and strong fairness of `Release`, since a holder
  may try conversions again and again and is not always in a place from which
  it can release; a holder that never releases would show nothing about the mutex.
- `SafeAssign`, `FibTask`: weak fairness per thread or worker, nothing about
  who wins a mutex. `MutexReturned` needs no more. That assignments complete is
  not claimed: `boost::lock` may back off for ever under an unlucky schedule.
- `DataReady`, `SharedAssign`: strong fairness, that is a thread that finds the
  mutex free again and again gets it at some time. In `DataReady` spurious
  wake-ups could otherwise compete for `mut` for ever; in `SharedAssign` it
  makes the failure stronger, as even the best scheduler does not help.
- `BankAccount`, `LockGuards` and the modules of `Programs` assume no fairness:
  they have safety and action properties only. That MainLoop comes to the end of
  every text is stated as a step property, `MakesHeadway`: every turn takes a
  token of finitely many.

## 5. Proofs

The theorems hold for all finite sets of threads and lock objects (any sets of
threads, workers or team members in `SafeAssign`, `FibTask` and
`ParallelProduct`), all sizes, all capacities and all mixes of calls; the
assumptions are the ASSUMEs of the modules, which every program meets and TLC
evaluates in the runs.

- `SharedMutexProofs`. `IInv` adds to `TypeOK` and `StateWordExact` that a
  writer owns the mutex only at count zero, and `WriterNotForgotten`. Exclusion
  alone is not inductive: that a writer may enter when the count is zero is
  safe only because the count is exact. Proved from it: `MutualExclusion`,
  `StateWordIsExact`, `WriterIsNotForgotten`, `GateStaysClosed`, the
  `Refinement` of `RWLock`, and `NoWakeupIsLost` for mutexes without
  `try_lock_until` and with room for every thread. `NeverStuck` draws the
  conclusion: the count of a mutex that nobody holds is zero, so nobody sleeps on
  gate 2, and nobody on gate 1 unless a writer is already past it; whenever
  somebody asks for a free mutex, a thread that asks is awake and enters next.
- `UpgradeMutexProofs`. The same invariant, where the sharers and the upgrader
  are counted together, with one step for each of the seven conversions.
  Proved: `MutualExclusion`, `StateWordIsExact`, `WriterIsNotForgotten`,
  `UpgradeStaysExclusive`, the `Refinement` of `UpgradeLock`, and
  `NoWakeupIsLost` under the same two conditions. The last needs its own
  strengthening, because a thread between the release of `mut_` and its
  `notify_all` excuses sleepers on an open gate. `NeverStuck` is as above, with
  that `notify_all` as a third possibility.
- `SafeAssignProofs`. `IInv` adds which mutexes each place of the assignment
  holds (`Holds`) and that what is copied so far equals the source
  (`CopiedSoFar`). With both mutexes held nobody else touches source or target,
  so vectors stay whole: `NoTornCopy` and the `Refinement` of `AtomicAssign`.
  `HeldByRunners` says that a mutex is held only by a thread whose next step does
  not wait: either nobody waits in vain, or the holder of what is waited for can
  go on. That is `NoDeadlockEver`, the opposite assignments of `v0` included.
  At the end of the module, for class `B`: `SharedNeverAssigns`. A thread that holds
  its target's mutex in one mode keeps itself from the other mode (`HeldInOneMode`),
  so finding 2 holds for all objects, threads and schedules.
- `DataReadyProofs`. `IInv` is `TypeOK`, `NothingProcessedEarly`, `NoLostWakeup`
  and that no producer has got past the flag while the flag is down: without
  it a consumer could go to sleep after the last notification. Proved:
  `NoWakeupIsLost`, `ProcessesReadyData`, and from them, with who holds `mut`
  (`MutHeld`), `NeverStuck`: if no thread can go on by itself, no notification is
  still to come, so nobody sleeps, and all are done.
- `LockGuardsProofs`. `IInv` is `TypeOK`, `TransferInv` (what the transfer_lock
  refers to exists) and `OwnershipExact`, which counts owners:
  the lock objects, the transfer in progress and the program. `Recount` says how
  the count changes when one object changes; each member then moves exactly what
  the mutex's counter moves. That no counter becomes negative is not assumed but
  follows: whoever unlocks is counted. Proved: `EveryOwnershipHasOneOwner`, and
  `OwnersExclude`, what the lock objects are for: while a `unique_lock` owns a
  mutex no other lock object does, and of two owners one is a `shared_lock`. It
  follows from two facts: the numbers a mutex keeps are always such as it may grant
  at one time (`Compatible`), and every owning lock object is in them (`OwnedIsHeld`).
- `BankAccountProofs`. `IInv` adds to `TypeOK` that whoever is inside a section
  owns the account and that what is loaded before a store is still the balance.
  The mapping's committed balance then changes only in `Unlock`, by the whole
  section: `Refinement` of `Ledger`.
  `SeenAtomically` is a statement about the values a reader may see, so it needs
  to know which sections have run: `AccountInv` counts them, each thread's place
  among its calls saying how many are behind it, and equates the committed
  balance with the sum of their amounts (`ThreadsAssumption`: the three groups of
  threads are finite and apart). Proved: `SectionsSeenAtomically`.
- `FibTaskProofs`. `IInv` is an invariant over the tree of tasks. A task is a
  path, so parent and children are known from it; `Stacks` says that a task is on
  one stack at one place while it runs, and that all but the topmost wait;
  `Family` says how far a task's place limits those of its children; `Accessors`
  says that an accessor is held only by the task that stores. None of the properties
  is inductive without the others: that a waiting parent has both results rests on
  the exact count, and the count on who is whose child. Proved: `Results`,
  `Entries`, `Counts`, `NoAccessorInWait`, `TypeCorrect`, for every argument,
  cut-off and number of workers, with the table and without. `NeverStuck` needs more:
  a worker that waits takes whatever is spawned, so a task may lie under one that has
  nothing to do with it, and that no circle of such waits closes does not follow from
  the tree or from the stacks alone. What rules it out is the order in which the
  running tasks were started (`Ranking`): a task is later than those under it and than
  its parent. The latest of all is on top of its stack and has no child that runs
  (`LatestTask`); it can go on, unless it wants an entry, whose holder then can
  (`HolderOnTop`).
- `ProgramsProofs`, a part for each program:
  - `LeafInv` says that mask, data and `active` mirror one another under
    `toOffset`, and that `traverse` has listed what lies before its place. The
    arithmetic is that an offset has one decomposition for every `DIM`. Proved:
    `TraverseIsExact`.
  - `SumInv` and `RecInv` say what each call has left on the device, that a
    failure leaves no threads to wait for, and that an element is done when its
    thread is. The lemmas are about numbers: the place of a thread is its number
    (`PlaceIsNumber`), the blocks reach the end of the vector (`EnoughBlocks`), and
    rows of a matrix do not overlap (`RowsApart`, `RowAndColumn`). Proved:
    `DeviceSumIsHostSum`, `ReciprocalIsExact`, for all sizes and failures.
  - `MulInv` says that `temp` is the sum of the products as far as `k`, so what a
    thread stores is what the serial loops have left there. Proved: `ProductIsRight`.
  - `PourInv`: at level `l` of the search `explored` is what `l` moves or fewer
    reach, each of these states is at the end of a path of the level or was reached
    with fewer moves, and the earlier ones do not contain the target. `explored`
    must be exact: a state too many would cut off a path, and the first solution
    would no longer be the shortest. That the target can be measured follows since
    a move keeps every glass a multiple of what divides all capacities
    (`ChangeKeepsStates`). A search without a solution ends with a level from which
    no move leads on (`Exhausted`). Proved: `SolutionIsShortest`, `NoneIsMissed`, and
    `NothingIsMissed`, for which one must know what the moves reach. With the other
    glasses empty, filling and pouring take the largest glass around its capacity in
    steps of another one (`Around`, `MovesOfTwo`, `RoundReached`). The amounts it gets
    to are closed under going around, so the least of them divides them all and the
    capacity, and they are its multiples (`MultiplesOfLeast`): every amount that the
    common divisors divide is among them.
  - `GenInv`: the elements before the place of the loops are the numbers of the
    case, in the second loop less the mean, and `sum` is their sum if no sum of the
    case can exceed an int. `FieldsOfLine` shows that `parse` takes the parameters
    from their places, `LimitsFit` that `PRNG` never wraps around, `MeanFacts` that
    even a mean of a sum that has wrapped around can be taken off every element. What
    the floats lose is followed from one float (`FloatIsNear`) to the quotient of two
    (`QuotientIsNear`) and to the mean (`FromQuotient`). Of the mantissa only
    `FloatAssumption` is used, that it has three bits at least. Proved:
    `GeneratorIsRight`.

Some of these are about recursive functions (`Sums`, `Within`, `StatesOf`,
`Numbers`, `Partial`, `SerialFib`). The library's induction theorems need an
operator as a parameter, which the provers cannot instantiate; here induction is
stated about a set instead (`Induction`, from `LeastNumber` and so from
`WFMin`): a set with 0 and with every successor has every number. That gives
the function that the recursion asks for (`SumsExist`, `LevelsExist`,
`NumbersExist`), and with it the equation (`SumsEquation`, `WithinEquation`,
`NumbersEquation`, `PartialEquation`).

Only model-checked:

- liveness (`WriterServed`, `ReaderAdmitted`, `MutexReturned`, `AllServed`,
  `FibReturned`), which is beyond the provers, and so is ENABLED. That somebody can
  always go on is proved instead by the guards of the actions, wherever threads wait
  for one another: `NoDeadlockEver` and the four theorems `NeverStuck`. In
  `BankAccount` there is one mutex, and its owner waits for nothing;
- the parser (`TreesRight`, `AcceptsExactly`, `MakesHeadway`): its functions call one
  another, and are recursive operators in the model as they are in the code, with which
  the provers cannot work. As functions they would first need a proof that such
  functions exist, by one induction over all of them together.

## 6. Findings

1. `shared_mutex::try_lock_until` (HX:375). A writer whose deadline passes
   while it drains the readers clears the write bit and notifies nobody.
   Readers that went to sleep on gate 1 while the bit was set sleep on beside
   an open lock, until some later writer unlocks, if one ever comes. The run
   `shared_mutex_forgotten` is the shortest such behaviour.
   `upgrade_mutex::try_lock_until` has the same lines (HX:559). A
   `gate1_.notify_all()` there would remove it.
2. `B::operator=` (`ds_safe_assign_test.cc:105`). Both locks are made from the
   target's mutex; the source's is never used. `boost::lock` can never hold an
   exclusive and a shared lock of one mutex, so it backs off and starts again
   for ever, in a single thread without contention (`shared_assign_completes`);
   `SharedNeverAssigns` proves it for all threads and objects.

Seen while modelling, and not stated by any line of the repository that a run could refute:

- `book.cu:40`: the launch is the one call whose error is not asked for;
  `ReciprocalsAgree` says what the program then prints.
- `addons.cc:56` and `matmul.c:59, 76`: int overflow within the sizes the
  programs are meant for; the properties ask for right results below it.
- `addons.cc:59`: the float of the mean is one off near halves, from sums of
  2^21 on at the earliest; `GeneratedRight` says by how much.
- `addons.cc:30`: a line with more than five spaces writes past `rez`; such
  lines are not among the inputs.
- CPP:192: beyond a full count one notification is too few, see the hazards.

## 7. What is not modelled, and the plan

Not modelled, and why:

- `AccountManager` (`sync_test.cc`): nothing calls it and no member reads a
  balance, so whether a transfer is seen in halves cannot be told.
- `BankAccount::Deposit` with a guard: nothing calls it. The copy constructor of
  class `B`: nothing can change what it reads.
- The Scala exercises `W1` to `W5` and `course_reactive`: pure functions and uses
  of libraries, without state or interaction of their own.
- Floating-point results beyond the mean of the generator (dot products): their sums
  of floats depend on an order that nothing fixes.
- The other OpenMP programs and the TBB loops: nothing is shared, or nobody
  reads the result, or a header is missing.
- Printing and timing, launchers, stubs without definitions, notes, Go and Erlang
  hello-worlds, vendored code (Google Mock, Loki, the CUDA book's own files but for
  `CHECK`).
- Of the modelled components: members that throw, the `_for` forms beyond their
  call of `_until`, and one lock object used by two threads at once.

What is left to prove: the parser, see section 5. What is left to model: several
`transfer_lock` objects at a time, and a composition of `LockGuards` with the mutexes'
own waiting.
