---------------------------- MODULE BankAccount -----------------------------
(***************************************************************************)
(* The shared account of lot_of_code/tests/sync_test.cc and the functions  *)
(* that use it.  Deposit, Withdraw and GetBalance lock the account around  *)
(* one access; ATMWithdrawal holds a strict_lock around two withdrawals    *)
(* that do not lock.  A balance is changed by a load and a store.          *)
(***************************************************************************)
EXTENDS Integers, FiniteSets, Sequences

CONSTANTS
    Agents, Joes, Atms, \* the threads that run bankAgent, Joe, ATMWithdrawal
    Turns,              \* how often bankAgent and Joe loop, 10 in the code
    Wage, Spending,     \* 500 and 100 in the code
    Cash, Fee,          \* 900 and 2 in the code
    Nobody              \* the owner of the account when it is free

Threads == Agents \cup Joes \cup Atms

ASSUME NobodyAssumption == Nobody \notin Threads
\* boost::thread runs each of the threads on one of the three functions.
ASSUME ThreadsAssumption ==
    /\ IsFiniteSet(Agents) /\ IsFiniteSet(Joes) /\ IsFiniteSet(Atms)
    /\ Agents \cap Joes = {} /\ Agents \cap Atms = {} /\ Joes \cap Atms = {}
ASSUME AmountsAssumption == {Turns, Wage, Spending, Cash, Fee} \subseteq Nat

VARIABLES
    balance,    \* balance_
    owner,      \* the thread that holds the recursive_mutex of the account
    pc,         \* where each thread is
    calls,      \* the locked sections each thread has still to run
    todo,       \* the amounts still to be added in the section it is in
    loaded,     \* the balance it has loaded
    pocket      \* what GetBalance returned to it last

vars == <<balance, owner, pc, calls, todo, loaded, pocket>>
-----------------------------------------------------------------------------
\* A section is the sequence of the amounts it adds: GetBalance adds none, and
\* no function adds more than two.
Sections == {s \in Seq(Int) : Len(s) <= 2}
Deposit(amount) == <<amount>>
Withdraw(amount) == <<-amount>>
GetBalance == <<>>

bankAgent == [i \in 1 .. Turns |-> Deposit(Wage)]
Joe == [i \in 1 .. 2 * Turns |-> IF i % 2 = 1 THEN Withdraw(Spending) ELSE GetBalance]
\* ATMWithdrawal as it was first written: each withdrawal locks by itself.
ATMUnguarded == <<Withdraw(Cash), Withdraw(Fee)>>
ATMWithdrawal == <<Withdraw(Cash) \o Withdraw(Fee)>>

Program == [t \in Threads |->
    IF t \in Agents THEN bankAgent ELSE IF t \in Joes THEN Joe ELSE ATMWithdrawal]

Init ==
    /\ balance = 0
    /\ owner = Nobody
    /\ pc = [t \in Threads |-> "idle"]
    /\ calls = Program
    /\ todo = [t \in Threads |-> <<>>]
    /\ loaded = [t \in Threads |-> 0]
    /\ pocket = [t \in Threads |-> 0]

GoTo(t, l) == pc' = [pc EXCEPT ![t] = l]

\* An account without its lock.
LockUnchecked(t) ==
    /\ pc[t] = "idle" /\ calls[t] # <<>>
    /\ owner' = t
    /\ todo' = [todo EXCEPT ![t] = Head(calls[t])]
    /\ GoTo(t, "load")
    /\ UNCHANGED <<balance, calls, loaded, pocket>>
\* A guard is constructed, lock_guard or strict_lock.  The mutex is recursive,
\* but no section locks again the account that it holds.
Lock(t) ==
    /\ owner = Nobody
    /\ LockUnchecked(t)

\* balance_ is read, to be changed or to be returned.
Load(t) ==
    /\ pc[t] = "load"
    /\ loaded' = [loaded EXCEPT ![t] = balance]
    /\ GoTo(t, IF todo[t] = <<>> THEN "unlock" ELSE "store")
    /\ UNCHANGED <<balance, owner, calls, todo, pocket>>

\* balance_ += amount or balance_ -= amount; a second withdrawal may follow.
Store(t) ==
    /\ pc[t] = "store"
    /\ balance' = loaded[t] + Head(todo[t])
    /\ todo' = [todo EXCEPT ![t] = Tail(@)]
    /\ GoTo(t, IF Len(todo[t]) > 1 THEN "load" ELSE "unlock")
    /\ UNCHANGED <<owner, calls, loaded, pocket>>

\* The guard is destroyed; GetBalance returns what it has read.
Unlock(t) ==
    /\ pc[t] = "unlock"
    /\ owner' = Nobody
    /\ calls' = [calls EXCEPT ![t] = Tail(@)]
    /\ pocket' = IF Head(calls[t]) = GetBalance THEN [pocket EXCEPT ![t] = loaded[t]] ELSE pocket
    /\ GoTo(t, "idle")
    /\ UNCHANGED <<balance, todo, loaded>>

\* All three threads have run and can be joined.
Finished == \A t \in Threads : calls[t] = <<>>
Joined == Finished /\ UNCHANGED vars

Next == Joined \/ \E t \in Threads : Lock(t) \/ Load(t) \/ Store(t) \/ Unlock(t)

Spec == Init /\ [][Next]_vars
-----------------------------------------------------------------------------
\* What a section has left when it has run some of its way.
Rests(section) ==
    {section} \cup (IF section = <<>> THEN {} ELSE {Tail(section), <<>>})

\* The values of the variables; a section in progress has a rest of its amounts
\* left, and a store has an amount to add.
TypeOK ==
    /\ balance \in Int
    /\ owner \in Threads \cup {Nobody}
    /\ pc \in [Threads -> {"idle", "load", "store", "unlock"}]
    /\ calls \in [Threads -> Seq(Sections)]
    /\ todo \in [Threads -> Sections]
    /\ \A t \in Threads :
        /\ pc[t] # "idle" => calls[t] # <<>> /\ todo[t] \in Rests(Head(calls[t]))
        /\ pc[t] = "store" => todo[t] # <<>>
    /\ loaded \in [Threads -> Int]
    /\ pocket \in [Threads -> Int]

\* What a section adds.
SumOf(section) ==
    (IF Len(section) > 0 THEN section[1] ELSE 0) + (IF Len(section) > 1 THEN section[2] ELSE 0)

\* The customer never sees the cash taken without the fee, or a balance that
\* one of his own withdrawals is missing from (sync_test.cc:110-111, 129-131).
SeenAtomically ==
    \A j \in Joes : pc[j] = "unlock" /\ Head(calls[j]) = GetBalance =>
        \E paid \in 0 .. Turns * Cardinality(Agents), atm \in 0 .. Cardinality(Atms),
           others \in 0 .. Turns * (Cardinality(Joes) - 1) :
            loaded[j] = paid * Wage - atm * (Cash + Fee)
                        - (others + Turns - Len(calls[j]) \div 2) * Spending
-----------------------------------------------------------------------------
\* The balance before the section that is running now.
Committed ==
    IF owner = Nobody THEN balance
    ELSE balance - (SumOf(Head(calls[owner])) - SumOf(todo[owner]))

Abstract == INSTANCE Ledger WITH money <- Committed

\* Every locked section of the account is one step of the ledger: no update is
\* lost and every balance returned is one the account had (sync_test.cc:44-67).
ImplementsLedger == Abstract!Spec
=============================================================================
