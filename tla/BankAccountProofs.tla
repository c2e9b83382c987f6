-------------------------- MODULE BankAccountProofs -------------------------
(***************************************************************************)
(* For any threads, turns and amounts: the locked sections of the account  *)
(* are steps of the ledger, and the customer sees whole sections only.     *)
(***************************************************************************)
EXTENDS BankAccount, SequenceTheorems, FiniteSetTheorems, TLAPS

\* Whoever is inside a section owns the account, and a thread that is about to
\* store, or that has read a balance to return it, has loaded what is there.
LockInv ==
    /\ \A t \in Threads : pc[t] # "idle" <=> owner = t
    /\ \A t \in Threads : pc[t] = "store" => loaded[t] = balance
    /\ \A t \in Threads : pc[t] = "unlock" =>
         todo[t] = <<>> /\ (Head(calls[t]) = <<>> => loaded[t] = balance)

\* The inductive invariant: the owner is what makes the load before a store the
\* current one.
IInv == TypeOK /\ LockInv

\* A section and its rests.
LEMMA SectionRests ==
    ASSUME NEW s \in Sections
    PROVE  /\ \A r \in Rests(s) : r \in Sections
           /\ s \in Rests(s)
           /\ SumOf(s) \in Int
           /\ SumOf(<<>>) = 0
           /\ <<>> \in Sections
<1>1. <<>> \in Seq(Int) /\ Len(<<>>) = 0
  BY EmptySeq
<1>2. <<>> \in Sections /\ SumOf(<<>>) = 0
  BY <1>1 DEF Sections, SumOf
<1>3. s \in Seq(Int) /\ Len(s) \in Nat /\ Len(s) <= 2
  BY LenProperties DEF Sections
<1>4. SumOf(s) \in Int
  <2>1. Len(s) > 0 => s[1] \in Int
    BY <1>3, ElementOfSeq
  <2>2. Len(s) > 1 => s[2] \in Int
    BY <1>3, ElementOfSeq
  <2>3. QED
    BY <1>3, <2>1, <2>2 DEF SumOf
<1>5. s # <<>> => Tail(s) \in Sections
  <2> SUFFICES ASSUME s # <<>>
               PROVE  Tail(s) \in Sections
    OBVIOUS
  <2>1. Tail(s) \in Seq(Int) /\ Len(Tail(s)) = Len(s) - 1
    BY <1>3, HeadTailProperties
  <2>2. QED
    BY <1>3, <2>1 DEF Sections
<1>6. QED
  BY <1>2, <1>4, <1>5 DEF Rests

\* Taking the first amount away takes it from the sum.
LEMMA SumOfTail ==
    ASSUME NEW s \in Sections, s # <<>>
    PROVE  /\ Head(s) \in Int /\ Tail(s) \in Sections
           /\ Len(s) > 1 <=> Tail(s) # <<>>
           /\ SumOf(s) = Head(s) + SumOf(Tail(s))
<1> DEFINE r == Tail(s)
<1>1. s \in Seq(Int) /\ Len(s) \in Nat /\ Len(s) <= 2
  BY LenProperties DEF Sections
<1>2. /\ r \in Seq(Int) /\ Len(r) = Len(s) - 1
      /\ \A i \in 1 .. Len(r) : r[i] = s[i + 1]
      /\ Head(s) \in Int
  BY <1>1, HeadTailProperties
<1>3. Head(s) = s[1]
  BY <1>1
<1> HIDE DEF r
<1>4. r \in Sections
  BY <1>1, <1>2 DEF Sections
<1>5. Len(s) # 0
  BY <1>1, EmptySeq
<1>6. Len(s) > 1 <=> r # <<>>
  <2>1. r # <<>> <=> Len(r) # 0
    BY <1>2, EmptySeq
  <2>2. QED
    BY <1>1, <1>2, <2>1
<1>7. SumOf(s) = Head(s) + SumOf(r)
  <2>1. CASE Len(s) = 1
    <3>1. Len(r) = 0
      BY <1>2, <2>1
    <3>2. SumOf(r) = 0
      BY <3>1 DEF SumOf
    <3>3. SumOf(s) = s[1] + 0
      BY <2>1 DEF SumOf
    <3>4. QED
      BY <1>2, <1>3, <3>2, <3>3
  <2>2. CASE Len(s) = 2
    <3>1. Len(r) = 1
      BY <1>2, <2>2
    <3>2. r[1] = s[2] /\ s[2] \in Int
      BY <1>1, <1>2, <2>2, <3>1, ElementOfSeq
    <3>3. SumOf(r) = s[2] + 0
      BY <3>1, <3>2 DEF SumOf
    <3>4. SumOf(s) = s[1] + s[2]
      BY <2>2 DEF SumOf
    <3>5. QED
      BY <1>2, <1>3, <3>2, <3>3, <3>4
  <2>3. Len(s) = 1 \/ Len(s) = 2
    <3> DEFINE k == Len(s)
    <3>1. k \in Nat /\ k <= 2 /\ k # 0
      BY <1>1, <1>5
    <3> HIDE DEF k
    <3>2. k = 1 \/ k = 2
      BY <3>1
    <3>3. QED
      BY <3>2 DEF k
  <2>4. QED
    BY <2>1, <2>2, <2>3
<1>8. QED
  BY <1>2, <1>4, <1>6, <1>7 DEF r

\* The sections of the program.
LEMMA ProgramType == Program \in [Threads -> Seq(Sections)]
<1>1. Turns \in Nat /\ Wage \in Int /\ Spending \in Int /\ Cash \in Int /\ Fee \in Int
  BY AmountsAssumption
<1>2. \A amount \in Int : <<amount>> \in Sections
  BY DEF Sections
<1>3. <<>> \in Sections
  BY EmptySeq DEF Sections
<1>4. bankAgent \in Seq(Sections)
  <2>1. bankAgent \in [1 .. Turns -> Sections]
    BY <1>1, <1>2 DEF bankAgent, Deposit
  <2>2. QED
    BY <1>1, <2>1, SeqDef
<1>5. Joe \in Seq(Sections)
  <2>1. Joe \in [1 .. 2 * Turns -> Sections]
    BY <1>1, <1>2, <1>3 DEF Joe, Withdraw, GetBalance
  <2>2. 2 * Turns \in Nat
    BY <1>1
  <2>3. QED
    BY <2>1, <2>2, SeqDef
<1>6. ATMWithdrawal \in Seq(Sections)
  <2>1. Withdraw(Cash) \in Seq(Int) /\ Withdraw(Fee) \in Seq(Int)
    BY <1>1 DEF Withdraw
  <2>2. Len(Withdraw(Cash)) = 1 /\ Len(Withdraw(Fee)) = 1
    BY DEF Withdraw
  <2>3. Withdraw(Cash) \o Withdraw(Fee) \in Sections
    BY <2>1, <2>2, ConcatProperties DEF Sections
  <2>4. QED
    BY <2>3 DEF ATMWithdrawal
<1>7. QED
  BY <1>4, <1>5, <1>6 DEF Program

LEMMA InitIInv == Init => IInv
<1> SUFFICES ASSUME Init
             PROVE  IInv
  OBVIOUS
<1>1. <<>> \in Sections
  BY EmptySeq DEF Sections
<1>2. calls \in [Threads -> Seq(Sections)]
  BY ProgramType DEF Init
<1>3. TypeOK
  BY <1>1, <1>2 DEF Init, TypeOK
<1>4. LockInv
  BY NobodyAssumption DEF Init, LockInv
<1>5. QED
  BY <1>3, <1>4 DEF IInv

\* Every action keeps the invariant.
LEMMA LockKeeps ==
    ASSUME IInv, NEW t \in Threads, Lock(t)
    PROVE  IInv'
<1>1. /\ owner = Nobody /\ pc[t] = "idle" /\ calls[t] # <<>>
      /\ owner' = t /\ todo' = [todo EXCEPT ![t] = Head(calls[t])]
      /\ pc' = [pc EXCEPT ![t] = "load"]
      /\ UNCHANGED <<balance, calls, loaded, pocket>>
  BY DEF Lock, LockUnchecked, GoTo
<1>2. calls[t] \in Seq(Sections)
  BY DEF IInv, TypeOK
<1>3. Head(calls[t]) \in Sections
  BY <1>1, <1>2, HeadTailProperties
<1>4. Head(calls[t]) \in Rests(Head(calls[t]))
  BY <1>3, SectionRests
<1>5. TypeOK'
  BY <1>1, <1>3, <1>4 DEF IInv, TypeOK
<1>6. LockInv'
  BY <1>1, NobodyAssumption DEF IInv, TypeOK, LockInv
<1>7. QED
  BY <1>5, <1>6 DEF IInv

LEMMA LoadKeeps ==
    ASSUME IInv, NEW t \in Threads, Load(t)
    PROVE  IInv'
<1>1. /\ pc[t] = "load"
      /\ loaded' = [loaded EXCEPT ![t] = balance]
      /\ pc' = [pc EXCEPT ![t] = IF todo[t] = <<>> THEN "unlock" ELSE "store"]
      /\ UNCHANGED <<balance, owner, calls, todo, pocket>>
  BY DEF Load, GoTo
<1>2. TypeOK'
  BY <1>1 DEF IInv, TypeOK
<1>3. LockInv'
  BY <1>1 DEF IInv, TypeOK, LockInv
<1>4. QED
  BY <1>2, <1>3 DEF IInv

LEMMA StoreKeeps ==
    ASSUME IInv, NEW t \in Threads, Store(t)
    PROVE  IInv'
<1>1. /\ pc[t] = "store"
      /\ balance' = loaded[t] + Head(todo[t])
      /\ todo' = [todo EXCEPT ![t] = Tail(todo[t])]
      /\ pc' = [pc EXCEPT ![t] = IF Len(todo[t]) > 1 THEN "load" ELSE "unlock"]
      /\ UNCHANGED <<owner, calls, loaded, pocket>>
  BY DEF Store, GoTo
<1>2. todo[t] \in Sections /\ todo[t] # <<>> /\ loaded[t] \in Int
  BY <1>1 DEF IInv, TypeOK
<1>3. /\ Head(todo[t]) \in Int /\ Tail(todo[t]) \in Sections
      /\ Len(todo[t]) > 1 <=> Tail(todo[t]) # <<>>
  BY <1>2, SumOfTail
<1>4. calls[t] # <<>> /\ todo[t] \in Rests(Head(calls[t]))
  BY <1>1 DEF IInv, TypeOK
<1>5. Head(calls[t]) \in Sections
  BY <1>4, HeadTailProperties DEF IInv, TypeOK
<1>6. Tail(todo[t]) \in Rests(Head(calls[t])) /\ Head(calls[t]) # <<>>
  <2> DEFINE s == Head(calls[t])
  <2>1. s # <<>> /\ (todo[t] = s \/ todo[t] = Tail(s))
    BY <1>2, <1>4 DEF Rests
  <2> HIDE DEF s
  <2>2. CASE todo[t] = s
    BY <2>1, <2>2 DEF Rests, s
  <2>3. CASE todo[t] = Tail(s)
    <3> DEFINE r == Tail(s)
               q == Tail(r)
    <3>1. Len(s) \in Nat /\ Len(s) <= 2 /\ Len(r) = Len(s) - 1
      BY <1>5, <2>1, LenProperties, HeadTailProperties DEF Sections, s
    <3>2. r \in Seq(Int) /\ r # <<>>
      BY <1>2, <2>3 DEF Sections
    <3> HIDE DEF r
    <3>3. q \in Seq(Int) /\ Len(q) = Len(r) - 1
      BY <3>2, HeadTailProperties
    <3> HIDE DEF q
    <3>4. Len(r) # 0 /\ Len(q) \in Nat
      BY <3>2, <3>3, EmptySeq, LenProperties
    <3>5. q = <<>>
      BY <3>1, <3>3, <3>4, EmptySeq
    <3>6. QED
      BY <2>1, <2>3, <3>5 DEF Rests, s, q, r
  <2>4. QED
    BY <2>1, <2>2, <2>3 DEF s
<1>7. TypeOK'
  BY <1>1, <1>2, <1>3, <1>4, <1>6 DEF IInv, TypeOK
<1>8. LockInv'
  <2>1. \A u \in Threads \ {t} : pc'[u] = pc[u] /\ pc[u] = "idle"
    BY <1>1 DEF IInv, TypeOK, LockInv
  <2>2. pc'[t] \in {"load", "unlock"} /\ owner = t /\ todo'[t] = Tail(todo[t])
    BY <1>1 DEF IInv, TypeOK, LockInv
  <2>3. pc'[t] = "unlock" => Tail(todo[t]) = <<>>
    BY <1>1, <1>3 DEF IInv, TypeOK
  <2>4. \A u \in Threads \ {t} : owner # u
    BY <2>1 DEF IInv, LockInv
  <2>5. owner' = owner /\ calls' = calls
    BY <1>1
  <2>6. QED
    BY <1>6, <2>1, <2>2, <2>3, <2>4, <2>5 DEF LockInv
<1>9. QED
  BY <1>7, <1>8 DEF IInv

LEMMA UnlockKeeps ==
    ASSUME IInv, NEW t \in Threads, Unlock(t)
    PROVE  IInv'
<1>1. /\ pc[t] = "unlock"
      /\ owner' = Nobody
      /\ calls' = [calls EXCEPT ![t] = Tail(calls[t])]
      /\ pocket' = IF Head(calls[t]) = GetBalance THEN [pocket EXCEPT ![t] = loaded[t]] ELSE pocket
      /\ pc' = [pc EXCEPT ![t] = "idle"]
      /\ UNCHANGED <<balance, todo, loaded>>
  BY DEF Unlock, GoTo
<1>2. calls[t] \in Seq(Sections) /\ calls[t] # <<>>
  BY <1>1 DEF IInv, TypeOK
<1>3. Tail(calls[t]) \in Seq(Sections)
  BY <1>2, HeadTailProperties
<1>4. TypeOK'
  <2>1. pocket' \in [Threads -> Int]
    BY <1>1 DEF IInv, TypeOK
  <2>2. QED
    BY <1>1, <1>3, <2>1 DEF IInv, TypeOK
<1>5. LockInv'
  BY <1>1, NobodyAssumption DEF IInv, TypeOK, LockInv
<1>6. QED
  BY <1>4, <1>5 DEF IInv

LEMMA NextIInv == IInv /\ [Next]_vars => IInv'
<1> SUFFICES ASSUME IInv, [Next]_vars
             PROVE  IInv'
  OBVIOUS
<1>1. ASSUME NEW t \in Threads, Lock(t) \/ Load(t) \/ Store(t) \/ Unlock(t)
      PROVE  IInv'
  BY <1>1, LockKeeps, LoadKeeps, StoreKeeps, UnlockKeeps
<1>2. CASE UNCHANGED vars
  BY <1>2 DEF IInv, TypeOK, LockInv, vars
<1>3. QED
  BY <1>1, <1>2 DEF Next, Joined

\* From the first lock to the last unlock the invariant holds.
THEOREM Invariance == Spec => []IInv
BY InitIInv, NextIInv, PTL DEF Spec

\* Every variable keeps its type: a section in progress always has a rest of its
\* amounts left, and a store has an amount to add.
THEOREM TypeCorrect == Spec => []TypeOK
<1>1. IInv => TypeOK
  BY DEF IInv
<1>2. QED
  BY <1>1, Invariance, PTL
-----------------------------------------------------------------------------
\* A section is one step of the ledger, taken when it gives the account back.
LEMMA StepsRefine ==
    ASSUME IInv, [Next]_vars
    PROVE  [Abstract!Next]_(Abstract!vars)
<1>1. IInv'
  BY NextIInv
<1>2. /\ pc \in [Threads -> {"idle", "load", "store", "unlock"}]
      /\ todo \in [Threads -> Sections] /\ calls \in [Threads -> Seq(Sections)]
      /\ balance \in Int /\ owner \in Threads \cup {Nobody}
      /\ \A t \in Threads : pc[t] # "idle" <=> owner = t
      /\ \A t \in Threads : pc[t] # "idle" => calls[t] # <<>>
  BY DEF IInv, TypeOK, LockInv
<1>3. \A t \in Threads : pc[t] # "idle" =>
        /\ owner = t /\ owner # Nobody /\ Head(calls[t]) \in Sections
        /\ SumOf(Head(calls[t])) \in Int /\ SumOf(todo[t]) \in Int
  <2> SUFFICES ASSUME NEW t \in Threads, pc[t] # "idle"
               PROVE  /\ owner = t /\ owner # Nobody /\ Head(calls[t]) \in Sections
                      /\ SumOf(Head(calls[t])) \in Int /\ SumOf(todo[t]) \in Int
    OBVIOUS
  <2>1. Head(calls[t]) \in Sections
    BY <1>2, HeadTailProperties
  <2>2. QED
    BY <1>2, <2>1, SectionRests, NobodyAssumption
<1>4. ASSUME NEW t \in Threads, Lock(t)
      PROVE  UNCHANGED <<Committed, calls, pocket>>
  <2>1. /\ owner = Nobody /\ calls[t] # <<>>
        /\ owner' = t /\ todo' = [todo EXCEPT ![t] = Head(calls[t])]
        /\ UNCHANGED <<balance, calls, loaded, pocket>>
    BY <1>4 DEF Lock, LockUnchecked
  <2>2. todo'[t] = Head(calls[t]) /\ owner' # Nobody
    BY <1>2, <2>1, NobodyAssumption
  <2>3. Head(calls[t]) \in Sections
    BY <1>2, <2>1, HeadTailProperties
  <2>4. SumOf(Head(calls[t])) \in Int
    BY <2>3, SectionRests
  <2>5. Committed' = balance - (SumOf(Head(calls[t])) - SumOf(Head(calls[t])))
    BY <2>1, <2>2 DEF Committed
  <2>6. Committed = balance
    BY <2>1 DEF Committed
  <2>7. QED
    BY <1>2, <2>1, <2>4, <2>5, <2>6
<1>5. ASSUME NEW t \in Threads, Load(t)
      PROVE  UNCHANGED <<Committed, calls, pocket>>
  BY <1>5 DEF Load, Committed
<1>6. ASSUME NEW t \in Threads, Store(t)
      PROVE  UNCHANGED <<Committed, calls, pocket>>
  <2> DEFINE rest == todo[t]
             whole == SumOf(Head(calls[t]))
  <2>1. /\ pc[t] = "store"
        /\ balance' = loaded[t] + Head(rest)
        /\ todo' = [todo EXCEPT ![t] = Tail(rest)]
        /\ UNCHANGED <<owner, calls, loaded, pocket>>
    BY <1>6 DEF Store
  <2>2. rest \in Sections /\ rest # <<>> /\ loaded[t] = balance
    BY <2>1 DEF IInv, TypeOK, LockInv
  <2>3. todo'[t] = Tail(rest)
    BY <1>2, <2>1
  <2>4. /\ Head(rest) \in Int /\ Tail(rest) \in Sections
        /\ SumOf(rest) = Head(rest) + SumOf(Tail(rest))
    BY <2>2, SumOfTail
  <2>5. SumOf(Tail(rest)) \in Int
    BY <2>4, SectionRests
  <2>6. whole \in Int /\ owner = t /\ owner # Nobody
    BY <1>3, <2>1
  <2>7. Committed = balance - (whole - SumOf(rest))
    BY <2>6 DEF Committed
  <2>8. Committed' = balance' - (whole - SumOf(Tail(rest)))
    BY <2>1, <2>3, <2>6 DEF Committed
  <2> HIDE DEF rest, whole
  <2>9. QED
    BY <1>2, <2>1, <2>2, <2>4, <2>5, <2>6, <2>7, <2>8
<1>7. ASSUME NEW t \in Threads, Unlock(t)
      PROVE  Abstract!Run(t)
  <2> DEFINE section == Head(calls[t])
  <2>1. /\ pc[t] = "unlock"
        /\ owner' = Nobody
        /\ calls' = [calls EXCEPT ![t] = Tail(@)]
        /\ pocket' = IF section = GetBalance THEN [pocket EXCEPT ![t] = loaded[t]] ELSE pocket
        /\ UNCHANGED <<balance, todo, loaded>>
    BY <1>7 DEF Unlock
  <2>2. /\ section \in Sections /\ SumOf(section) \in Int
        /\ owner = t /\ owner # Nobody /\ calls[t] # <<>>
    BY <1>2, <1>3, <2>1
  <2>3. todo[t] = <<>> /\ (section = <<>> => loaded[t] = balance)
    BY <2>1 DEF IInv, LockInv
  <2>4. SumOf(<<>>) = 0
    BY <2>2, SectionRests
  <2>5. Committed = balance - (SumOf(section) - 0)
    BY <2>2, <2>3, <2>4 DEF Committed
  <2>6. Committed' = balance
    BY <2>1 DEF Committed
  <2>7. Committed' = Committed + SumOf(section)
    BY <1>2, <2>2, <2>5, <2>6
  <2>8. section = <<>> => loaded[t] = Committed
    BY <1>2, <2>3, <2>4, <2>5
  <2>9. Abstract!Total(section) = SumOf(section)
    BY DEF Abstract!Total, SumOf
  <2> HIDE DEF section
  <2>10. pocket' = IF section = <<>> THEN [pocket EXCEPT ![t] = Committed] ELSE pocket
    BY <2>1, <2>8 DEF GetBalance
  <2>11. QED
    BY <2>1, <2>2, <2>7, <2>9, <2>10 DEF Abstract!Run, section
<1>8. CASE UNCHANGED vars
  BY <1>8 DEF vars, Committed, Abstract!vars
<1>9. QED
  BY <1>4, <1>5, <1>6, <1>7, <1>8 DEF Next, Joined, Abstract!Next, Abstract!vars

\* Every locked section is one step of the ledger, however the threads are
\* interleaved between its loads and stores.
THEOREM Refinement == Spec => ImplementsLedger
<1>1. Init => Abstract!Init
  BY NobodyAssumption DEF Init, Abstract!Init, Committed
<1>2. IInv /\ [Next]_vars => [Abstract!Next]_(Abstract!vars)
  BY StepsRefine
<1>3. QED
  BY <1>1, <1>2, Invariance, PTL DEF Spec, ImplementsLedger, Abstract!Spec
-----------------------------------------------------------------------------
\* How many sections a thread has run, and what the threads have run of each
\* kind: the deposits, the withdrawals of customers, the machines that are done.
Done(t) == Len(Program[t]) - Len(calls[t])
Paid == {p \in Agents \X (1 .. Turns) : p[2] <= Done(p[1])}
Withdrawn == {p \in Joes \X (1 .. Turns) : 2 * p[2] - 1 <= Done(p[1])}
Taken == {t \in Atms : Done(t) >= 1}

\* What a thread has still to run is the end of its program.
ProgressInv ==
    \A t \in Threads :
        /\ Done(t) \in Nat
        /\ \A i \in 1 .. Len(calls[t]) : calls[t][i] = Program[t][Done(t) + i]

\* The balance between sections counts every deposit and withdrawal once.
CommittedInv ==
    Committed = Cardinality(Paid) * Wage - Cardinality(Taken) * (Cash + Fee)
                - Cardinality(Withdrawn) * Spending

\* The inductive invariant of the ledger the account implements.
AccountInv == ProgressInv /\ CommittedInv

\* The sets that are counted are finite.
LEMMA Counted ==
    /\ IsFiniteSet(Paid) /\ IsFiniteSet(Withdrawn) /\ IsFiniteSet(Taken)
    /\ Cardinality(Paid) \in 0 .. Turns * Cardinality(Agents)
    /\ Cardinality(Taken) \in 0 .. Cardinality(Atms)
    /\ Cardinality(Withdrawn) \in Nat
<1>1. Turns \in Nat /\ IsFiniteSet(1 .. Turns) /\ Cardinality(1 .. Turns) = Turns
  BY AmountsAssumption, FS_Interval
<1>2. ASSUME NEW S, IsFiniteSet(S)
      PROVE  /\ IsFiniteSet(S \X (1 .. Turns))
             /\ Cardinality(S \X (1 .. Turns)) = Cardinality(S) * Turns
  BY <1>1, <1>2, FS_Product
<1>3. /\ IsFiniteSet(Agents \X (1 .. Turns)) /\ IsFiniteSet(Joes \X (1 .. Turns))
      /\ Cardinality(Agents \X (1 .. Turns)) = Cardinality(Agents) * Turns
  BY <1>2, ThreadsAssumption
<1>4. Paid \subseteq Agents \X (1 .. Turns) /\ Withdrawn \subseteq Joes \X (1 .. Turns)
      /\ Taken \subseteq Atms
  BY DEF Paid, Withdrawn, Taken
<1>5. IsFiniteSet(Paid) /\ Cardinality(Paid) <= Cardinality(Agents) * Turns
  BY <1>3, <1>4, FS_Subset
<1>6. IsFiniteSet(Withdrawn)
  BY <1>3, <1>4, FS_Subset
<1>7. IsFiniteSet(Taken) /\ Cardinality(Taken) <= Cardinality(Atms)
  BY <1>4, ThreadsAssumption, FS_Subset
<1>8. /\ Cardinality(Paid) \in Nat /\ Cardinality(Withdrawn) \in Nat /\ Cardinality(Taken) \in Nat
      /\ Cardinality(Agents) \in Nat /\ Cardinality(Atms) \in Nat
  BY <1>5, <1>6, <1>7, ThreadsAssumption, FS_CardinalityType
<1>9. Cardinality(Agents) * Turns = Turns * Cardinality(Agents)
  BY <1>1, <1>8
<1>10. QED
  BY <1>1, <1>5, <1>6, <1>7, <1>8, <1>9

\* The programs and their lengths.
LEMMA Programs ==
    /\ \A t \in Agents : Program[t] = bankAgent /\ Len(Program[t]) = Turns
    /\ \A t \in Joes : Program[t] = Joe /\ Len(Program[t]) = 2 * Turns
    /\ \A t \in Atms : Program[t] = ATMWithdrawal /\ Len(Program[t]) = 1
    /\ \A t \in Threads : Program[t] \in Seq(Sections) /\ Len(Program[t]) \in Nat
<1>1. Turns \in Nat /\ 2 * Turns \in Nat
  BY AmountsAssumption
<1>2. Len(bankAgent) = Turns /\ Len(Joe) = 2 * Turns
  BY <1>1 DEF bankAgent, Joe
<1>3. Len(ATMWithdrawal) = 1
  BY DEF ATMWithdrawal
<1>4. /\ \A t \in Agents : Program[t] = bankAgent
      /\ \A t \in Joes : Program[t] = Joe
      /\ \A t \in Atms : Program[t] = ATMWithdrawal
  BY ThreadsAssumption DEF Program, Threads
<1>5. \A t \in Threads : Program[t] \in Seq(Sections) /\ Len(Program[t]) \in Nat
  BY ProgramType, LenProperties
<1>6. QED
  BY <1>2, <1>3, <1>4, <1>5

LEMMA InitAccount == Init => AccountInv
<1> SUFFICES ASSUME Init
             PROVE  AccountInv
  OBVIOUS
<1>1. calls = Program /\ Committed = 0
  BY DEF Init, Committed
<1>2. \A t \in Threads : Done(t) = 0
  BY <1>1, Programs DEF Done
<1>3. ProgressInv
  <2> SUFFICES ASSUME NEW t \in Threads, NEW i \in 1 .. Len(calls[t])
               PROVE  calls[t][i] = Program[t][0 + i]
    BY <1>2 DEF ProgressInv
  <2>1. i \in Int
    BY <1>1, Programs
  <2>2. QED
    BY <1>1, <2>1
<1>4. Paid = {} /\ Withdrawn = {} /\ Taken = {}
  <2>1. \A i \in 1 .. Turns : ~(i <= 0) /\ ~(2 * i - 1 <= 0)
    BY AmountsAssumption
  <2>2. QED
    BY <1>2, <2>1 DEF Paid, Withdrawn, Taken, Threads
<1>5. CommittedInv
  BY <1>1, <1>4, FS_EmptySet, AmountsAssumption DEF CommittedInv
<1>6. QED
  BY <1>3, <1>5 DEF AccountInv

\* The ledger changes only when a section ends, by what the section adds.
LEMMA LedgerStep ==
    ASSUME IInv, [Next]_vars, ~ UNCHANGED <<Committed, calls>>
    PROVE  \E t \in Threads :
             /\ calls[t] # <<>> /\ calls' = [calls EXCEPT ![t] = Tail(calls[t])]
             /\ Committed' = Committed + SumOf(Head(calls[t]))
<1>1. [Abstract!Next]_(Abstract!vars)
  BY StepsRefine
<1>2. PICK t \in Threads : Abstract!Run(t)
  BY <1>1 DEF Abstract!Next, Abstract!vars
<1>3. Abstract!Total(Head(calls[t])) = SumOf(Head(calls[t]))
  BY DEF Abstract!Total, SumOf
<1>4. QED
  BY <1>2, <1>3 DEF Abstract!Run

\* The section that a thread runs next is the one of its program, and running it
\* leaves the end of the program.
LEMMA Advance ==
    ASSUME ProgressInv, calls \in [Threads -> Seq(Sections)], NEW t \in Threads, calls[t] # <<>>,
           calls' = [calls EXCEPT ![t] = Tail(calls[t])]
    PROVE  /\ Head(calls[t]) = Program[t][Done(t) + 1]
           /\ Done(t) + 1 \in 1 .. Len(Program[t])
           /\ Done(t)' = Done(t) + 1
           /\ \A u \in Threads \ {t} : Done(u)' = Done(u)
           /\ ProgressInv'
<1> DEFINE c == calls[t]
           r == Tail(c)
           k == Len(c)
<1>1. c \in Seq(Sections) /\ c # <<>> /\ k \in Nat /\ k # 0
  BY LenProperties, EmptySeq
<1>2. /\ r \in Seq(Sections) /\ Len(r) = k - 1 /\ Head(c) = c[1]
      /\ \A i \in 1 .. Len(r) : r[i] = c[i + 1]
  BY <1>1, HeadTailProperties
<1>3. Done(t) \in Nat /\ Len(Program[t]) \in Nat /\ Done(t) = Len(Program[t]) - k
      /\ \A i \in 1 .. k : c[i] = Program[t][Done(t) + i]
  BY Programs DEF ProgressInv, Done
<1>4. calls'[t] = r /\ \A u \in Threads \ {t} : calls'[u] = calls[u]
  OBVIOUS
<1> DEFINE l == Len(r)
<1> HIDE DEF c, r, k, l
<1>5. Head(c) = Program[t][Done(t) + 1] /\ Done(t) + 1 \in 1 .. Len(Program[t])
  BY <1>1, <1>2, <1>3
<1>6. Done(t)' = Done(t) + 1
  <2>1. Done(t)' = Len(Program[t]) - (k - 1)
    BY <1>2, <1>4 DEF Done
  <2>2. QED
    BY <1>1, <1>3, <2>1
<1>7. \A u \in Threads \ {t} : Done(u)' = Done(u)
  BY <1>4 DEF Done
<1>8. ASSUME NEW i \in 1 .. Len(r)
      PROVE  r[i] = Program[t][Done(t)' + i]
  <2>1. i + 1 \in 1 .. k /\ i \in Int
    <3>1. l = k - 1 /\ i \in 1 .. l
      BY <1>2 DEF l
    <3>2. QED
      BY <1>1, <3>1
  <2>2. Done(t) + (i + 1) = Done(t)' + i
    <3> DEFINE e == Done(t)
               f == Done(t)'
    <3>1. e \in Nat /\ f = e + 1
      BY <1>3, <1>6
    <3> HIDE DEF e, f
    <3>2. e + (i + 1) = f + i
      BY <2>1, <3>1
    <3>3. QED
      BY <3>2 DEF e, f
  <2>3. r[i] = c[i + 1]
    BY <1>2
  <2>4. QED
    BY <1>3, <2>1, <2>2, <2>3
<1>9. ProgressInv'
  <2>1. Done(t)' \in Nat /\ \A i \in 1 .. Len(calls'[t]) : calls'[t][i] = Program[t][Done(t)' + i]
    <3>1. Done(t)' \in Nat
      BY <1>3, <1>6
    <3>2. QED
      BY <1>4, <1>8, <3>1
  <2>2. \A u \in Threads \ {t} : /\ Done(u)' \in Nat
                                 /\ \A i \in 1 .. Len(calls'[u]) : calls'[u][i] = Program[u][Done(u)' + i]
    BY <1>4, <1>7 DEF ProgressInv
  <2>3. QED
    BY <2>1, <2>2 DEF ProgressInv
<1>10. QED
  BY <1>5, <1>6, <1>7, <1>9 DEF c

\* One more element in a finite set.
LEMMA OneMore ==
    ASSUME NEW S, NEW x, IsFiniteSet(S), x \notin S
    PROVE  Cardinality(S \cup {x}) = Cardinality(S) + 1 /\ Cardinality(S) \in Nat
BY FS_AddElement, FS_CardinalityType

\* What one, two and no amounts add.
LEMMA Amounts ==
    ASSUME NEW x \in Int, NEW y \in Int
    PROVE  SumOf(<<x>>) = x /\ SumOf(<<x>> \o <<y>>) = x + y /\ SumOf(<<>>) = 0
<1>1. SumOf(<<x>>) = x
  BY DEF SumOf
<1>2. SumOf(<<x>> \o <<y>>) = x + y
  <2>1. <<x>> \in Seq(Int) /\ <<y>> \in Seq(Int) /\ Len(<<x>>) = 1 /\ Len(<<y>>) = 1
    OBVIOUS
  <2>2. LET s == <<x>> \o <<y>>
        IN  Len(s) = 2 /\ s[1] = x /\ s[2] = y
    BY <2>1, ConcatProperties
  <2>3. QED
    BY <2>2 DEF SumOf
<1>3. SumOf(<<>>) = 0
  BY EmptySeq DEF SumOf
<1>4. QED
  BY <1>1, <1>2, <1>3

\* A number is even or odd.
LEMMA Parity ==
    ASSUME NEW d \in Nat
    PROVE  \E m \in Nat : (d = 2 * m /\ ((d + 1) % 2) = 1) \/ (d = 2 * m + 1 /\ ((d + 1) % 2) = 0)
<1> DEFINE m == d \div 2
<1>1. m \in Nat /\ (d = 2 * m \/ d = 2 * m + 1)
  OBVIOUS
<1> HIDE DEF m
<1>2. d = 2 * m => ((d + 1) % 2) = 1
  BY <1>1
<1>3. d = 2 * m + 1 => ((d + 1) % 2) = 0
  BY <1>1
<1>4. QED
  BY <1>1, <1>2, <1>3

\* What each section adds is what it adds to the counts.
LEMMA CountsKept ==
    ASSUME AccountInv, calls \in [Threads -> Seq(Sections)], Committed \in Int,
           NEW t \in Threads, calls[t] # <<>>,
           calls' = [calls EXCEPT ![t] = Tail(calls[t])],
           Committed' = Committed + SumOf(Head(calls[t]))
    PROVE  CommittedInv'
<1> DEFINE d == Done(t)
           p == Cardinality(Paid)
           w == Cardinality(Withdrawn)
           a == Cardinality(Taken)
<1>1. /\ Head(calls[t]) = Program[t][d + 1] /\ d + 1 \in 1 .. Len(Program[t])
      /\ Done(t)' = d + 1 /\ \A u \in Threads \ {t} : Done(u)' = Done(u)
  BY Advance DEF AccountInv
<1>2. d \in Nat
  BY DEF AccountInv, ProgressInv
<1>3. /\ p \in Nat /\ w \in Nat /\ a \in Nat
      /\ IsFiniteSet(Paid) /\ IsFiniteSet(Withdrawn) /\ IsFiniteSet(Taken)
  BY Counted, AmountsAssumption, ThreadsAssumption, FS_CardinalityType
<1>4. /\ Turns \in Nat /\ Wage \in Nat /\ Spending \in Nat /\ Cash \in Nat /\ Fee \in Nat
  BY AmountsAssumption
<1>5. Committed = p * Wage - a * (Cash + Fee) - w * Spending
  BY DEF AccountInv, CommittedInv
<1>6. t \notin Agents => Paid' = Paid
  BY <1>1 DEF Paid, Threads
<1>7. t \notin Joes => Withdrawn' = Withdrawn
  BY <1>1 DEF Withdrawn, Threads
<1>8. t \notin Atms => Taken' = Taken
  BY <1>1 DEF Taken, Threads
<1> HIDE DEF d
<1>9. CASE t \in Agents
  <2>1. d + 1 \in 1 .. Turns /\ Head(calls[t]) = <<Wage>>
    BY <1>1, <1>9, Programs DEF bankAgent, Deposit
  <2>2. Paid' = Paid \cup {<<t, d + 1>>} /\ <<t, d + 1>> \notin Paid
    <3>1. \A i \in 1 .. Turns : i <= d + 1 <=> i <= d \/ i = d + 1
      BY <1>2, <1>4
    <3>2. \A u \in Agents \ {t} : Done(u)' = Done(u)
      BY <1>1 DEF Threads
    <3>3. ~(d + 1 <= d)
      BY <1>2
    <3>4. <<t, d + 1>> \notin Paid
      BY <3>3 DEF Paid, d
    <3>5. \A u \in Agents, i \in 1 .. Turns : <<u, i>> \in Paid' <=> <<u, i>> \in Paid \/ (u = t /\ i = d + 1)
      BY <1>1, <3>1, <3>2 DEF Paid, d
    <3>6. Paid' \subseteq Agents \X (1 .. Turns) /\ Paid \subseteq Agents \X (1 .. Turns)
      BY DEF Paid
    <3>7. QED
      BY <1>9, <2>1, <3>4, <3>5, <3>6
  <2>3. Cardinality(Paid') = p + 1
    BY <1>3, <2>2, OneMore
  <2>4. Withdrawn' = Withdrawn /\ Taken' = Taken
    BY <1>7, <1>8, <1>9, ThreadsAssumption
  <2>5. SumOf(Head(calls[t])) = Wage
    <3>1. Wage \in Int
      BY <1>4
    <3>2. SumOf(<<Wage>>) = Wage
      BY <3>1, Amounts
    <3>3. QED
      BY <2>1, <3>2
  <2> HIDE DEF p, w, a
  <2>6. (p + 1) * Wage = p * Wage + Wage
    BY <1>3, <1>4
  <2>7. p * Wage \in Int /\ a * (Cash + Fee) \in Int /\ w * Spending \in Int
    BY <1>3, <1>4
  <2>8. Committed' = (p + 1) * Wage - a * (Cash + Fee) - w * Spending
    BY <1>4, <1>5, <2>5, <2>6, <2>7
  <2>9. QED
    BY <2>3, <2>4, <2>8 DEF CommittedInv, a, w
<1>10. CASE t \in Joes
  <2>1. d + 1 \in 1 .. 2 * Turns
        /\ Head(calls[t]) = IF (d + 1) % 2 = 1 THEN <<-Spending>> ELSE <<>>
    BY <1>1, <1>10, Programs DEF Joe, Withdraw, GetBalance
  <2>2. Paid' = Paid /\ Taken' = Taken
    BY <1>6, <1>8, <1>10, ThreadsAssumption
  <2>3. \A u \in Joes \ {t} : Done(u)' = Done(u)
    BY <1>1 DEF Threads
  <2>4. Withdrawn' \subseteq Joes \X (1 .. Turns) /\ Withdrawn \subseteq Joes \X (1 .. Turns)
    BY DEF Withdrawn
  <2>5. CASE (d + 1) % 2 = 1
    <3>1. PICK m \in 1 .. Turns : 2 * m = d + 2
      <4>1. PICK h \in Nat : d = 2 * h
        BY <1>2, <2>5, Parity
      <4>2. h + 1 \in 1 .. Turns /\ 2 * (h + 1) = d + 2
        BY <1>4, <2>1, <4>1
      <4>3. QED
        BY <4>2
    <3>2. \A i \in 1 .. Turns : 2 * i - 1 <= d + 1 <=> 2 * i - 1 <= d \/ i = m
      BY <1>2, <1>4, <3>1
    <3>3. ~(2 * m - 1 <= d)
      BY <1>2, <3>1
    <3>4. <<t, m>> \notin Withdrawn
      BY <3>3 DEF Withdrawn, d
    <3>5. \A u \in Joes, i \in 1 .. Turns :
            <<u, i>> \in Withdrawn' <=> <<u, i>> \in Withdrawn \/ (u = t /\ i = m)
      BY <1>1, <2>3, <3>2 DEF Withdrawn, d
    <3>6. Withdrawn' = Withdrawn \cup {<<t, m>>}
      BY <1>10, <2>4, <3>1, <3>5
    <3>7. Cardinality(Withdrawn') = w + 1
      BY <1>3, <3>4, <3>6, OneMore
    <3>8. SumOf(Head(calls[t])) = -Spending
      <4>1. Head(calls[t]) = <<-Spending>> /\ -Spending \in Int
        BY <1>4, <2>1, <2>5
      <4>2. QED
        BY <4>1, Amounts
    <3> HIDE DEF p, w, a
    <3>9. (w + 1) * Spending = w * Spending + Spending
      BY <1>3, <1>4
    <3>10. p * Wage \in Int /\ a * (Cash + Fee) \in Int /\ w * Spending \in Int
      BY <1>3, <1>4
    <3>11. Committed' = p * Wage - a * (Cash + Fee) - (w + 1) * Spending
      BY <1>4, <1>5, <3>8, <3>9, <3>10
    <3>12. QED
      BY <2>2, <3>7, <3>11 DEF CommittedInv, p, a
  <2>6. CASE (d + 1) % 2 # 1
    <3>1. \A i \in 1 .. Turns : 2 * i - 1 <= d + 1 <=> 2 * i - 1 <= d
      <4>1. PICK h \in Nat : d = 2 * h + 1
        BY <1>2, <2>6, Parity
      <4>2. QED
        BY <1>4, <4>1
    <3>2. \A u \in Joes, i \in 1 .. Turns : <<u, i>> \in Withdrawn' <=> <<u, i>> \in Withdrawn
      BY <1>1, <2>3, <3>1 DEF Withdrawn, d
    <3>3. Withdrawn' = Withdrawn
      <4>1. \A q \in Joes \X (1 .. Turns) : q \in Withdrawn' <=> q \in Withdrawn
        BY <3>2
      <4>2. QED
        BY <2>4, <4>1
    <3>4. SumOf(Head(calls[t])) = 0
      BY <2>1, <2>6, Amounts
    <3>5. Committed' = Committed
      BY <3>4
    <3>6. QED
      BY <1>5, <2>2, <3>3, <3>5 DEF CommittedInv
  <2>7. QED
    BY <2>5, <2>6
<1>11. CASE t \in Atms
  <2>1. d + 1 = 1
    BY <1>1, <1>2, <1>11, Programs
  <2>2. Head(calls[t]) = <<-Cash>> \o <<-Fee>>
    BY <1>1, <1>11, <2>1, Programs DEF ATMWithdrawal, Withdraw
  <2>3. SumOf(Head(calls[t])) = -Cash + -Fee
    <3>1. -Cash \in Int /\ -Fee \in Int
      BY <1>4
    <3>2. QED
      BY <2>2, <3>1, Amounts
  <2>4. Taken' = Taken \cup {t} /\ t \notin Taken
    <3>1. ~(d >= 1) /\ d + 1 >= 1
      BY <1>2, <2>1
    <3>2. \A u \in Atms \ {t} : Done(u)' = Done(u)
      BY <1>1 DEF Threads
    <3>3. QED
      BY <1>1, <1>11, <3>1, <3>2 DEF Taken, d
  <2>5. Cardinality(Taken') = a + 1
    BY <1>3, <2>4, OneMore
  <2>6. Paid' = Paid /\ Withdrawn' = Withdrawn
    BY <1>6, <1>7, <1>11, ThreadsAssumption
  <2> HIDE DEF p, w, a
  <2>7. (a + 1) * (Cash + Fee) = a * (Cash + Fee) + (Cash + Fee)
    BY <1>3, <1>4
  <2>8. p * Wage \in Int /\ a * (Cash + Fee) \in Int /\ w * Spending \in Int
    BY <1>3, <1>4
  <2>9. Committed' = p * Wage - (a + 1) * (Cash + Fee) - w * Spending
    BY <1>4, <1>5, <2>3, <2>7, <2>8
  <2>10. QED
    BY <2>5, <2>6, <2>9 DEF CommittedInv, p, w
<1>12. QED
  BY <1>9, <1>10, <1>11 DEF Threads

LEMMA StepAccount ==
    ASSUME IInv, AccountInv, [Next]_vars
    PROVE  AccountInv'
<1>1. calls \in [Threads -> Seq(Sections)]
  BY DEF IInv, TypeOK
<1>2. Committed \in Int
  BY Counted, AmountsAssumption DEF AccountInv, CommittedInv
<1>3. CASE UNCHANGED <<Committed, calls>>
  <2>1. \A t : Done(t)' = Done(t)
    BY <1>3 DEF Done
  <2>2. ProgressInv'
    BY <1>3, <2>1 DEF AccountInv, ProgressInv
  <2>3. Paid' = Paid /\ Withdrawn' = Withdrawn /\ Taken' = Taken
    BY <2>1 DEF Paid, Withdrawn, Taken
  <2>4. QED
    BY <1>3, <2>2, <2>3 DEF AccountInv, CommittedInv
<1>4. CASE ~ UNCHANGED <<Committed, calls>>
  <2>1. PICK t \in Threads :
           /\ calls[t] # <<>> /\ calls' = [calls EXCEPT ![t] = Tail(calls[t])]
           /\ Committed' = Committed + SumOf(Head(calls[t]))
    BY <1>4, LedgerStep
  <2>2. ProgressInv'
    BY <1>1, <2>1, Advance DEF AccountInv
  <2>3. CommittedInv'
    BY <1>1, <1>2, <2>1, CountsKept
  <2>4. QED
    BY <2>2, <2>3 DEF AccountInv
<1>5. QED
  BY <1>3, <1>4

\* The balance is at every moment, but for the section that is running, the wages
\* paid less the cash with its fees and the withdrawals, each counted once.
THEOREM AccountInvariance == Spec => []AccountInv
<1>1. IInv /\ AccountInv /\ [Next]_vars => AccountInv'
  BY StepAccount
<1>2. QED
  BY <1>1, InitAccount, Invariance, PTL DEF Spec

\* The withdrawals of one customer and those of the others.
LEMMA OwnWithdrawals ==
    ASSUME NEW j \in Joes, NEW h \in Nat, Done(j) = 2 * h + 1, h + 1 <= Turns
    PROVE  \E others \in 0 .. Turns * (Cardinality(Joes) - 1) :
             Cardinality(Withdrawn) = h + 1 + others
<1> DEFINE Own == {j} \X (1 .. (h + 1))
           Others == {q \in Withdrawn : q[1] # j}
           rest == (Joes \ {j}) \X (1 .. Turns)
<1>1. Turns \in Nat /\ IsFiniteSet(Joes) /\ IsFiniteSet(1 .. Turns) /\ Cardinality(1 .. Turns) = Turns
  BY AmountsAssumption, ThreadsAssumption, FS_Interval
<1>2. IsFiniteSet(1 .. (h + 1)) /\ Cardinality(1 .. (h + 1)) = h + 1
  BY FS_Interval
<1>3. IsFiniteSet({j}) /\ Cardinality({j}) = 1
  BY FS_Singleton
<1>4. IsFiniteSet(Own) /\ Cardinality(Own) = h + 1
  <2>1. IsFiniteSet(Own) /\ Cardinality(Own) = 1 * (h + 1)
    BY <1>2, <1>3, FS_Product, ZenonT(40)
  <2>2. QED
    BY <2>1
<1>5. IsFiniteSet(Joes \ {j}) /\ Cardinality(Joes \ {j}) = Cardinality(Joes) - 1
  BY <1>1, FS_RemoveElement
<1>6. IsFiniteSet(rest) /\ Cardinality(rest) = (Cardinality(Joes) - 1) * Turns
  BY <1>1, <1>5, FS_Product, ZenonT(40)
<1>7. Others \subseteq rest
  BY DEF Withdrawn
<1>8. IsFiniteSet(Others) /\ Cardinality(Others) <= Cardinality(rest)
  BY <1>6, <1>7, FS_Subset
<1>9. Withdrawn = Own \cup Others /\ Own \cap Others = {}
  <2>1. \A i \in 1 .. Turns : 2 * i - 1 <= 2 * h + 1 <=> i \in 1 .. (h + 1)
    BY <1>1
  <2>2. 1 .. (h + 1) \subseteq 1 .. Turns
    BY <1>1
  <2>3. \A i : <<j, i>> \in Withdrawn <=> i \in 1 .. (h + 1)
    BY <2>1, <2>2 DEF Withdrawn
  <2>4. \A q \in Withdrawn : q = <<q[1], q[2]>>
    BY DEF Withdrawn
  <2>5. QED
    BY <2>3, <2>4
<1>10. Cardinality(Withdrawn) = Cardinality(Own) + Cardinality(Others)
  <2> HIDE DEF Own, Others
  <2>1. IsFiniteSet(Own) /\ IsFiniteSet(Others) /\ Cardinality(Own) \in Nat /\ Cardinality(Others) \in Nat
    BY <1>4, <1>8, FS_CardinalityType
  <2>2. Cardinality(Own \cup Others) = Cardinality(Own) + Cardinality(Others) - Cardinality({})
    BY <2>1, <1>9, FS_Union
  <2>3. Cardinality({}) = 0
    BY FS_EmptySet
  <2>4. QED
    BY <1>9, <2>1, <2>2, <2>3
<1>11. Cardinality(Others) \in Nat /\ Cardinality(Joes) \in Nat
  BY <1>1, <1>8, FS_CardinalityType
<1> HIDE DEF Own, Others, rest
<1>12. Cardinality(Others) \in 0 .. Turns * (Cardinality(Joes) - 1)
  BY <1>1, <1>6, <1>8, <1>11
<1>13. QED
  BY <1>4, <1>10, <1>12

\* The customer never sees the cash taken without the fee, half a deposit, or a
\* balance that one of his own withdrawals is missing from.
THEOREM SectionsSeenAtomically == Spec => []SeenAtomically
<1>1. IInv /\ AccountInv => SeenAtomically
  <2> SUFFICES ASSUME IInv, AccountInv, NEW j \in Joes, pc[j] = "unlock", Head(calls[j]) = GetBalance
               PROVE  \E paid \in 0 .. Turns * Cardinality(Agents), atm \in 0 .. Cardinality(Atms),
                         others \in 0 .. Turns * (Cardinality(Joes) - 1) :
                        loaded[j] = paid * Wage - atm * (Cash + Fee)
                                    - (others + Turns - Len(calls[j]) \div 2) * Spending
    BY DEF SeenAtomically
  <2> DEFINE d == Done(j)
             k == Len(calls[j])
  <2>1. j \in Threads /\ owner = j /\ owner # Nobody /\ calls[j] # <<>>
    BY NobodyAssumption DEF IInv, TypeOK, LockInv, Threads
  <2>2. todo[j] = <<>> /\ Head(calls[j]) = <<>> /\ loaded[j] = balance /\ balance \in Int
    BY <2>1 DEF IInv, TypeOK, LockInv, GetBalance
  <2>3. loaded[j] = Committed
    <3>1. SumOf(<<>>) = 0
      BY EmptySeq DEF SumOf
    <3>2. Committed = balance - (SumOf(<<>>) - SumOf(<<>>))
      BY <2>1, <2>2 DEF Committed
    <3>3. QED
      BY <2>2, <3>1, <3>2
  <2>4. calls[j] \in Seq(Sections) /\ k \in Nat /\ k # 0
    BY <2>1, LenProperties, EmptySeq DEF IInv, TypeOK
  <2>5. Turns \in Nat /\ d \in Nat /\ d = 2 * Turns - k
    BY <2>1, Programs, AmountsAssumption DEF AccountInv, ProgressInv, Done
  <2>6. <<>> = Joe[d + 1]
    <3>1. Head(calls[j]) = calls[j][1]
      BY <2>1, <2>4
    <3>2. 1 \in 1 .. k
      BY <2>4
    <3>3. QED
      BY <2>1, <2>2, <3>1, <3>2, Programs DEF AccountInv, ProgressInv
  <2> HIDE DEF d, k
  <2>7. d + 1 \in 1 .. 2 * Turns
    BY <2>4, <2>5
  <2>8. ((d + 1) % 2) # 1
    BY <2>6, <2>7 DEF Joe, Withdraw
  <2>9. PICK h \in Nat : d = 2 * h + 1
    BY <2>5, <2>8, Parity
  <2>10. h + 1 <= Turns /\ Turns - k \div 2 = h + 1
    BY <2>4, <2>5, <2>9
  <2>11. PICK others \in 0 .. Turns * (Cardinality(Joes) - 1) :
           Cardinality(Withdrawn) = h + 1 + others
    BY <2>9, <2>10, OwnWithdrawals DEF d
  <2>12. Cardinality(Joes) \in Nat /\ others \in Int
    BY <2>5, ThreadsAssumption, FS_CardinalityType
  <2>13. others + Turns - k \div 2 = Cardinality(Withdrawn)
    BY <2>4, <2>5, <2>10, <2>11, <2>12
  <2>14. loaded[j] = Cardinality(Paid) * Wage - Cardinality(Taken) * (Cash + Fee)
                     - (others + Turns - k \div 2) * Spending
    BY <2>3, <2>13 DEF AccountInv, CommittedInv
  <2>15. QED
    BY <2>14, Counted DEF k
<1>2. QED
  BY <1>1, Invariance, AccountInvariance, PTL
=============================================================================
