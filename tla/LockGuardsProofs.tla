-------------------------- MODULE LockGuardsProofs --------------------------
(***************************************************************************)
(* For any number of mutexes and lock objects: every ownership of a mutex  *)
(* belongs to exactly one of those who can give it back, and the lock      *)
(* objects exclude one another as their modes say.                         *)
(***************************************************************************)
EXTENDS LockGuards, FiniteSetTheorems, TLAPS

\* The lock objects of mode k that own m, by the states x of all of them.
Owning(x, m, k) == {g \in Guards : Mode(g) = k /\ x[g] = [m |-> m, owns |-> TRUE]}

\* What a lock object g in state s counts for among them.
Counts(g, s, m, k) == IF Mode(g) = k /\ s = [m |-> m, owns |-> TRUE] THEN 1 ELSE 0

\* What the transfer_lock counts for.
Carries(t, m, k) ==
    IF t.to = [m |-> m, owns |-> TRUE] /\ TransferMode(t.from) = k THEN 1 ELSE 0

\* A lock object has one mode.
LEMMA ModeType ==
    ASSUME NEW g \in Guards
    PROVE  /\ Mode(g) \in Modes
           /\ g \in UpgradeLocks \cup UniqueLocks <=> Mode(g) # "shared"
           /\ TransferMode(g) \in Modes
<1>1. CASE g \in SharedLocks
  <2>1. Mode(g) = "shared"
    BY <1>1, TypesAssumption DEF Mode
  <2>2. QED
    BY <1>1, <2>1, TypesAssumption DEF Modes, TransferMode
<1>2. CASE g \in UpgradeLocks
  <2>1. Mode(g) = "upgrade"
    BY <1>2, TypesAssumption DEF Mode
  <2>2. QED
    BY <1>2, <2>1, TypesAssumption DEF Modes, TransferMode
<1>3. CASE g \in UniqueLocks
  <2>1. Mode(g) = "unique"
    BY <1>3, TypesAssumption DEF Mode
  <2>2. QED
    BY <1>3, <2>1, TypesAssumption DEF Modes, TransferMode
<1>4. QED
  BY <1>1, <1>2, <1>3 DEF Guards

\* The owners can be counted.
LEMMA OwningFinite ==
    ASSUME NEW x, NEW m, NEW k
    PROVE  IsFiniteSet(Owning(x, m, k)) /\ Cardinality(Owning(x, m, k)) \in Nat
<1>1. Owning(x, m, k) \subseteq Guards
  BY DEF Owning
<1>2. IsFiniteSet(Owning(x, m, k))
  BY <1>1, TypesAssumption, FS_Subset
<1>3. QED
  BY <1>2, FS_CardinalityType

\* A change of one lock object changes the count by what it counted for before
\* and what it counts for then.
LEMMA Recount ==
    ASSUME NEW x, x = [h \in Guards |-> x[h]], NEW g \in Guards, NEW s, NEW m, NEW k
    PROVE  Cardinality(Owning([x EXCEPT ![g] = s], m, k)) =
             Cardinality(Owning(x, m, k)) - Counts(g, x[g], m, k) + Counts(g, s, m, k)
<1> DEFINE y == [x EXCEPT ![g] = s]
           rest == Owning(x, m, k) \ {g}
<1>1. y[g] = s /\ \A h \in Guards \ {g} : y[h] = x[h]
  OBVIOUS
<1>2. IsFiniteSet(rest) /\ g \notin rest
  BY OwningFinite, FS_RemoveElement
<1>3. Cardinality(rest) = Cardinality(Owning(x, m, k)) - Counts(g, x[g], m, k)
  <2>1. Counts(g, x[g], m, k) = IF g \in Owning(x, m, k) THEN 1 ELSE 0
    BY DEF Counts, Owning
  <2>2. Cardinality(rest) = IF g \in Owning(x, m, k) THEN Cardinality(Owning(x, m, k)) - 1
                                                    ELSE Cardinality(Owning(x, m, k))
    BY OwningFinite, FS_RemoveElement
  <2>3. QED
    BY <2>1, <2>2, OwningFinite
<1>4. Cardinality(Owning(y, m, k)) = Cardinality(rest) + Counts(g, s, m, k)
  <2> HIDE DEF y
  <2>1. CASE Counts(g, s, m, k) = 1
    <3>1. g \in Owning(y, m, k)
      <4>1. Mode(g) = k /\ s = [m |-> m, owns |-> TRUE]
        BY <2>1 DEF Counts
      <4>2. y[g] = s
        BY <1>1
      <4>3. QED
        BY <4>1, <4>2, Zenon DEF Owning
    <3>2. Owning(y, m, k) \ {g} = rest
      BY <1>1 DEF Owning
    <3>3. Owning(y, m, k) = rest \cup {g}
      BY <3>1, <3>2
    <3> HIDE DEF rest
    <3>4. Cardinality(rest \cup {g}) = Cardinality(rest) + 1
      BY <1>2, FS_AddElement
    <3>5. QED
      BY <2>1, <3>3, <3>4
  <2>2. CASE Counts(g, s, m, k) = 0
    <3>1. Owning(y, m, k) = rest
      BY <1>1, <2>2 DEF Counts, Owning
    <3>2. Cardinality(rest) \in Nat
      BY <1>2, FS_CardinalityType
    <3>3. QED
      BY <2>2, <3>1, <3>2
  <2>3. QED
    BY <2>1, <2>2 DEF Counts
<1>5. QED
  BY <1>3, <1>4

\* The owners, said with the operators above.
LEMMA OwnersAre ==
    ASSUME NEW m, NEW k
    PROVE  Owners(m, k) = Cardinality(Owning(guard, m, k)) + loose[m][k] + Carries(transfer, m, k)
BY DEF Owners, Owning, Carries

\* The same for a lock object that takes over from another one, or from itself.
LEMMA RecountMove ==
    ASSUME NEW x, x = [h \in Guards |-> x[h]], NEW g \in Guards, NEW h \in Guards,
           NEW m \in Mutexes, NEW k
    PROVE  Cardinality(Owning([x EXCEPT ![g] = x[h], ![h] = Empty], m, k)) =
             Cardinality(Owning(x, m, k)) - Counts(g, x[g], m, k)
               + Counts(g, x[h], m, k) - Counts(h, x[h], m, k)
<1> DEFINE y == [x EXCEPT ![g] = x[h]]
<1>1. y = [i \in Guards |-> y[i]] /\ y[h] = x[h]
  OBVIOUS
<1>2. Cardinality(Owning(y, m, k)) =
        Cardinality(Owning(x, m, k)) - Counts(g, x[g], m, k) + Counts(g, x[h], m, k)
  BY Recount
<1>3. [x EXCEPT ![g] = x[h], ![h] = Empty] = [y EXCEPT ![h] = Empty]
  OBVIOUS
<1> HIDE DEF y
<1>4. Counts(h, Empty, m, k) = 0
  BY NullAssumption DEF Counts, Empty
<1>5. Cardinality(Owning([y EXCEPT ![h] = Empty], m, k)) =
        Cardinality(Owning(y, m, k)) - Counts(h, y[h], m, k) + Counts(h, Empty, m, k)
  BY <1>1, Recount
<1>6. /\ Counts(h, x[h], m, k) \in Int /\ Counts(g, x[g], m, k) \in Int
      /\ Counts(g, x[h], m, k) \in Int
  BY DEF Counts
<1>7. Cardinality(Owning(x, m, k)) \in Int
  BY OwningFinite
<1>8. QED
  BY <1>1, <1>2, <1>3, <1>4, <1>5, <1>6, <1>7
-----------------------------------------------------------------------------
\* The lock object that a transfer_lock will give its mutex back to exists, and
\* what it carries is owned.
TransferInv ==
    /\ transfer # NoTransfer => transfer.from \in alive
    /\ transfer.to.owns => transfer.to.m \in Mutexes /\ transfer # NoTransfer

\* The inductive invariant: that a mutex is not unlocked more often than it is
\* locked, which TypeOK says, follows from the exact count of its owners.
IInv == TypeOK /\ TransferInv /\ OwnershipExact

\* What a lock object counts for, by its two fields.
LEMMA CountsIs ==
    ASSUME NEW g \in Guards, NEW s \in LockStates, NEW m \in Mutexes, NEW k
    PROVE  Counts(g, s, m, k) = IF s.owns /\ s.m = m /\ Mode(g) = k THEN 1 ELSE 0
BY DEF Counts, LockStates

\* The count of the owners, for one mutex and one mode, with what it depends on.
ExactAt(m, k) ==
    /\ held[m][k] = Cardinality(Owning(guard, m, k)) + loose[m][k] + Carries(transfer, m, k)
    /\ held[m][k] \in Nat /\ loose[m][k] \in Int
    /\ Cardinality(Owning(guard, m, k)) \in Nat
    /\ Carries(transfer, m, k) \in {0, 1}
LEMMA Exact ==
    ASSUME NEW m \in Mutexes, NEW k \in Modes, IInv
    PROVE  ExactAt(m, k)
<1>1. held[m][k] = Owners(m, k)
  BY DEF IInv, OwnershipExact
<1>2. held[m][k] \in Nat /\ loose[m][k] \in Int
  BY BoundAssumption DEF IInv, TypeOK
<1>3. Carries(transfer, m, k) \in {0, 1}
  BY DEF Carries
<1>4. QED
  BY <1>1, <1>2, <1>3, OwnersAre, OwningFinite DEF ExactAt

\* What is left to show of a step: the new counts agree, and the variables that
\* count nothing keep their types.
LEMMA Establish ==
    ASSUME held' \in [Mutexes -> [Modes -> Int]],
           loose' \in [Mutexes -> [Modes -> 0 .. MaxLoose]],
           \A m \in Mutexes, k \in Modes :
               held'[m][k] = Cardinality(Owning(guard', m, k)) + loose'[m][k]
                               + Carries(transfer', m, k)
    PROVE  OwnershipExact' /\ held' \in [Mutexes -> [Modes -> Nat]]
<1>1. \A m, k : Owners(m, k)' = Cardinality(Owning(guard', m, k)) + loose'[m][k]
                                  + Carries(transfer', m, k)
  BY DEF Owners, Owning, Carries
<1>2. OwnershipExact'
  BY <1>1 DEF OwnershipExact
<1>3. ASSUME NEW m \in Mutexes, NEW k \in Modes
      PROVE  held'[m][k] \in Nat
  <2>1. Cardinality(Owning(guard', m, k)) \in Nat
    BY OwningFinite
  <2>2. loose'[m][k] \in Nat /\ Carries(transfer', m, k) \in Nat
    BY BoundAssumption DEF Carries
  <2>3. QED
    BY <2>1, <2>2
<1>4. held' \in [Mutexes -> [Modes -> Nat]]
  BY <1>3
<1>5. QED
  BY <1>2, <1>4
-----------------------------------------------------------------------------
\* What the three ways to change held do to one number.
LEMMA Acquired ==
    ASSUME IInv, NEW n \in Mutexes, NEW l \in Modes, Acquire(n, l)
    PROVE  /\ held' \in [Mutexes -> [Modes -> Int]]
           /\ \A m \in Mutexes, k \in Modes :
                held'[m][k] = held[m][k] + (IF m = n /\ k = l THEN 1 ELSE 0)
BY DEF IInv, TypeOK, Acquire

LEMMA Surrendered ==
    ASSUME IInv, NEW n \in Mutexes, NEW l \in Modes, Surrender(n, l)
    PROVE  /\ held' \in [Mutexes -> [Modes -> Int]]
           /\ \A m \in Mutexes, k \in Modes :
                held'[m][k] = held[m][k] - (IF m = n /\ k = l THEN 1 ELSE 0)
BY DEF IInv, TypeOK, Surrender

LEMMA Changed ==
    ASSUME IInv, NEW n \in Mutexes, NEW i \in Modes, NEW j \in Modes, Change(n, i, j), i # j
    PROVE  /\ held' \in [Mutexes -> [Modes -> Int]]
           /\ \A m \in Mutexes, k \in Modes :
                held'[m][k] = held[m][k] - (IF m = n /\ k = i THEN 1 ELSE 0)
                                         + (IF m = n /\ k = j THEN 1 ELSE 0)
BY DEF IInv, TypeOK, Change

\* if (owns_) m_->unlock() gives back what the lock object counts for.
LEMMA UnlockedIfOwned ==
    ASSUME IInv, NEW g \in Guards, UnlockIfOwned(g)
    PROVE  /\ held' \in [Mutexes -> [Modes -> Int]]
           /\ \A m \in Mutexes, k \in Modes : held'[m][k] = held[m][k] - Counts(g, guard[g], m, k)
<1>1. guard[g] \in LockStates /\ (guard[g].owns => guard[g].m \in Mutexes)
  BY DEF IInv, TypeOK, LockStates
<1>2. \A m \in Mutexes, k \in Modes :
        Counts(g, guard[g], m, k) = IF guard[g].owns /\ guard[g].m = m /\ Mode(g) = k THEN 1 ELSE 0
  BY <1>1, CountsIs
<1>3. CASE guard[g].owns
  <2>1. Surrender(guard[g].m, Mode(g))
    BY <1>3 DEF UnlockIfOwned
  <2>2. QED
    BY <1>1, <1>2, <1>3, <2>1, ModeType, Surrendered
<1>4. CASE ~guard[g].owns
  <2>1. held' = held
    BY <1>4 DEF UnlockIfOwned
  <2>2. \A m \in Mutexes, k \in Modes : Counts(g, guard[g], m, k) = 0
    BY <1>2, <1>4
  <2>3. held \in [Mutexes -> [Modes -> Nat]]
    BY DEF IInv, TypeOK
  <2>4. QED
    BY <2>1, <2>2, <2>3
<1>5. QED
  BY <1>3, <1>4
-----------------------------------------------------------------------------
\* The owners after one lock object, or a lock object and the one it takes over
\* from, have been changed.
LEMMA OneChanged ==
    ASSUME IInv, NEW g \in Guards, NEW s, guard' = [guard EXCEPT ![g] = s],
           NEW m \in Mutexes, NEW k \in Modes
    PROVE  Cardinality(Owning(guard', m, k)) =
             Cardinality(Owning(guard, m, k)) - Counts(g, guard[g], m, k) + Counts(g, s, m, k)
<1>1. guard = [h \in Guards |-> guard[h]]
  BY DEF IInv, TypeOK
<1>2. QED
  BY <1>1, Recount

LEMMA TakenOver ==
    ASSUME IInv, NEW g \in Guards, NEW h \in Guards,
           guard' = [guard EXCEPT ![g] = guard[h], ![h] = Empty],
           NEW m \in Mutexes, NEW k \in Modes
    PROVE  Cardinality(Owning(guard', m, k)) =
             Cardinality(Owning(guard, m, k)) - Counts(g, guard[g], m, k)
               + Counts(g, guard[h], m, k) - Counts(h, guard[h], m, k)
<1>1. guard = [i \in Guards |-> guard[i]]
  BY DEF IInv, TypeOK
<1>2. QED
  BY <1>1, RecountMove

\* A lock object that is not there owns nothing, and an empty one neither.
LEMMA NotOwning ==
    ASSUME IInv, NEW g \in Guards, NEW m \in Mutexes, NEW k
    PROVE  /\ g \notin alive => Counts(g, guard[g], m, k) = 0
           /\ ~guard[g].owns => Counts(g, guard[g], m, k) = 0
           /\ Counts(g, Empty, m, k) = 0
           /\ \A n : Counts(g, [m |-> n, owns |-> FALSE], m, k) = 0
           /\ Counts(g, guard[g], m, k) \in {0, 1}
<1>1. g \notin alive => ~guard[g].owns
  BY DEF IInv, TypeOK
<1>2. QED
  BY <1>1, NullAssumption DEF Counts, Empty

\* What an owning lock object counts for.
LEMMA OwnerCounts ==
    ASSUME NEW g \in Guards, NEW n, NEW m \in Mutexes, NEW k
    PROVE  Counts(g, [m |-> n, owns |-> TRUE], m, k) = IF m = n /\ k = Mode(g) THEN 1 ELSE 0
BY DEF Counts
-----------------------------------------------------------------------------
\* One lemma for every member: it keeps the invariant.
LEMMA ConstructKeeps ==
    ASSUME IInv, NEW g \in Guards, NEW n \in Mutexes \cup {Null}, Construct(g, n)
    PROVE  IInv'
<1> DEFINE s == [m |-> n, owns |-> FALSE]
<1>1. ~guard[g].owns /\ s \in LockStates /\ ~s.owns
  BY DEF IInv, TypeOK, Construct, LockStates
<1>2. \A m, k : Counts(g, s, m, k) = 0
  BY DEF Counts
<1>3. guard' = [guard EXCEPT ![g] = s]
  BY DEF Construct
<1> HIDE DEF s
<1>4. TypeOK'
  BY <1>1, <1>3 DEF IInv, TypeOK, Construct
<1>5. TransferInv'
  BY DEF IInv, TransferInv, Construct
<1>6. ASSUME NEW m \in Mutexes, NEW k \in Modes
      PROVE  held'[m][k] = Cardinality(Owning(guard', m, k)) + loose'[m][k] + Carries(transfer', m, k)
  <2>1. Cardinality(Owning(guard', m, k)) =
          Cardinality(Owning(guard, m, k)) - Counts(g, guard[g], m, k) + Counts(g, s, m, k)
    BY <1>3, OneChanged
  <2>2. Counts(g, guard[g], m, k) = 0 /\ Counts(g, s, m, k) = 0
    BY <1>1, <1>2, NotOwning
  <2>3. ExactAt(m, k)
    BY Exact
  <2>4. held'[m][k] = held[m][k] /\ loose'[m][k] = loose[m][k] /\ transfer' = transfer
    BY DEF Construct
  <2>5. QED
    BY <2>1, <2>2, <2>3, <2>4 DEF ExactAt
<1>7. OwnershipExact'
  BY <1>4, <1>6, Establish DEF TypeOK
<1>8. QED
  BY <1>4, <1>5, <1>7 DEF IInv

LEMMA ConstructLockedKeeps ==
    ASSUME IInv, NEW g \in Guards, NEW n \in Mutexes, ConstructLocked(g, n)
    PROVE  IInv'
<1> DEFINE s == [m |-> n, owns |-> TRUE]
<1>1. s \in LockStates /\ s.m # Null
  BY NullAssumption DEF LockStates
<1>2. \A m \in Mutexes : \A k : Counts(g, s, m, k) = IF m = n /\ k = Mode(g) THEN 1 ELSE 0
  BY OwnerCounts
<1>3. guard' = [guard EXCEPT ![g] = s]
  BY DEF ConstructLocked
<1> HIDE DEF s
<1>4. /\ held' \in [Mutexes -> [Modes -> Int]]
      /\ \A m \in Mutexes, k \in Modes :
           held'[m][k] = held[m][k] + (IF m = n /\ k = Mode(g) THEN 1 ELSE 0)
  BY ModeType, Acquired DEF ConstructLocked
<1>5. loose' \in [Mutexes -> [Modes -> 0 .. MaxLoose]]
  BY DEF IInv, TypeOK, ConstructLocked
<1>6. ASSUME NEW m \in Mutexes, NEW k \in Modes
      PROVE  held'[m][k] = Cardinality(Owning(guard', m, k)) + loose'[m][k] + Carries(transfer', m, k)
  <2>1. Counts(g, guard[g], m, k) = 0
    BY NotOwning DEF ConstructLocked
  <2>2. Cardinality(Owning(guard', m, k)) =
          Cardinality(Owning(guard, m, k)) - Counts(g, guard[g], m, k) + Counts(g, s, m, k)
    BY <1>3, OneChanged
  <2>3. ExactAt(m, k) /\ Counts(g, s, m, k) \in {0, 1}
    BY <1>2, Exact
  <2>4. held'[m][k] = held[m][k] + Counts(g, s, m, k)
    BY <1>2, <1>4
  <2>5. loose'[m][k] = loose[m][k] /\ transfer' = transfer
    BY DEF ConstructLocked
  <2>6. QED
    BY <2>1, <2>2, <2>3, <2>4, <2>5 DEF ExactAt
<1>7. OwnershipExact' /\ held' \in [Mutexes -> [Modes -> Nat]]
  BY <1>4, <1>5, <1>6, Establish
<1>8. TypeOK'
  BY <1>1, <1>3, <1>5, <1>7 DEF IInv, TypeOK, ConstructLocked
<1>9. TransferInv'
  BY DEF IInv, TransferInv, ConstructLocked
<1>10. QED
  BY <1>7, <1>8, <1>9 DEF IInv

LEMMA AdoptKeeps ==
    ASSUME IInv, NEW g \in Guards, NEW n \in Mutexes, Adopt(g, n)
    PROVE  IInv'
<1> DEFINE s == [m |-> n, owns |-> TRUE]
<1>1. s \in LockStates /\ s.m # Null
  BY NullAssumption DEF LockStates
<1>2. \A m \in Mutexes : \A k : Counts(g, s, m, k) = IF m = n /\ k = Mode(g) THEN 1 ELSE 0
  BY OwnerCounts
<1>3. guard' = [guard EXCEPT ![g] = s]
  BY DEF Adopt
<1> HIDE DEF s
<1>4. /\ loose' \in [Mutexes -> [Modes -> 0 .. MaxLoose]]
      /\ \A m \in Mutexes, k \in Modes :
           loose'[m][k] = loose[m][k] - (IF m = n /\ k = Mode(g) THEN 1 ELSE 0)
  BY ModeType, BoundAssumption DEF IInv, TypeOK, Adopt
<1>5. held' \in [Mutexes -> [Modes -> Int]]
  BY DEF IInv, TypeOK, Adopt
<1>6. ASSUME NEW m \in Mutexes, NEW k \in Modes
      PROVE  held'[m][k] = Cardinality(Owning(guard', m, k)) + loose'[m][k] + Carries(transfer', m, k)
  <2>1. Counts(g, guard[g], m, k) = 0
    BY NotOwning DEF Adopt
  <2>2. Cardinality(Owning(guard', m, k)) =
          Cardinality(Owning(guard, m, k)) - Counts(g, guard[g], m, k) + Counts(g, s, m, k)
    BY <1>3, OneChanged
  <2>3. ExactAt(m, k) /\ Counts(g, s, m, k) \in {0, 1}
    BY <1>2, Exact
  <2>4. loose'[m][k] = loose[m][k] - Counts(g, s, m, k)
    BY <1>2, <1>4
  <2>5. held'[m][k] = held[m][k] /\ transfer' = transfer
    BY DEF Adopt
  <2>6. QED
    BY <2>1, <2>2, <2>3, <2>4, <2>5 DEF ExactAt
<1>7. OwnershipExact' /\ held' \in [Mutexes -> [Modes -> Nat]]
  BY <1>4, <1>5, <1>6, Establish
<1>8. TypeOK'
  <2>1. guard' \in [Guards -> LockStates] /\ alive' \subseteq Guards
    BY <1>1, <1>3 DEF IInv, TypeOK, Adopt
  <2>2. \A h \in Guards : guard'[h].owns => h \in alive' /\ guard'[h].m # Null
    BY <1>1, <1>3 DEF IInv, TypeOK, Adopt
  <2>3. transfer' = transfer
    BY DEF Adopt
  <2>4. QED
    BY <1>4, <1>7, <2>1, <2>2, <2>3 DEF IInv, TypeOK
<1>9. TransferInv'
  BY DEF IInv, TransferInv, Adopt
<1>10. QED
  BY <1>7, <1>8, <1>9 DEF IInv

LEMMA DestroyKeeps ==
    ASSUME IInv, NEW g \in Guards, Destroy(g)
    PROVE  IInv'
<1>1. guard' = [guard EXCEPT ![g] = Empty] /\ Empty \in LockStates /\ ~Empty.owns
  BY DEF Destroy, Empty, LockStates
<1>2. /\ held' \in [Mutexes -> [Modes -> Int]]
      /\ \A m \in Mutexes, k \in Modes : held'[m][k] = held[m][k] - Counts(g, guard[g], m, k)
  BY UnlockedIfOwned DEF Destroy
<1>3. loose' \in [Mutexes -> [Modes -> 0 .. MaxLoose]]
  BY DEF IInv, TypeOK, Destroy
<1>4. ASSUME NEW m \in Mutexes, NEW k \in Modes
      PROVE  held'[m][k] = Cardinality(Owning(guard', m, k)) + loose'[m][k] + Carries(transfer', m, k)
  <2>1. Cardinality(Owning(guard', m, k)) =
          Cardinality(Owning(guard, m, k)) - Counts(g, guard[g], m, k) + Counts(g, Empty, m, k)
    BY <1>1, OneChanged
  <2>2. ExactAt(m, k) /\ Counts(g, Empty, m, k) = 0 /\ Counts(g, guard[g], m, k) \in {0, 1}
    BY NotOwning, Exact
  <2>3. held'[m][k] = held[m][k] - Counts(g, guard[g], m, k)
    BY <1>2
  <2>4. loose'[m][k] = loose[m][k] /\ transfer' = transfer
    BY DEF Destroy
  <2>5. QED
    BY <2>1, <2>2, <2>3, <2>4 DEF ExactAt
<1>5. OwnershipExact' /\ held' \in [Mutexes -> [Modes -> Nat]]
  BY <1>2, <1>3, <1>4, Establish
<1>6. TypeOK'
  BY <1>1, <1>3, <1>5 DEF IInv, TypeOK, Destroy
<1>7. TransferInv'
  BY DEF IInv, TransferInv, Destroy
<1>8. QED
  BY <1>5, <1>6, <1>7 DEF IInv

\* Two lock objects of one type count alike.
LEMMA SameModeCounts ==
    ASSUME NEW g \in Guards, NEW h \in Guards, Mode(g) = Mode(h), NEW s, NEW m, NEW k
    PROVE  Counts(g, s, m, k) = Counts(h, s, m, k)
BY DEF Counts

\* When one lock object takes over from another the states keep their types.
LEMMA TakenOverTypes ==
    ASSUME IInv, NEW g \in Guards, NEW h \in Guards,
           guard' = [guard EXCEPT ![g] = guard[h], ![h] = Empty],
           alive \cup {g} \subseteq alive'
    PROVE  /\ guard' \in [Guards -> LockStates]
           /\ \A i \in Guards : guard'[i].owns => i \in alive' /\ guard'[i].m # Null
<1>1. Empty \in LockStates /\ ~Empty.owns
  BY DEF Empty, LockStates
<1>2. /\ guard \in [Guards -> LockStates]
      /\ \A i \in Guards : guard[i].owns => i \in alive /\ guard[i].m # Null
  BY DEF IInv, TypeOK
<1>3. QED
  BY <1>1, <1>2

LEMMA MoveConstructKeeps ==
    ASSUME IInv, NEW g \in Guards, NEW h \in Guards, MoveConstruct(g, h)
    PROVE  IInv'
<1>1. guard' = [guard EXCEPT ![g] = guard[h], ![h] = Empty] /\ alive' = alive \cup {g}
  BY DEF MoveConstruct
<1>2. /\ guard' \in [Guards -> LockStates]
      /\ \A i \in Guards : guard'[i].owns => i \in alive' /\ guard'[i].m # Null
  BY <1>1, TakenOverTypes
<1>3. TypeOK'
  BY <1>1, <1>2 DEF IInv, TypeOK, MoveConstruct
<1>4. TransferInv'
  BY DEF IInv, TransferInv, MoveConstruct
<1>5. ASSUME NEW m \in Mutexes, NEW k \in Modes
      PROVE  held'[m][k] = Cardinality(Owning(guard', m, k)) + loose'[m][k] + Carries(transfer', m, k)
  <2>1. Cardinality(Owning(guard', m, k)) =
          Cardinality(Owning(guard, m, k)) - Counts(g, guard[g], m, k)
            + Counts(g, guard[h], m, k) - Counts(h, guard[h], m, k)
    BY <1>1, TakenOver
  <2>2. Counts(g, guard[g], m, k) = 0 /\ Counts(h, guard[h], m, k) \in {0, 1}
    BY NotOwning DEF MoveConstruct
  <2>3. Counts(g, guard[h], m, k) = Counts(h, guard[h], m, k)
    BY SameModeCounts DEF MoveConstruct
  <2>4. ExactAt(m, k)
    BY Exact
  <2>5. held'[m][k] = held[m][k] /\ loose'[m][k] = loose[m][k] /\ transfer' = transfer
    BY DEF MoveConstruct
  <2>6. QED
    BY <2>1, <2>2, <2>3, <2>4, <2>5 DEF ExactAt
<1>6. OwnershipExact'
  BY <1>3, <1>5, Establish DEF TypeOK
<1>7. QED
  BY <1>3, <1>4, <1>6 DEF IInv

LEMMA MoveAssignKeeps ==
    ASSUME IInv, NEW g \in Guards, NEW h \in Guards, MoveAssign(g, h)
    PROVE  IInv'
<1>1. guard' = [guard EXCEPT ![g] = guard[h], ![h] = Empty] /\ alive' = alive /\ g \in alive
  BY DEF MoveAssign
<1>2. /\ guard' \in [Guards -> LockStates]
      /\ \A i \in Guards : guard'[i].owns => i \in alive' /\ guard'[i].m # Null
  BY <1>1, TakenOverTypes, ZenonT(40)
<1>3. /\ held' \in [Mutexes -> [Modes -> Int]]
      /\ \A m \in Mutexes, k \in Modes : held'[m][k] = held[m][k] - Counts(g, guard[g], m, k)
  BY UnlockedIfOwned DEF MoveAssign
<1>4. loose' \in [Mutexes -> [Modes -> 0 .. MaxLoose]]
  BY DEF IInv, TypeOK, MoveAssign
<1>5. ASSUME NEW m \in Mutexes, NEW k \in Modes
      PROVE  held'[m][k] = Cardinality(Owning(guard', m, k)) + loose'[m][k] + Carries(transfer', m, k)
  <2>1. Cardinality(Owning(guard', m, k)) =
          Cardinality(Owning(guard, m, k)) - Counts(g, guard[g], m, k)
            + Counts(g, guard[h], m, k) - Counts(h, guard[h], m, k)
    BY <1>1, TakenOver
  <2>2. Counts(g, guard[g], m, k) \in {0, 1} /\ Counts(h, guard[h], m, k) \in {0, 1}
    BY NotOwning
  <2>3. Counts(g, guard[h], m, k) = Counts(h, guard[h], m, k)
    BY SameModeCounts DEF MoveAssign
  <2>4. ExactAt(m, k)
    BY Exact
  <2>5. held'[m][k] = held[m][k] - Counts(g, guard[g], m, k)
    BY <1>3
  <2>6. loose'[m][k] = loose[m][k] /\ transfer' = transfer
    BY DEF MoveAssign
  <2>7. QED
    BY <2>1, <2>2, <2>3, <2>4, <2>5, <2>6 DEF ExactAt
<1>6. OwnershipExact' /\ held' \in [Mutexes -> [Modes -> Nat]]
  BY <1>3, <1>4, <1>5, Establish
<1>7. TypeOK'
  BY <1>1, <1>2, <1>4, <1>6 DEF IInv, TypeOK, MoveAssign
<1>8. TransferInv'
  BY DEF IInv, TransferInv, MoveAssign
<1>9. QED
  BY <1>6, <1>7, <1>8 DEF IInv

LEMMA ConvertKeeps ==
    ASSUME IInv, NEW g \in Guards, NEW h \in Guards, Convert(g, h)
    PROVE  IInv'
<1>1. guard' = [guard EXCEPT ![g] = guard[h], ![h] = Empty] /\ alive' = alive \cup {g}
  BY DEF Convert
<1>2. /\ guard' \in [Guards -> LockStates]
      /\ \A i \in Guards : guard'[i].owns => i \in alive' /\ guard'[i].m # Null
  BY <1>1, TakenOverTypes
<1>3. guard[h] \in LockStates /\ (guard[h].owns => guard[h].m \in Mutexes)
  BY DEF IInv, TypeOK, LockStates
<1>4. Mode(h) # Mode(g)
  BY DEF Convert, Conversions, TryConversions
<1>5. /\ held' \in [Mutexes -> [Modes -> Int]]
      /\ \A m \in Mutexes, k \in Modes :
           held'[m][k] = held[m][k] - Counts(h, guard[h], m, k) + Counts(g, guard[h], m, k)
  <2>1. CASE guard[h].owns
    <3>1. Change(guard[h].m, Mode(h), Mode(g))
      BY <2>1 DEF Convert
    <3>2. /\ held' \in [Mutexes -> [Modes -> Int]]
          /\ \A m \in Mutexes, k \in Modes :
               held'[m][k] = held[m][k] - (IF m = guard[h].m /\ k = Mode(h) THEN 1 ELSE 0)
                                        + (IF m = guard[h].m /\ k = Mode(g) THEN 1 ELSE 0)
      BY <1>3, <1>4, <2>1, <3>1, Changed, ModeType
    <3>3. \A i \in Guards, m \in Mutexes, k \in Modes :
            Counts(i, guard[h], m, k) = IF m = guard[h].m /\ k = Mode(i) THEN 1 ELSE 0
      BY <1>3, <2>1, CountsIs
    <3>4. QED
      BY <3>2, <3>3
  <2>2. CASE ~guard[h].owns
    <3>1. held' = held
      BY <2>2 DEF Convert
    <3>2. \A i \in Guards, m \in Mutexes, k \in Modes : Counts(i, guard[h], m, k) = 0
      BY <1>3, <2>2, CountsIs
    <3>3. held \in [Mutexes -> [Modes -> Nat]]
      BY DEF IInv, TypeOK
    <3>4. QED
      BY <3>1, <3>2, <3>3
  <2>3. QED
    BY <2>1, <2>2
<1>6. loose' \in [Mutexes -> [Modes -> 0 .. MaxLoose]]
  BY DEF IInv, TypeOK, Convert
<1>7. ASSUME NEW m \in Mutexes, NEW k \in Modes
      PROVE  held'[m][k] = Cardinality(Owning(guard', m, k)) + loose'[m][k] + Carries(transfer', m, k)
  <2>1. Cardinality(Owning(guard', m, k)) =
          Cardinality(Owning(guard, m, k)) - Counts(g, guard[g], m, k)
            + Counts(g, guard[h], m, k) - Counts(h, guard[h], m, k)
    BY <1>1, TakenOver
  <2>2. Counts(g, guard[g], m, k) = 0
    BY NotOwning DEF Convert
  <2>3. Counts(g, guard[h], m, k) \in {0, 1} /\ Counts(h, guard[h], m, k) \in {0, 1}
    BY DEF Counts
  <2>4. ExactAt(m, k)
    BY Exact
  <2>5. held'[m][k] = held[m][k] - Counts(h, guard[h], m, k) + Counts(g, guard[h], m, k)
    BY <1>5
  <2>6. loose'[m][k] = loose[m][k] /\ transfer' = transfer
    BY DEF Convert
  <2>7. QED
    BY <2>1, <2>2, <2>3, <2>4, <2>5, <2>6 DEF ExactAt
<1>8. OwnershipExact' /\ held' \in [Mutexes -> [Modes -> Nat]]
  BY <1>5, <1>6, <1>7, Establish
<1>9. TypeOK'
  BY <1>1, <1>2, <1>6, <1>8 DEF IInv, TypeOK, Convert
<1>10. TransferInv'
  BY DEF IInv, TransferInv, Convert
<1>11. QED
  BY <1>8, <1>9, <1>10 DEF IInv

LEMMA ConvertFailsKeeps ==
    ASSUME IInv, NEW g \in Guards, NEW h \in Guards, ConvertFails(g, h)
    PROVE  IInv'
<1>1. TypeOK' /\ TransferInv'
  BY DEF IInv, TypeOK, TransferInv, ConvertFails
<1>2. OwnershipExact'
  BY DEF IInv, OwnershipExact, Owners, ConvertFails
<1>3. QED
  BY <1>1, <1>2 DEF IInv

LEMMA LockKeeps ==
    ASSUME IInv, NEW g \in Guards, Lock(g)
    PROVE  IInv'
<1> DEFINE n == guard[g].m
           s == [guard[g] EXCEPT !.owns = TRUE]
<1>1. guard[g] \in LockStates /\ n \in Mutexes /\ ~guard[g].owns /\ g \in alive
  BY DEF IInv, TypeOK, LockStates, Lock
<1>2. s \in LockStates /\ s.owns /\ s.m = n /\ n # Null
  BY <1>1, NullAssumption DEF LockStates
<1>3. guard' = [guard EXCEPT ![g] = s]
  BY DEF Lock
<1>4. Acquire(n, Mode(g))
  BY DEF Lock
<1> HIDE DEF s, n
<1>5. /\ held' \in [Mutexes -> [Modes -> Int]]
      /\ \A m \in Mutexes, k \in Modes :
           held'[m][k] = held[m][k] + (IF m = n /\ k = Mode(g) THEN 1 ELSE 0)
  BY <1>1, <1>4, Acquired, ModeType
<1>6. loose' \in [Mutexes -> [Modes -> 0 .. MaxLoose]]
  BY DEF IInv, TypeOK, Lock
<1>7. ASSUME NEW m \in Mutexes, NEW k \in Modes
      PROVE  held'[m][k] = Cardinality(Owning(guard', m, k)) + loose'[m][k] + Carries(transfer', m, k)
  <2>1. Cardinality(Owning(guard', m, k)) =
          Cardinality(Owning(guard, m, k)) - Counts(g, guard[g], m, k) + Counts(g, s, m, k)
    BY <1>3, OneChanged
  <2>2. Counts(g, guard[g], m, k) = 0 /\ ExactAt(m, k)
    BY <1>1, NotOwning, Exact
  <2>3. Counts(g, s, m, k) = IF m = n /\ k = Mode(g) THEN 1 ELSE 0
    BY <1>2, CountsIs
  <2>4. held'[m][k] = held[m][k] + Counts(g, s, m, k) /\ Counts(g, s, m, k) \in {0, 1}
    BY <1>5, <2>3
  <2>5. loose'[m][k] = loose[m][k] /\ transfer' = transfer
    BY DEF Lock
  <2>6. QED
    BY <2>1, <2>2, <2>4, <2>5 DEF ExactAt
<1>8. OwnershipExact' /\ held' \in [Mutexes -> [Modes -> Nat]]
  BY <1>5, <1>6, <1>7, Establish
<1>9. TypeOK'
  BY <1>1, <1>2, <1>3, <1>6, <1>8 DEF IInv, TypeOK, Lock
<1>10. TransferInv'
  BY DEF IInv, TransferInv, Lock
<1>11. QED
  BY <1>8, <1>9, <1>10 DEF IInv

LEMMA UnlockKeeps ==
    ASSUME IInv, NEW g \in Guards, Unlock(g)
    PROVE  IInv'
<1> DEFINE s == [guard[g] EXCEPT !.owns = FALSE]
<1>1. guard[g] \in LockStates /\ guard[g].owns
  BY DEF IInv, TypeOK, Unlock
<1>2. s \in LockStates /\ ~s.owns
  BY <1>1 DEF LockStates
<1>3. guard' = [guard EXCEPT ![g] = s]
  BY DEF Unlock
<1>4. UnlockIfOwned(g)
  BY <1>1 DEF Unlock, UnlockIfOwned
<1> HIDE DEF s
<1>5. /\ held' \in [Mutexes -> [Modes -> Int]]
      /\ \A m \in Mutexes, k \in Modes : held'[m][k] = held[m][k] - Counts(g, guard[g], m, k)
  BY <1>4, UnlockedIfOwned
<1>6. loose' \in [Mutexes -> [Modes -> 0 .. MaxLoose]]
  BY DEF IInv, TypeOK, Unlock
<1>7. ASSUME NEW m \in Mutexes, NEW k \in Modes
      PROVE  held'[m][k] = Cardinality(Owning(guard', m, k)) + loose'[m][k] + Carries(transfer', m, k)
  <2>1. Cardinality(Owning(guard', m, k)) =
          Cardinality(Owning(guard, m, k)) - Counts(g, guard[g], m, k) + Counts(g, s, m, k)
    BY <1>3, OneChanged
  <2>2. Counts(g, s, m, k) = 0 /\ Counts(g, guard[g], m, k) \in {0, 1} /\ ExactAt(m, k)
    BY <1>2, CountsIs, NotOwning, Exact
  <2>3. held'[m][k] = held[m][k] - Counts(g, guard[g], m, k)
    BY <1>5
  <2>4. loose'[m][k] = loose[m][k] /\ transfer' = transfer
    BY DEF Unlock
  <2>5. QED
    BY <2>1, <2>2, <2>3, <2>4 DEF ExactAt
<1>8. OwnershipExact' /\ held' \in [Mutexes -> [Modes -> Nat]]
  BY <1>5, <1>6, <1>7, Establish
<1>9. TypeOK'
  BY <1>2, <1>3, <1>6, <1>8 DEF IInv, TypeOK, Unlock
<1>10. TransferInv'
  BY DEF IInv, TransferInv, Unlock
<1>11. QED
  BY <1>8, <1>9, <1>10 DEF IInv

LEMMA ReleaseKeeps ==
    ASSUME IInv, NEW g \in Guards, Release(g)
    PROVE  IInv'
<1>1. guard[g] \in LockStates /\ (guard[g].owns => guard[g].m \in Mutexes)
  BY DEF IInv, TypeOK, LockStates
<1>2. guard' = [guard EXCEPT ![g] = Empty] /\ Empty \in LockStates /\ ~Empty.owns
  BY DEF Release, Empty, LockStates
<1>3. /\ loose' \in [Mutexes -> [Modes -> 0 .. MaxLoose]]
      /\ \A m \in Mutexes, k \in Modes : loose'[m][k] = loose[m][k] + Counts(g, guard[g], m, k)
  <2>1. \A m \in Mutexes, k \in Modes :
          Counts(g, guard[g], m, k) = IF guard[g].owns /\ guard[g].m = m /\ Mode(g) = k THEN 1 ELSE 0
    BY <1>1, CountsIs
  <2>2. loose \in [Mutexes -> [Modes -> 0 .. MaxLoose]] /\ Mode(g) \in Modes
    BY ModeType DEF IInv, TypeOK
  <2>3. CASE guard[g].owns
    BY <1>1, <2>1, <2>2, <2>3, BoundAssumption DEF Release
  <2>4. CASE ~guard[g].owns
    <3>1. loose' = loose
      BY <2>4 DEF Release
    <3>2. \A m \in Mutexes, k \in Modes : Counts(g, guard[g], m, k) = 0
      BY <2>1, <2>4
    <3>3. QED
      BY <2>2, <3>1, <3>2, BoundAssumption
  <2>5. QED
    BY <2>3, <2>4
<1>4. ASSUME NEW m \in Mutexes, NEW k \in Modes
      PROVE  held'[m][k] = Cardinality(Owning(guard', m, k)) + loose'[m][k] + Carries(transfer', m, k)
  <2>1. Cardinality(Owning(guard', m, k)) =
          Cardinality(Owning(guard, m, k)) - Counts(g, guard[g], m, k) + Counts(g, Empty, m, k)
    BY <1>2, OneChanged
  <2>2. Counts(g, Empty, m, k) = 0 /\ Counts(g, guard[g], m, k) \in {0, 1} /\ ExactAt(m, k)
    BY NotOwning, Exact
  <2>3. loose'[m][k] = loose[m][k] + Counts(g, guard[g], m, k)
    BY <1>3
  <2>4. held'[m][k] = held[m][k] /\ transfer' = transfer
    BY DEF Release
  <2>5. QED
    BY <2>1, <2>2, <2>3, <2>4 DEF ExactAt
<1>5. held' \in [Mutexes -> [Modes -> Int]]
  BY DEF IInv, TypeOK, Release
<1>6. OwnershipExact' /\ held' \in [Mutexes -> [Modes -> Nat]]
  BY <1>3, <1>4, <1>5, Establish
<1>7. TypeOK'
  BY <1>2, <1>3, <1>6 DEF IInv, TypeOK, Release
<1>8. TransferInv'
  BY DEF IInv, TransferInv, Release
<1>9. QED
  BY <1>6, <1>7, <1>8 DEF IInv

LEMMA SwapKeeps ==
    ASSUME IInv, NEW g \in Guards, NEW h \in Guards, Swap(g, h)
    PROVE  IInv'
<1> DEFINE s == guard[h]
           r == guard[g]
           x == [guard EXCEPT ![g] = s]
<1>1. guard \in [Guards -> LockStates] /\ {g, h} \subseteq alive /\ Mode(g) = Mode(h)
  BY DEF IInv, TypeOK, Swap
<1>2. x = [i \in Guards |-> x[i]] /\ x[h] = s
  BY <1>1
<1>3. guard' = [x EXCEPT ![h] = r]
  BY <1>1 DEF Swap
<1>4. TypeOK'
  BY <1>1 DEF IInv, TypeOK, Swap
<1>5. TransferInv'
  BY DEF IInv, TransferInv, Swap
<1> HIDE DEF x
<1>6. ASSUME NEW m \in Mutexes, NEW k \in Modes
      PROVE  held'[m][k] = Cardinality(Owning(guard', m, k)) + loose'[m][k] + Carries(transfer', m, k)
  <2>1. Cardinality(Owning(x, m, k)) =
          Cardinality(Owning(guard, m, k)) - Counts(g, r, m, k) + Counts(g, s, m, k)
    <3>1. guard = [i \in Guards |-> guard[i]]
      BY <1>1
    <3> HIDE DEF s
    <3>2. Cardinality(Owning([guard EXCEPT ![g] = s], m, k)) =
            Cardinality(Owning(guard, m, k)) - Counts(g, guard[g], m, k) + Counts(g, s, m, k)
      BY <3>1, Recount
    <3>3. QED
      BY <3>2 DEF x
  <2>2. Cardinality(Owning(guard', m, k)) =
          Cardinality(Owning(x, m, k)) - Counts(h, s, m, k) + Counts(h, r, m, k)
    <3> HIDE DEF s, r
    <3>1. Cardinality(Owning([x EXCEPT ![h] = r], m, k)) =
            Cardinality(Owning(x, m, k)) - Counts(h, x[h], m, k) + Counts(h, r, m, k)
      BY <1>2, Recount
    <3>2. QED
      BY <1>2, <1>3, <3>1
  <2>3. Counts(g, s, m, k) = Counts(h, s, m, k) /\ Counts(g, r, m, k) = Counts(h, r, m, k)
    BY <1>1, SameModeCounts
  <2>4. Counts(g, s, m, k) \in {0, 1} /\ Counts(g, r, m, k) \in {0, 1}
    BY DEF Counts
  <2>5. ExactAt(m, k)
    BY Exact
  <2>6. held'[m][k] = held[m][k] /\ loose'[m][k] = loose[m][k] /\ transfer' = transfer
    BY DEF Swap
  <2> HIDE DEF s, r
  <2>7. QED
    BY <2>1, <2>2, <2>3, <2>4, <2>5, <2>6 DEF ExactAt
<1>7. OwnershipExact'
  BY <1>4, <1>6, Establish DEF TypeOK
<1>8. QED
  BY <1>4, <1>5, <1>7 DEF IInv

LEMMA UnlockLooseKeeps ==
    ASSUME IInv, NEW n \in Mutexes, NEW l \in Modes, UnlockLoose(n, l)
    PROVE  IInv'
<1>1. /\ held' \in [Mutexes -> [Modes -> Int]]
      /\ \A m \in Mutexes, k \in Modes :
           held'[m][k] = held[m][k] - (IF m = n /\ k = l THEN 1 ELSE 0)
  BY Surrendered DEF UnlockLoose
<1>2. /\ loose' \in [Mutexes -> [Modes -> 0 .. MaxLoose]]
      /\ \A m \in Mutexes, k \in Modes :
           loose'[m][k] = loose[m][k] - (IF m = n /\ k = l THEN 1 ELSE 0)
  BY BoundAssumption DEF IInv, TypeOK, UnlockLoose
<1>3. ASSUME NEW m \in Mutexes, NEW k \in Modes
      PROVE  held'[m][k] = Cardinality(Owning(guard', m, k)) + loose'[m][k] + Carries(transfer', m, k)
  <2>1. ExactAt(m, k)
    BY Exact
  <2>2. /\ held'[m][k] = held[m][k] - (IF m = n /\ k = l THEN 1 ELSE 0)
        /\ loose'[m][k] = loose[m][k] - (IF m = n /\ k = l THEN 1 ELSE 0)
    BY <1>1, <1>2
  <2>3. guard' = guard /\ transfer' = transfer
    BY DEF UnlockLoose
  <2>4. QED
    BY <2>1, <2>2, <2>3 DEF ExactAt
<1>4. OwnershipExact' /\ held' \in [Mutexes -> [Modes -> Nat]]
  BY <1>1, <1>2, <1>3, Establish
<1>5. TypeOK' /\ TransferInv'
  BY <1>2, <1>4 DEF IInv, TypeOK, TransferInv, UnlockLoose
<1>6. QED
  BY <1>4, <1>5 DEF IInv
-----------------------------------------------------------------------------
\* What a transfer_lock counts for, by its fields.
LEMMA CarriesIs ==
    ASSUME NEW t, t.to \in LockStates, NEW m \in Mutexes, NEW k
    PROVE  Carries(t, m, k) =
             IF t.to.owns /\ t.to.m = m /\ TransferMode(t.from) = k THEN 1 ELSE 0
<1> DEFINE s == t.to
<1> HIDE DEF s
<1>1. s \in LockStates
  BY DEF s
<1>2. s = [m |-> m, owns |-> TRUE] <=> s.owns /\ s.m = m
  BY <1>1 DEF LockStates
<1>3. QED
  BY <1>2 DEF Carries, s

LEMMA NothingCarried ==
    ASSUME NEW m \in Mutexes, NEW k
    PROVE  Carries(NoTransfer, m, k) = 0
BY NullAssumption DEF Carries, NoTransfer, Empty

\* The modes of a lock object that a transfer_lock takes.
LEMMA TwoModes ==
    ASSUME NEW g \in Guards, Mode(g) # "shared"
    PROVE  Mode(g) \in Modes /\ TransferMode(g) \in Modes /\ Mode(g) # TransferMode(g)
<1>1. Mode(g) \in Modes
  BY ModeType
<1>2. QED
  BY <1>1 DEF Modes, TransferMode

LEMMA BeginTransferKeeps ==
    ASSUME IInv, NEW g \in Guards, BeginTransfer(g)
    PROVE  IInv'
<1>1. /\ guard[g] \in LockStates
      /\ guard[g].owns => guard[g].m \in Mutexes /\ g \in alive
  BY DEF IInv, TypeOK, LockStates
<1>2. guard' = [guard EXCEPT ![g] = Empty] /\ Empty \in LockStates /\ ~Empty.owns
  BY DEF BeginTransfer, Empty, LockStates
<1>3. /\ transfer' = [from |-> g, to |-> guard[g]]
      /\ transfer'.to = guard[g] /\ transfer'.from = g
      /\ transfer = NoTransfer /\ g \in alive /\ g # Null
  BY NullAssumption DEF BeginTransfer
<1>4. g \in UpgradeLocks \cup UniqueLocks /\ Mode(g) # "shared"
  BY ModeType DEF BeginTransfer
<1>5. /\ held' \in [Mutexes -> [Modes -> Int]]
      /\ \A m \in Mutexes, k \in Modes :
           held'[m][k] = held[m][k] - Counts(g, guard[g], m, k) + Carries(transfer', m, k)
  <2>1. \A m \in Mutexes, k \in Modes :
          /\ Counts(g, guard[g], m, k) = IF guard[g].owns /\ guard[g].m = m /\ Mode(g) = k THEN 1 ELSE 0
          /\ Carries(transfer', m, k) =
               IF guard[g].owns /\ guard[g].m = m /\ TransferMode(g) = k THEN 1 ELSE 0
    BY <1>1, <1>3, CountsIs, CarriesIs
  <2>2. CASE guard[g].owns
    <3>1. Change(guard[g].m, Mode(g), TransferMode(g))
      BY <2>2 DEF BeginTransfer
    <3>2. /\ held' \in [Mutexes -> [Modes -> Int]]
          /\ \A m \in Mutexes, k \in Modes :
               held'[m][k] = held[m][k] - (IF m = guard[g].m /\ k = Mode(g) THEN 1 ELSE 0)
                                        + (IF m = guard[g].m /\ k = TransferMode(g) THEN 1 ELSE 0)
      BY <1>1, <1>4, <2>2, <3>1, Changed, TwoModes
    <3>3. QED
      BY <2>1, <2>2, <3>2
  <2>3. CASE ~guard[g].owns
    <3>1. held' = held /\ held \in [Mutexes -> [Modes -> Nat]]
      BY <2>3 DEF BeginTransfer, IInv, TypeOK
    <3>2. \A m \in Mutexes, k \in Modes :
            Counts(g, guard[g], m, k) = 0 /\ Carries(transfer', m, k) = 0
      BY <2>1, <2>3
    <3>3. QED
      BY <3>1, <3>2
  <2>4. QED
    BY <2>2, <2>3
<1>6. loose' \in [Mutexes -> [Modes -> 0 .. MaxLoose]]
  BY DEF IInv, TypeOK, BeginTransfer
<1>7. ASSUME NEW m \in Mutexes, NEW k \in Modes
      PROVE  held'[m][k] = Cardinality(Owning(guard', m, k)) + loose'[m][k] + Carries(transfer', m, k)
  <2>1. Cardinality(Owning(guard', m, k)) =
          Cardinality(Owning(guard, m, k)) - Counts(g, guard[g], m, k) + Counts(g, Empty, m, k)
    BY <1>2, OneChanged
  <2>2. Counts(g, Empty, m, k) = 0 /\ Counts(g, guard[g], m, k) \in {0, 1} /\ ExactAt(m, k)
    BY NotOwning, Exact
  <2>3. Carries(transfer, m, k) = 0 /\ Carries(transfer', m, k) \in {0, 1}
    <3>1. Carries(transfer', m, k) \in {0, 1}
      BY DEF Carries
    <3>2. QED
      BY <1>3, <3>1, NothingCarried
  <2>4. held'[m][k] = held[m][k] - Counts(g, guard[g], m, k) + Carries(transfer', m, k)
    BY <1>5
  <2>5. loose'[m][k] = loose[m][k]
    BY DEF BeginTransfer
  <2>6. QED
    BY <2>1, <2>2, <2>3, <2>4, <2>5 DEF ExactAt
<1>8. OwnershipExact' /\ held' \in [Mutexes -> [Modes -> Nat]]
  BY <1>5, <1>6, <1>7, Establish
<1>9. TypeOK'
  <2>1. transfer' \in [from : {Null} \cup UpgradeLocks \cup UniqueLocks, to : LockStates]
    BY <1>1, <1>3, <1>4
  <2>2. alive' = alive
    BY DEF BeginTransfer
  <2>3. QED
    BY <1>2, <1>6, <1>8, <2>1, <2>2 DEF IInv, TypeOK
<1>10. TransferInv'
  <2>1. alive' = alive
    BY DEF BeginTransfer
  <2>2. transfer' # NoTransfer
    BY <1>3 DEF NoTransfer
  <2>3. QED
    BY <1>1, <1>3, <2>1, <2>2 DEF TransferInv
<1>11. QED
  BY <1>8, <1>9, <1>10 DEF IInv

LEMMA EndTransferKeeps ==
    ASSUME IInv, EndTransfer
    PROVE  IInv'
<1> DEFINE g == transfer.from
           to == transfer.to
           back == IF to.owns THEN [held EXCEPT ![to.m][TransferMode(g)] = @ - 1,
                                                ![to.m][Mode(g)] = @ + 1]
                   ELSE held
<1>1. /\ held' = IF guard[g].owns THEN [back EXCEPT ![guard[g].m][Mode(g)] = @ - 1] ELSE back
      /\ guard' = [guard EXCEPT ![g] = to]
      /\ transfer' = NoTransfer /\ transfer # NoTransfer
      /\ alive' = alive /\ loose' = loose
  BY DEF EndTransfer
<1>2. /\ g \in alive /\ g \in Guards /\ g \in UpgradeLocks \cup UniqueLocks
      /\ to \in LockStates /\ (to.owns => to.m \in Mutexes)
  BY <1>1, NullAssumption DEF IInv, TypeOK, TransferInv, LockStates
<1>3. Mode(g) \in Modes /\ TransferMode(g) \in Modes /\ Mode(g) # TransferMode(g)
  BY <1>2, ModeType, TwoModes
<1>4. guard[g] \in LockStates /\ (guard[g].owns => guard[g].m \in Mutexes)
  BY <1>2 DEF IInv, TypeOK, LockStates
<1>5. \A m \in Mutexes, k \in Modes :
        /\ Counts(g, guard[g], m, k) = IF guard[g].owns /\ guard[g].m = m /\ Mode(g) = k THEN 1 ELSE 0
        /\ Counts(g, to, m, k) = IF to.owns /\ to.m = m /\ Mode(g) = k THEN 1 ELSE 0
        /\ Carries(transfer, m, k) = IF to.owns /\ to.m = m /\ TransferMode(g) = k THEN 1 ELSE 0
  BY <1>2, <1>4, CountsIs, CarriesIs
<1>6. held \in [Mutexes -> [Modes -> Nat]]
  BY DEF IInv, TypeOK
<1> HIDE DEF to, g
<1>7. /\ back \in [Mutexes -> [Modes -> Int]]
      /\ \A m \in Mutexes, k \in Modes :
           back[m][k] = held[m][k] - Carries(transfer, m, k) + Counts(g, to, m, k)
  <2>1. CASE to.owns
    <3>1. back \in [Mutexes -> [Modes -> Int]]
      BY <1>2, <1>3, <1>6, <2>1
    <3>2. \A m \in Mutexes, k \in Modes :
            back[m][k] = held[m][k] - (IF m = to.m /\ k = TransferMode(g) THEN 1 ELSE 0)
                                    + (IF m = to.m /\ k = Mode(g) THEN 1 ELSE 0)
      BY <1>2, <1>3, <1>6, <2>1
    <3>3. QED
      BY <1>5, <2>1, <3>1, <3>2
  <2>2. CASE ~to.owns
    <3>1. \A m \in Mutexes, k \in Modes : Carries(transfer, m, k) = 0 /\ Counts(g, to, m, k) = 0
      BY <1>5, <2>2
    <3>2. back = held
      BY <2>2
    <3> HIDE DEF back
    <3>3. \A m \in Mutexes, k \in Modes : held[m][k] \in Int /\ back[m][k] = held[m][k]
      BY <1>6, <3>2
    <3>4. back \in [Mutexes -> [Modes -> Int]]
      BY <1>6, <3>2
    <3>5. QED
      BY <3>1, <3>3, <3>4
  <2>3. QED
    BY <2>1, <2>2
<1> HIDE DEF back
<1>8. /\ held' \in [Mutexes -> [Modes -> Int]]
      /\ \A m \in Mutexes, k \in Modes : held'[m][k] = back[m][k] - Counts(g, guard[g], m, k)
  <2>1. CASE guard[g].owns
    <3>1. held' = [back EXCEPT ![guard[g].m][Mode(g)] = @ - 1]
      BY <1>1, <2>1
    <3>2. held' \in [Mutexes -> [Modes -> Int]]
      BY <1>3, <1>4, <1>7, <2>1, <3>1
    <3>3. \A m \in Mutexes, k \in Modes :
            held'[m][k] = back[m][k] - (IF m = guard[g].m /\ k = Mode(g) THEN 1 ELSE 0)
      BY <1>3, <1>4, <1>7, <2>1, <3>1
    <3>4. QED
      BY <1>5, <2>1, <3>2, <3>3
  <2>2. CASE ~guard[g].owns
    <3>1. \A m \in Mutexes, k \in Modes : Counts(g, guard[g], m, k) = 0
      BY <1>5, <2>2
    <3>2. held' = back
      BY <1>1, <2>2
    <3>3. QED
      BY <1>7, <3>1, <3>2
  <2>3. QED
    BY <2>1, <2>2
<1>9. loose' \in [Mutexes -> [Modes -> 0 .. MaxLoose]]
  BY <1>1 DEF IInv, TypeOK
<1>10. ASSUME NEW m \in Mutexes, NEW k \in Modes
       PROVE  held'[m][k] = Cardinality(Owning(guard', m, k)) + loose'[m][k] + Carries(transfer', m, k)
  <2>1. Cardinality(Owning(guard', m, k)) =
          Cardinality(Owning(guard, m, k)) - Counts(g, guard[g], m, k) + Counts(g, to, m, k)
    BY <1>1, <1>2, OneChanged
  <2>2. /\ Counts(g, guard[g], m, k) \in {0, 1} /\ Counts(g, to, m, k) \in {0, 1}
        /\ Carries(transfer', m, k) = 0
    BY <1>1, NothingCarried DEF Counts
  <2>3. ExactAt(m, k)
    BY Exact
  <2>4. held'[m][k] = back[m][k] - Counts(g, guard[g], m, k)
    BY <1>8
  <2>5. back[m][k] = held[m][k] - Carries(transfer, m, k) + Counts(g, to, m, k)
    BY <1>7
  <2>6. loose'[m][k] = loose[m][k]
    BY <1>1
  <2>7. QED
    BY <2>1, <2>2, <2>3, <2>4, <2>5, <2>6 DEF ExactAt
<1>11. OwnershipExact' /\ held' \in [Mutexes -> [Modes -> Nat]]
  BY <1>8, <1>9, <1>10, Establish
<1>12. TypeOK'
  <2>1. transfer' \in [from : {Null} \cup UpgradeLocks \cup UniqueLocks, to : LockStates]
    BY <1>1 DEF NoTransfer, Empty, LockStates
  <2>2. /\ guard' \in [Guards -> LockStates]
        /\ \A i \in Guards : guard'[i].owns => i \in alive' /\ guard'[i].m # Null
    BY <1>1, <1>2, NullAssumption DEF IInv, TypeOK
  <2>3. QED
    BY <1>1, <1>9, <1>11, <2>1, <2>2 DEF IInv, TypeOK
<1>13. TransferInv'
  BY <1>1 DEF TransferInv, NoTransfer, Empty
<1>14. QED
  BY <1>11, <1>12, <1>13, ZenonT(40) DEF IInv
-----------------------------------------------------------------------------
LEMMA InitEstablishes == Init => IInv
<1> SUFFICES ASSUME Init
             PROVE  IInv
  OBVIOUS
<1>1. TypeOK /\ TransferInv
  BY BoundAssumption DEF Init, TypeOK, TransferInv, NoTransfer, Empty, LockStates
<1>2. ASSUME NEW m \in Mutexes, NEW k \in Modes
      PROVE  held[m][k] = Owners(m, k)
  <2>1. Owning(guard, m, k) = {}
    BY NullAssumption DEF Init, Owning, Empty
  <2>2. Carries(transfer, m, k) = 0 /\ held[m][k] = 0 /\ loose[m][k] = 0
    BY NothingCarried DEF Init
  <2>3. Cardinality(Owning(guard, m, k)) = 0
    BY <2>1, FS_EmptySet
  <2>4. Owners(m, k) = Cardinality(Owning(guard, m, k)) + loose[m][k] + Carries(transfer, m, k)
    BY OwnersAre
  <2>5. QED
    BY <2>2, <2>3, <2>4
<1>3. QED
  BY <1>1, <1>2 DEF IInv, OwnershipExact

\* Every member of every lock object, and everything the program does with what
\* release has left to it, keeps the invariant.
THEOREM Invariance == Spec => []IInv
<1>1. IInv /\ [Next]_vars => IInv'
  <2> SUFFICES ASSUME IInv, [Next]_vars
               PROVE  IInv'
    OBVIOUS
  <2>1. ASSUME NEW g \in Guards, NEW m \in Mutexes \cup {Null}, Construct(g, m)
        PROVE  IInv'
    BY <2>1, ConstructKeeps
  <2>2. ASSUME NEW g \in Guards, NEW m \in Mutexes, ConstructLocked(g, m) \/ Adopt(g, m)
        PROVE  IInv'
    BY <2>2, ConstructLockedKeeps, AdoptKeeps
  <2>3. ASSUME NEW g \in Guards,
               Destroy(g) \/ Lock(g) \/ Unlock(g) \/ Release(g) \/ BeginTransfer(g)
        PROVE  IInv'
    BY <2>3, DestroyKeeps, LockKeeps, UnlockKeeps, ReleaseKeeps, BeginTransferKeeps
  <2>4. ASSUME NEW g \in Guards, NEW h \in Guards,
               \/ MoveConstruct(g, h) \/ MoveAssign(g, h) \/ Swap(g, h)
               \/ Convert(g, h) \/ ConvertFails(g, h)
        PROVE  IInv'
    BY <2>4, MoveConstructKeeps, MoveAssignKeeps, SwapKeeps, ConvertKeeps, ConvertFailsKeeps
  <2>5. ASSUME NEW m \in Mutexes, NEW k \in Modes, UnlockLoose(m, k)
        PROVE  IInv'
    BY <2>5, UnlockLooseKeeps
  <2>6. CASE UNCHANGED vars
    <3>1. TypeOK' /\ TransferInv'
      BY <2>6 DEF IInv, TypeOK, TransferInv, vars
    <3>2. OwnershipExact'
      BY <2>6 DEF IInv, OwnershipExact, Owners, vars
    <3>3. QED
      BY <3>1, <3>2 DEF IInv
  <2>7. QED
    BY <2>1, <2>2, <2>3, <2>4, <2>5, <2>6, EndTransferKeeps DEF Next
<1>2. QED
  BY <1>1, InitEstablishes, PTL DEF Spec

\* Every variable keeps its type: no mutex is unlocked more often than it was
\* locked, and no lock object owns a mutex that it does not point to.
THEOREM TypeCorrect == Spec => []TypeOK
<1>1. IInv => TypeOK
  BY DEF IInv
<1>2. QED
  BY <1>1, Invariance, PTL

\* After any members of any lock objects, in any order, every ownership of every
\* mutex belongs to exactly one of those who can give it back.
THEOREM EveryOwnershipHasOneOwner == Spec => []OwnershipExact
<1>1. IInv => OwnershipExact
  BY DEF IInv
<1>2. QED
  BY <1>1, Invariance, PTL
-----------------------------------------------------------------------------
\* What x says of the owners of every mutex is what it may grant at one time.
Compatible(x) == \A m \in Mutexes :
    /\ x[m]["unique"] + x[m]["upgrade"] <= 1
    /\ x[m]["unique"] = 1 => x[m]["shared"] = 0

\* Two lock objects that own one mutex: one of them is shared, and none unique.
GuardsExclude == \A g, h \in Guards :
    g # h /\ guard[g].owns /\ guard[h].owns /\ guard[g].m = guard[h].m =>
        "shared" \in {Mode(g), Mode(h)} /\ "unique" \notin {Mode(g), Mode(h)}

LEMMA FewerCompatible ==
    ASSUME NEW x \in [Mutexes -> [Modes -> Nat]], NEW y \in [Mutexes -> [Modes -> Nat]],
           Compatible(x), \A m \in Mutexes, k \in Modes : y[m][k] <= x[m][k]
    PROVE  Compatible(y)
<1>1. ASSUME NEW m \in Mutexes
      PROVE  /\ y[m]["unique"] + y[m]["upgrade"] <= 1
             /\ y[m]["unique"] = 1 => y[m]["shared"] = 0
  <2> DEFINE X == x[m]
             Y == y[m]
  <2>1. "unique" \in Modes /\ "upgrade" \in Modes /\ "shared" \in Modes
    BY DEF Modes
  <2>2. \A k \in Modes : X[k] \in Nat /\ Y[k] \in Nat /\ Y[k] <= X[k]
    OBVIOUS
  <2>3. X["unique"] + X["upgrade"] <= 1 /\ (X["unique"] = 1 => X["shared"] = 0)
    BY DEF Compatible
  <2> HIDE DEF X, Y
  <2>4. /\ X["unique"] \in Nat /\ Y["unique"] \in Nat /\ Y["unique"] <= X["unique"]
        /\ X["upgrade"] \in Nat /\ Y["upgrade"] \in Nat /\ Y["upgrade"] <= X["upgrade"]
        /\ X["shared"] \in Nat /\ Y["shared"] \in Nat /\ Y["shared"] <= X["shared"]
    BY <2>1, <2>2
  <2>5. Y["unique"] + Y["upgrade"] <= 1
    BY <2>3, <2>4
  <2>6. Y["unique"] = 1 => Y["shared"] = 0
    <3>1. SUFFICES ASSUME Y["unique"] = 1
                   PROVE  Y["shared"] = 0
      OBVIOUS
    <3>2. X["unique"] = 1
      <4> DEFINE a == X["unique"]
                 b == X["upgrade"]
      <4>1. a \in Nat /\ b \in Nat /\ a + b <= 1 /\ 1 <= a
        BY <2>3, <2>4, <3>1
      <4> HIDE DEF a, b
      <4>2. a = 1
        BY <4>1
      <4>3. QED
        BY <4>2 DEF a
    <3>3. X["shared"] = 0
      BY <2>3, <3>2
    <3>4. QED
      BY <2>4, <3>3
  <2>7. QED
    BY <2>5, <2>6 DEF Y
<1>2. QED
  BY <1>1 DEF Compatible

LEMMA AcquireCompatible ==
    ASSUME held \in [Mutexes -> [Modes -> Nat]], Compatible(held),
           NEW n \in Mutexes, NEW l \in Modes, CanLock(n, l), Acquire(n, l)
    PROVE  Compatible(held')
<1>1. \A m \in Mutexes, k \in Modes :
        held'[m][k] = held[m][k] + (IF m = n /\ k = l THEN 1 ELSE 0)
  BY DEF Acquire
<1>2. ASSUME NEW m \in Mutexes
      PROVE  /\ held'[m]["unique"] + held'[m]["upgrade"] <= 1
             /\ held'[m]["unique"] = 1 => held'[m]["shared"] = 0
  <2>1. /\ held[m]["unique"] + held[m]["upgrade"] <= 1
        /\ held[m]["unique"] = 1 => held[m]["shared"] = 0
    BY DEF Compatible
  <2>2. "unique" \in Modes /\ "upgrade" \in Modes /\ "shared" \in Modes
    BY DEF Modes
  <2>3. held[m]["unique"] \in Nat /\ held[m]["upgrade"] \in Nat /\ held[m]["shared"] \in Nat
    BY <2>2
  <2>4. CASE m # n
    BY <1>1, <2>1, <2>2, <2>4
  <2>5. CASE m = n
    BY <1>1, <2>1, <2>2, <2>3, <2>5 DEF CanLock, Modes
  <2>6. QED
    BY <2>4, <2>5
<1>3. QED
  BY <1>2 DEF Compatible

LEMMA ChangeCompatible ==
    ASSUME held \in [Mutexes -> [Modes -> Nat]], Compatible(held),
           NEW n \in Mutexes, NEW i \in Modes, NEW j \in Modes, i # j,
           CanChange(n, i, j), held[n][i] >= 1, NEW x,
           \A m \in Mutexes, k \in Modes :
               x[m][k] = held[m][k] - (IF m = n /\ k = i THEN 1 ELSE 0)
                                    + (IF m = n /\ k = j THEN 1 ELSE 0)
    PROVE  Compatible(x) /\ \A m \in Mutexes, k \in Modes : x[m][k] \in Nat
<1>1. "unique" \in Modes /\ "upgrade" \in Modes /\ "shared" \in Modes
  BY DEF Modes
<1>2. ASSUME NEW m \in Mutexes
      PROVE  /\ x[m]["unique"] + x[m]["upgrade"] <= 1
             /\ x[m]["unique"] = 1 => x[m]["shared"] = 0
  <2>1. /\ held[m]["unique"] + held[m]["upgrade"] <= 1
        /\ held[m]["unique"] = 1 => held[m]["shared"] = 0
    BY DEF Compatible
  <2>2. held[m]["unique"] \in Nat /\ held[m]["upgrade"] \in Nat /\ held[m]["shared"] \in Nat
    BY <1>1
  <2>3. CASE m # n
    BY <1>1, <2>1, <2>2, <2>3
  <2>4. CASE m = n
    <3>1. /\ x[m]["unique"] = held[m]["unique"] - (IF "unique" = i THEN 1 ELSE 0)
                                                + (IF "unique" = j THEN 1 ELSE 0)
          /\ x[m]["upgrade"] = held[m]["upgrade"] - (IF "upgrade" = i THEN 1 ELSE 0)
                                                  + (IF "upgrade" = j THEN 1 ELSE 0)
          /\ x[m]["shared"] = held[m]["shared"] - (IF "shared" = i THEN 1 ELSE 0)
                                                + (IF "shared" = j THEN 1 ELSE 0)
      BY <1>1, <2>4
    <3>2. CASE i = "shared"
      BY <2>1, <2>2, <2>4, <3>1, <3>2 DEF CanChange, Modes
    <3>3. CASE i = "upgrade"
      BY <2>1, <2>2, <2>4, <3>1, <3>3 DEF CanChange, Modes
    <3>4. CASE i = "unique"
      BY <2>1, <2>2, <2>4, <3>1, <3>4 DEF CanChange, Modes
    <3>5. QED
      BY <3>2, <3>3, <3>4 DEF Modes
  <2>5. QED
    BY <2>3, <2>4
<1>3. ASSUME NEW m \in Mutexes, NEW k \in Modes
      PROVE  x[m][k] \in Nat
  <2>1. held[m][k] \in Nat
    OBVIOUS
  <2>2. QED
    BY <2>1
<1>4. QED
  BY <1>2, <1>3 DEF Compatible

\* What a lock object owns is counted, and two are counted twice.
LEMMA OwnedIsHeld ==
    ASSUME IInv, NEW g \in Guards, guard[g].owns
    PROVE  /\ guard[g].m \in Mutexes /\ Mode(g) \in Modes
           /\ held[guard[g].m][Mode(g)] >= 1
           /\ \A h \in Guards \ {g} :
                guard[h].owns /\ guard[h].m = guard[g].m /\ Mode(h) = Mode(g) =>
                  held[guard[g].m][Mode(g)] >= 2
<1> DEFINE m == guard[g].m
           k == Mode(g)
           O == Owning(guard, m, k)
<1>1. m \in Mutexes /\ k \in Modes
  BY ModeType DEF IInv, TypeOK, LockStates
<1>2. \A h \in Guards : guard[h].owns /\ guard[h].m = m /\ Mode(h) = k => h \in O
  BY DEF IInv, TypeOK, LockStates, Owning
<1>3. IsFiniteSet(O) /\ Cardinality(O) \in Nat
  BY OwningFinite
<1>4. held[m][k] >= Cardinality(O)
  <2>1. loose[m][k] \in Nat
    BY <1>1, BoundAssumption DEF IInv, TypeOK
  <2>2. ExactAt(m, k)
    BY <1>1, Exact
  <2>3. QED
    BY <2>1, <2>2 DEF ExactAt
<1>5. g \in O
  BY <1>2
<1>6. held[m][k] \in Nat
  BY <1>1 DEF IInv, TypeOK
<1> HIDE DEF O
<1>7. /\ Cardinality(O \ {g}) = Cardinality(O) - 1
      /\ Cardinality(O \ {g}) \in Nat /\ IsFiniteSet(O \ {g})
  BY <1>3, <1>5, FS_RemoveElement, FS_CardinalityType
<1>8. ASSUME NEW h \in Guards \ {g}, guard[h].owns, guard[h].m = m, Mode(h) = k
      PROVE  held[m][k] >= 2
  <2>1. h \in O \ {g}
    BY <1>2, <1>8
  <2>2. Cardinality((O \ {g}) \ {h}) = Cardinality(O \ {g}) - 1
        /\ Cardinality((O \ {g}) \ {h}) \in Nat
    BY <1>7, <2>1, FS_RemoveElement, FS_CardinalityType
  <2>3. QED
    BY <1>3, <1>4, <1>6, <1>7, <2>2
<1>9. held[m][k] >= 1
  BY <1>3, <1>4, <1>6, <1>7
<1>10. QED
  BY <1>1, <1>8, <1>9

\* Changes of mode, and the members that only give back.
LEMMA ChangeStep ==
    ASSUME IInv, Compatible(held), NEW g \in Guards, guard[g].owns, NEW l \in Modes,
           l # Mode(g), CanChange(guard[g].m, Mode(g), l), Change(guard[g].m, Mode(g), l)
    PROVE  Compatible(held')
<1>1. guard[g].m \in Mutexes /\ Mode(g) \in Modes /\ held[guard[g].m][Mode(g)] >= 1
  BY OwnedIsHeld
<1>2. held \in [Mutexes -> [Modes -> Nat]]
  BY DEF IInv, TypeOK
<1> DEFINE n == guard[g].m
           i == Mode(g)
<1> HIDE DEF n, i
<1>3. \A m \in Mutexes, k \in Modes :
        held'[m][k] = held[m][k] - (IF m = n /\ k = i THEN 1 ELSE 0)
                                 + (IF m = n /\ k = l THEN 1 ELSE 0)
  BY <1>1, Changed DEF n, i
<1>4. CanChange(n, i, l) /\ n \in Mutexes /\ i \in Modes /\ held[n][i] >= 1 /\ i # l
  BY <1>1 DEF n, i
<1>5. QED
  BY <1>2, <1>3, <1>4, ChangeCompatible

LEMMA LessStep ==
    ASSUME IInv, IInv', Compatible(held),
           \A m \in Mutexes, k \in Modes : held'[m][k] <= held[m][k]
    PROVE  Compatible(held')
<1>1. held \in [Mutexes -> [Modes -> Nat]] /\ held' \in [Mutexes -> [Modes -> Nat]]
  BY DEF IInv, TypeOK
<1>2. QED
  BY <1>1, FewerCompatible

LEMMA EndTransferCompatible ==
    ASSUME IInv, IInv', Compatible(held), EndTransfer
    PROVE  Compatible(held')
<1> DEFINE g == transfer.from
           to == transfer.to
           back == IF to.owns THEN [held EXCEPT ![to.m][TransferMode(g)] = @ - 1,
                                                ![to.m][Mode(g)] = @ + 1]
                   ELSE held
<1>1. /\ held' = IF guard[g].owns THEN [back EXCEPT ![guard[g].m][Mode(g)] = @ - 1] ELSE back
      /\ to.owns => CanChange(to.m, TransferMode(g), Mode(g))
      /\ transfer # NoTransfer
  BY DEF EndTransfer
<1>2. /\ g \in Guards /\ g \in UpgradeLocks \cup UniqueLocks
      /\ to \in LockStates /\ (to.owns => to.m \in Mutexes)
  BY <1>1, NullAssumption DEF IInv, TypeOK, TransferInv, LockStates
<1>3. Mode(g) \in Modes /\ TransferMode(g) \in Modes /\ Mode(g) # TransferMode(g)
  BY <1>2, ModeType, TwoModes
<1>4. guard[g].owns => guard[g].m \in Mutexes
  BY <1>2 DEF IInv, TypeOK, LockStates
<1>5. held \in [Mutexes -> [Modes -> Nat]] /\ held' \in [Mutexes -> [Modes -> Nat]]
  BY DEF IInv, TypeOK
<1>6. to.owns => held[to.m][TransferMode(g)] >= 1
  <2>1. SUFFICES ASSUME to.owns
                 PROVE  held[to.m][TransferMode(g)] >= 1
    OBVIOUS
  <2>2. Carries(transfer, to.m, TransferMode(g)) = 1
    BY <1>2, <2>1, CarriesIs
  <2>3. loose[to.m][TransferMode(g)] \in Nat
    BY <1>2, <1>3, <2>1, BoundAssumption DEF IInv, TypeOK
  <2>4. ExactAt(to.m, TransferMode(g))
    BY <1>2, <1>3, <2>1, Exact
  <2>5. QED
    BY <2>2, <2>3, <2>4 DEF ExactAt
<1> HIDE DEF g, to
<1>7. Compatible(back) /\ back \in [Mutexes -> [Modes -> Nat]]
  <2>1. CASE to.owns
    <3>1. back \in [Mutexes -> [Modes -> Int]]
      BY <1>2, <1>3, <1>5, <2>1
    <3>2. \A m \in Mutexes, k \in Modes :
            back[m][k] = held[m][k] - (IF m = to.m /\ k = TransferMode(g) THEN 1 ELSE 0)
                                    + (IF m = to.m /\ k = Mode(g) THEN 1 ELSE 0)
      BY <1>2, <1>3, <1>5, <2>1
    <3> HIDE DEF back
    <3>3. Compatible(back) /\ \A m \in Mutexes, k \in Modes : back[m][k] \in Nat
      BY <1>1, <1>2, <1>3, <1>5, <1>6, <2>1, <3>2, ChangeCompatible
    <3>4. QED
      BY <3>1, <3>3
  <2>2. CASE ~to.owns
    BY <1>5, <2>2
  <2>3. QED
    BY <2>1, <2>2
<1> HIDE DEF back
<1>8. \A m \in Mutexes, k \in Modes : held'[m][k] <= back[m][k]
  <2>1. CASE guard[g].owns
    <3>1. held' = [back EXCEPT ![guard[g].m][Mode(g)] = @ - 1]
      BY <1>1, <2>1
    <3>2. \A m \in Mutexes, k \in Modes :
            held'[m][k] = back[m][k] - (IF m = guard[g].m /\ k = Mode(g) THEN 1 ELSE 0)
      BY <1>3, <1>4, <1>7, <2>1, <3>1
    <3>3. \A m \in Mutexes, k \in Modes : back[m][k] \in Nat
      BY <1>7
    <3>4. QED
      BY <3>2, <3>3
  <2>2. CASE ~guard[g].owns
    <3>1. held' = back /\ \A m \in Mutexes, k \in Modes : back[m][k] \in Nat
      BY <1>1, <1>7, <2>2
    <3>2. QED
      BY <3>1
  <2>3. QED
    BY <2>1, <2>2
<1>9. QED
  BY <1>5, <1>7, <1>8, FewerCompatible

LEMMA StepCompatible ==
    ASSUME IInv, IInv', Compatible(held), [Next]_vars
    PROVE  Compatible(held')
<1>1. held \in [Mutexes -> [Modes -> Nat]]
  BY DEF IInv, TypeOK
<1>2. ASSUME held' = held
      PROVE  Compatible(held')
  BY <1>2
<1>3. ASSUME NEW g \in Guards, Destroy(g) \/ \E h \in Guards : MoveAssign(g, h)
      PROVE  Compatible(held')
  <2>1. UnlockIfOwned(g)
    BY <1>3 DEF Destroy, MoveAssign
  <2>2. ASSUME NEW m \in Mutexes, NEW k \in Modes
        PROVE  held'[m][k] <= held[m][k]
    <3>1. held'[m][k] = held[m][k] - Counts(g, guard[g], m, k)
      BY <2>1, UnlockedIfOwned
    <3>2. Counts(g, guard[g], m, k) \in {0, 1} /\ held[m][k] \in Nat
      BY <1>1, NotOwning
    <3>3. QED
      BY <3>1, <3>2
  <2>3. QED
    BY <2>2, LessStep
<1>4. ASSUME NEW n \in Mutexes, NEW l \in Modes, Surrender(n, l)
      PROVE  Compatible(held')
  <2>1. \A m \in Mutexes, k \in Modes :
          held'[m][k] = held[m][k] - (IF m = n /\ k = l THEN 1 ELSE 0)
    BY <1>4, Surrendered
  <2>2. \A m \in Mutexes, k \in Modes : held[m][k] \in Nat
    BY <1>1
  <2>3. \A m \in Mutexes, k \in Modes : held'[m][k] <= held[m][k]
    BY <2>1, <2>2
  <2>4. QED
    BY <2>3, LessStep
<1>5. ASSUME NEW g \in Guards, Unlock(g)
      PROVE  Compatible(held')
  <2>1. guard[g].owns /\ Surrender(guard[g].m, Mode(g))
    BY <1>5 DEF Unlock
  <2>2. QED
    BY <1>4, <2>1, OwnedIsHeld
<1>6. ASSUME NEW m \in Mutexes, NEW k \in Modes, UnlockLoose(m, k)
      PROVE  Compatible(held')
  BY <1>4, <1>6 DEF UnlockLoose
<1>7. ASSUME NEW g \in Guards, NEW m \in Mutexes, ConstructLocked(g, m)
      PROVE  Compatible(held')
  BY <1>1, <1>7, ModeType, AcquireCompatible DEF ConstructLocked
<1>8. ASSUME NEW g \in Guards, Lock(g)
      PROVE  Compatible(held')
  <2>1. guard[g].m \in Mutexes /\ Mode(g) \in Modes
    BY <1>8, ModeType DEF Lock, IInv, TypeOK, LockStates
  <2>2. QED
    BY <1>1, <1>8, <2>1, AcquireCompatible DEF Lock
<1>9. ASSUME NEW g \in Guards, NEW h \in Guards, Convert(g, h)
      PROVE  Compatible(held')
  <2>1. Mode(g) \in Modes /\ Mode(g) # Mode(h)
    BY <1>9, ModeType DEF Convert, Conversions, TryConversions
  <2>2. CASE guard[h].owns
    <3>1. CanChange(guard[h].m, Mode(h), Mode(g)) /\ Change(guard[h].m, Mode(h), Mode(g))
      BY <1>9, <2>2 DEF Convert
    <3>2. QED
      BY <2>1, <2>2, <3>1, ChangeStep
  <2>3. CASE ~guard[h].owns
    BY <1>2, <1>9, <2>3 DEF Convert
  <2>4. QED
    BY <2>2, <2>3
<1>10. ASSUME NEW g \in Guards, BeginTransfer(g)
       PROVE  Compatible(held')
  <2>1. TransferMode(g) \in Modes /\ TransferMode(g) # Mode(g)
    BY <1>10, TwoModes DEF BeginTransfer
  <2>2. CASE guard[g].owns
    <3>1. /\ CanChange(guard[g].m, Mode(g), TransferMode(g))
          /\ Change(guard[g].m, Mode(g), TransferMode(g))
      BY <1>10, <2>2 DEF BeginTransfer
    <3>2. QED
      BY <2>1, <2>2, <3>1, ChangeStep
  <2>3. CASE ~guard[g].owns
    BY <1>2, <1>10, <2>3 DEF BeginTransfer
  <2>4. QED
    BY <2>2, <2>3
<1>11. ASSUME NEW g \in Guards,
              \/ \E m \in Mutexes \cup {Null} : Construct(g, m)
              \/ \E m \in Mutexes : Adopt(g, m)
              \/ Release(g)
              \/ \E h \in Guards : MoveConstruct(g, h) \/ Swap(g, h) \/ ConvertFails(g, h)
       PROVE  Compatible(held')
  BY <1>2, <1>11 DEF Construct, Adopt, Release, MoveConstruct, Swap, ConvertFails
<1>12. CASE UNCHANGED vars
  BY <1>2, <1>12 DEF vars
<1>13. QED
  BY <1>3, <1>5, <1>6, <1>7, <1>8, <1>9, <1>10, <1>11, <1>12, EndTransferCompatible DEF Next

\* What the lock objects are for: as long as one that is unique owns a mutex, no
\* other lock object owns it in any mode, and of two owners one at least is
\* shared, through all moves, conversions and transfers (shared_mutex:682-1211).
THEOREM OwnersExclude == Spec => []GuardsExclude
<1> DEFINE Inv == Compatible(held)
<1>1. Init => Inv
  BY DEF Init, Compatible, Modes
<1>2. IInv /\ IInv' /\ Inv /\ [Next]_vars => Inv'
  <2>1. Inv' <=> Compatible(held')
    BY DEF Compatible
  <2>2. QED
    BY <2>1, StepCompatible
<1>3. IInv /\ Inv => GuardsExclude
  <2> SUFFICES ASSUME IInv, Compatible(held), NEW g \in Guards, NEW h \in Guards, g # h,
                      guard[g].owns, guard[h].owns, guard[g].m = guard[h].m
               PROVE  "shared" \in {Mode(g), Mode(h)} /\ "unique" \notin {Mode(g), Mode(h)}
    BY DEF GuardsExclude
  <2> DEFINE m == guard[g].m
  <2>1. /\ m \in Mutexes /\ Mode(g) \in Modes /\ Mode(h) \in Modes
        /\ held[m][Mode(g)] >= 1 /\ held[m][Mode(h)] >= 1
        /\ Mode(h) = Mode(g) => held[m][Mode(g)] >= 2
    BY OwnedIsHeld
  <2> HIDE DEF m
  <2>2. /\ held[m]["unique"] + held[m]["upgrade"] <= 1
        /\ held[m]["unique"] = 1 => held[m]["shared"] = 0
        /\ held[m]["unique"] \in Nat /\ held[m]["upgrade"] \in Nat /\ held[m]["shared"] \in Nat
    BY <2>1 DEF Compatible, IInv, TypeOK, Modes
  <2>3. QED
    BY <2>1, <2>2 DEF Modes
<1> HIDE DEF Inv
<1>4. QED
  BY <1>1, <1>2, <1>3, Invariance, PTL DEF Spec
=============================================================================
