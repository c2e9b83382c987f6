-------------------------- MODULE SafeAssignProofs --------------------------
(***************************************************************************)
(* Proofs about SafeAssign, for any number of threads, objects and         *)
(* elements, and any assignment of objects to threads; and, at the end,    *)
(* about SharedAssign.                                                     *)
(***************************************************************************)
EXTENDS SafeAssign, TLAPS

\* The mutexes a thread holds are those its place in the assignment says,
\* and it is only in one that it still has to count.
Holds ==
    \A t \in Threads :
        /\ first[t] \in {Target[t], Source[t]}
        /\ pc[t] # "loop" => Target[t] # Source[t] /\ rounds[t] < Rounds
        /\ pc[t] \in {"try", "backOff"} => owner[first[t]] = t
        /\ pc[t] \in {"copy", "unlockRhs", "unlockLhs"} => owner[Target[t]] = t
        /\ pc[t] \in {"copy", "unlockRhs"} => owner[Source[t]] = t

\* What has been copied is the beginning of the source, element for element.
CopiedSoFar ==
    \A t \in Threads :
        /\ copied[t] > 0 => pc[t] = "copy"
        /\ \A j \in 1 .. copied[t] : data[Target[t]][j] = data[Source[t]][1]

IInv == TypeOK /\ Holds /\ CopiedSoFar /\ WholeVectors

\* The constants, as far as the proofs use them.
LEMMA Constants ==
    /\ \A t \in Threads : Target[t] \in Objects /\ Source[t] \in Objects /\ t # Nobody
    /\ Nobody \notin Threads
    /\ Size \in Nat /\ Size >= 1 /\ 1 \in Cells /\ Size \in Cells /\ Rounds \in Nat
  BY TasksAssumption, BoundsAssumption, NobodyAssumption, SMT DEF Cells

\* At the start every vector is whole and no mutex is held.
LEMMA InitIInv == Init => IInv
  <1> SUFFICES ASSUME Init PROVE IInv
    OBVIOUS
  <1>1. TypeOK
    BY Constants, TasksAssumption, SMT DEF Init, TypeOK, Locations
  <1>2. Holds
    BY SMT DEF Init, Holds
  <1>3. CopiedSoFar
    BY SMT DEF Init, CopiedSoFar
  <1>4. WholeVectors
    BY SMT DEF Init, WholeVectors
  <1> QED
    BY <1>1, <1>2, <1>3, <1>4 DEF IInv

\* While a thread copies, nobody else writes the source or the target.
LEMMA SourceStable ==
    ASSUME IInv, NEW t \in Threads, pc[t] = "copy"
    PROVE  /\ \A u \in Threads : ~Writing(u, Source[t])
           /\ \A j \in Cells : data[Source[t]][j] = data[Source[t]][1]
           /\ \A u \in Threads \ {t} :
                pc[u] = "copy" => Target[u] # Target[t] /\ Source[u] # Target[t]
  <1>1. \A u \in Threads : ~Writing(u, Source[t])
    BY Constants, SMT DEF IInv, Holds, Writing
  <1>2. \A j \in Cells : data[Source[t]][j] = data[Source[t]][1]
    BY <1>1, Constants DEF IInv, WholeVectors
  <1>3. \A u \in Threads \ {t} :
            pc[u] = "copy" => Target[u] # Target[t] /\ Source[u] # Target[t]
    BY SMT DEF IInv, Holds
  <1> QED BY <1>1, <1>2, <1>3

\* The steps that write no element and leave nobody in the middle of a copy.
LEMMA QuietStep ==
    ASSUME IInv, NEW t \in Threads, UNCHANGED <<data, copied>>,
           NEW l \in Locations, pc' = [pc EXCEPT ![t] = l], pc[t] # "copy"
    PROVE  CopiedSoFar' /\ WholeVectors'
  <1>1. \A u \in Threads : pc[u] = "copy" => pc'[u] = "copy"
    BY SMT DEF IInv, TypeOK
  <1>2. CopiedSoFar'
    BY <1>1, SMT DEF IInv, CopiedSoFar
  <1>3. WholeVectors'
    BY <1>1, SMT DEF IInv, WholeVectors, Writing
  <1> QED BY <1>2, <1>3

-----------------------------------------------------------------------------
\* What the abstract assignment sees of a state, once IInv holds, is for every
\* object a vector with nothing but its first element.
ValueIsFirst == \A o \in Objects : ValueOf(o) = [i \in Cells |-> data[o][1]]

LEMMA FirstElement == IInv => ValueIsFirst
  <1> SUFFICES ASSUME IInv, NEW o \in Objects
               PROVE  ValueOf(o) = [i \in Cells |-> data[o][1]]
    BY DEF ValueIsFirst
  <1>1. \A p \in Objects : data[p] = [i \in Cells |-> data[p][i]]
    BY DEF IInv, TypeOK
  <1>2. CASE \E t \in Threads : Writing(t, o)
    <2> DEFINE w == CHOOSE t \in Threads : Writing(t, o)
    <2>1. w \in Threads /\ Writing(w, o)
      BY <1>2
    <2>2. 1 \in 1 .. copied[w] /\ pc[w] = "copy" /\ Source[w] \in Objects
      BY <2>1, Constants, SMT DEF IInv, TypeOK, Writing
    <2>3. data[Target[w]][1] = data[Source[w]][1] /\ o = Target[w]
      BY <2>1, <2>2 DEF IInv, CopiedSoFar, Writing
    <2>4. \A i \in Cells : data[Source[w]][i] = data[o][1]
      BY <2>1, <2>2, <2>3, SourceStable
    <2>5. ValueOf(o) = data[Source[w]]
      BY <1>2 DEF ValueOf
    <2> QED
      BY <1>1, <2>2, <2>4, <2>5
  <1>3. CASE ~ \E t \in Threads : Writing(t, o)
    <2>1. \A i \in Cells : data[o][i] = data[o][1]
      BY <1>3, Constants DEF IInv, WholeVectors
    <2> QED
      BY <1>1, <1>3, <2>1 DEF ValueOf
  <1> QED
    BY <1>2, <1>3

\* The steps by which no mutex is lost or won but as Holds says.
LEMMA QuietSteps ==
    ASSUME IInv, NEW t \in Threads,
           \/ SelfAssign(t) \/ Begin(t) \/ LockFirst(t) \/ TrySecond(t)
           \/ BackOff(t) \/ UnlockRhs(t) \/ UnlockLhs(t)
    PROVE  IInv' /\ data' = data
  <1> USE Constants
  <1>1. CASE SelfAssign(t)
    <2>1. TypeOK'
      BY <1>1, SMT DEF SelfAssign, IInv, TypeOK
    <2>2. Holds'
      BY <1>1, SMT DEF SelfAssign, IInv, Holds
    <2>3. CopiedSoFar' /\ WholeVectors'
      BY <1>1, SMT DEF SelfAssign, IInv, CopiedSoFar, WholeVectors, Writing
    <2> QED
      BY <1>1, <2>1, <2>2, <2>3 DEF SelfAssign, IInv
  <1>2. CASE Begin(t)
    <2>1. TypeOK'
      BY <1>2, SMT DEF Begin, GoTo, IInv, TypeOK, Locations
    <2>2. Holds'
      BY <1>2, SMT DEF Begin, GoTo, IInv, TypeOK, Holds
    <2>3. CopiedSoFar' /\ WholeVectors'
      BY <1>2, QuietStep DEF Begin, GoTo, Locations
    <2> QED
      BY <1>2, <2>1, <2>2, <2>3 DEF Begin, IInv
  <1>3. CASE LockFirst(t)
    <2>1. TypeOK'
      BY <1>3, SMT DEF LockFirst, Take, GoTo, IInv, TypeOK, Locations
    <2>2. Holds'
      BY <1>3, SMT DEF LockFirst, Take, GoTo, IInv, TypeOK, Holds
    <2>3. CopiedSoFar' /\ WholeVectors'
      BY <1>3, QuietStep DEF LockFirst, GoTo, Locations
    <2> QED
      BY <1>3, <2>1, <2>2, <2>3 DEF LockFirst, IInv
  <1>4. CASE TrySecond(t) /\ pc' = [pc EXCEPT ![t] = "copy"] /\ Take(t, Second(t))
    <2>1. TypeOK'
      BY <1>4, SMT DEF TrySecond, Take, Second, IInv, TypeOK, Locations
    <2>2. Holds'
      BY <1>4, SMT DEF TrySecond, Take, Second, IInv, TypeOK, Holds
    <2>3. CopiedSoFar' /\ WholeVectors'
      BY <1>4, QuietStep DEF TrySecond, Locations
    <2> QED
      BY <1>4, <2>1, <2>2, <2>3 DEF TrySecond, IInv
  <1>5. CASE TrySecond(t) /\ pc' = [pc EXCEPT ![t] = "backOff"] /\ UNCHANGED owner
    <2>1. TypeOK'
      BY <1>5, SMT DEF TrySecond, IInv, TypeOK, Locations
    <2>2. Holds'
      BY <1>5, SMT DEF TrySecond, IInv, TypeOK, Holds
    <2>3. CopiedSoFar' /\ WholeVectors'
      BY <1>5, QuietStep DEF TrySecond, Locations
    <2> QED
      BY <1>5, <2>1, <2>2, <2>3 DEF TrySecond, IInv
  <1>6. CASE BackOff(t)
    <2>1. TypeOK'
      BY <1>6, SMT DEF BackOff, Free, Second, GoTo, IInv, TypeOK, Locations
    <2>2. Holds'
      BY <1>6, SMT DEF BackOff, Free, Second, GoTo, IInv, TypeOK, Holds
    <2>3. CopiedSoFar' /\ WholeVectors'
      BY <1>6, QuietStep DEF BackOff, GoTo, Locations
    <2> QED
      BY <1>6, <2>1, <2>2, <2>3 DEF BackOff, IInv
  <1>7. CASE UnlockRhs(t)
    <2>1. TypeOK'
      BY <1>7, SMT DEF UnlockRhs, Free, GoTo, IInv, TypeOK, Locations
    <2>2. Holds'
      BY <1>7, SMT DEF UnlockRhs, Free, GoTo, IInv, TypeOK, Holds
    <2>3. CopiedSoFar' /\ WholeVectors'
      BY <1>7, QuietStep DEF UnlockRhs, GoTo, Locations
    <2> QED
      BY <1>7, <2>1, <2>2, <2>3 DEF UnlockRhs, IInv
  <1>8. CASE UnlockLhs(t)
    <2>1. TypeOK'
      <3>1. rounds[t] < Rounds /\ rounds[t] \in 0 .. Rounds
        BY <1>8 DEF UnlockLhs, IInv, TypeOK, Holds
      <3>2. rounds[t] + 1 \in 0 .. Rounds
        BY <3>1, SMT
      <3>3. rounds' \in [Threads -> 0 .. Rounds]
        BY <1>8, <3>2 DEF UnlockLhs, IInv, TypeOK
      <3> QED
        BY <1>8, <3>3 DEF UnlockLhs, Free, GoTo, IInv, TypeOK, Locations
    <2>2. Holds'
      BY <1>8, SMT DEF UnlockLhs, Free, GoTo, IInv, TypeOK, Holds
    <2>3. CopiedSoFar' /\ WholeVectors'
      BY <1>8, QuietStep DEF UnlockLhs, GoTo, Locations
    <2> QED
      BY <1>8, <2>1, <2>2, <2>3 DEF UnlockLhs, IInv
  <1> QED
    BY <1>1, <1>2, <1>3, <1>4, <1>5, <1>6, <1>7, <1>8 DEF TrySecond, GoTo

\* One more element: the step that can leave a torn vector, and does not.
LEMMA CopyStep ==
    ASSUME IInv, NEW t \in Threads, CopyCell(t)
    PROVE  /\ IInv'
           /\ data'[Target[t]][1] = data[Source[t]][1]
           /\ \A o \in Objects \ {Target[t]} : data'[o] = data[o]
  <1> DEFINE i == copied[t] + 1
             dst == Target[t]
             src == Source[t]
  <1>1. /\ pc[t] = "copy" /\ i \in Cells /\ i \in 1 .. Size
        /\ dst \in Objects /\ src \in Objects /\ dst # src
    BY Constants, SMT DEF CopyCell, IInv, TypeOK, Holds, Cells
  <1>0. copied[t] \in Nat /\ copied[t] < Size /\ Size \in Nat
    BY Constants, SMT DEF IInv, TypeOK
  <1>2. /\ \A u \in Threads : ~Writing(u, src)
        /\ \A j \in Cells : data[src][j] = data[src][1]
        /\ \A u \in Threads \ {t} : pc[u] = "copy" => Target[u] # dst /\ Source[u] # dst
    BY <1>1, SourceStable
  <1>3. data \in [Objects -> [Cells -> Objects]]
    BY DEF IInv, TypeOK
  <1>4. /\ data' = [data EXCEPT ![dst][i] = data[src][i]]
        /\ UNCHANGED <<owner, first, rounds>>
    BY DEF CopyCell
  <1>5. /\ \A o \in Objects \ {dst} : data'[o] = data[o]
        /\ data'[dst][i] = data[src][1]
        /\ \A j \in Cells \ {i} : data'[dst][j] = data[dst][j]
        /\ data' \in [Objects -> [Cells -> Objects]]
    BY <1>1, <1>2, <1>3, <1>4
  <1>6. \A j \in 1 .. copied[t] : data[dst][j] = data[src][1] /\ j \in Cells /\ j # i
    <2>1. \A j \in 1 .. copied[t] : j \in Cells /\ j # i
      BY <1>0, SMT DEF Cells
    <2> QED
      BY <2>1 DEF IInv, CopiedSoFar
  <1>7. \A j \in 1 .. i : data'[dst][j] = data[src][1]
    <2> SUFFICES ASSUME NEW j \in 1 .. i PROVE data'[dst][j] = data[src][1]
      OBVIOUS
    <2>1. j = i \/ j \in 1 .. copied[t]
      BY <1>1, SMT DEF Cells, IInv, TypeOK
    <2> QED
      BY <2>1, <1>5, <1>6
  <1>8. 1 \in 1 .. i
    BY <1>1, SMT DEF Cells
  <1>9. \/ i = Size /\ pc' = [pc EXCEPT ![t] = "unlockRhs"] /\ copied' = [copied EXCEPT ![t] = 0]
        \/ i # Size /\ pc' = pc /\ copied' = [copied EXCEPT ![t] = i]
    BY DEF CopyCell, GoTo
  <1>10. TypeOK'
    <2>1. pc' \in [Threads -> Locations]
      BY <1>9 DEF IInv, TypeOK, Locations
    <2>2. copied' \in [Threads -> 0 .. Size - 1]
      <3>1. 0 \in 0 .. Size - 1 /\ (i # Size => i \in 0 .. Size - 1)
        BY <1>0, SMT
      <3> QED
        BY <1>9, <3>1 DEF IInv, TypeOK
    <2> QED
      BY <1>4, <1>5, <2>1, <2>2 DEF IInv, TypeOK
  <1>11. Holds'
    BY <1>1, <1>4, <1>9, SMT DEF IInv, TypeOK, Holds
  <1>12. CopiedSoFar'
    <2> SUFFICES ASSUME NEW u \in Threads
                 PROVE  /\ copied'[u] > 0 => pc'[u] = "copy"
                        /\ \A j \in 1 .. copied'[u] :
                              data'[Target[u]][j] = data'[Source[u]][1]
      BY DEF CopiedSoFar
    <2>1. CASE u = t
      <3>1. copied'[u] = 0 \/ (copied'[u] = i /\ pc'[u] = "copy")
        BY <2>1, <1>1, <1>9 DEF IInv, TypeOK
      <3>2. data'[src][1] = data[src][1]
        BY <1>1, <1>5
      <3>3. copied'[u] > 0 => pc'[u] = "copy"
        BY <3>1, SMT
      <3>4. \A j \in 1 .. copied'[u] : j \in 1 .. i
        BY <3>1, <1>1, SMT DEF Cells
      <3> QED
        BY <2>1, <3>2, <3>3, <3>4, <1>7
    <2>2. CASE u # t
      <3>1. copied'[u] = copied[u] /\ pc'[u] = pc[u]
        BY <2>2, <1>9, SMT DEF IInv, TypeOK
      <3>2. CASE copied[u] > 0
        <4>1. pc[u] = "copy"
          BY <3>2 DEF IInv, CopiedSoFar
        <4>2. Target[u] \in Objects \ {dst} /\ Source[u] \in Objects \ {dst}
          BY <2>2, <4>1, <1>2, Constants
        <4> QED
          BY <3>1, <4>1, <4>2, <1>5 DEF IInv, CopiedSoFar
      <3>3. CASE ~(copied[u] > 0)
        <4>1. 1 .. copied[u] = {}
          BY <3>3, SMT DEF IInv, TypeOK
        <4> QED
          BY <3>1, <3>3, <4>1
      <3> QED
        BY <3>2, <3>3
    <2> QED
      BY <2>1, <2>2
  <1>13. WholeVectors'
    <2> SUFFICES ASSUME NEW o \in Objects, \A u \in Threads : ~Writing(u, o)',
                        NEW j \in Cells, NEW k \in Cells
                 PROVE  data'[o][j] = data'[o][k]
      BY DEF WholeVectors, Cells
    <2>1. CASE o = dst
      <3>1. i = Size
        <4> SUFFICES ASSUME i # Size PROVE FALSE
          OBVIOUS
        <4>1. pc'[t] = "copy" /\ copied'[t] = i
          BY <1>1, <1>9 DEF IInv, TypeOK
        <4>2. i > 0
          BY <1>0, SMT
        <4> QED
          BY <2>1, <4>1, <4>2 DEF Writing
      <3>2. j \in 1 .. i /\ k \in 1 .. i
        BY <3>1 DEF Cells
      <3> QED
        BY <2>1, <3>2, <1>7
    <2>2. CASE o # dst
      <3>1. \A u \in Threads : ~Writing(u, o)
        <4> SUFFICES ASSUME NEW u \in Threads, Writing(u, o) PROVE FALSE
          OBVIOUS
        <4>1. u # t
          BY <2>2 DEF Writing
        <4>2. pc'[u] = pc[u] /\ copied'[u] = copied[u]
          BY <4>1, <1>9, SMT DEF IInv, TypeOK
        <4> QED
          BY <4>2 DEF Writing
      <3>2. data[o][j] = data[o][k]
        BY <3>1 DEF IInv, WholeVectors
      <3>3. data'[o] = data[o]
        BY <2>2, <1>5
      <3> QED
        BY <3>2, <3>3
    <2> QED
      BY <2>1, <2>2
  <1> QED
    BY <1>5, <1>7, <1>8, <1>10, <1>11, <1>12, <1>13 DEF IInv

-----------------------------------------------------------------------------
\* Every step, or none, keeps IInv, and assigns one object or no object.
LEMMA NextIInv ==
    ASSUME IInv, [Next]_vars
    PROVE  IInv' /\ [Abstract!Next]_(Abstract!vars)
  <1>0. ValueIsFirst /\ (IInv' => ValueIsFirst')
    <2>1. IInv' => ValueIsFirst'
      BY FirstElement, PTL
    <2> QED
      BY FirstElement, <2>1
  <1>1. ASSUME IInv', data' = data
        PROVE  UNCHANGED Abstract!vars
    BY <1>0, <1>1 DEF ValueIsFirst, Abstract!vars
  <1>2. CASE UNCHANGED vars
    <2>1. IInv' /\ data' = data
      BY <1>2 DEF vars, IInv, TypeOK, Holds, CopiedSoFar, WholeVectors, Writing
    <2> QED
      BY <1>1, <2>1
  <1>3. ASSUME NEW t \in Threads,
               \/ SelfAssign(t) \/ Begin(t) \/ LockFirst(t) \/ TrySecond(t)
               \/ BackOff(t) \/ UnlockRhs(t) \/ UnlockLhs(t)
        PROVE  IInv' /\ UNCHANGED Abstract!vars
    BY <1>1, <1>3, QuietSteps
  <1>4. ASSUME NEW t \in Threads, CopyCell(t)
        PROVE  IInv' /\ Abstract!Assign(t)
    <2>1. /\ IInv'
          /\ data'[Target[t]][1] = data[Source[t]][1]
          /\ \A o \in Objects \ {Target[t]} : data'[o] = data[o]
      BY <1>4, CopyStep
    <2>2. /\ \A o \in Objects : ValueOf(o) = [j \in Cells |-> data[o][1]]
          /\ \A o \in Objects : ValueOf(o)' = [j \in Cells |-> data'[o][1]]
      BY <1>0, <2>1 DEF ValueIsFirst
    <2>3. \A o \in Objects :
            ValueOf(o)' = IF o = Target[t] THEN ValueOf(Source[t]) ELSE ValueOf(o)
      <3> SUFFICES ASSUME NEW o \in Objects
                   PROVE  ValueOf(o)' = IF o = Target[t] THEN ValueOf(Source[t]) ELSE ValueOf(o)
        OBVIOUS
      <3>1. CASE o = Target[t]
        <4>1. ValueOf(o)' = [j \in Cells |-> data'[o][1]]
          BY <2>2
        <4>2. data'[o][1] = data[Source[t]][1]
          BY <2>1, <3>1
        <4>3. ValueOf(Source[t]) = [j \in Cells |-> data[Source[t]][1]]
          BY <2>2, Constants
        <4> QED
          BY <3>1, <4>1, <4>2, <4>3
      <3>2. CASE o # Target[t]
        BY <2>1, <2>2, <3>2
      <3> QED
        BY <3>1, <3>2
    <2> DEFINE value == [o \in Objects |-> ValueOf(o)]
    <2>4. value' = [value EXCEPT ![Target[t]] = value[Source[t]]]
      <3>1. value' = [o \in Objects |-> ValueOf(o)']
        OBVIOUS
      <3> QED
        BY <2>3, <3>1, Constants, Zenon
    <2> QED
      BY <2>1, <2>4 DEF Abstract!Assign
  <1> QED
    BY <1>2, <1>3, <1>4 DEF Next, Joined, Step, Abstract!Next

\* In every reachable state IInv holds: TypeOK and WholeVectors need to know
\* which mutexes are held and how far every copy has come.
THEOREM Invariance == Spec => []IInv
  <1>1. IInv /\ [Next]_vars => IInv'
    BY NextIInv
  <1> QED
    BY InitIInv, <1>1, PTL DEF Spec

\* Whatever the threads assign to what, every variable keeps its type.
THEOREM TypeCorrect == Spec => []TypeOK
  BY Invariance, PTL DEF IInv

\* No assignment of class A leaves or shows a torn vector outside the copy
\* itself, for any number of threads, objects and elements.
THEOREM NoTornCopy == Spec => []WholeVectors
  BY Invariance, PTL DEF IInv

\* The locked, element by element copy is one atomic assignment.
THEOREM Refinement == Spec => ImplementsAtomicAssign
  <1>1. Init => Abstract!Init
    <2> SUFFICES ASSUME Init PROVE \A o \in Objects : ValueOf(o) = [i \in Cells |-> o]
      BY DEF Abstract!Init
    <2> QED
      BY Constants DEF Init, ValueOf, Writing
  <1>2. IInv /\ [Next]_vars => [Abstract!Next]_(Abstract!vars)
    BY NextIInv
  <1> QED
    BY <1>1, <1>2, Invariance, PTL DEF Spec, ImplementsAtomicAssign, Abstract!Spec
-----------------------------------------------------------------------------
\* A mutex is held only where the assignment says: the first one while the other
\* is tried, both during the copy, the target's last.
HeldByRunners ==
    \A t \in Threads, o \in Objects : owner[o] = t =>
        \/ pc[t] \in {"try", "backOff"} /\ o = first[t]
        \/ pc[t] \in {"copy", "unlockRhs"} /\ o \in {Target[t], Source[t]}
        \/ pc[t] = "unlockLhs" /\ o = Target[t]

LEMMA HeldKept ==
  ASSUME IInv, HeldByRunners, [Next]_vars
  PROVE  HeldByRunners'
  <1>1. ASSUME NEW t \in Threads, UNCHANGED owner,
               \A u \in Threads : u # t => pc'[u] = pc[u] /\ first'[u] = first[u],
               pc[t] \in {"loop", "block"} \/ (pc'[t] = pc[t] /\ first'[t] = first[t])
                  \/ (pc[t] = "try" /\ pc'[t] = "backOff" /\ first'[t] = first[t])
                  \/ (pc[t] = "copy" /\ pc'[t] = "unlockRhs")
        PROVE  HeldByRunners'
    BY <1>1 DEF HeldByRunners
  <1>2. ASSUME NEW t \in Threads, Step(t)
        PROVE  HeldByRunners'
    <2>1. /\ pc \in [Threads -> Locations] /\ owner \in [Objects -> Threads \cup {Nobody}]
          /\ first \in [Threads -> Objects] /\ Nobody \notin Threads /\ first[t] \in {Target[t], Source[t]}
          /\ Target[t] \in Objects /\ Source[t] \in Objects
      BY Constants DEF IInv, TypeOK, Holds
    <2>2. CASE SelfAssign(t)
      BY <1>1, <2>2 DEF SelfAssign
    <2>3. CASE Begin(t)
      BY <1>1, <2>1, <2>3 DEF Begin, GoTo
    <2>4. CASE LockFirst(t)
      BY <2>1, <2>4 DEF LockFirst, GoTo, Take, HeldByRunners
    <2>5. CASE TrySecond(t) /\ owner[Second(t)] # Nobody
      BY <1>1, <2>1, <2>5 DEF TrySecond, GoTo, Take
    <2>6. CASE TrySecond(t) /\ owner[Second(t)] = Nobody
      <3>1. /\ owner' = [owner EXCEPT ![Second(t)] = t] /\ pc[t] = "try"
            /\ pc' = [pc EXCEPT ![t] = "copy"] /\ first' = first
        BY <2>6 DEF TrySecond, GoTo, Take
      <3>2. Second(t) \in {Target[t], Source[t]} /\ Second(t) \in Objects
        BY <2>1 DEF Second
      <3> QED
        BY <2>1, <3>1, <3>2 DEF HeldByRunners
    <2>7. CASE BackOff(t)
      BY <2>1, <2>7 DEF BackOff, GoTo, Free, HeldByRunners
    <2>8. CASE CopyCell(t)
      <3>1. pc[t] = "copy" /\ UNCHANGED <<owner, first>>
            /\ (pc' = [pc EXCEPT ![t] = "unlockRhs"] \/ pc' = pc)
        BY <2>8 DEF CopyCell, GoTo
      <3> QED
        BY <2>1, <3>1 DEF HeldByRunners
    <2>9. CASE UnlockRhs(t)
      BY <2>1, <2>9 DEF UnlockRhs, GoTo, Free, HeldByRunners
    <2>10. CASE UnlockLhs(t)
      BY <2>1, <2>10 DEF UnlockLhs, GoTo, Free, HeldByRunners
    <2> QED
      BY <1>2, <2>2, <2>3, <2>4, <2>5, <2>6, <2>7, <2>8, <2>9, <2>10 DEF Step
  <1>3. CASE UNCHANGED vars
    BY <1>3 DEF vars, HeldByRunners
  <1> QED
    BY <1>2, <1>3 DEF Next, Joined

\* Opposite assignments do not deadlock: whoever waits for a mutex holds none, so
\* its owner is a thread that does not wait.
THEOREM NoDeadlockEver == Spec => []NoDeadlock
  <1>1. Init => HeldByRunners
    BY Constants DEF Init, HeldByRunners
  <1>2. IInv /\ HeldByRunners /\ [Next]_vars => HeldByRunners'
    BY HeldKept
  <1>3. ASSUME IInv, HeldByRunners
        PROVE  NoDeadlock
    <2> SUFFICES ASSUME ~Finished
                 PROVE  \E t \in Threads : CanGoOn(t)
      BY DEF NoDeadlock
    <2>1. PICK t \in Threads : ~(pc[t] = "loop" /\ rounds[t] = Rounds)
      BY DEF Finished
    <2>2. CASE CanGoOn(t)
      BY <2>2
    <2>3. CASE ~CanGoOn(t)
      <3>1. rounds[t] \in 0 .. Rounds /\ Rounds \in Nat
        BY <1>3, Constants DEF IInv, TypeOK
      <3>2. pc[t] = "block" /\ owner[first[t]] # Nobody
        BY <2>1, <2>3, <3>1 DEF CanGoOn
      <3>3. first[t] \in Objects /\ owner[first[t]] \in Threads
        BY <1>3, <3>2 DEF IInv, TypeOK
      <3>4. pc[owner[first[t]]] \notin {"loop", "block"}
        BY <1>3, <3>3 DEF HeldByRunners
      <3> QED
        BY <3>3, <3>4 DEF CanGoOn
    <2> QED
      BY <2>2, <2>3
  <1> QED
    BY <1>1, <1>2, <1>3, Invariance, PTL DEF Spec
-----------------------------------------------------------------------------
(***************************************************************************)
(* Class B, for the same constants.  The variables are those of            *)
(* SharedAssign, of which SafeAssign has one by the same name, pc.         *)
(***************************************************************************)
VARIABLES value, writer, readers, exclusiveFirst

B == INSTANCE SharedAssign

\* The mutex of the target is held in the mode with which boost::lock began, so
\* it cannot be got in the other mode; no assignment has been made.
NoneAssigned ==
    /\ pc \in [Threads -> {"idle", "block", "try", "backOff"}]
    /\ exclusiveFirst \in [Threads -> BOOLEAN]
    /\ value = [o \in Objects |-> o]
HeldInOneMode ==
    /\ writer \in [Objects -> Threads \cup {Nobody}]
    /\ readers \in [Objects -> SUBSET Threads]
    /\ \A t \in Threads : pc[t] = "try" =>
          IF exclusiveFirst[t] THEN writer[Target[t]] = t ELSE t \in readers[Target[t]]

LEMMA SharedStep ==
    ASSUME NoneAssigned, HeldInOneMode, NEW t \in Threads, B!Begin(t) \/ B!Step(t)
    PROVE  NoneAssigned' /\ HeldInOneMode'
  <1>1. t # Nobody /\ \A u \in Threads : Target[u] \in Objects
    BY Constants
  <1>2. CASE B!Begin(t)
    BY <1>1, <1>2 DEF B!Begin, B!GoTo, NoneAssigned, HeldInOneMode
  <1>3. CASE B!LockFirst(t)
    <2>1. NoneAssigned'
      BY <1>3 DEF B!LockFirst, B!GoTo, NoneAssigned
    <2>2. CASE exclusiveFirst[t]
      <3>1. /\ writer[Target[t]] = Nobody /\ readers' = readers
            /\ writer' = [writer EXCEPT ![Target[t]] = t]
        BY <1>3, <2>2 DEF B!LockFirst, B!Take, B!CanOwn, B!Locked
      <3>2. pc' = [pc EXCEPT ![t] = "try"] /\ exclusiveFirst' = exclusiveFirst
        BY <1>3 DEF B!LockFirst, B!GoTo
      <3>3. ASSUME NEW u \in Threads, pc'[u] = "try"
            PROVE  IF exclusiveFirst'[u] THEN writer'[Target[u]] = u
                                         ELSE u \in readers'[Target[u]]
        <4>1. CASE u = t
          <5>1. exclusiveFirst'[u] /\ writer'[Target[u]] = u
            BY <1>1, <2>2, <3>1, <3>2, <4>1 DEF HeldInOneMode
          <5> QED
            BY <5>1
        <4>2. CASE u # t
          <5>1. pc[u] = "try"
            BY <3>2, <3>3, <4>2 DEF NoneAssigned
          <5>2. CASE exclusiveFirst[u]
            <6>1. writer[Target[u]] = u /\ u # Nobody
              BY <1>1, <5>1, <5>2, Constants DEF HeldInOneMode
            <6>2. writer'[Target[u]] = u
              BY <3>1, <6>1 DEF HeldInOneMode
            <6> QED
              BY <3>2, <5>2, <6>2
          <5>3. CASE ~exclusiveFirst[u]
            BY <3>1, <3>2, <5>1, <5>3 DEF HeldInOneMode
          <5> QED
            BY <5>2, <5>3
        <4> QED
          BY <4>1, <4>2
      <3>4. /\ writer' \in [Objects -> Threads \cup {Nobody}]
            /\ readers' \in [Objects -> SUBSET Threads]
        BY <3>1 DEF HeldInOneMode
      <3> QED
        BY <2>1, <3>3, <3>4 DEF HeldInOneMode
    <2>3. CASE ~exclusiveFirst[t]
      BY <1>1, <1>3, <2>3
         DEF B!LockFirst, B!GoTo, B!Take, B!CanShare, B!Locked, NoneAssigned, HeldInOneMode
    <2> QED
      BY <2>1, <2>2, <2>3
  <1>4. CASE B!TrySecond(t)
    <2>1. pc[t] = "try"
      BY <1>4 DEF B!TrySecond
    <2>2. ~B!Take(t, B!Locked(t, ~exclusiveFirst[t]), ~exclusiveFirst[t])
      BY <1>1, <2>1 DEF B!Take, B!CanOwn, B!CanShare, B!Locked, HeldInOneMode
    <2>3. B!GoTo(t, "backOff") /\ UNCHANGED <<writer, readers, value, exclusiveFirst>>
      BY <1>4, <2>2 DEF B!TrySecond
    <2> QED
      BY <2>3 DEF B!GoTo, NoneAssigned, HeldInOneMode
  <1>5. CASE B!BackOff(t)
    BY <1>1, <1>5 DEF B!BackOff, B!GoTo, B!Release, NoneAssigned, HeldInOneMode
  <1>6. ~B!Assign(t)
    BY DEF B!Assign, NoneAssigned
  <1> QED
    BY <1>2, <1>3, <1>4, <1>5, <1>6 DEF B!Step

\* operator= of class B never gets past lock(lhs_lock, rhs_lock), and so never
\* copies anything, in any schedule of any threads on any objects: both locks
\* are made from one mutex (ds_safe_assign_test.cc:105).
THEOREM SharedNeverAssigns == B!Spec => []NoneAssigned
  <1>1. B!Init => NoneAssigned /\ HeldInOneMode
    BY DEF B!Init, NoneAssigned, HeldInOneMode
  <1>2. NoneAssigned /\ HeldInOneMode /\ [B!Next]_B!vars => NoneAssigned' /\ HeldInOneMode'
    <2>1. CASE UNCHANGED B!vars
      BY <2>1 DEF B!vars, NoneAssigned, HeldInOneMode
    <2> QED
      BY <2>1, SharedStep DEF B!Next
  <1> QED
    BY <1>1, <1>2, PTL DEF B!Spec
=============================================================================
