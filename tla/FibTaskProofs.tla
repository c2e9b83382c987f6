---------------------------- MODULE FibTaskProofs ---------------------------
(***************************************************************************)
(* For every argument, every cutoff, with and without the table, and for   *)
(* any number of workers: every task of ParallelFib leaves the right       *)
(* result.                                                                 *)
(***************************************************************************)
EXTENDS FibTask, FiniteSetTheorems, SequenceTheorems, WellFoundedInduction, TLAPS
-----------------------------------------------------------------------------
(* Induction over the numbers, from the order of the library. *)

\* Every set of numbers has a least one.
LEMMA Least ==
    ASSUME NEW T \in SUBSET Nat, T # {}
    PROVE  \E m \in T : \A k \in T : m <= k
<1> DEFINE R == {p \in Nat \X Nat : p[1] < p[2]}
<1>1. IsWellFoundedOn(R, Nat)
  BY NatLessThanWellFounded DEF OpToRel
<1>2. PICK m \in T : \A k \in T : <<k, m>> \notin R
  <2> HIDE DEF R
  <2> QED
    BY <1>1, WFMin
<1>3. \A k \in T : ~(k < m)
  BY <1>2
<1> QED
  BY <1>2, <1>3

\* A set with 0 and with every successor has every number.
LEMMA SetInduction ==
    ASSUME NEW S, 0 \in S, \A m \in Nat : m \in S => m + 1 \in S
    PROVE  Nat \subseteq S
<1>1. SUFFICES ASSUME Nat \ S # {}
               PROVE  FALSE
  OBVIOUS
<1>2. PICK m \in Nat \ S : \A k \in Nat \ S : m <= k
  BY <1>1, Least
<1>3. m # 0 /\ m - 1 \in Nat /\ ~(m <= m - 1) /\ (m - 1) + 1 = m
  BY <1>2
<1>4. m - 1 \in S
  BY <1>2, <1>3
<1> QED
  BY <1>2, <1>3, <1>4

\* Up to every m there is a function with the equation of SerialFib.
LEMMA FibTableExists ==
    \A m \in Nat : \E g \in [0 .. m -> Nat] :
        \A k \in 0 .. m : g[k] = IF k < 2 THEN k ELSE g[k - 1] + g[k - 2]
<1> DEFINE S == {m \in Nat : \E g \in [0 .. m -> Nat] :
                    \A k \in 0 .. m : g[k] = IF k < 2 THEN k ELSE g[k - 1] + g[k - 2]}
<1>1. 0 \in S
  <2> DEFINE z == [k \in 0 .. 0 |-> 0]
  <2>1. z \in [0 .. 0 -> Nat]
    OBVIOUS
  <2>2. \A k \in 0 .. 0 : k < 2 /\ z[k] = k
    OBVIOUS
  <2>3. \A k \in 0 .. 0 : z[k] = IF k < 2 THEN k ELSE z[k - 1] + z[k - 2]
    BY <2>2
  <2> HIDE DEF z
  <2> QED
    BY <2>1, <2>3
<1>2. ASSUME NEW m \in Nat, m \in S
      PROVE  m + 1 \in S
  <2>1. PICK g \in [0 .. m -> Nat] :
            \A k \in 0 .. m : g[k] = IF k < 2 THEN k ELSE g[k - 1] + g[k - 2]
    BY <1>2
  <2> DEFINE e == IF m + 1 < 2 THEN m + 1 ELSE g[m] + g[m - 1]
             h == [k \in 0 .. m + 1 |-> IF k = m + 1 THEN e ELSE g[k]]
  <2>2. e \in Nat
    BY <2>1
  <2>3. h \in [0 .. m + 1 -> Nat]
    BY <2>1, <2>2
  <2>4. ASSUME NEW k \in 0 .. m + 1
        PROVE  h[k] = IF k < 2 THEN k ELSE h[k - 1] + h[k - 2]
    <3>1. CASE k = m + 1
      <4>1. h[k] = e
        BY <3>1
      <4>2. ~(k < 2) => h[k - 1] = g[m] /\ h[k - 2] = g[m - 1]
        BY <3>1
      <4> HIDE DEF h
      <4> QED
        BY <3>1, <4>1, <4>2
    <3>2. CASE k \in 0 .. m
      <4>1. h[k] = g[k]
        BY <3>2
      <4>2. ~(k < 2) => h[k - 1] = g[k - 1] /\ h[k - 2] = g[k - 2]
        BY <3>2
      <4> HIDE DEF h
      <4> QED
        BY <2>1, <3>2, <4>1, <4>2
    <3> QED
      BY <3>1, <3>2
  <2>5. \E f \in [0 .. m + 1 -> Nat] :
            \A k \in 0 .. m + 1 : f[k] = IF k < 2 THEN k ELSE f[k - 1] + f[k - 2]
    <3> HIDE DEF h
    <3> QED
      BY <2>3, <2>4, Zenon
  <2>6. m + 1 \in Nat
    OBVIOUS
  <2> QED
    BY <2>5, <2>6, Zenon
<1>3. Nat \subseteq S
  <2> HIDE DEF S
  <2> QED
    BY <1>1, <1>2, SetInduction
<1> QED
  BY <1>3

\* SerialFib is what its recursion says.
LEMMA SerialFibEquation ==
    /\ \A k \in Arguments : SerialFib[k] = IF k < 2 THEN k ELSE SerialFib[k - 1] + SerialFib[k - 2]
    /\ \A k \in Arguments : SerialFib[k] \in Nat
<1> DEFINE F(f) == [k \in 0 .. N |-> IF k < 2 THEN k ELSE f[k - 1] + f[k - 2]]
<1>1. N \in Nat
  BY ArgumentsAssumption
<1>2. PICK g \in [0 .. N -> Nat] :
          \A k \in 0 .. N : g[k] = IF k < 2 THEN k ELSE g[k - 1] + g[k - 2]
  BY <1>1, FibTableExists
<1>3. g = F(g)
  BY <1>2
<1>4. SerialFib = F(SerialFib)
  <2>1. SerialFib = CHOOSE f : f = F(f)
    BY DEF SerialFib
  <2> HIDE DEF F
  <2> QED
    BY <1>3, <2>1
<1>5. \A k \in 0 .. N : SerialFib[k] = IF k < 2 THEN k ELSE SerialFib[k - 1] + SerialFib[k - 2]
  BY <1>4
<1>6. \A k \in 0 .. N : SerialFib[k] \in Nat
  <2> DEFINE S == {m \in Nat : m <= N /\ SerialFib[m] \notin Nat}
  <2>1. SUFFICES ASSUME S # {}
                 PROVE  FALSE
    BY <1>1
  <2>2. PICK m \in S : \A k \in S : m <= k
    <3> HIDE DEF S
    <3>1. S \in SUBSET Nat
      BY DEF S
    <3> QED
      BY <2>1, <3>1, Least
  <2>3. m \in 0 .. N /\ SerialFib[m] \notin Nat
    BY <1>1, <2>2
  <2>4. ~(m < 2)
    BY <1>5, <2>3
  <2>5. m - 1 \notin S /\ m - 2 \notin S
    BY <2>2, <2>3
  <2>6. SerialFib[m - 1] \in Nat /\ SerialFib[m - 2] \in Nat
    BY <1>1, <2>3, <2>4, <2>5
  <2> QED
    BY <1>5, <2>3, <2>4, <2>6
<1> QED
  BY <1>5, <1>6 DEF Arguments
-----------------------------------------------------------------------------
(* The tree of the tasks. *)

Steps == {1, 2}

LEMMA VersionFacts ==
    ASSUME NEW v \in Versions
    PROVE  N \in Nat /\ v.n \in 0 .. N /\ v.CutOff \in Nat \ {0, 1} /\ v.Connect \in BOOLEAN
BY ArgumentsAssumption

\* A task is a sequence of steps, no longer than the argument of the root.
LEMMA PathFacts ==
    ASSUME NEW v \in Versions, NEW t \in TasksOf(v)
    PROVE  /\ t \in Seq(Steps) /\ Len(t) \in 0 .. v.n
           /\ \A i \in 1 .. Len(t) : Argument(v, SubSeq(t, 1, i - 1)) >= v.CutOff
<1>1. PICK l \in 0 .. v.n : t \in [1 .. l -> {1, 2}]
  BY DEF TasksOf
<1>2. l \in Nat /\ N \in Nat
  BY VersionFacts
<1>3. t \in Seq(Steps) /\ Len(t) = l
  BY <1>1, <1>2 DEF Steps
<1> QED
  BY <1>3 DEF TasksOf

\* Such a sequence is a task when no step starts below the cutoff.
LEMMA IsTask ==
    ASSUME NEW v \in Versions, NEW t \in Seq(Steps), Len(t) <= v.n,
           \A i \in 1 .. Len(t) : Argument(v, SubSeq(t, 1, i - 1)) >= v.CutOff
    PROVE  t \in TasksOf(v)
<1>1. Len(t) \in 0 .. v.n /\ t \in [1 .. Len(t) -> {1, 2}]
  BY LenProperties, VersionFacts DEF Steps
<1> QED
  BY <1>1 DEF TasksOf

\* A child has its argument one or two below.
LEMMA ArgumentOfStep ==
    ASSUME NEW v \in Versions, NEW t \in Seq(Steps)
    PROVE  /\ Argument(v, t) \in Int /\ Argument(v, t) <= v.n - Len(t)
           /\ \A s \in Steps : Argument(v, t \o <<s>>) = Argument(v, t) - s
<1> DEFINE Twos(u) == {i \in DOMAIN u : u[i] = 2}
<1>1. Len(t) \in Nat /\ DOMAIN t = 1 .. Len(t) /\ v.n \in Int
  BY LenProperties, VersionFacts
<1>2. IsFiniteSet(Twos(t)) /\ Cardinality(Twos(t)) \in Nat
  <2>1. IsFiniteSet(1 .. Len(t)) /\ Twos(t) \in SUBSET (1 .. Len(t))
    BY <1>1, FS_Interval
  <2> QED
    BY <2>1, FS_Subset, FS_CardinalityType
<1>3. ASSUME NEW s \in Steps
      PROVE  Argument(v, t \o <<s>>) = Argument(v, t) - s
  <2> DEFINE u == t \o <<s>>
  <2>1. <<s>> \in Seq(Steps) /\ Len(<<s>>) = 1 /\ <<s>>[1] = s
    OBVIOUS
  <2>2. u \in Seq(Steps) /\ Len(u) = Len(t) + 1
    BY <2>1, ConcatProperties
  <2>3. \A i \in 1 .. Len(t) : u[i] = t[i]
    BY <1>1, <2>1, ConcatProperties
  <2>4. u[Len(t) + 1] = s
    <3>1. Len(t) + 1 \in 1 .. Len(t) + 1 /\ ~(Len(t) + 1 <= Len(t)) /\ (Len(t) + 1) - Len(t) = 1
      BY <1>1
    <3> QED
      BY <2>1, <3>1, ConcatProperties
  <2>5. DOMAIN u = (1 .. Len(t)) \cup {Len(t) + 1}
    <3>1. DOMAIN u = 1 .. Len(t) + 1
      BY <2>2, LenProperties
    <3> QED
      BY <1>1, <3>1
  <2> HIDE DEF u
  <2>6. CASE s = 2
    <3>1. Twos(u) = Twos(t) \cup {Len(t) + 1}
      BY <1>1, <2>3, <2>4, <2>5, <2>6
    <3>2. Len(t) + 1 \notin Twos(t)
      BY <1>1
    <3>3. Cardinality(Twos(u)) = Cardinality(Twos(t)) + 1
      <4> HIDE DEF Twos
      <4> QED
        BY <1>2, <3>1, <3>2, FS_AddElement
    <3>4. Argument(v, u) = v.n - Len(u) - Cardinality(Twos(u))
      BY DEF Argument
    <3>5. Argument(v, t) = v.n - Len(t) - Cardinality(Twos(t))
      BY DEF Argument
    <3> HIDE DEF Twos
    <3>6. Argument(v, u) = Argument(v, t) - s
      BY <1>1, <1>2, <2>2, <2>6, <3>3, <3>4, <3>5
    <3> QED
      BY <3>6 DEF u
  <2>7. CASE s = 1
    <3>1. Twos(u) = Twos(t)
      BY <1>1, <2>3, <2>4, <2>5, <2>7
    <3>4. Argument(v, u) = v.n - Len(u) - Cardinality(Twos(u))
      BY DEF Argument
    <3>5. Argument(v, t) = v.n - Len(t) - Cardinality(Twos(t))
      BY DEF Argument
    <3> HIDE DEF Twos
    <3>6. Argument(v, u) = Argument(v, t) - s
      BY <1>1, <1>2, <2>2, <2>7, <3>1, <3>4, <3>5
    <3> QED
      BY <3>6 DEF u
  <2> QED
    BY <2>6, <2>7 DEF Steps
<1>4. Argument(v, t) = v.n - Len(t) - Cardinality(Twos(t))
  BY DEF Argument
<1> HIDE DEF Twos
<1> QED
  BY <1>1, <1>2, <1>3, <1>4

\* The prefixes of a longer path are those of the path and the path itself.
LEMMA PrefixOfStep ==
    ASSUME NEW t \in Seq(Steps), NEW s \in Steps
    PROVE  /\ t \o <<s>> \in Seq(Steps) /\ Len(t \o <<s>>) = Len(t) + 1 /\ Len(t) \in Nat
           /\ SubSeq(t \o <<s>>, 1, Len(t)) = t /\ (t \o <<s>>)[Len(t) + 1] = s
           /\ \A i \in 0 .. Len(t) : SubSeq(t \o <<s>>, 1, i) = SubSeq(t, 1, i)
<1> DEFINE u == t \o <<s>>
<1>1. <<s>> \in Seq(Steps) /\ Len(<<s>>) = 1 /\ <<s>>[1] = s /\ Len(t) \in Nat
  BY LenProperties
<1>2. u \in Seq(Steps) /\ Len(u) = Len(t) + 1
  BY <1>1, ConcatProperties
<1>3. u[Len(t) + 1] = s
  <2>1. Len(t) + 1 \in 1 .. Len(t) + 1 /\ ~(Len(t) + 1 <= Len(t)) /\ (Len(t) + 1) - Len(t) = 1
    BY <1>1
  <2> QED
    BY <1>1, <2>1, ConcatProperties
<1>4. ASSUME NEW i \in 0 .. Len(t)
      PROVE  SubSeq(u, 1, i) = SubSeq(t, 1, i)
  <2>1. CASE i = 0
    <3>1. 0 < 1
      OBVIOUS
    <3> QED
      BY <2>1, <3>1, SubSeqEmpty
  <2>2. CASE i # 0
    <3>1. i \in 1 .. Len(t) /\ 1 \in 1 .. Len(t)
      BY <1>1, <2>2
    <3> QED
      BY <1>1, <3>1, SubSeqOfConcat1
  <2> QED
    BY <2>1, <2>2
<1>5. Len(t) \in 0 .. Len(t) /\ SubSeq(t, 1, Len(t)) = t
  BY <1>1, SubSeqFull
<1> QED
  BY <1>1, <1>2, <1>3, <1>4, <1>5

\* A task above the cutoff has both children.
LEMMA ChildIsTask ==
    ASSUME NEW v \in Versions, NEW t \in TasksOf(v), Argument(v, t) >= v.CutOff, NEW s \in Steps
    PROVE  t \o <<s>> \in TasksOf(v)
<1> DEFINE u == t \o <<s>>
<1>1. t \in Seq(Steps) /\ Len(t) \in Nat /\ v.n \in Int /\ v.CutOff \in Nat /\ v.CutOff >= 2
  BY PathFacts, VersionFacts
<1>2. u \in Seq(Steps) /\ Len(u) = Len(t) + 1
  BY <1>1, PrefixOfStep
<1>3. Len(u) <= v.n
  <2>1. Argument(v, t) \in Int /\ Argument(v, t) <= v.n - Len(t)
    BY <1>1, ArgumentOfStep
  <2> QED
    BY <1>1, <1>2, <2>1
<1>4. ASSUME NEW i \in 1 .. Len(u)
      PROVE  Argument(v, SubSeq(u, 1, i - 1)) >= v.CutOff
  <2>1. i - 1 \in 0 .. Len(t) /\ Len(t) \in 0 .. Len(t)
    BY <1>1, <1>2
  <2>2. SubSeq(u, 1, i - 1) = SubSeq(t, 1, i - 1)
    BY <1>1, <2>1, PrefixOfStep
  <2>3. CASE i \in 1 .. Len(t)
    BY <2>2, <2>3, PathFacts
  <2>4. CASE i - 1 = Len(t)
    BY <1>1, <2>2, <2>4, SubSeqFull
  <2> QED
    BY <1>1, <1>2, <2>3, <2>4
<1> HIDE DEF u
<1>5. u \in TasksOf(v)
  BY <1>2, <1>3, <1>4, IsTask
<1> QED
  BY <1>5 DEF u

\* A child's parent and the step to the child are its Front and its Last.
LEMMA FrontOfStep ==
    ASSUME NEW t \in Seq(Steps), NEW s \in Steps
    PROVE  t \o <<s>> # Root /\ Front(t \o <<s>>) = t /\ Last(t \o <<s>>) = s
<1>1. Len(t \o <<s>>) = Len(t) + 1 /\ Len(t) \in Nat /\ SubSeq(t \o <<s>>, 1, Len(t)) = t
      /\ (t \o <<s>>)[Len(t) + 1] = s
  BY PrefixOfStep
<1>2. (Len(t) + 1) - 1 = Len(t) /\ Len(t) + 1 # 0
  BY <1>1
<1>3. Len(<<>>) = 0
  OBVIOUS
<1> QED
  BY <1>1, <1>2, <1>3 DEF Front, Last, Root

\* Every task but the root is a child of a task above the cutoff.
LEMMA ParentIsTask ==
    ASSUME NEW v \in Versions, NEW t \in TasksOf(v), t # Root
    PROVE  /\ Front(t) \in TasksOf(v) /\ Argument(v, Front(t)) >= v.CutOff
           /\ Last(t) \in Steps /\ t = Front(t) \o <<Last(t)>>
<1> DEFINE p == Front(t)
<1>1. t \in Seq(Steps) /\ Len(t) \in 0 .. v.n /\ v.n \in Int
      /\ \A i \in 1 .. Len(t) : Argument(v, SubSeq(t, 1, i - 1)) >= v.CutOff
  BY PathFacts, VersionFacts
<1>2. Len(t) \in 1 .. Len(t) /\ Len(t) \in Nat \ {0}
  BY <1>1, EmptySeq DEF Root
<1>3. Last(t) \in Steps /\ t[Len(t)] = Last(t)
  BY <1>1, <1>2, ElementOfSeq DEF Last
<1>4. p = SubSeq(t, 1, Len(t) - 1)
  BY DEF Front
<1>5. p \in Seq(Steps) /\ Len(p) = Len(t) - 1 /\ \A i \in 1 .. Len(t) - 1 : p[i] = t[i]
  <2>1. 1 \in Int /\ Len(t) - 1 \in Int /\ \A i \in 1 .. Len(t) - 1 : t[i] \in Steps
    BY <1>1, <1>2, ElementOfSeq
  <2>2. /\ SubSeq(t, 1, Len(t) - 1) \in Seq(Steps)
        /\ Len(SubSeq(t, 1, Len(t) - 1)) = IF 1 <= Len(t) - 1 THEN (Len(t) - 1) - 1 + 1 ELSE 0
        /\ \A i \in 1 .. (Len(t) - 1) - 1 + 1 : SubSeq(t, 1, Len(t) - 1)[i] = t[1 + i - 1]
    BY <2>1, SubSeqProperties
  <2>3. (Len(t) - 1) - 1 + 1 = Len(t) - 1 /\ \A i \in 1 .. Len(t) - 1 : 1 + i - 1 = i
    BY <1>2
  <2>4. Len(SubSeq(t, 1, Len(t) - 1)) = Len(t) - 1
    <3> DEFINE l == Len(t)
               q == Len(SubSeq(t, 1, Len(t) - 1))
    <3>1. l \in Nat \ {0} /\ q = IF 1 <= l - 1 THEN (l - 1) - 1 + 1 ELSE 0
      BY <1>2, <2>2
    <3> HIDE DEF l, q
    <3>2. q = l - 1
      BY <3>1
    <3> QED
      BY <3>2 DEF l, q
  <2> QED
    BY <1>4, <2>2, <2>3, <2>4
<1> HIDE DEF p
<1>6. t = p \o <<Last(t)>>
  <2> DEFINE u == p \o <<Last(t)>>
  <2>1. u \in Seq(Steps) /\ Len(u) = Len(p) + 1 /\ u[Len(p) + 1] = Last(t)
    BY <1>3, <1>5, PrefixOfStep
  <2>2. \A i \in 1 .. Len(p) : u[i] = p[i]
    <3>1. <<Last(t)>> \in Seq(Steps) /\ Len(<<Last(t)>>) = 1
      BY <1>3
    <3>2. Len(p) \in Nat /\ \A i \in 1 .. Len(p) : i \in 1 .. Len(p) + 1 /\ i <= Len(p)
      BY <1>2, <1>5
    <3> QED
      BY <1>5, <3>1, <3>2, ConcatProperties
  <2> HIDE DEF u
  <2>3. Len(t) = Len(u) /\ \A i \in 1 .. Len(t) : t[i] = u[i]
    <3>1. Len(u) = Len(t)
      BY <1>2, <1>5, <2>1
    <3>2. ASSUME NEW i \in 1 .. Len(t)
          PROVE  t[i] = u[i]
      <4>1. CASE i = Len(t)
        <5>1. i = Len(p) + 1
          BY <1>2, <1>5, <4>1
        <5> QED
          BY <1>3, <2>1, <4>1, <5>1
      <4>2. CASE i # Len(t)
        <5>1. i \in 1 .. Len(t) - 1 /\ i \in 1 .. Len(p)
          BY <1>2, <1>5, <4>2
        <5> QED
          BY <1>5, <2>2, <5>1
      <4> QED
        BY <4>1, <4>2
    <3> QED
      BY <3>1, <3>2
  <2>4. t = u
    BY <1>1, <2>1, <2>3, SeqEqual
  <2> QED
    BY <2>4 DEF u
<1>7. Argument(v, p) >= v.CutOff
  BY <1>1, <1>2, <1>4
<1>8. p \in TasksOf(v)
  <2>1. Len(p) <= v.n
    BY <1>1, <1>5
  <2>2. ASSUME NEW i \in 1 .. Len(p)
        PROVE  Argument(v, SubSeq(p, 1, i - 1)) >= v.CutOff
    <3>1. i \in 1 .. Len(t) /\ i - 1 \in 0 .. Len(p)
      BY <1>2, <1>5
    <3>2. SubSeq(t, 1, i - 1) = SubSeq(p, 1, i - 1)
      BY <1>3, <1>5, <1>6, <3>1, PrefixOfStep
    <3> QED
      BY <1>1, <3>1, <3>2
  <2> QED
    BY <1>5, <2>1, <2>2, IsTask
<1> QED
  BY <1>3, <1>6, <1>7, <1>8 DEF p

\* The arguments stay within those of the root, and never pass below 0.
LEMMA ArgumentInRange ==
    ASSUME NEW v \in Versions, NEW t \in TasksOf(v)
    PROVE  Argument(v, t) \in Arguments
<1>1. t \in Seq(Steps) /\ Len(t) \in Nat /\ N \in Nat /\ v.n \in 0 .. N /\ v.CutOff \in Nat \ {0, 1}
  BY PathFacts, VersionFacts
<1>2. Argument(v, t) \in Int /\ Argument(v, t) <= v.n - Len(t)
  BY <1>1, ArgumentOfStep
<1>3. CASE t = Root
  <2>1. Argument(v, Root) = v.n
    <3>1. Len(Root) = 0 /\ DOMAIN Root = {}
      BY DEF Root
    <3>2. {i \in DOMAIN Root : Root[i] = 2} = {} /\ Cardinality({}) = 0
      BY <3>1, FS_EmptySet
    <3>3. Argument(v, Root) = v.n - 0 - 0
      BY <3>1, <3>2 DEF Argument
    <3> QED
      BY <1>1, <3>3
  <2> QED
    BY <1>1, <1>3, <2>1 DEF Arguments
<1>4. CASE t # Root
  <2> DEFINE p == Front(t)
  <2>1. p \in TasksOf(v) /\ Argument(v, p) >= v.CutOff /\ Last(t) \in Steps /\ t = p \o <<Last(t)>>
    BY <1>4, ParentIsTask
  <2> HIDE DEF p
  <2>2. p \in Seq(Steps)
    BY <2>1, PathFacts
  <2>3. Argument(v, p) \in Int /\ Argument(v, t) = Argument(v, p) - Last(t)
    BY <2>1, <2>2, ArgumentOfStep
  <2>4. Last(t) \in 1 .. 2
    BY <2>1 DEF Steps
  <2> QED
    BY <1>1, <1>2, <2>1, <2>3, <2>4 DEF Arguments
<1> QED
  BY <1>3, <1>4

LEMMA RootIsTask ==
    ASSUME NEW v \in Versions
    PROVE  Root \in TasksOf(v)
<1>1. Root \in Seq(Steps) /\ Len(Root) = 0 /\ Len(Root) <= v.n
  BY VersionFacts DEF Root
<1>2. \A i \in 1 .. Len(Root) : FALSE
  BY <1>1
<1> QED
  BY <1>1, <1>2, IsTask
-----------------------------------------------------------------------------
\* A task is on a stack exactly while it runs, at one place, and every task
\* under another one waits for its children.
Stacks ==
    /\ \A w \in Workers : \A i \in 1 .. Len(stack[w]) :
          /\ pc[stack[w][i]] \in Running
          /\ i < Len(stack[w]) => pc[stack[w][i]] = "wait"
          /\ \A u \in Workers : \A j \in 1 .. Len(stack[u]) :
                stack[w][i] = stack[u][j] => w = u /\ i = j
    /\ \A t \in Tasks : pc[t] \in Running =>
          \E w \in Workers : \E i \in 1 .. Len(stack[w]) : stack[w][i] = t

\* How far a task is limits how far its children are.
Family ==
    /\ \A t \in Tasks : t # Root =>
          /\ pc[Front(t)] \in {"none", "spawned", "find", "compute"} => pc[t] = "none"
          /\ pc[Front(t)] = "fork" /\ Last(t) = 1 => pc[t] = "none"
          /\ pc[Front(t)] \in {"insert", "store", "return", "done"} => pc[t] \in {"none", "done"}
    /\ \A t \in Tasks : pc[t] \in {"fork", "wait"} => n(t) >= version.CutOff

\* An accessor is held by the task that stores, for its own argument.
Accessors ==
    /\ \A k \in Arguments : Locked(k) =>
          pc[accessor[k]] = "store" /\ n(accessor[k]) = k
    /\ \A t \in Tasks : pc[t] = "store" => n(t) \in DOMAIN table /\ accessor[n(t)] = t

IInv == /\ TypeOK /\ Stacks /\ Family /\ RefCountExact
        /\ Accessors /\ ResultsRight /\ TableRight
-----------------------------------------------------------------------------
(* What the type invariant says of a task. *)

LEMMA TypeFacts ==
    ASSUME TypeOK
    PROVE  /\ version \in Versions /\ Tasks = TasksOf(version) /\ NoTask \notin Tasks
           /\ pc \in [Tasks -> {"none", "spawned", "done"} \cup Running]
           /\ \A t \in Tasks : t \in Seq(Steps) /\ n(t) \in Arguments
           /\ Root \in Tasks
<1>1. version \in Versions /\ pc \in [TasksOf(version) -> {"none", "spawned", "done"} \cup Running]
  BY DEF TypeOK
<1>2. Tasks = TasksOf(version)
  BY <1>1 DEF Tasks
<1>3. \A t \in Tasks : t \in Seq(Steps) /\ n(t) \in Arguments
  BY <1>1, <1>2, PathFacts, ArgumentInRange DEF n
<1> QED
  BY <1>1, <1>2, <1>3, NoTaskAssumption, RootIsTask

\* GoTo moves one task.
LEMMA GoToFacts ==
    ASSUME TypeOK, NEW t \in Tasks, NEW l \in {"none", "spawned", "done"} \cup Running,
           GoTo(t, l), version' = version
    PROVE  /\ pc' \in [TasksOf(version') -> {"none", "spawned", "done"} \cup Running]
           /\ Tasks' = Tasks /\ pc'[t] = l /\ \A u \in Tasks : u # t => pc'[u] = pc[u]
<1>1. pc \in [Tasks -> {"none", "spawned", "done"} \cup Running] /\ Tasks = TasksOf(version)
  BY TypeFacts
<1>2. pc' = [pc EXCEPT ![t] = l]
  BY DEF GoTo
<1>3. pc' \in [Tasks -> {"none", "spawned", "done"} \cup Running]
  BY <1>1, <1>2
<1>4. Tasks' = Tasks
  BY <1>3 DEF Tasks
<1> QED
  BY <1>1, <1>2, <1>3, <1>4

\* No task is its own parent.
LEMMA FrontFacts ==
    ASSUME TypeOK, NEW t \in Tasks, t # Root
    PROVE  /\ Front(t) \in Tasks /\ Front(t) # t /\ n(Front(t)) >= version.CutOff
           /\ Last(t) \in Steps /\ t = Front(t) \o <<Last(t)>> /\ t \in Children(Front(t))
<1>1. version \in Versions /\ Tasks = TasksOf(version)
  BY TypeFacts
<1>2. /\ Front(t) \in Tasks /\ Argument(version, Front(t)) >= version.CutOff
      /\ Last(t) \in Steps /\ t = Front(t) \o <<Last(t)>>
  BY <1>1, ParentIsTask
<1>3. Len(t) = Len(Front(t)) + 1 /\ Len(Front(t)) \in Nat
  BY <1>1, <1>2, PathFacts, PrefixOfStep
<1>4. Front(t) # t
  BY <1>3
<1>5. t \in Children(Front(t))
  BY <1>2 DEF Children, Steps
<1> QED
  BY <1>2, <1>4, <1>5 DEF n

\* The two children of a task above the cutoff.
LEMMA ChildFacts ==
    ASSUME TypeOK, NEW t \in Tasks, n(t) >= version.CutOff
    PROVE  /\ t \o <<1>> \in Tasks /\ t \o <<2>> \in Tasks
           /\ \A s \in Steps : /\ t \o <<s>> # Root /\ Front(t \o <<s>>) = t
                               /\ Last(t \o <<s>>) = s /\ t \o <<s>> # t
                               /\ n(t \o <<s>>) = n(t) - s
           /\ t \o <<1>> # t \o <<2>>
           /\ Children(t) = {t \o <<1>>, t \o <<2>>}
<1>1. version \in Versions /\ Tasks = TasksOf(version) /\ t \in Seq(Steps) /\ 1 \in Steps /\ 2 \in Steps
  BY TypeFacts DEF Steps
<1>2. \A s \in Steps : t \o <<s>> \in Tasks /\ n(t \o <<s>>) = n(t) - s
  BY <1>1, ChildIsTask, ArgumentOfStep DEF n
<1>3. \A s \in Steps : t \o <<s>> # Root /\ Front(t \o <<s>>) = t /\ Last(t \o <<s>>) = s
  BY <1>1, FrontOfStep
<1>4. \A s \in Steps : t \o <<s>> # t
  BY <1>2, <1>3, FrontFacts
<1>5. t \o <<1>> # t \o <<2>>
  <2>1. Last(t \o <<1>>) = 1 /\ Last(t \o <<2>>) = 2
    BY <1>1, <1>3
  <2> QED
    BY <2>1
<1> QED
  BY <1>1, <1>2, <1>3, <1>4, <1>5 DEF Children

\* The children of a task are those whose Front it is.
LEMMA ChildrenHaveFront ==
    ASSUME TypeOK, NEW t \in Tasks, NEW c \in Children(t)
    PROVE  c \in Tasks /\ c # Root /\ Front(c) = t
<1>1. t \in Seq(Steps) /\ 1 \in Steps /\ 2 \in Steps
  BY TypeFacts DEF Steps
<1>2. c \in Tasks /\ (c = t \o <<1>> \/ c = t \o <<2>>)
  BY DEF Children
<1> QED
  BY <1>1, <1>2, FrontOfStep

\* The top of a stack.
LEMMA TopFacts ==
    ASSUME TypeOK, NEW w \in Workers, NEW t \in Tasks, t = Top(w)
    PROVE  /\ stack[w] \in Seq(Tasks) /\ Len(stack[w]) \in Nat \ {0}
           /\ Len(stack[w]) \in 1 .. Len(stack[w]) /\ stack[w][Len(stack[w])] = t
<1>1. stack[w] \in Seq(Tasks) /\ NoTask \notin Tasks
  BY TypeFacts DEF TypeOK
<1>2. stack[w] # <<>> /\ t = Last(stack[w])
  BY <1>1 DEF Top
<1>3. Len(stack[w]) \in Nat \ {0}
  BY <1>1, <1>2, EmptySeq
<1> QED
  BY <1>1, <1>2, <1>3 DEF Last
-----------------------------------------------------------------------------
(* The parts of the invariant that a move of the topmost task leaves alone. *)

\* The stacks stay right when the topmost task moves on and no other task starts
\* or ends.
LEMMA StacksKept ==
    ASSUME TypeOK, Stacks, NEW w \in Workers, NEW t \in Tasks, t = Top(w),
           stack' = stack, Tasks' = Tasks, pc'[t] \in Running,
           \A u \in Tasks : u # t =>
               pc'[u] = pc[u] \/ (pc[u] \notin Running /\ pc'[u] \notin Running)
    PROVE  Stacks'
<1>1. Len(stack[w]) \in 1 .. Len(stack[w]) /\ stack[w][Len(stack[w])] = t
  BY TopFacts
<1>2. ASSUME NEW u \in Workers, NEW i \in 1 .. Len(stack[u])
      PROVE  /\ stack[u][i] \in Tasks
             /\ pc'[stack[u][i]] \in Running
             /\ i < Len(stack[u]) => pc'[stack[u][i]] = "wait"
  <2> DEFINE x == stack[u][i]
  <2>1. x \in Tasks /\ Len(stack[u]) \in Nat
    BY ElementOfSeq, LenProperties DEF TypeOK
  <2>2. pc[x] \in Running /\ (i < Len(stack[u]) => pc[x] = "wait")
    BY DEF Stacks
  <2>3. x = t => u = w /\ i = Len(stack[w])
    BY <1>1 DEF Stacks
  <2> HIDE DEF x
  <2>4. CASE x = t
    <3>1. ~(i < Len(stack[u]))
      BY <2>1, <2>3, <2>4
    <3> QED
      BY <2>1, <2>4, <3>1 DEF x
  <2>5. CASE x # t
    <3>1. pc'[x] = pc[x]
      BY <2>1, <2>2, <2>5
    <3> QED
      BY <2>1, <2>2, <3>1 DEF x
  <2> QED
    BY <2>4, <2>5
<1>3. ASSUME NEW u \in Workers, NEW i \in 1 .. Len(stack[u]),
             NEW y \in Workers, NEW j \in 1 .. Len(stack[y]), stack[u][i] = stack[y][j]
      PROVE  u = y /\ i = j
  BY <1>3 DEF Stacks
<1>4. ASSUME NEW u \in Tasks, pc'[u] \in Running
      PROVE  \E y \in Workers : \E i \in 1 .. Len(stack[y]) : stack[y][i] = u
  <2>1. CASE u = t
    BY <1>1, <2>1
  <2>2. CASE u # t
    <3>1. pc[u] \in Running
      BY <1>4, <2>2
    <3> QED
      BY <3>1 DEF Stacks
  <2> QED
    BY <2>1, <2>2
<1> QED
  BY <1>2, <1>3, <1>4 DEF Stacks

\* The family stays right when one task moves on and its children allow it.
LEMMA FamilyKept ==
    ASSUME TypeOK, Family, NEW t \in Tasks, pc[t] \notin {"none", "done"},
           version' = version, Tasks' = Tasks, \A u \in Tasks : u # t => pc'[u] = pc[u],
           pc'[t] \in {"find", "compute", "insert", "store", "return", "done"},
           pc'[t] = "done" => pc[t] = "return",
           pc'[t] \in {"find", "compute"} => pc[t] \in {"spawned", "find"},
           \A c \in Children(t) : pc[c] \in {"none", "done"}
    PROVE  Family'
<1>1. ASSUME NEW u \in Tasks, u # Root
      PROVE  /\ pc'[Front(u)] \in {"none", "spawned", "find", "compute"} => pc'[u] = "none"
             /\ pc'[Front(u)] = "fork" /\ Last(u) = 1 => pc'[u] = "none"
             /\ pc'[Front(u)] \in {"insert", "store", "return", "done"} => pc'[u] \in {"none", "done"}
  <2>1. Front(u) \in Tasks /\ Front(u) # u /\ u \in Children(Front(u))
    BY <1>1, FrontFacts
  <2>2. /\ pc[Front(u)] \in {"none", "spawned", "find", "compute"} => pc[u] = "none"
        /\ pc[Front(u)] = "fork" /\ Last(u) = 1 => pc[u] = "none"
        /\ pc[Front(u)] \in {"insert", "store", "return", "done"} => pc[u] \in {"none", "done"}
    BY <1>1 DEF Family
  <2>3. CASE u = t
    BY <2>1, <2>2, <2>3
  <2>4. CASE u # t /\ Front(u) # t
    BY <2>1, <2>2, <2>4
  <2>5. CASE u # t /\ Front(u) = t
    BY <2>1, <2>2, <2>5
  <2> QED
    BY <2>3, <2>4, <2>5
<1>2. ASSUME NEW u \in Tasks, pc'[u] \in {"fork", "wait"}
      PROVE  n(u) >= version.CutOff
  BY <1>2 DEF Family
<1> QED
  BY <1>1, <1>2 DEF Family, n

\* The children that are not done can be counted.
LEMMA UnfinishedFinite ==
    ASSUME NEW t
    PROVE  /\ IsFiniteSet(Unfinished(t)) /\ Cardinality(Unfinished(t)) \in Nat
           /\ Cardinality(Unfinished(t)) <= 2
<1>1. IsFiniteSet({t \o <<1>>}) /\ Cardinality({t \o <<1>>}) = 1
  BY FS_Singleton
<1>2. {t \o <<1>>} \cup {t \o <<2>>} = {t \o <<1>>, t \o <<2>>}
  OBVIOUS
<1>3. IsFiniteSet({t \o <<1>>, t \o <<2>>}) /\ Cardinality({t \o <<1>>, t \o <<2>>}) <= 2
  <2>1. /\ IsFiniteSet({t \o <<1>>} \cup {t \o <<2>>})
        /\ Cardinality({t \o <<1>>} \cup {t \o <<2>>}) =
              IF t \o <<2>> \in {t \o <<1>>} THEN Cardinality({t \o <<1>>})
                                             ELSE Cardinality({t \o <<1>>}) + 1
    BY <1>1, FS_AddElement
  <2>2. Cardinality({t \o <<1>>} \cup {t \o <<2>>}) <= 2
    BY <1>1, <2>1
  <2> QED
    BY <1>2, <2>1, <2>2
<1>4. Unfinished(t) \in SUBSET {t \o <<1>>, t \o <<2>>}
  BY DEF Unfinished, Children
<1>5. Cardinality({t \o <<1>>, t \o <<2>>}) \in Nat
  BY <1>3, FS_CardinalityType
<1> QED
  BY <1>3, <1>4, <1>5, FS_Subset, FS_CardinalityType

\* The counts stay exact when no task ends and no task starts to fork.
LEMMA CountsKept ==
    ASSUME RefCountExact, Tasks' = Tasks,
           \A u \in Tasks : pc'[u] = "done" <=> pc[u] = "done",
           \A u \in Tasks : pc'[u] \in {"fork", "wait"} =>
               pc[u] \in {"fork", "wait"} /\ refCount'[u] = refCount[u]
    PROVE  RefCountExact'
<1>1. \A u : Unfinished(u)' = Unfinished(u)
  BY DEF Unfinished, Children
<1>2. ASSUME NEW u \in Tasks, pc'[u] \in {"fork", "wait"}
      PROVE  refCount'[u] = 1 + Cardinality(Unfinished(u)')
  <2>1. refCount[u] = 1 + Cardinality(Unfinished(u))
    BY <1>2 DEF RefCountExact
  <2>2. Unfinished(u)' = Unfinished(u)
    BY <1>1
  <2>3. refCount'[u] = refCount[u]
    BY <1>2
  <2> QED
    BY <2>1, <2>2, <2>3
<1> QED
  BY <1>2 DEF RefCountExact

\* A step of execute to a place where the task has no running child.
LEMMA MoveKeeps ==
    ASSUME TypeOK, Stacks, Family, RefCountExact, NEW w \in Workers, NEW t \in Tasks, t = Top(w),
           NEW l \in {"compute", "insert", "store", "return"}, GoTo(t, l),
           l = "compute" => pc[t] = "find", \A c \in Children(t) : pc[c] \in {"none", "done"},
           stack' = stack, version' = version,
           \A u \in Tasks : u # t => refCount'[u] = refCount[u]
    PROVE  Stacks' /\ Family' /\ RefCountExact'
<1>1. l \in Running
  BY DEF Running
<1>2. Tasks' = Tasks /\ pc'[t] = l /\ \A u \in Tasks : u # t => pc'[u] = pc[u]
  BY <1>1, GoToFacts
<1>3. pc[t] \in Running
  BY TopFacts DEF Stacks
<1>4. Stacks'
  BY <1>1, <1>2, StacksKept
<1>5. Family'
  BY <1>2, <1>3, FamilyKept DEF Running
<1>6. RefCountExact'
  BY <1>2, <1>3, CountsKept DEF Running
<1> QED
  BY <1>4, <1>5, <1>6
-----------------------------------------------------------------------------
(* The initial states and the steps. *)

LEMMA InitInvariant ==
    ASSUME Init
    PROVE  IInv
<1>1. version \in Versions /\ Root \in TasksOf(version)
  BY RootIsTask DEF Init
<1>2. /\ pc \in [TasksOf(version) -> {"none", "spawned", "done"} \cup Running]
      /\ Tasks = TasksOf(version)
      /\ \A t \in Tasks : pc[t] = IF t = Root THEN "spawned" ELSE "none"
  BY DEF Init, Tasks
<1>3. TypeOK
  <2>1. stack \in [Workers -> Seq(Tasks)]
    BY DEF Init
  <2>2. DOMAIN table = {} /\ table \in [DOMAIN table -> Nat]
    BY DEF Init
  <2>3. /\ sum \in [Tasks -> Nat] /\ refCount \in [Tasks -> 0 .. 3]
        /\ accessor \in [Arguments -> Tasks \cup {NoTask}]
    BY DEF Init
  <2> QED
    BY <1>1, <1>2, <2>1, <2>2, <2>3 DEF TypeOK
<1>4. Stacks
  <2>1. \A w \in Workers : stack[w] = <<>> /\ Len(<<>>) = 0
    BY DEF Init
  <2> QED
    BY <1>2, <2>1 DEF Stacks, Running
<1>5. Family
  BY <1>2, <1>3, FrontFacts DEF Family
<1>6. RefCountExact
  BY <1>2 DEF RefCountExact
<1>7. Accessors /\ TableRight
  BY <1>2 DEF Accessors, TableRight, Locked, Init
<1>8. ResultsRight
  BY <1>2 DEF ResultsRight
<1> QED
  BY <1>3, <1>4, <1>5, <1>6, <1>7, <1>8 DEF IInv

\* A worker takes a spawned task: it has none, or its topmost one waits.
LEMMA RunKeeps ==
    ASSUME IInv, NEW w \in Workers, NEW t \in Tasks, Run(w, t), version' = version
    PROVE  IInv'
<1> USE DEF IInv
<1>1. PICK l \in {"find", "compute"} : GoTo(t, l)
  BY DEF Run
<1>2. /\ pc[t] = "spawned" /\ (Top(w) # NoTask => pc[Top(w)] = "wait")
      /\ stack' = [stack EXCEPT ![w] = Append(@, t)]
      /\ UNCHANGED <<sum, refCount, table, accessor>>
  BY DEF Run
<1>3. /\ pc' \in [TasksOf(version') -> {"none", "spawned", "done"} \cup Running]
      /\ Tasks' = Tasks /\ pc'[t] = l /\ \A u \in Tasks : u # t => pc'[u] = pc[u]
      /\ l \in Running
  BY <1>1, GoToFacts DEF Running
<1>4. /\ stack \in [Workers -> Seq(Tasks)] /\ stack[w] \in Seq(Tasks) /\ Len(stack[w]) \in Nat
      /\ stack' \in [Workers -> Seq(Tasks)]
      /\ Len(stack'[w]) = Len(stack[w]) + 1 /\ stack'[w][Len(stack[w]) + 1] = t
      /\ \A i \in 1 .. Len(stack[w]) : stack'[w][i] = stack[w][i]
      /\ \A u \in Workers : u # w => stack'[u] = stack[u]
  <2>1. stack \in [Workers -> Seq(Tasks)]
    BY DEF TypeOK
  <2>2. stack'[w] = Append(stack[w], t) /\ \A u \in Workers : u # w => stack'[u] = stack[u]
    BY <1>2, <2>1
  <2> QED
    BY <1>2, <2>1, <2>2, AppendProperties, LenProperties
<1>5. TypeOK'
  BY <1>2, <1>3, <1>4 DEF TypeOK
<1>6. Stacks'
  <2>1. \A u \in Workers : \A i \in 1 .. Len(stack[u]) :
           stack[u][i] \in Tasks /\ stack[u][i] # t /\ pc[stack[u][i]] \in Running
           /\ Len(stack[u]) \in Nat
    BY <1>2, <1>4, ElementOfSeq, LenProperties DEF Stacks, Running
  <2>2. ASSUME NEW u \in Workers, NEW i \in 1 .. Len(stack'[u])
        PROVE  \/ u = w /\ i = Len(stack[w]) + 1 /\ stack'[u][i] = t
               \/ /\ i \in 1 .. Len(stack[u]) /\ stack'[u][i] = stack[u][i]
                  /\ stack'[u][i] \in Tasks /\ stack'[u][i] # t
    <3>1. CASE u = w /\ i = Len(stack[w]) + 1
      BY <1>4, <3>1
    <3>2. CASE u = w /\ i # Len(stack[w]) + 1
      <4>1. i \in 1 .. Len(stack[w])
        BY <1>4, <3>2
      <4> QED
        BY <1>4, <2>1, <3>2, <4>1
    <3>3. CASE u # w
      BY <1>4, <2>1, <3>3
    <3> QED
      BY <3>1, <3>2, <3>3
  <2>3. \A i \in 1 .. Len(stack[w]) : pc[stack[w][i]] = "wait"
    <3>1. SUFFICES ASSUME NEW i \in 1 .. Len(stack[w])
                   PROVE  pc[stack[w][i]] = "wait"
      OBVIOUS
    <3>2. i < Len(stack[w]) => pc[stack[w][i]] = "wait"
      BY DEF Stacks
    <3>3. i = Len(stack[w]) => pc[stack[w][i]] = "wait"
      <4>1. stack[w] # <<>> /\ Last(stack[w]) \in Tasks /\ Last(stack[w]) = stack[w][Len(stack[w])]
        BY <1>4, <2>1, <3>1, EmptySeq DEF Last
      <4>2. Top(w) = Last(stack[w]) /\ Top(w) # NoTask
        BY <4>1, TypeFacts DEF Top
      <4> QED
        BY <1>2, <4>1, <4>2
    <3> QED
      BY <1>4, <3>2, <3>3
  <2>4. ASSUME NEW u \in Workers, NEW i \in 1 .. Len(stack'[u])
        PROVE  pc'[stack'[u][i]] \in Running /\ (i < Len(stack'[u]) => pc'[stack'[u][i]] = "wait")
    <3>1. CASE u = w /\ i = Len(stack[w]) + 1
      BY <1>3, <1>4, <3>1
    <3>2. CASE i \in 1 .. Len(stack[u]) /\ stack'[u][i] = stack[u][i] /\ stack[u][i] \in Tasks
                  /\ stack[u][i] # t
      <4>1. pc'[stack'[u][i]] = pc[stack[u][i]] /\ pc[stack[u][i]] \in Running
        BY <1>3, <2>1, <3>2
      <4>2. CASE u = w
        BY <2>3, <3>2, <4>1, <4>2
      <4>3. CASE u # w
        <5>1. stack'[u] = stack[u]
          BY <1>4, <4>3
        <5> QED
          BY <3>2, <4>1, <5>1 DEF Stacks
      <4> QED
        BY <4>2, <4>3
    <3> QED
      BY <2>2, <3>1, <3>2
  <2>5. ASSUME NEW u \in Workers, NEW i \in 1 .. Len(stack'[u]),
               NEW y \in Workers, NEW j \in 1 .. Len(stack'[y]), stack'[u][i] = stack'[y][j]
        PROVE  u = y /\ i = j
    BY <2>2, <2>5 DEF Stacks
  <2>6. ASSUME NEW u \in Tasks, pc'[u] \in Running
        PROVE  \E y \in Workers : \E i \in 1 .. Len(stack'[y]) : stack'[y][i] = u
    <3>1. CASE u = t
      <4>1. Len(stack[w]) + 1 \in 1 .. Len(stack'[w])
        BY <1>4
      <4> QED
        BY <1>4, <3>1, <4>1
    <3>2. CASE u # t
      <4>1. pc[u] \in Running
        BY <1>3, <2>6, <3>2
      <4>2. PICK y \in Workers : \E i \in 1 .. Len(stack[y]) : stack[y][i] = u
        BY <4>1 DEF Stacks
      <4>3. PICK i \in 1 .. Len(stack[y]) : stack[y][i] = u
        BY <4>2
      <4>4. i \in 1 .. Len(stack'[y]) /\ stack'[y][i] = u
        <5>1. CASE y = w
          BY <1>4, <4>3, <5>1
        <5>2. CASE y # w
          BY <1>4, <4>3, <5>2
        <5> QED
          BY <5>1, <5>2
      <4> QED
        BY <4>4
    <3> QED
      BY <3>1, <3>2
  <2> QED
    BY <1>3, <2>4, <2>5, <2>6 DEF Stacks
<1>7. \A c \in Children(t) : pc[c] = "none"
  BY <1>2, ChildrenHaveFront DEF Family
<1>8. Family'
  BY <1>2, <1>3, <1>7, FamilyKept
<1>9. RefCountExact'
  BY <1>2, <1>3, CountsKept
<1>10. Accessors'
  <2>1. \A k \in Arguments : Locked(k) => accessor[k] \in Tasks
    BY DEF TypeOK, Locked
  <2> QED
    BY <1>2, <1>3, <2>1 DEF Accessors, Locked, n
<1>11. ResultsRight'
  BY <1>2, <1>3 DEF ResultsRight, n
<1>12. TableRight'
  BY <1>2 DEF TableRight, Locked
<1> QED
  BY <1>5, <1>6, <1>8, <1>9, <1>10, <1>11, <1>12

\* The task looks its result up.
LEMMA FindKeeps ==
    ASSUME IInv, NEW w \in Workers, NEW t \in Tasks, t = Top(w), Find(t), version' = version
    PROVE  IInv'
<1> USE DEF IInv
<1>1. PICK l \in {"compute", "return"} :
          /\ GoTo(t, l)
          /\ \/ l = "return" /\ Known(n(t)) /\ sum' = [sum EXCEPT ![t] = table[n(t)]]
             \/ l = "compute" /\ sum' = sum
  BY DEF Find
<1>2. pc[t] = "find" /\ ~Locked(n(t)) /\ UNCHANGED <<refCount, stack, table, accessor>>
  BY DEF Find
<1>3. /\ pc' \in [TasksOf(version') -> {"none", "spawned", "done"} \cup Running]
      /\ Tasks' = Tasks /\ pc'[t] = l /\ \A u \in Tasks : u # t => pc'[u] = pc[u]
  BY <1>1, GoToFacts DEF Running
<1>4. \A c \in Children(t) : pc[c] = "none"
  BY <1>2, ChildrenHaveFront DEF Family
<1>5. Stacks' /\ Family' /\ RefCountExact'
  BY <1>1, <1>2, <1>4, MoveKeeps
<1>6. /\ sum' \in [Tasks -> Nat] /\ \A u \in Tasks : u # t => sum'[u] = sum[u]
      /\ l = "return" => sum'[t] = SerialFib[n(t)]
  <2>1. sum \in [Tasks -> Nat] /\ (Known(n(t)) => table[n(t)] \in Nat)
    BY DEF TypeOK, Known
  <2>2. l = "return" => table[n(t)] = SerialFib[n(t)]
    BY <1>1, <1>2 DEF TableRight, Known
  <2> QED
    BY <1>1, <2>1, <2>2
<1>7. TypeOK'
  BY <1>2, <1>3, <1>6 DEF TypeOK
<1>8. Accessors'
  <2>1. \A k \in Arguments : Locked(k) => accessor[k] \in Tasks
    BY DEF TypeOK, Locked
  <2> QED
    BY <1>1, <1>2, <1>3, <2>1 DEF Accessors, Locked, n
<1>9. ResultsRight'
  BY <1>1, <1>3, <1>6 DEF ResultsRight, n
<1>10. TableRight'
  BY <1>2 DEF TableRight, Locked
<1> QED
  BY <1>5, <1>7, <1>8, <1>9, <1>10

\* After a result is computed, the task moves on to the table or returns.
LEMMA RememberKeeps ==
    ASSUME IInv, NEW w \in Workers, NEW t \in Tasks, t = Top(w), version' = version,
           Remember(t), pc[t] \in {"compute", "wait"}, \A c \in Children(t) : pc[c] \in {"none", "done"},
           NEW r \in Nat, sum' = [sum EXCEPT ![t] = r], r = SerialFib[n(t)],
           refCount' \in [Tasks -> 0 .. 3], \A u \in Tasks : u # t => refCount'[u] = refCount[u],
           UNCHANGED <<stack, table, accessor>>
    PROVE  IInv'
<1> USE DEF IInv
<1>1. PICK l \in {"insert", "return"} : GoTo(t, l)
  BY DEF Remember
<1>2. /\ pc' \in [TasksOf(version') -> {"none", "spawned", "done"} \cup Running]
      /\ Tasks' = Tasks /\ pc'[t] = l /\ \A u \in Tasks : u # t => pc'[u] = pc[u]
  BY <1>1, GoToFacts DEF Running
<1>3. Stacks' /\ Family' /\ RefCountExact'
  BY <1>1, MoveKeeps
<1>4. /\ sum' \in [Tasks -> Nat] /\ \A u \in Tasks : u # t => sum'[u] = sum[u]
      /\ sum'[t] = SerialFib[n(t)]
  BY DEF TypeOK
<1>5. TypeOK'
  BY <1>2, <1>4 DEF TypeOK
<1>6. Accessors'
  <2>1. \A k \in Arguments : Locked(k) => accessor[k] \in Tasks
    BY DEF TypeOK, Locked
  <2> QED
    BY <1>2, <2>1 DEF Accessors, Locked, n
<1>7. ResultsRight'
  BY <1>2, <1>4 DEF ResultsRight, n
<1>8. TableRight'
  BY DEF TableRight, Locked
<1> QED
  BY <1>3, <1>5, <1>6, <1>7, <1>8

\* A task below the cutoff computes its result itself.
LEMMA LeafKeeps ==
    ASSUME IInv, NEW w \in Workers, NEW t \in Tasks, t = Top(w), Leaf(t), version' = version
    PROVE  IInv'
<1>1. TypeOK /\ Family
  BY DEF IInv
<1>2. /\ pc[t] = "compute" /\ sum' = [sum EXCEPT ![t] = SerialFib[n(t)]] /\ Remember(t)
      /\ UNCHANGED <<refCount, stack, table, accessor>>
  BY DEF Leaf
<1>3. SerialFib[n(t)] \in Nat
  BY <1>1, TypeFacts, SerialFibEquation
<1>4. \A c \in Children(t) : pc[c] = "none"
  BY <1>1, <1>2, ChildrenHaveFront DEF Family
<1>5. refCount' \in [Tasks -> 0 .. 3]
  BY <1>1, <1>2 DEF TypeOK
<1> QED
  BY <1>2, <1>3, <1>4, <1>5, RememberKeeps

\* A count of one says that both children have returned: x and y are theirs.
LEMMA AddUpKeeps ==
    ASSUME IInv, NEW w \in Workers, NEW t \in Tasks, t = Top(w), AddUp(t), version' = version
    PROVE  IInv'
<1>1. TypeOK /\ Family /\ RefCountExact /\ ResultsRight
  BY DEF IInv
<1> DEFINE a == t \o <<1>>
           b == t \o <<2>>
           r == sum[a] + sum[b]
<1>2. /\ pc[t] = "wait" /\ refCount[t] = 1 /\ refCount' = [refCount EXCEPT ![t] = 0]
      /\ sum' = [sum EXCEPT ![t] = r] /\ Remember(t)
      /\ UNCHANGED <<stack, table, accessor>>
  BY DEF AddUp
<1>3. Unfinished(t) = {}
  <2>1. refCount[t] = 1 + Cardinality(Unfinished(t))
    BY <1>1, <1>2 DEF RefCountExact
  <2>2. Cardinality(Unfinished(t)) = 0
    BY <1>2, <2>1, UnfinishedFinite
  <2> QED
    BY <2>2, UnfinishedFinite, FS_EmptySet
<1>4. /\ n(t) >= version.CutOff /\ a \in Tasks /\ b \in Tasks /\ n(a) = n(t) - 1 /\ n(b) = n(t) - 2
      /\ Children(t) = {a, b}
  BY <1>1, <1>2, ChildFacts DEF Family, Steps
<1>5. pc[a] = "done" /\ pc[b] = "done"
  BY <1>3, <1>4 DEF Unfinished
<1>6. sum[a] = SerialFib[n(t) - 1] /\ sum[b] = SerialFib[n(t) - 2]
  BY <1>1, <1>4, <1>5 DEF ResultsRight
<1>7. n(t) \in Arguments /\ n(t) - 1 \in Arguments /\ n(t) - 2 \in Arguments /\ ~(n(t) < 2)
  <2>1. version.CutOff \in Nat \ {0, 1} /\ n(t) \in Arguments /\ N \in Nat
    BY <1>1, TypeFacts, VersionFacts
  <2> QED
    BY <1>4, <2>1 DEF Arguments
<1>8. r \in Nat /\ r = SerialFib[n(t)]
  BY <1>6, <1>7, SerialFibEquation
<1>9. refCount' \in [Tasks -> 0 .. 3] /\ \A u \in Tasks : u # t => refCount'[u] = refCount[u]
  BY <1>1, <1>2 DEF TypeOK
<1>10. \A c \in Children(t) : pc[c] = "done"
  BY <1>4, <1>5
<1> HIDE DEF a, b, r
<1> QED
  BY <1>2, <1>8, <1>9, <1>10, RememberKeeps

\* A new entry is locked until its value is stored: no task can find it.
LEMMA InsertKeeps ==
    ASSUME IInv, NEW w \in Workers, NEW t \in Tasks, t = Top(w), Insert(t), version' = version
    PROVE  IInv'
<1> USE DEF IInv
<1>1. PICK l \in {"store", "return"} :
          /\ GoTo(t, l)
          /\ \/ l = "return" /\ UNCHANGED <<table, accessor>>
             \/ /\ l = "store" /\ ~Known(n(t)) /\ NewEntry(n(t))
                /\ accessor' = [accessor EXCEPT ![n(t)] = t]
  BY DEF Insert
<1>2. pc[t] = "insert" /\ ~Locked(n(t)) /\ UNCHANGED <<sum, refCount, stack>>
  BY DEF Insert
<1>3. /\ pc' \in [TasksOf(version') -> {"none", "spawned", "done"} \cup Running]
      /\ Tasks' = Tasks /\ pc'[t] = l /\ \A u \in Tasks : u # t => pc'[u] = pc[u]
  BY <1>1, GoToFacts DEF Running
<1>4. \A c \in Children(t) : pc[c] \in {"none", "done"}
  BY <1>2, ChildrenHaveFront DEF Family
<1>5. Stacks' /\ Family' /\ RefCountExact'
  BY <1>1, <1>2, <1>4, MoveKeeps
<1>6. n(t) \in Arguments /\ NoTask \notin Tasks
  BY TypeFacts
<1>7. /\ accessor' \in [Arguments -> Tasks \cup {NoTask}]
      /\ \A k \in Arguments : k # n(t) => accessor'[k] = accessor[k]
      /\ l = "store" => accessor'[n(t)] = t
      /\ l = "return" => accessor' = accessor
  BY <1>1, <1>6 DEF TypeOK
<1>8. /\ DOMAIN table' \subseteq Arguments /\ table' \in [DOMAIN table' -> Nat]
      /\ \A k \in DOMAIN table : k \in DOMAIN table' /\ (k # n(t) => table'[k] = table[k])
      /\ \A k \in DOMAIN table' : k # n(t) => k \in DOMAIN table
      /\ l = "return" => table' = table
      /\ l = "store" => n(t) \in DOMAIN table'
  <2>1. DOMAIN table \subseteq Arguments /\ table \in [DOMAIN table -> Nat]
    BY DEF TypeOK
  <2>2. CASE l = "return"
    BY <1>1, <2>1, <2>2
  <2>3. CASE l = "store"
    <3>1. table' = [k \in DOMAIN table \cup {n(t)} |-> IF k = n(t) THEN 0 ELSE table[k]]
      BY <1>1, <2>3 DEF NewEntry
    <3> QED
      BY <1>6, <2>1, <2>3, <3>1
  <2> QED
    BY <2>2, <2>3
<1>9. TypeOK'
  BY <1>2, <1>3, <1>7, <1>8 DEF TypeOK
<1>10. Accessors'
  <2>1. \A k \in Arguments : Locked(k) => accessor[k] \in Tasks
    BY DEF TypeOK, Locked
  <2>2. ASSUME NEW k \in Arguments, accessor'[k] # NoTask
        PROVE  pc'[accessor'[k]] = "store" /\ n(accessor'[k]) = k
    <3>1. CASE k = n(t)
      BY <1>2, <1>3, <1>7, <2>2, <3>1 DEF Locked
    <3>2. CASE k # n(t)
      BY <1>2, <1>3, <1>7, <2>1, <2>2, <3>2 DEF Locked, Accessors
    <3> QED
      BY <3>1, <3>2
  <2>3. ASSUME NEW u \in Tasks, pc'[u] = "store"
        PROVE  n(u) \in DOMAIN table' /\ accessor'[n(u)] = u
    <3>1. CASE u = t
      BY <1>3, <1>7, <1>8, <2>3, <3>1
    <3>2. CASE u # t
      <4>1. n(u) \in DOMAIN table /\ accessor[n(u)] = u /\ n(u) \in Arguments
        BY <1>3, <2>3, <3>2, TypeFacts DEF Accessors
      <4>2. n(u) # n(t)
        BY <1>2, <1>6, <4>1 DEF Locked
      <4> QED
        BY <1>7, <1>8, <4>1, <4>2
    <3> QED
      BY <3>1, <3>2
  <2> QED
    BY <1>3, <2>2, <2>3 DEF Accessors, Locked, n
<1>11. ResultsRight'
  BY <1>2, <1>3 DEF ResultsRight, n
<1>12. TableRight'
  <2>1. ASSUME NEW k \in DOMAIN table', accessor'[k] = NoTask
        PROVE  table'[k] = SerialFib[k]
    <3>1. k \in Arguments
      BY <1>8
    <3>2. CASE l = "return"
      BY <1>7, <1>8, <2>1, <3>2 DEF TableRight, Locked
    <3>3. CASE l = "store"
      <4>1. k # n(t)
        BY <1>6, <1>7, <2>1, <3>3
      <4> QED
        BY <1>7, <1>8, <2>1, <3>1, <4>1 DEF TableRight, Locked
    <3> QED
      BY <3>2, <3>3
  <2> QED
    BY <2>1 DEF TableRight, Locked
<1> QED
  BY <1>5, <1>9, <1>10, <1>11, <1>12

\* The value is there before the accessor is given back.
LEMMA StoreKeeps ==
    ASSUME IInv, NEW w \in Workers, NEW t \in Tasks, t = Top(w), Store(t), version' = version
    PROVE  IInv'
<1> USE DEF IInv
<1>1. /\ pc[t] = "store" /\ table' = [table EXCEPT ![n(t)] = sum[t]] /\ GoTo(t, "return")
      /\ accessor' = [accessor EXCEPT ![n(t)] = NoTask] /\ UNCHANGED <<sum, refCount, stack>>
  BY DEF Store
<1>2. /\ pc' \in [TasksOf(version') -> {"none", "spawned", "done"} \cup Running]
      /\ Tasks' = Tasks /\ pc'[t] = "return" /\ \A u \in Tasks : u # t => pc'[u] = pc[u]
  BY <1>1, GoToFacts DEF Running
<1>3. \A c \in Children(t) : pc[c] \in {"none", "done"}
  BY <1>1, ChildrenHaveFront DEF Family
<1>4. Stacks' /\ Family' /\ RefCountExact'
  BY <1>1, <1>3, MoveKeeps
<1>5. /\ n(t) \in Arguments /\ NoTask \notin Tasks /\ n(t) \in DOMAIN table /\ accessor[n(t)] = t
      /\ sum[t] = SerialFib[n(t)] /\ sum[t] \in Nat
  BY <1>1, TypeFacts DEF Accessors, ResultsRight, TypeOK
<1>6. /\ accessor' \in [Arguments -> Tasks \cup {NoTask}] /\ accessor'[n(t)] = NoTask
      /\ \A k \in Arguments : k # n(t) => accessor'[k] = accessor[k]
  BY <1>1, <1>5 DEF TypeOK
<1>7. /\ DOMAIN table' = DOMAIN table /\ DOMAIN table \subseteq Arguments
      /\ table' \in [DOMAIN table' -> Nat] /\ table'[n(t)] = sum[t]
      /\ \A k \in DOMAIN table : k # n(t) => table'[k] = table[k]
  BY <1>1, <1>5 DEF TypeOK
<1>8. TypeOK'
  BY <1>1, <1>2, <1>6, <1>7 DEF TypeOK
<1>9. Accessors'
  <2>1. \A k \in Arguments : Locked(k) => accessor[k] \in Tasks
    BY DEF TypeOK, Locked
  <2>2. ASSUME NEW k \in Arguments, accessor'[k] # NoTask
        PROVE  pc'[accessor'[k]] = "store" /\ n(accessor'[k]) = k
    <3>1. k # n(t) /\ accessor'[k] = accessor[k]
      BY <1>6, <2>2
    <3>2. accessor[k] \in Tasks /\ pc[accessor[k]] = "store" /\ n(accessor[k]) = k
      BY <2>1, <2>2, <3>1 DEF Accessors, Locked
    <3>3. accessor[k] # t
      BY <3>1, <3>2
    <3> QED
      BY <1>2, <3>1, <3>2, <3>3
  <2>3. ASSUME NEW u \in Tasks, pc'[u] = "store"
        PROVE  n(u) \in DOMAIN table' /\ accessor'[n(u)] = u
    <3>1. u # t /\ pc[u] = "store"
      BY <1>2, <2>3
    <3>2. n(u) \in DOMAIN table /\ accessor[n(u)] = u /\ n(u) \in Arguments
      BY <3>1, TypeFacts DEF Accessors
    <3>3. n(u) # n(t)
      BY <1>5, <3>1, <3>2
    <3> QED
      BY <1>6, <1>7, <3>2, <3>3
  <2> QED
    BY <1>2, <2>2, <2>3 DEF Accessors, Locked, n
<1>10. ResultsRight'
  BY <1>1, <1>2 DEF ResultsRight, n
<1>11. TableRight'
  <2>1. ASSUME NEW k \in DOMAIN table', accessor'[k] = NoTask
        PROVE  table'[k] = SerialFib[k]
    <3>1. CASE k = n(t)
      BY <1>5, <1>7, <3>1
    <3>2. CASE k # n(t)
      BY <1>6, <1>7, <2>1, <3>2 DEF TableRight, Locked
    <3> QED
      BY <3>1, <3>2
  <2> QED
    BY <2>1 DEF TableRight, Locked
<1> QED
  BY <1>4, <1>8, <1>9, <1>10, <1>11

\* A task starts to fork, or goes on to wait, and spawns the child that the step
\* is about.
Spawns(t, l, s) ==
    /\ pc' = [pc EXCEPT ![t] = l, ![t \o <<s>>] = "spawned"]
    /\ \/ pc[t] = "compute" /\ l = "fork" /\ s = 2
       \/ pc[t] = "fork" /\ l = "wait" /\ s = 1

LEMMA SpawnKeeps ==
    ASSUME TypeOK, Stacks, Family, NEW w \in Workers, NEW t \in Tasks, t = Top(w),
           version' = version, stack' = stack, n(t) >= version.CutOff,
           NEW l \in {"fork", "wait"}, NEW s \in Steps, Spawns(t, l, s)
    PROVE  /\ Stacks' /\ Family' /\ Tasks' = Tasks
           /\ pc' \in [TasksOf(version') -> {"none", "spawned", "done"} \cup Running]
           /\ pc'[t] = l /\ t \o <<s>> \in Tasks /\ pc[t \o <<s>>] = "none"
           /\ pc'[t \o <<s>>] = "spawned" /\ t # t \o <<s>>
           /\ \A u \in Tasks : u \notin {t, t \o <<s>>} => pc'[u] = pc[u]
<1> USE DEF Spawns
<1> DEFINE c == t \o <<s>>
<1>1. pc \in [Tasks -> {"none", "spawned", "done"} \cup Running] /\ Tasks = TasksOf(version)
  BY TypeFacts
<1>2. /\ c \in Tasks /\ c # Root /\ Front(c) = t /\ Last(c) = s /\ c # t
      /\ Children(t) = {t \o <<1>>, t \o <<2>>}
  BY ChildFacts DEF Steps
<1>3. pc[c] = "none"
  BY <1>2 DEF Family
<1>4. ASSUME NEW d \in Tasks, d # Root, Front(d) = t, d # c
      PROVE  Last(d) # s
  BY <1>2, <1>4, FrontFacts
<1> HIDE DEF c
<1>5. pc' = [pc EXCEPT ![t] = l, ![c] = "spawned"]
  BY DEF c
<1>6. /\ pc' \in [Tasks -> {"none", "spawned", "done"} \cup Running]
      /\ pc'[t] = l /\ pc'[c] = "spawned" /\ \A u \in Tasks : u \notin {t, c} => pc'[u] = pc[u]
  BY <1>1, <1>2, <1>5 DEF Running
<1>7. Tasks' = Tasks
  BY <1>6 DEF Tasks
<1>8. Stacks'
  <2>1. l \in Running /\ "spawned" \notin Running /\ "none" \notin Running
    BY DEF Running
  <2>2. \A u \in Tasks : u # t =>
            pc'[u] = pc[u] \/ (pc[u] \notin Running /\ pc'[u] \notin Running)
    BY <1>3, <1>6, <2>1
  <2>3. pc'[t] \in Running
    BY <1>6, <2>1
  <2> QED
    BY <1>7, <2>2, <2>3, StacksKept
<1>9. Family'
  <2>1. ASSUME NEW u \in Tasks, u # Root
        PROVE  /\ pc'[Front(u)] \in {"none", "spawned", "find", "compute"} => pc'[u] = "none"
               /\ pc'[Front(u)] = "fork" /\ Last(u) = 1 => pc'[u] = "none"
               /\ pc'[Front(u)] \in {"insert", "store", "return", "done"} => pc'[u] \in {"none", "done"}
    <3>1. Front(u) \in Tasks /\ Front(u) # u
      BY <2>1, FrontFacts
    <3>2. /\ pc[Front(u)] \in {"none", "spawned", "find", "compute"} => pc[u] = "none"
          /\ pc[Front(u)] = "fork" /\ Last(u) = 1 => pc[u] = "none"
          /\ pc[Front(u)] \in {"insert", "store", "return", "done"} => pc[u] \in {"none", "done"}
      BY <2>1 DEF Family
    <3>3. CASE u = t
      <4>1. Front(u) # c
        BY <1>3, <3>2, <3>3
      <4> QED
        BY <1>6, <3>1, <3>2, <3>3, <4>1
    <3>4. CASE u = c
      BY <1>2, <1>6, <3>4
    <3>5. CASE u \notin {t, c} /\ Front(u) = t
      BY <1>2, <1>6, <2>1, <3>2, <3>5
    <3>6. CASE u \notin {t, c} /\ Front(u) = c
      BY <1>2, <1>3, <1>6, <3>2, <3>6
    <3>7. CASE u \notin {t, c} /\ Front(u) \notin {t, c}
      BY <1>6, <3>1, <3>2, <3>7
    <3> QED
      BY <3>3, <3>4, <3>5, <3>6, <3>7
  <2>2. ASSUME NEW u \in Tasks, pc'[u] \in {"fork", "wait"}
        PROVE  n(u) >= version.CutOff
    BY <1>6, <2>2 DEF Family
  <2> QED
    BY <1>7, <2>1, <2>2 DEF Family, n
<1> QED
  BY <1>1, <1>2, <1>3, <1>6, <1>7, <1>8, <1>9 DEF c

\* Such a step leaves the results and the table alone.
LEMMA SpawnKeepsResults ==
    ASSUME TypeOK, Accessors, ResultsRight, TableRight, Tasks' = Tasks, version' = version,
           UNCHANGED <<sum, table, accessor>>,
           \A u \in Tasks : pc'[u] = pc[u] \/ (pc'[u] \in {"fork", "wait", "spawned"}
                                               /\ pc[u] \in {"none", "compute", "fork"})
    PROVE  Accessors' /\ ResultsRight' /\ TableRight'
<1>1. \A k \in Arguments : Locked(k) => accessor[k] \in Tasks
  BY DEF TypeOK, Locked
<1>2. Accessors'
  BY <1>1 DEF Accessors, Locked, n
<1>3. ResultsRight'
  BY DEF ResultsRight, n
<1>4. TableRight'
  BY DEF TableRight, Locked
<1> QED
  BY <1>2, <1>3, <1>4

\* The count is set, for both children and the wait, before the first is spawned.
LEMMA ForkKeeps ==
    ASSUME IInv, NEW w \in Workers, NEW t \in Tasks, t = Top(w), Fork(t), version' = version
    PROVE  IInv'
<1> USE DEF IInv
<1> DEFINE a == t \o <<1>>
           b == t \o <<2>>
<1>1. /\ pc[t] = "compute" /\ n(t) >= version.CutOff /\ refCount' = [refCount EXCEPT ![t] = 3]
      /\ pc' = [pc EXCEPT ![t] = "fork", ![b] = "spawned"]
      /\ UNCHANGED <<sum, stack, table, accessor>>
  BY DEF Fork
<1>2. /\ Stacks' /\ Family' /\ Tasks' = Tasks
      /\ pc' \in [TasksOf(version') -> {"none", "spawned", "done"} \cup Running]
      /\ pc'[t] = "fork" /\ b \in Tasks /\ pc[b] = "none" /\ pc'[b] = "spawned" /\ t # b
      /\ \A u \in Tasks : u \notin {t, b} => pc'[u] = pc[u]
  <2>1. 2 \in Steps /\ stack' = stack
    BY <1>1 DEF Steps
  <2> DEFINE l == "fork"
             s == 2
  <2>2. Spawns(t, l, s) /\ s \in Steps /\ l \in {"fork", "wait"}
    BY <1>1, <2>1 DEF Spawns
  <2> HIDE DEF l, s
  <2>3. /\ Stacks' /\ Family' /\ Tasks' = Tasks
        /\ pc' \in [TasksOf(version') -> {"none", "spawned", "done"} \cup Running]
        /\ pc'[t] = l /\ t \o <<s>> \in Tasks /\ pc[t \o <<s>>] = "none"
        /\ pc'[t \o <<s>>] = "spawned" /\ t # t \o <<s>>
        /\ \A u \in Tasks : u \notin {t, t \o <<s>>} => pc'[u] = pc[u]
    <3>1. TypeOK /\ Stacks /\ Family /\ n(t) >= version.CutOff
      BY <1>1
    <3> QED
      BY <2>1, <2>2, <3>1, SpawnKeeps
  <2> QED
    BY <2>3 DEF l, s
<1>3. a \in Tasks /\ a # b /\ a # Root /\ a # t /\ Front(a) = t /\ Children(t) = {a, b}
  BY <1>1, ChildFacts DEF Steps
<1>4. pc[a] = "none"
  BY <1>1, <1>3 DEF Family
<1> HIDE DEF a, b
<1>5. refCount' \in [Tasks -> 0 .. 3] /\ refCount'[t] = 3
      /\ \A u \in Tasks : u # t => refCount'[u] = refCount[u]
  BY <1>1 DEF TypeOK
<1>6. TypeOK'
  BY <1>1, <1>2, <1>5 DEF TypeOK
<1>7. RefCountExact'
  <2>1. \A u : Unfinished(u)' = Unfinished(u)
    BY <1>1, <1>2 DEF Unfinished, Children
  <2>2. Unfinished(t) = {a} \cup {b}
    BY <1>2, <1>3, <1>4 DEF Unfinished
  <2>3. Cardinality(Unfinished(t)) = 2
    <3>1. IsFiniteSet({a}) /\ Cardinality({a}) = 1
      BY FS_Singleton
    <3>2. Cardinality({a} \cup {b}) = IF b \in {a} THEN Cardinality({a}) ELSE Cardinality({a}) + 1
      BY <3>1, FS_AddElement
    <3> QED
      BY <1>3, <2>2, <3>1, <3>2
  <2>4. ASSUME NEW u \in Tasks, pc'[u] \in {"fork", "wait"}
        PROVE  refCount'[u] = 1 + Cardinality(Unfinished(u)')
    <3>1. CASE u = t
      <4>1. Unfinished(t)' = Unfinished(t)
        BY <2>1
      <4> QED
        BY <1>5, <2>3, <3>1, <4>1
    <3>2. CASE u # t
      <4>1. refCount[u] = 1 + Cardinality(Unfinished(u)) /\ refCount'[u] = refCount[u]
        BY <1>2, <1>5, <2>4, <3>2 DEF RefCountExact
      <4>2. Unfinished(u)' = Unfinished(u)
        BY <2>1
      <4> QED
        BY <4>1, <4>2
    <3> QED
      BY <3>1, <3>2
  <2> QED
    BY <1>2, <2>4 DEF RefCountExact
<1>8. Accessors' /\ ResultsRight' /\ TableRight'
  BY <1>1, <1>2, SpawnKeepsResults
<1> QED
  BY <1>2, <1>6, <1>7, <1>8

LEMMA SpawnLastKeeps ==
    ASSUME IInv, NEW w \in Workers, NEW t \in Tasks, t = Top(w), SpawnLast(t), version' = version
    PROVE  IInv'
<1> USE DEF IInv
<1> DEFINE a == t \o <<1>>
<1>1. /\ pc[t] = "fork" /\ pc' = [pc EXCEPT ![t] = "wait", ![a] = "spawned"]
      /\ UNCHANGED <<sum, refCount, stack, table, accessor>>
  BY DEF SpawnLast
<1>2. n(t) >= version.CutOff
  BY <1>1 DEF Family
<1>3. /\ Stacks' /\ Family' /\ Tasks' = Tasks
      /\ pc' \in [TasksOf(version') -> {"none", "spawned", "done"} \cup Running]
      /\ pc'[t] = "wait" /\ a \in Tasks /\ pc[a] = "none" /\ pc'[a] = "spawned" /\ t # a
      /\ \A u \in Tasks : u \notin {t, a} => pc'[u] = pc[u]
  <2>1. 1 \in Steps /\ stack' = stack
    BY <1>1 DEF Steps
  <2> DEFINE l == "wait"
             s == 1
  <2>2. Spawns(t, l, s) /\ s \in Steps /\ l \in {"fork", "wait"}
    BY <1>1, <2>1 DEF Spawns
  <2> HIDE DEF l, s
  <2>3. /\ Stacks' /\ Family' /\ Tasks' = Tasks
        /\ pc' \in [TasksOf(version') -> {"none", "spawned", "done"} \cup Running]
        /\ pc'[t] = l /\ t \o <<s>> \in Tasks /\ pc[t \o <<s>>] = "none"
        /\ pc'[t \o <<s>>] = "spawned" /\ t # t \o <<s>>
        /\ \A u \in Tasks : u \notin {t, t \o <<s>>} => pc'[u] = pc[u]
    <3>1. TypeOK /\ Stacks /\ Family /\ n(t) >= version.CutOff
      BY <1>1, <1>2
    <3> QED
      BY <2>1, <2>2, <3>1, SpawnKeeps
  <2> QED
    BY <2>3 DEF l, s
<1> HIDE DEF a
<1>4. TypeOK'
  BY <1>1, <1>3 DEF TypeOK
<1>5. RefCountExact'
  BY <1>1, <1>3, CountsKept
<1>6. Accessors' /\ ResultsRight' /\ TableRight'
  BY <1>1, <1>3, SpawnKeepsResults
<1> QED
  BY <1>3, <1>4, <1>5, <1>6

\* A task that returns leaves its stack and is counted down at its parent, which
\* forks or waits.
LEMMA ReturnKeeps ==
    ASSUME IInv, NEW w \in Workers, NEW t \in Tasks, t = Top(w), Return(w, t), version' = version
    PROVE  IInv'
<1> USE DEF IInv
<1> DEFINE p == Front(t)
           q == stack[w]
<1>1. /\ pc[t] = "return" /\ GoTo(t, "done") /\ stack' = [stack EXCEPT ![w] = Front(@)]
      /\ refCount' = IF t = Root THEN refCount ELSE [refCount EXCEPT ![p] = @ - 1]
      /\ UNCHANGED <<sum, table, accessor>>
  BY DEF Return
<1>2. /\ pc' \in [TasksOf(version') -> {"none", "spawned", "done"} \cup Running]
      /\ Tasks' = Tasks /\ pc'[t] = "done" /\ \A u \in Tasks : u # t => pc'[u] = pc[u]
  BY <1>1, GoToFacts
<1>3. q \in Seq(Tasks) /\ Len(q) \in Nat \ {0} /\ q[Len(q)] = t
  BY TopFacts
<1>4. /\ stack \in [Workers -> Seq(Tasks)] /\ stack'[w] = SubSeq(q, 1, Len(q) - 1)
      /\ \A u \in Workers : u # w => stack'[u] = stack[u]
  BY <1>1 DEF TypeOK, Front
<1>5. /\ stack'[w] \in Seq(Tasks) /\ Len(stack'[w]) = Len(q) - 1
      /\ \A i \in 1 .. Len(q) - 1 : stack'[w][i] = q[i]
  <2> DEFINE z == SubSeq(q, 1, Len(q) - 1)
             m == Len(q)
  <2>1. 1 \in Int /\ m - 1 \in Int /\ \A i \in 1 .. m - 1 : q[i] \in Tasks
    BY <1>3, ElementOfSeq
  <2>2. /\ z \in Seq(Tasks) /\ Len(z) = IF 1 <= m - 1 THEN (m - 1) - 1 + 1 ELSE 0
        /\ \A i \in 1 .. (m - 1) - 1 + 1 : z[i] = q[1 + i - 1]
    BY <2>1, SubSeqProperties
  <2>3. m \in Nat \ {0}
    BY <1>3
  <2> HIDE DEF z, m
  <2>4. Len(z) = m - 1 /\ \A i \in 1 .. m - 1 : z[i] = q[i]
    <3>1. (m - 1) - 1 + 1 = m - 1 /\ \A i \in 1 .. m - 1 : 1 + i - 1 = i
      BY <2>3
    <3>2. Len(z) = m - 1
      BY <2>2, <2>3
    <3> QED
      BY <2>2, <3>1, <3>2
  <2> QED
    BY <1>4, <2>2, <2>4 DEF z, m
<1> HIDE DEF q
<1>6. /\ stack' \in [Workers -> Seq(Tasks)]
      /\ \A u \in Workers : Len(stack[u]) \in Nat
      /\ \A u \in Workers : \A i \in 1 .. Len(stack'[u]) :
            /\ i \in 1 .. Len(stack[u]) /\ stack'[u][i] = stack[u][i] /\ stack'[u][i] \in Tasks
            /\ i < Len(stack'[u]) => i < Len(stack[u])
            /\ u = w => i # Len(q)
      /\ \A u \in Workers : \A i \in 1 .. Len(stack[u]) :
            (u = w /\ i = Len(q)) \/ (i \in 1 .. Len(stack'[u]) /\ stack'[u][i] = stack[u][i])
  <2>1. stack' \in [Workers -> Seq(Tasks)]
    BY <1>1, <1>4, <1>5
  <2>2. ASSUME NEW u \in Workers
        PROVE  /\ Len(stack[u]) \in Nat
               /\ \A i \in 1 .. Len(stack'[u]) :
                     /\ i \in 1 .. Len(stack[u]) /\ stack'[u][i] = stack[u][i]
                     /\ i < Len(stack'[u]) => i < Len(stack[u])
                     /\ u = w => i # Len(q)
               /\ \A i \in 1 .. Len(stack[u]) :
                     (u = w /\ i = Len(q)) \/ (i \in 1 .. Len(stack'[u]) /\ stack'[u][i] = stack[u][i])
    <3>1. Len(stack[u]) \in Nat
      BY <1>4, LenProperties
    <3>2. CASE u = w
      <4>1. stack[u] = q
        BY <3>2 DEF q
      <4>2. Len(stack'[u]) = Len(q) - 1 /\ \A i \in 1 .. Len(q) - 1 : stack'[u][i] = q[i]
        BY <1>5, <3>2
      <4>3. \A i \in 1 .. Len(q) - 1 :
                i \in 1 .. Len(q) /\ i # Len(q) /\ (i < Len(q) - 1 => i < Len(q))
        BY <1>3
      <4>4. \A i \in 1 .. Len(q) : i = Len(q) \/ i \in 1 .. Len(q) - 1
        BY <1>3
      <4>5. \A i \in 1 .. Len(stack'[u]) :
                /\ i \in 1 .. Len(stack[u]) /\ stack'[u][i] = stack[u][i]
                /\ i < Len(stack'[u]) => i < Len(stack[u])
                /\ i # Len(q)
        BY <4>1, <4>2, <4>3
      <4>6. \A i \in 1 .. Len(stack[u]) :
                i = Len(q) \/ (i \in 1 .. Len(stack'[u]) /\ stack'[u][i] = stack[u][i])
        BY <4>1, <4>2, <4>4
      <4> QED
        BY <3>1, <3>2, <4>5, <4>6, Zenon
    <3>3. CASE u # w
      BY <1>4, <3>1, <3>3
    <3> QED
      BY <3>1, <3>2, <3>3
  <2>3. \A u \in Workers : \A i \in 1 .. Len(stack'[u]) : stack'[u][i] \in Tasks
    BY <2>1, ElementOfSeq
  <2> QED
    BY <2>1, <2>2, <2>3
<1>7. Stacks'
  <2>1. ASSUME NEW u \in Workers, NEW i \in 1 .. Len(stack'[u])
        PROVE  stack'[u][i] # t
    <3>1. Len(q) \in 1 .. Len(stack[w]) /\ stack[w][Len(q)] = t
      BY <1>3 DEF q
    <3>2. stack[u][i] = t => u = w /\ i = Len(q)
      BY <1>6, <3>1 DEF Stacks
    <3> QED
      BY <1>6, <3>2
  <2>2. ASSUME NEW u \in Workers, NEW i \in 1 .. Len(stack'[u])
        PROVE  pc'[stack'[u][i]] \in Running /\ (i < Len(stack'[u]) => pc'[stack'[u][i]] = "wait")
    <3>1. pc'[stack'[u][i]] = pc[stack[u][i]]
      BY <1>2, <1>6, <2>1
    <3>2. pc[stack[u][i]] \in Running /\ (i < Len(stack[u]) => pc[stack[u][i]] = "wait")
      BY <1>6 DEF Stacks
    <3> QED
      BY <1>6, <3>1, <3>2
  <2>3. ASSUME NEW u \in Workers, NEW i \in 1 .. Len(stack'[u]),
               NEW y \in Workers, NEW j \in 1 .. Len(stack'[y]), stack'[u][i] = stack'[y][j]
        PROVE  u = y /\ i = j
    BY <1>6, <2>3 DEF Stacks
  <2>4. ASSUME NEW u \in Tasks, pc'[u] \in Running
        PROVE  \E y \in Workers : \E i \in 1 .. Len(stack'[y]) : stack'[y][i] = u
    <3>1. u # t /\ pc[u] \in Running
      BY <1>2, <2>4 DEF Running
    <3>2. PICK y \in Workers : \E i \in 1 .. Len(stack[y]) : stack[y][i] = u
      BY <3>1 DEF Stacks
    <3>3. PICK i \in 1 .. Len(stack[y]) : stack[y][i] = u
      BY <3>2
    <3>4. ~(y = w /\ i = Len(q))
      BY <1>3, <3>1, <3>3 DEF q
    <3> QED
      BY <1>6, <3>3, <3>4
  <2> QED
    BY <1>2, <2>2, <2>3, <2>4 DEF Stacks
<1>8. \A c \in Children(t) : pc[c] \in {"none", "done"}
  BY <1>1, ChildrenHaveFront DEF Family
<1>9. Family'
  BY <1>1, <1>2, <1>8, FamilyKept
<1>10. t # Root => /\ p \in Tasks /\ p # t /\ pc[p] \in {"fork", "wait"} /\ t \in Children(p)
                   /\ refCount[p] = 1 + Cardinality(Unfinished(p)) /\ t \in Unfinished(p)
                   /\ refCount[p] \in 1 .. 3
  <2> SUFFICES ASSUME t # Root
               PROVE  /\ p \in Tasks /\ p # t /\ pc[p] \in {"fork", "wait"} /\ t \in Children(p)
                      /\ refCount[p] = 1 + Cardinality(Unfinished(p)) /\ t \in Unfinished(p)
                      /\ refCount[p] \in 1 .. 3
    OBVIOUS
  <2>1. p \in Tasks /\ p # t /\ t \in Children(p)
    BY FrontFacts
  <2>2. pc[p] \in {"none", "spawned", "done"} \cup Running
    BY <2>1, TypeFacts
  <2>3. pc[p] \in {"fork", "wait"}
    BY <1>1, <2>2 DEF Family, Running
  <2>4. refCount[p] = 1 + Cardinality(Unfinished(p)) /\ Cardinality(Unfinished(p)) \in 0 .. 2
    BY <2>1, <2>3, UnfinishedFinite DEF RefCountExact
  <2> QED
    BY <1>1, <2>1, <2>3, <2>4 DEF Unfinished
<1> HIDE DEF p
<1>11. /\ refCount' \in [Tasks -> 0 .. 3]
       /\ \A u \in Tasks : refCount'[u] = IF t # Root /\ u = p THEN refCount[u] - 1 ELSE refCount[u]
  <2>1. refCount \in [Tasks -> 0 .. 3]
    BY DEF TypeOK
  <2>2. CASE t = Root
    BY <1>1, <2>1, <2>2
  <2>3. CASE t # Root
    <3>1. refCount' = [refCount EXCEPT ![p] = @ - 1] /\ refCount[p] - 1 \in 0 .. 3
      BY <1>1, <1>10, <2>3
    <3> QED
      BY <2>1, <2>3, <3>1
  <2> QED
    BY <2>2, <2>3
<1>12. TypeOK'
  BY <1>1, <1>2, <1>6, <1>11 DEF TypeOK
<1>13. RefCountExact'
  <2>1. ASSUME NEW u \in Tasks
        PROVE  Unfinished(u)' = Unfinished(u) \ {t}
    BY <1>2 DEF Unfinished, Children
  <2>2. ASSUME NEW u \in Tasks, ~(t # Root /\ u = p)
        PROVE  t \notin Unfinished(u)
    BY <2>2, ChildrenHaveFront DEF Unfinished, p
  <2>3. ASSUME NEW u \in Tasks, pc'[u] \in {"fork", "wait"}
        PROVE  refCount'[u] = 1 + Cardinality(Unfinished(u)')
    <3>1. refCount[u] = 1 + Cardinality(Unfinished(u)) /\ Cardinality(Unfinished(u)) \in Nat
      BY <1>2, <2>3, UnfinishedFinite DEF RefCountExact
    <3>2. Unfinished(u)' = Unfinished(u) \ {t}
      BY <2>1
    <3>3. CASE t # Root /\ u = p
      <4>1. Cardinality(Unfinished(u) \ {t}) = Cardinality(Unfinished(u)) - 1
        BY <1>10, <3>3, UnfinishedFinite, FS_RemoveElement
      <4> QED
        BY <1>11, <3>1, <3>2, <3>3, <4>1
    <3>4. CASE ~(t # Root /\ u = p)
      <4>1. Unfinished(u) \ {t} = Unfinished(u)
        BY <2>2, <3>4
      <4> QED
        BY <1>11, <3>1, <3>2, <3>4, <4>1
    <3> QED
      BY <3>3, <3>4
  <2> QED
    BY <1>2, <2>3 DEF RefCountExact
<1>14. Accessors'
  <2>1. \A k \in Arguments : Locked(k) => accessor[k] \in Tasks
    BY DEF TypeOK, Locked
  <2> QED
    BY <1>1, <1>2, <2>1 DEF Accessors, Locked, n
<1>15. ResultsRight' /\ TableRight'
  BY <1>1, <1>2 DEF ResultsRight, TableRight, Locked, n
<1> QED
  BY <1>7, <1>9, <1>12, <1>13, <1>14, <1>15
-----------------------------------------------------------------------------
LEMMA NextKeeps ==
    ASSUME IInv, [Next]_vars
    PROVE  IInv'
<1>1. ASSUME NEW w \in Workers, Execute(w)
      PROVE  IInv'
  BY <1>1, FindKeeps, LeafKeeps, ForkKeeps, SpawnLastKeeps, AddUpKeeps, InsertKeeps, StoreKeeps,
     ReturnKeeps DEF Execute
<1>2. ASSUME NEW w \in Workers, Schedule(w)
      PROVE  IInv'
  BY <1>2, RunKeeps DEF Schedule
<1>3. CASE UNCHANGED vars
  <2> USE <1>3 DEF vars
  <2>1. Tasks' = Tasks /\ \A u : n(u)' = n(u)
    BY DEF Tasks, n
  <2>2. TypeOK' /\ Stacks' /\ Family'
    BY <2>1 DEF IInv, TypeOK, Stacks, Family, n
  <2>3. RefCountExact'
    BY <2>1, CountsKept DEF IInv
  <2>4. Accessors' /\ ResultsRight' /\ TableRight'
    BY <2>1 DEF IInv, Accessors, ResultsRight, TableRight, Locked, n
  <2> QED
    BY <2>2, <2>3, <2>4 DEF IInv
<1> QED
  BY <1>1, <1>2, <1>3 DEF Next

\* The inductive invariant holds in every state of every run.
THEOREM Invariant == Spec => []IInv
<1>1. Init => IInv
  BY InitInvariant
<1>2. IInv /\ [Next]_vars => IInv'
  BY NextKeeps
<1> QED
  BY <1>1, <1>2, PTL DEF Spec

\* The values of the variables; no reference count passes 3 or 0.
THEOREM TypeCorrect == Spec => []TypeOK
<1>1. IInv => TypeOK
  BY DEF IInv
<1> QED
  BY <1>1, Invariant, PTL

\* Every task leaves the Fibonacci number of its argument.
THEOREM Results == Spec => []ResultsRight
<1>1. IInv => ResultsRight
  BY DEF IInv
<1> QED
  BY <1>1, Invariant, PTL

\* No task finds an entry whose value is not there yet.
THEOREM Entries == Spec => []TableRight
<1>1. IInv => TableRight
  BY DEF IInv
<1> QED
  BY <1>1, Invariant, PTL

\* The count of a task that waits is one more than its unfinished children.
THEOREM Counts == Spec => []RefCountExact
<1>1. IInv => RefCountExact
  BY DEF IInv
<1> QED
  BY <1>1, Invariant, PTL

\* Who holds an accessor stores, and so is on top.
LEMMA HolderOnTop == IInv => AccessorNotHeldInWait
<1> SUFFICES ASSUME IInv
             PROVE  AccessorNotHeldInWait
  OBVIOUS
<1>1. TypeOK /\ Stacks /\ Accessors
  BY DEF IInv
<1>2. SUFFICES ASSUME NEW k \in Arguments, Locked(k)
               PROVE  \E w \in Workers : Top(w) = accessor[k]
  BY DEF AccessorNotHeldInWait
<1> DEFINE t == accessor[k]
<1>3. t \in Tasks /\ pc[t] = "store" /\ pc[t] \in Running
  BY <1>1, <1>2 DEF TypeOK, Locked, Accessors, Running
<1>4. PICK w \in Workers : \E i \in 1 .. Len(stack[w]) : stack[w][i] = t
  BY <1>1, <1>3 DEF Stacks
<1>5. PICK i \in 1 .. Len(stack[w]) : stack[w][i] = t
  BY <1>4
<1>6. stack[w] \in Seq(Tasks) /\ Len(stack[w]) \in Nat
  BY <1>1, LenProperties DEF TypeOK
<1>7. ~(i < Len(stack[w]))
  BY <1>1, <1>3, <1>5 DEF Stacks
<1>8. i = Len(stack[w]) /\ stack[w] # <<>>
  BY <1>5, <1>6, <1>7, EmptySeq
<1> QED
  BY <1>5, <1>8 DEF Top, Last

\* No worker runs another task while a task below it holds an accessor.
THEOREM NoAccessorInWait == Spec => []AccessorNotHeldInWait
BY HolderOnTop, Invariant, PTL
-----------------------------------------------------------------------------
(* Some worker can always go on.  A task that waits may lie under a task that *)
(* has nothing to do with it; what rules out a circle is the order in which   *)
(* the tasks were started.                                                    *)

\* The children of a task that waits have been spawned, and so has the root.
AllSpawned ==
    /\ pc[Root] # "none"
    /\ \A t \in Tasks : t # Root =>
         /\ pc[Front(t)] = "wait" => pc[t] # "none"
         /\ pc[Front(t)] = "fork" /\ Last(t) = 2 => pc[t] # "none"

\* Numbers up to m in the order in which the running tasks were started: a task
\* is later than those under it and than its parent.
Ranking(rank, m) ==
    /\ rank \in [Tasks -> 0 .. m]
    /\ \A w \in Workers : \A i, j \in 1 .. Len(stack[w]) :
          i < j => rank[stack[w][i]] < rank[stack[w][j]]
    /\ \A t \in Tasks : t # Root /\ pc[t] \in Running => rank[Front(t)] < rank[t]
StartedInOrder == \E m \in Nat : \E rank : Ranking(rank, m)

Order == AllSpawned /\ StartedInOrder

LEMMA AllSpawnedKept ==
    ASSUME TypeOK, AllSpawned, NEW t \in Tasks, Tasks' = Tasks,
           \A u \in Tasks : u # t => pc'[u] = pc[u],
           pc'[t] \notin {"none", "fork", "wait"}
    PROVE  AllSpawned'
<1>1. pc'[Root] # "none"
  BY TypeFacts DEF AllSpawned
<1>2. ASSUME NEW u \in Tasks, u # Root
      PROVE  /\ pc'[Front(u)] = "wait" => pc'[u] # "none"
             /\ pc'[Front(u)] = "fork" /\ Last(u) = 2 => pc'[u] # "none"
  <2>1. Front(u) \in Tasks
    BY <1>2, FrontFacts
  <2> QED
    BY <1>2, <2>1 DEF AllSpawned
<1> QED
  BY <1>1, <1>2 DEF AllSpawned

\* The order stays when no task starts and stacks only lose tasks.
LEMMA OrderKept ==
    ASSUME StartedInOrder, Tasks' = Tasks,
           \A u \in Tasks : pc'[u] \in Running => pc[u] \in Running,
           \A w \in Workers : \A i \in 1 .. Len(stack'[w]) :
               i \in 1 .. Len(stack[w]) /\ stack'[w][i] = stack[w][i]
    PROVE  StartedInOrder'
<1>1. PICK m \in Nat : \E rank : Ranking(rank, m)
  BY DEF StartedInOrder
<1>2. PICK rank : Ranking(rank, m)
  BY <1>1
<1>3. Ranking(rank, m)'
  BY <1>2 DEF Ranking
<1> QED
  BY <1>3 DEF StartedInOrder

LEMMA MoveKeepsOrder ==
    ASSUME TypeOK, Stacks, Order, NEW w \in Workers, NEW t \in Tasks, t = Top(w),
           NEW l \in {"compute", "insert", "store", "return"}, GoTo(t, l),
           stack' = stack, version' = version
    PROVE  Order'
<1>1. l \in Running /\ l \notin {"none", "fork", "wait"}
  BY DEF Running
<1>2. Tasks' = Tasks /\ pc'[t] = l /\ \A u \in Tasks : u # t => pc'[u] = pc[u]
  BY <1>1, GoToFacts
<1>3. pc[t] \in Running
  BY TopFacts DEF Stacks
<1>4. AllSpawned'
  BY <1>1, <1>2, AllSpawnedKept DEF Order
<1>5. StartedInOrder'
  BY <1>2, <1>3, OrderKept DEF Order
<1> QED
  BY <1>4, <1>5 DEF Order

\* A task that is started is the latest of all.
LEMMA RunKeepsOrder ==
    ASSUME IInv, Order, NEW w \in Workers, NEW t \in Tasks, Run(w, t), version' = version
    PROVE  Order'
<1>1. PICK l \in {"find", "compute"} : GoTo(t, l)
  BY DEF Run
<1>2. TypeOK /\ Stacks /\ Family /\ pc[t] = "spawned" /\ stack' = [stack EXCEPT ![w] = Append(@, t)]
  BY DEF Run, IInv
<1>3. /\ l \in Running /\ l \notin {"none", "fork", "wait"} /\ "spawned" \notin Running
      /\ "none" \notin Running
      /\ Tasks' = Tasks /\ pc'[t] = l /\ \A u \in Tasks : u # t => pc'[u] = pc[u]
  BY <1>1, <1>2, GoToFacts DEF Running
<1>4. AllSpawned'
  BY <1>2, <1>3, AllSpawnedKept DEF Order
<1>5. PICK m \in Nat : \E rank : Ranking(rank, m)
  BY DEF Order, StartedInOrder
<1>6. PICK rank : Ranking(rank, m)
  BY <1>5
<1> DEFINE later == [rank EXCEPT ![t] = m + 1]
<1>7. /\ rank \in [Tasks -> 0 .. m] /\ later \in [Tasks -> 0 .. m + 1] /\ later[t] = m + 1
      /\ \A u \in Tasks : u # t => later[u] = rank[u] /\ rank[u] \in 0 .. m
  BY <1>6 DEF Ranking
<1> HIDE DEF later
<1>8. ASSUME NEW u \in Workers, NEW i \in 1 .. Len(stack[u])
      PROVE  stack[u][i] \in Tasks /\ stack[u][i] # t /\ Len(stack[u]) \in Nat
  BY <1>2, <1>3, ElementOfSeq, LenProperties DEF Stacks, TypeOK
<1>9. ASSUME NEW u \in Workers, NEW i \in 1 .. Len(stack'[u]), NEW j \in 1 .. Len(stack'[u]), i < j
      PROVE  later[stack'[u][i]] < later[stack'[u][j]]
  <2>1. CASE u # w
    <3>1. stack'[u] = stack[u]
      BY <1>2, <2>1 DEF TypeOK
    <3> QED
      BY <1>6, <1>7, <1>8, <1>9, <3>1 DEF Ranking
  <2>2. CASE u = w
    <3>1. /\ Len(stack[w]) \in Nat /\ Len(stack'[w]) = Len(stack[w]) + 1
          /\ stack'[w][Len(stack[w]) + 1] = t
          /\ \A k \in 1 .. Len(stack[w]) : stack'[w][k] = stack[w][k]
      <4>1. stack[w] \in Seq(Tasks) /\ stack'[w] = Append(stack[w], t)
        BY <1>2 DEF TypeOK
      <4> QED
        BY <4>1, AppendProperties, LenProperties
    <3>2. i \in 1 .. Len(stack[w])
      BY <1>9, <2>2, <3>1
    <3>3. stack'[w][i] = stack[w][i] /\ stack[w][i] \in Tasks /\ stack[w][i] # t
      BY <1>8, <3>1, <3>2
    <3>4. CASE j = Len(stack[w]) + 1
      BY <1>7, <2>2, <3>1, <3>3, <3>4
    <3>5. CASE j \in 1 .. Len(stack[w])
      <4>1. stack'[w][j] = stack[w][j] /\ stack[w][j] \in Tasks /\ stack[w][j] # t
        BY <1>8, <3>1, <3>5
      <4>2. rank[stack[w][i]] < rank[stack[w][j]]
        BY <1>6, <1>9, <3>2, <3>5 DEF Ranking
      <4> QED
        BY <1>7, <2>2, <3>3, <4>1, <4>2
    <3> QED
      BY <2>2, <3>1, <3>4, <3>5
  <2> QED
    BY <2>1, <2>2
<1>10. ASSUME NEW u \in Tasks, u # Root, pc'[u] \in Running
       PROVE  later[Front(u)] < later[u]
  <2>1. Front(u) \in Tasks /\ Front(u) # u
    BY <1>2, <1>10, FrontFacts
  <2>2. CASE u = t
    BY <1>7, <2>1, <2>2
  <2>3. CASE u # t
    <3>1. pc[u] \in Running
      BY <1>3, <1>10, <2>3
    <3>2. Front(u) # t
      BY <1>2, <1>3, <1>10, <3>1 DEF Family
    <3>3. rank[Front(u)] < rank[u]
      BY <1>6, <1>10, <3>1 DEF Ranking
    <3> QED
      BY <1>7, <2>1, <2>3, <3>2, <3>3
  <2> QED
    BY <2>2, <2>3
<1>11. Ranking(later, m + 1)'
  BY <1>3, <1>7, <1>9, <1>10 DEF Ranking
<1>12. m + 1 \in Nat
  OBVIOUS
<1> QED
  BY <1>4, <1>11, <1>12 DEF Order, StartedInOrder

LEMMA SpawnKeepsOrder ==
    ASSUME IInv, Order, NEW w \in Workers, NEW t \in Tasks, t = Top(w),
           version' = version, stack' = stack, n(t) >= version.CutOff,
           NEW l \in {"fork", "wait"}, NEW s \in Steps, Spawns(t, l, s)
    PROVE  Order'
<1> DEFINE c == t \o <<s>>
<1>1. TypeOK /\ Stacks /\ Family
  BY DEF IInv
<1>2. /\ Tasks' = Tasks /\ pc'[t] = l /\ c \in Tasks /\ pc[c] = "none"
      /\ pc'[c] = "spawned" /\ t # c
      /\ \A u \in Tasks : u \notin {t, c} => pc'[u] = pc[u]
  BY <1>1, SpawnKeeps
<1>3. pc[t] \in Running /\ pc[t] \notin {"none"} /\ "spawned" \notin Running /\ l # "none"
  BY <1>1, TopFacts DEF Stacks, Running
<1> HIDE DEF c
<1>4. pc'[Root] # "none"
  BY <1>1, <1>2, <1>3, TypeFacts DEF Order, AllSpawned
<1>5. ASSUME NEW u \in Tasks, u # Root
      PROVE  /\ pc'[Front(u)] = "wait" => pc'[u] # "none"
             /\ pc'[Front(u)] = "fork" /\ Last(u) = 2 => pc'[u] # "none"
  <2>1. Front(u) \in Tasks /\ Last(u) \in Steps /\ u = Front(u) \o <<Last(u)>>
    BY <1>1, <1>5, FrontFacts
  <2>2. /\ pc[Front(u)] = "wait" => pc[u] # "none"
        /\ pc[Front(u)] = "fork" /\ Last(u) = 2 => pc[u] # "none"
    BY <1>5 DEF Order, AllSpawned
  <2>3. CASE u \in {t, c}
    BY <1>2, <1>3, <2>3
  <2>4. CASE u \notin {t, c} /\ Front(u) = t
    <3>1. Last(u) # s
      BY <2>1, <2>4 DEF c
    <3>2. (l = "fork" /\ s = 2) \/ (l = "wait" /\ s = 1 /\ pc[t] = "fork")
      BY DEF Spawns
    <3>3. pc'[Front(u)] = l /\ pc'[u] = pc[u]
      BY <1>2, <2>4
    <3>4. CASE l = "fork" /\ s = 2
      BY <3>1, <3>3, <3>4
    <3>5. CASE l = "wait" /\ s = 1 /\ pc[t] = "fork"
      <4>1. Last(u) = 2
        BY <2>1, <3>1, <3>5 DEF Steps
      <4> QED
        BY <2>2, <2>4, <3>3, <3>5, <4>1
    <3> QED
      BY <3>2, <3>4, <3>5
  <2>5. CASE u \notin {t, c} /\ Front(u) # t
    <3>1. pc'[u] = pc[u] /\ (Front(u) = c => pc'[Front(u)] = "spawned")
          /\ (Front(u) # c => pc'[Front(u)] = pc[Front(u)])
      BY <1>2, <2>1, <2>5
    <3> QED
      BY <2>2, <3>1
  <2> QED
    BY <2>3, <2>4, <2>5
<1>6. AllSpawned'
  BY <1>2, <1>4, <1>5 DEF AllSpawned
<1>7. \A u \in Tasks : pc'[u] \in Running => pc[u] \in Running
  BY <1>2, <1>3
<1>8. StartedInOrder'
  BY <1>2, <1>7, OrderKept DEF Order
<1> QED
  BY <1>6, <1>8 DEF Order

LEMMA ReturnKeepsOrder ==
    ASSUME IInv, Order, NEW w \in Workers, NEW t \in Tasks, t = Top(w), Return(w, t),
           version' = version
    PROVE  Order'
<1> DEFINE q == stack[w]
<1>1. TypeOK /\ GoTo(t, "done") /\ stack' = [stack EXCEPT ![w] = Front(@)]
  BY DEF Return, IInv
<1>2. /\ Tasks' = Tasks /\ pc'[t] = "done" /\ \A u \in Tasks : u # t => pc'[u] = pc[u]
  BY <1>1, GoToFacts
<1>3. q \in Seq(Tasks) /\ Len(q) \in Nat \ {0}
  BY <1>1, TopFacts
<1>4. stack'[w] = SubSeq(q, 1, Len(q) - 1) /\ \A u \in Workers : u # w => stack'[u] = stack[u]
  BY <1>1 DEF TypeOK, Front
<1>5. Len(stack'[w]) = Len(q) - 1 /\ \A i \in 1 .. Len(q) - 1 : stack'[w][i] = q[i]
  <2> DEFINE z == SubSeq(q, 1, Len(q) - 1)
             m == Len(q)
  <2>1. 1 \in Int /\ m - 1 \in Int /\ \A i \in 1 .. m - 1 : q[i] \in Tasks
    BY <1>3, ElementOfSeq
  <2>2. /\ Len(z) = IF 1 <= m - 1 THEN (m - 1) - 1 + 1 ELSE 0
        /\ \A i \in 1 .. (m - 1) - 1 + 1 : z[i] = q[1 + i - 1]
    BY <2>1, SubSeqProperties
  <2>3. m \in Nat \ {0}
    BY <1>3
  <2> HIDE DEF z, m
  <2>4. (m - 1) - 1 + 1 = m - 1 /\ \A i \in 1 .. m - 1 : 1 + i - 1 = i
    BY <2>3
  <2>5. Len(z) = m - 1
    BY <2>2, <2>3
  <2> QED
    BY <1>4, <2>2, <2>4, <2>5 DEF z, m
<1>6. \A u \in Workers : \A i \in 1 .. Len(stack'[u]) :
        i \in 1 .. Len(stack[u]) /\ stack'[u][i] = stack[u][i]
  BY <1>3, <1>4, <1>5
<1>7. \A u \in Tasks : pc'[u] \in Running => pc[u] \in Running
  BY <1>2 DEF Running
<1>8. StartedInOrder'
  BY <1>2, <1>6, <1>7, OrderKept DEF Order
<1>9. AllSpawned'
  BY <1>1, <1>2, AllSpawnedKept DEF Order
<1> QED
  BY <1>8, <1>9 DEF Order

LEMMA InitOrder == Init => Order
<1> SUFFICES ASSUME Init
             PROVE  Order
  OBVIOUS
<1>1. /\ pc = [t \in TasksOf(version) |-> IF t = Root THEN "spawned" ELSE "none"]
      /\ Tasks = TasksOf(version) /\ TypeOK
      /\ stack = [w \in Workers |-> <<>>]
  BY InitInvariant DEF Init, Tasks, IInv
<1>2. \A t \in Tasks : pc[t] = IF t = Root THEN "spawned" ELSE "none"
  BY <1>1
<1>3. AllSpawned
  <2>1. pc[Root] = "spawned"
    BY <1>1, <1>2, TypeFacts
  <2>2. \A t \in Tasks : t # Root => Front(t) \in Tasks
    BY <1>1, FrontFacts
  <2>3. \A t \in Tasks : pc[t] \notin {"wait", "fork"}
    BY <1>2
  <2> QED
    BY <2>1, <2>2, <2>3 DEF AllSpawned
<1>4. Ranking([t \in Tasks |-> 0], 0)
  <2>1. \A t \in Tasks : pc[t] \notin Running
    BY <1>2 DEF Running
  <2>2. \A w \in Workers : 1 .. Len(stack[w]) = {}
    BY <1>1
  <2> QED
    BY <2>1, <2>2 DEF Ranking
<1> QED
  BY <1>3, <1>4 DEF Order, StartedInOrder

LEMMA NextKeepsOrder ==
    ASSUME IInv, Order, [Next]_vars
    PROVE  Order'
<1>1. TypeOK /\ Stacks
  BY DEF IInv
<1>2. ASSUME NEW w \in Workers, Execute(w)
      PROVE  Order'
  <2>1. PICK t \in Tasks : /\ t = Top(w) /\ version' = version
                           /\ \/ Find(t) \/ Leaf(t) \/ Fork(t) \/ SpawnLast(t)
                              \/ AddUp(t) \/ Insert(t) \/ Store(t) \/ Return(w, t)
    BY <1>2 DEF Execute
  <2>2. CASE Find(t) \/ Leaf(t) \/ AddUp(t) \/ Insert(t) \/ Store(t)
    <3>1. stack' = stack
      BY <2>2 DEF Find, Leaf, AddUp, Insert, Store
    <3>2. \E l \in {"compute", "insert", "store", "return"} : GoTo(t, l)
      BY <2>2 DEF Find, Leaf, AddUp, Insert, Store, Remember
    <3> QED
      BY <1>1, <2>1, <3>1, <3>2, MoveKeepsOrder
  <2>3. CASE Fork(t)
    <3>1. stack' = stack /\ n(t) >= version.CutOff /\ Spawns(t, "fork", 2)
      BY <2>3 DEF Fork, Spawns
    <3> QED
      BY <2>1, <3>1, SpawnKeepsOrder DEF Steps
  <2>4. CASE SpawnLast(t)
    <3>1. stack' = stack /\ Spawns(t, "wait", 1) /\ pc[t] = "fork"
      BY <2>4 DEF SpawnLast, Spawns
    <3>2. n(t) >= version.CutOff
      BY <3>1 DEF IInv, Family
    <3> QED
      BY <2>1, <3>1, <3>2, SpawnKeepsOrder DEF Steps
  <2>5. CASE Return(w, t)
    BY <2>1, <2>5, ReturnKeepsOrder
  <2> QED
    BY <2>1, <2>2, <2>3, <2>4, <2>5
<1>3. ASSUME NEW w \in Workers, Schedule(w)
      PROVE  Order'
  BY <1>3, RunKeepsOrder DEF Schedule
<1>4. CASE UNCHANGED vars
  <2>1. Tasks' = Tasks /\ pc' = pc /\ stack' = stack
    BY <1>4 DEF vars, Tasks
  <2>2. AllSpawned'
    BY <2>1 DEF Order, AllSpawned
  <2>3. StartedInOrder'
    BY <2>1, OrderKept DEF Order
  <2> QED
    BY <2>2, <2>3 DEF Order
<1> QED
  BY <1>2, <1>3, <1>4 DEF Next

\* The latest of the running tasks is on top, and no child of it runs.
LEMMA LatestTask ==
    ASSUME IInv, Order, NEW r \in Tasks, pc[r] \in Running
    PROVE  \E w \in Workers : \E t \in Tasks :
              /\ t = Top(w) /\ pc[t] \in Running
              /\ \A c \in Children(t) : pc[c] \notin Running
<1>1. TypeOK /\ Stacks
  BY DEF IInv
<1>2. PICK m \in Nat : \E rank : Ranking(rank, m)
  BY DEF Order, StartedInOrder
<1>3. PICK rank : Ranking(rank, m)
  BY <1>2
<1>4. \A u \in Tasks : rank[u] \in 0 .. m
  BY <1>3 DEF Ranking
<1> DEFINE ages == {m - rank[u] : u \in {x \in Tasks : pc[x] \in Running}}
<1>5. \E a \in ages : \A b \in ages : a <= b
  <2>1. ages \in SUBSET Nat /\ ages # {}
    BY <1>4
  <2> HIDE DEF ages
  <2> QED
    BY <2>1, Least
<1>6. PICK t \in Tasks : pc[t] \in Running /\ \A b \in ages : m - rank[t] <= b
  BY <1>5
<1>7. ASSUME NEW u \in Tasks, pc[u] \in Running
      PROVE  ~(rank[t] < rank[u])
  <2>1. m - rank[u] \in ages
    BY <1>7
  <2>2. m - rank[t] <= m - rank[u]
    BY <1>6, <2>1
  <2> QED
    BY <1>4, <2>2
<1>8. PICK w \in Workers : \E i \in 1 .. Len(stack[w]) : stack[w][i] = t
  BY <1>1, <1>6 DEF Stacks
<1>9. PICK i \in 1 .. Len(stack[w]) : stack[w][i] = t
  BY <1>8
<1>10. stack[w] \in Seq(Tasks) /\ Len(stack[w]) \in Nat
  BY <1>1, LenProperties DEF TypeOK
<1>11. i = Len(stack[w])
  <2>1. SUFFICES ASSUME i < Len(stack[w])
                 PROVE  FALSE
    BY <1>10
  <2>2. Len(stack[w]) \in 1 .. Len(stack[w])
    BY <1>10, <2>1
  <2>3. stack[w][Len(stack[w])] \in Tasks /\ pc[stack[w][Len(stack[w])]] \in Running
    BY <1>1, <1>10, <2>2, ElementOfSeq DEF Stacks
  <2>4. rank[t] < rank[stack[w][Len(stack[w])]]
    BY <1>3, <1>9, <2>1, <2>2 DEF Ranking
  <2> QED
    BY <1>7, <2>3, <2>4
<1>12. t = Top(w)
  BY <1>9, <1>10, <1>11, EmptySeq DEF Top, Last
<1>13. ASSUME NEW c \in Children(t)
       PROVE  pc[c] \notin Running
  <2>1. c \in Tasks /\ c # Root /\ Front(c) = t
    BY <1>1, ChildrenHaveFront
  <2> QED
    BY <1>3, <1>7, <2>1 DEF Ranking
<1> QED
  BY <1>6, <1>12, <1>13

LEMMA SomebodyGoesOn ==
    ASSUME IInv, Order
    PROVE  NoDeadlock
<1>1. TypeOK /\ Stacks /\ Accessors /\ Family
  BY DEF IInv
<1>2. SUFFICES ASSUME ~Returned
               PROVE  \E w \in Workers : CanGoOn(w)
  BY DEF NoDeadlock
<1>3. ASSUME NEW k \in Arguments, Locked(k)
      PROVE  \E w \in Workers : CanGoOn(w)
  <2>1. AccessorNotHeldInWait
    BY HolderOnTop
  <2>2. PICK w \in Workers : Top(w) = accessor[k]
    BY <1>3, <2>1 DEF AccessorNotHeldInWait
  <2>3. accessor[k] \in Tasks /\ pc[accessor[k]] = "store"
    BY <1>1, <1>3 DEF Accessors, TypeOK, Locked
  <2> QED
    BY <2>2, <2>3 DEF CanGoOn
<1>4. CASE \E t \in Tasks : pc[t] \in Running
  <2>1. PICK w \in Workers, t \in Tasks :
           t = Top(w) /\ pc[t] \in Running /\ \A c \in Children(t) : pc[c] \notin Running
    BY <1>4, LatestTask
  <2>2. CASE pc[t] # "wait"
    <3>1. CASE pc[t] \in {"find", "insert"}
      <4>1. n(t) \in Arguments
        BY <1>1, TypeFacts
      <4> QED
        BY <1>3, <2>1, <3>1, <4>1 DEF CanGoOn
    <3>2. CASE pc[t] \in {"compute", "fork", "store", "return"}
      BY <2>1, <3>2 DEF CanGoOn
    <3> QED
      BY <2>1, <2>2, <3>1, <3>2 DEF Running
  <2>3. CASE pc[t] = "wait" /\ \E c \in Children(t) : pc[c] = "spawned"
    <3>1. \E c \in Tasks : pc[c] = "spawned"
      BY <2>3 DEF Children
    <3> QED
      BY <2>1, <2>3, <3>1 DEF CanGoOn
  <2>4. CASE pc[t] = "wait" /\ \A c \in Children(t) : pc[c] # "spawned"
    <3>1. ASSUME NEW c \in Children(t)
          PROVE  pc[c] = "done"
      <4>1. c \in Tasks /\ c # Root /\ Front(c) = t
        BY <1>1, ChildrenHaveFront
      <4>2. pc[c] # "none"
        BY <2>4, <4>1 DEF Order, AllSpawned
      <4>3. pc[c] \in {"none", "spawned", "done"} \cup Running
        BY <1>1, <4>1, TypeFacts
      <4> QED
        BY <2>1, <2>4, <4>2, <4>3
    <3>2. Unfinished(t) = {}
      BY <3>1 DEF Unfinished
    <3>3. refCount[t] = 1 + Cardinality(Unfinished(t))
      BY <2>4 DEF IInv, RefCountExact
    <3>4. refCount[t] = 1
      BY <3>2, <3>3, FS_EmptySet
    <3> QED
      BY <2>1, <2>4, <3>4 DEF CanGoOn
  <2> QED
    BY <2>2, <2>3, <2>4
<1>5. CASE \A t \in Tasks : pc[t] \notin Running
  <2>1. Root \in Tasks /\ pc[Root] \in {"none", "spawned", "done"} \cup Running
    BY <1>1, TypeFacts
  <2>2. pc[Root] = "spawned"
    BY <1>2, <1>5, <2>1 DEF Order, AllSpawned, Returned
  <2>3. PICK w \in Workers : TRUE
    BY WorkersAssumption
  <2>4. Top(w) = NoTask
    <3>1. SUFFICES ASSUME stack[w] # <<>>
                   PROVE  FALSE
      BY DEF Top
    <3>2. stack[w] \in Seq(Tasks) /\ 1 \in 1 .. Len(stack[w])
      BY <1>1, <3>1, EmptySeq, LenProperties DEF TypeOK
    <3>3. stack[w][1] \in Tasks /\ pc[stack[w][1]] \in Running
      BY <1>1, <3>2, ElementOfSeq DEF Stacks
    <3> QED
      BY <1>5, <3>3
  <2> QED
    BY <2>1, <2>2, <2>4 DEF CanGoOn
<1> QED
  BY <1>4, <1>5

\* Until ParallelFib returns some worker can go on, whatever the workers have
\* taken on top of the tasks that wait (base_test.cc:70, 85).
THEOREM NeverStuck == Spec => []NoDeadlock
<1>1. Init => Order
  BY InitOrder
<1>2. IInv /\ Order /\ [Next]_vars => Order'
  BY NextKeepsOrder
<1>3. IInv /\ Order => NoDeadlock
  BY SomebodyGoesOn
<1> QED
  BY <1>1, <1>2, <1>3, Invariant, PTL DEF Spec
=============================================================================
