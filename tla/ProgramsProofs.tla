--------------------------- MODULE ProgramsProofs ---------------------------
(***************************************************************************)
(* The programs that run by themselves, for inputs of every size: what     *)
(* traverse lists, what comes back from the device, and the product that a *)
(* team of threads computes.                                               *)
(***************************************************************************)
EXTENDS LeafNode, MatrixGenerator, SumMatrix, Reciprocal, ParallelProduct, Pouring,
        FiniteSetTheorems, SequenceTheorems, WellFoundedInduction, TLAPS
-----------------------------------------------------------------------------
(* bit_masking: for every dimension and every cell that is wide enough,    *)
(* traverse lists exactly the active voxels.                               *)

\* A number that is larger by one is larger by D when both are multiplied by D.
LEMMA Stretch ==
    ASSUME NEW D \in Nat \ {0}, NEW a \in Int, NEW b \in Int, a >= b + 1
    PROVE  a * D >= b * D + D
<1>1. a * D - (b + 1) * D = (a - (b + 1)) * D
  OBVIOUS
<1>2. (a - (b + 1)) * D >= 0
  OBVIOUS
<1>3. (b + 1) * D = b * D + D
  OBVIOUS
<1>4. a * D \in Int /\ b * D \in Int /\ (b + 1) * D \in Int
  OBVIOUS
<1>5. QED
  BY <1>1, <1>2, <1>3, <1>4

\* A number has one quotient and one remainder.
LEMMA Digits ==
    ASSUME NEW D \in Nat \ {0}, NEW a \in Int, NEW b \in Int,
           NEW r \in 0..(D - 1), NEW s \in 0..(D - 1), a * D + r = b * D + s
    PROVE  a = b /\ r = s
<1>1. a * D \in Int /\ b * D \in Int
  OBVIOUS
<1>2. ~(a >= b + 1) /\ ~(b >= a + 1)
  BY Stretch, <1>1
<1>3. a = b
  BY <1>2
<1>4. QED
  BY <1>1, <1>3

\* Quotient and remainder by D put a number together again.
LEMMA Euclid ==
    ASSUME NEW e \in Int, NEW D \in Nat \ {0}
    PROVE  e \div D \in Int /\ e % D \in 0..(D - 1) /\ e = (e \div D) * D + (e % D)
OBVIOUS

\* What \div and % yield of a number that is given by its digits.
LEMMA DivMod ==
    ASSUME NEW D \in Nat \ {0}, NEW a \in Int, NEW r \in 0..(D - 1)
    PROVE  (a * D + r) \div D = a /\ (a * D + r) % D = r
<1> DEFINE e == a * D + r
<1>1. e \in Int
  OBVIOUS
<1> HIDE DEF e
<1>2. e \div D \in Int /\ e % D \in 0..(D - 1) /\ e = (e \div D) * D + (e % D)
  BY <1>1, Euclid
<1>3. e = a * D + r
  BY DEF e
<1>4. a = e \div D /\ r = e % D
  BY <1>2, <1>3, Digits
<1>5. QED
  BY <1>4 DEF e

\* Two digits in base D stay below D * D.
LEMMA TwoDigits ==
    ASSUME NEW D \in Nat \ {0}, NEW E \in Nat \ {0}, NEW a \in 0..(E - 1), NEW r \in 0..(D - 1)
    PROVE  a * D + r \in 0..(E * D - 1)
<1>1. E * D >= a * D + D
  BY Stretch
<1>2. a * D \in Nat /\ E * D \in Nat
  OBVIOUS
<1>3. QED
  BY <1>1, <1>2

\* The reverse: a quotient of a number below E * D is below E.
LEMMA Quotient ==
    ASSUME NEW D \in Nat \ {0}, NEW E \in Nat \ {0}, NEW e \in 0..(E * D - 1)
    PROVE  e \div D \in 0..(E - 1)
<1>1. E * D \in Nat /\ e \in Int
  OBVIOUS
<1>2. e \div D \in Int /\ e % D \in 0..(D - 1) /\ e = (e \div D) * D + (e % D)
  BY <1>1, Euclid
<1> DEFINE q == e \div D
           r == e % D
<1>3. q \in Int /\ r \in 0..(D - 1) /\ e = q * D + r
  BY <1>2
<1> HIDE DEF q, r
<1>4. q * D \in Int
  BY <1>3
<1>5. q < E
  <2>1. SUFFICES ASSUME q >= (E - 1) + 1 PROVE FALSE
    BY <1>3
  <2>2. q * D >= (E - 1) * D + D
    BY <1>3, <2>1, Stretch
  <2>3. (E - 1) * D + D = E * D
    OBVIOUS
  <2>4. QED
    BY <1>1, <1>3, <1>4, <2>2, <2>3
<1>6. q >= 0
  <2>1. SUFFICES ASSUME 0 >= q + 1 PROVE FALSE
    BY <1>3
  <2>2. 0 * D >= q * D + D
    BY <1>3, <2>1, Stretch
  <2>3. QED
    BY <1>1, <1>3, <1>4, <2>2
<1>7. QED
  BY <1>3, <1>5, <1>6 DEF q
-----------------------------------------------------------------------------
Index(v) == v[1] * DIM + v[2]   \* the cell of a voxel

LEMMA Dim == DIM \in Nat \ {0} /\ DIM * DIM \in Nat \ {0} /\ DIM * DIM * DIM = (DIM * DIM) * DIM
BY DimAssumption

\* Where setActive finds a voxel, and that fromOffset undoes toOffset.
LEMMA OffsetOfVoxel ==
    ASSUME NEW v \in Voxels
    PROVE  /\ toOffset(v) = Index(v) * DIM + v[3]
           /\ toOffset(v) \in Offsets /\ Index(v) \in Cells /\ v[3] \in Side
           /\ toOffset(v) \div DIM = Index(v)
           /\ toOffset(v) - Index(v) * DIM = v[3]
           /\ fromOffset(toOffset(v)) = v
<1> DEFINE x == v[1]
           y == v[2]
           z == v[3]
<1>1. x \in Side /\ y \in Side /\ z \in Side /\ v = <<x, y, z>>
  BY DEF Voxels
<1>2. x % DIM = x /\ y % DIM = y /\ z % DIM = z
  BY <1>1, DimAssumption DEF Side
<1>3. toOffset(v) = x * (DIM * DIM) + y * DIM + z
  BY <1>2 DEF toOffset
<1>4. Index(v) = x * DIM + y
  BY DEF Index
<1> HIDE DEF x, y, z
<1>5. x \in Int /\ y \in Int /\ z \in Int
  BY <1>1, Dim DEF Side
<1>6. x * (DIM * DIM) = (x * DIM) * DIM /\ (x * DIM + y) * DIM = (x * DIM) * DIM + y * DIM
  BY <1>5, Dim
<1>7. x * DIM \in Int /\ y * DIM \in Int /\ x * (DIM * DIM) \in Int
  BY <1>5, Dim
<1>8. toOffset(v) = Index(v) * DIM + z
  BY <1>3, <1>4, <1>6
<1>9. Index(v) \in 0..(DIM * DIM - 1)
  BY <1>1, <1>4, Dim, TwoDigits DEF Side
<1>10. toOffset(v) \in 0..((DIM * DIM) * DIM - 1)
  BY <1>1, <1>8, <1>9, Dim, TwoDigits DEF Side
<1>11. toOffset(v) \div DIM = Index(v)
  <2>1. Index(v) \in Int /\ z \in 0..(DIM - 1)
    BY <1>1, <1>9 DEF Side
  <2>2. (Index(v) * DIM + z) \div DIM = Index(v)
    BY <2>1, Dim, DivMod
  <2>3. QED
    BY <2>2, <1>8
<1>12. toOffset(v) - Index(v) * DIM = z
  <2>1. Index(v) * DIM \in Int
    BY <1>9, Dim
  <2>2. QED
    BY <2>1, <1>8, <1>5
<1>13. y * DIM + z \in 0..(DIM * DIM - 1)
  BY <1>1, Dim, TwoDigits DEF Side
<1>14. toOffset(v) = x * (DIM * DIM) + (y * DIM + z)
  BY <1>3, <1>5, <1>7
<1>15. toOffset(v) \div (DIM * DIM) = x /\ toOffset(v) % (DIM * DIM) = y * DIM + z
  BY <1>5, <1>13, <1>14, Dim, DivMod
<1>16. (y * DIM + z) \div DIM = y /\ (y * DIM + z) % DIM = z
  BY <1>1, <1>5, Dim, DivMod DEF Side
<1>17. fromOffset(toOffset(v)) = <<x, y, z>>
  BY <1>15, <1>16 DEF fromOffset
<1>18. toOffset(v) \in Offsets /\ Index(v) \in Cells
  BY <1>9, <1>10, Dim DEF Offsets, Cells
<1>19. QED
  BY <1>1, <1>8, <1>11, <1>12, <1>17, <1>18 DEF z

\* A bit of the mask belongs to one voxel, whose offset is its place in the mask.
LEMMA VoxelOfBit ==
    ASSUME NEW c \in Cells, NEW b \in Side
    PROVE  /\ c * DIM + b \in Offsets
           /\ fromOffset(c * DIM + b) \in Voxels
           /\ Index(fromOffset(c * DIM + b)) = c /\ fromOffset(c * DIM + b)[3] = b
           /\ toOffset(fromOffset(c * DIM + b)) = c * DIM + b
<1> DEFINE x == c \div DIM
           y == c % DIM
           v == <<x, y, b>>
<1>1. c \in Int /\ c \in 0..(DIM * DIM - 1) /\ b \in 0..(DIM - 1)
  BY Dim DEF Cells, Side
<1>2. x \in 0..(DIM - 1)
  BY <1>1, Dim, Quotient
<1>3. y \in 0..(DIM - 1) /\ c = x * DIM + y
  BY <1>1, Dim, Euclid
<1>4. v \in Voxels
  BY <1>1, <1>2, <1>3 DEF Voxels, Side
<1>5. v[1] = x /\ v[2] = y /\ v[3] = b
  OBVIOUS
<1>6. Index(v) = c
  BY <1>3, <1>5 DEF Index
<1> HIDE DEF x, y, v
<1>7. toOffset(v) = c * DIM + b
  BY <1>4, <1>5, <1>6, OffsetOfVoxel
<1>8. QED
  BY <1>4, <1>5, <1>6, <1>7, OffsetOfVoxel

\* Every offset is the place of a bit.
LEMMA BitOfOffset ==
    ASSUME NEW o \in Offsets
    PROVE  \E c \in Cells, b \in Side : o = c * DIM + b
<1>1. o \in Int /\ o \in 0..((DIM * DIM) * DIM - 1)
  BY Dim DEF Offsets
<1>2. o \div DIM \in 0..(DIM * DIM - 1)
  BY <1>1, Dim, Quotient
<1>3. o % DIM \in 0..(DIM - 1) /\ o = (o \div DIM) * DIM + (o % DIM)
  BY <1>1, Dim, Euclid
<1>4. QED
  BY <1>2, <1>3 DEF Cells, Side
-----------------------------------------------------------------------------
\* Mask and data agree with what was activated.
Mirrors ==
    \A v \in Voxels :
        /\ v[3] \in mask_bit_buffer[Index(v)] <=> active[v] # None
        /\ active[v] # None => data_buffer[toOffset(v)] = active[v]

\* What traverse has listed so far: the active offsets below whole_mask_ptr.
ListedSoFar ==
    /\ \A m, e \in DOMAIN offsets : m < e => offsets[m] < offsets[e]
    /\ \A e \in DOMAIN offsets : offsets[e] < whole_mask_ptr
    /\ \A v \in Voxels : (\E e \in DOMAIN offsets : offsets[e] = toOffset(v))
                            <=> active[v] # None /\ toOffset(v) < whole_mask_ptr

Progress ==
    leafPc \in {"traversing", "listed"} =>
        /\ whole_mask_ptr = cell * DIM + bit
        /\ cell \notin Cells => bit = 0
        /\ ListedSoFar

LeafInv ==
    /\ LeafTypeOK
    /\ Mirrors
    /\ Progress
    /\ leafPc = "listed" => cell \notin Cells
-----------------------------------------------------------------------------
LEMMA InitInv == LeafInit => LeafInv
<1> SUFFICES ASSUME LeafInit PROVE LeafInv
  OBVIOUS
<1>1. 0 \in Side /\ 0 \in 0..(DIM * DIM)
  BY Dim DEF Side
<1>2. LeafTypeOK
  <2>1. mask_bit_buffer \in [Cells -> SUBSET Side]
    BY DEF LeafInit
  <2>2. data_buffer \in [Offsets -> Values] /\ active \in [Voxels -> Values \cup {None}]
    BY ValueAssumption DEF LeafInit
  <2>3. offsets \in Seq(Offsets)
    <3>1. <<>> \in Seq(Offsets)
      OBVIOUS
    <3>2. offsets = <<>>
      BY DEF LeafInit
    <3>3. QED
      BY <3>1, <3>2
  <2>4. QED
    BY <1>1, <2>1, <2>2, <2>3 DEF LeafInit, LeafTypeOK
<1>3. Mirrors
  BY OffsetOfVoxel DEF LeafInit, Mirrors
<1>4. QED
  BY <1>2, <1>3 DEF LeafInit, LeafInv, Progress

LEMMA ConstructInv == LeafInv /\ Construct => LeafInv'
<1> SUFFICES ASSUME LeafInv, Construct PROVE LeafInv'
  OBVIOUS
<1>1. LeafTypeOK'
  BY ValueAssumption DEF LeafInv, LeafTypeOK, Construct
<1>2. Mirrors'
  BY OffsetOfVoxel DEF Mirrors, Construct, Index, toOffset
<1>3. QED
  BY <1>1, <1>2 DEF LeafInv, Construct, Progress

LEMMA SetActiveInv ==
    ASSUME NEW v \in Voxels, NEW val \in Values, LeafInv, setActive(v, val)
    PROVE  LeafInv'
<1>1. /\ toOffset(v) \in Offsets /\ Index(v) \in Cells /\ v[3] \in Side
      /\ toOffset(v) \div DIM = Index(v) /\ toOffset(v) - Index(v) * DIM = v[3]
  BY OffsetOfVoxel
<1>2. {v[3]} \cap 0..(CellBits - 1) = {v[3]}
  BY <1>1, DimAssumption DEF Side
<1>3. /\ mask_bit_buffer' = [mask_bit_buffer EXCEPT ![Index(v)] = @ \cup {v[3]}]
      /\ data_buffer' = [data_buffer EXCEPT ![toOffset(v)] = val]
      /\ active' = [active EXCEPT ![v] = val]
      /\ leafPc = "ready"
      /\ UNCHANGED <<leafPc, cell, bit, whole_mask_ptr, offsets>>
  BY <1>1, <1>2 DEF setActive
<1>4. /\ mask_bit_buffer \in [Cells -> SUBSET Side] /\ data_buffer \in [Offsets -> Values]
      /\ active \in [Voxels -> Values \cup {None}]
  BY DEF LeafInv, LeafTypeOK
<1>5. LeafTypeOK'
  BY <1>1, <1>3, <1>4 DEF LeafInv, LeafTypeOK
<1>6. Mirrors'
  <2>1. SUFFICES ASSUME NEW w \in Voxels
                 PROVE  /\ w[3] \in mask_bit_buffer'[Index(w)] <=> active'[w] # None
                        /\ active'[w] # None => data_buffer'[toOffset(w)] = active'[w]
    BY DEF Mirrors, Index, toOffset
  <2>2. /\ w[3] \in mask_bit_buffer[Index(w)] <=> active[w] # None
        /\ active[w] # None => data_buffer[toOffset(w)] = active[w]
    BY DEF LeafInv, Mirrors
  <2>3. toOffset(w) \in Offsets /\ Index(w) \in Cells
    BY OffsetOfVoxel
  <2>4. CASE w = v
    BY <2>4, <1>1, <1>3, <1>4, ValueAssumption
  <2>5. CASE w # v
    <3>1. toOffset(w) # toOffset(v)
      BY <2>5, OffsetOfVoxel
    <3>2. ~(Index(w) = Index(v) /\ w[3] = v[3])
      <4>1. toOffset(w) = Index(w) * DIM + w[3] /\ toOffset(v) = Index(v) * DIM + v[3]
        BY OffsetOfVoxel
      <4>2. QED
        BY <3>1, <4>1
    <3>3. w[3] \in mask_bit_buffer'[Index(w)] <=> w[3] \in mask_bit_buffer[Index(w)]
      BY <3>2, <2>3, <1>1, <1>3, <1>4
    <3>4. data_buffer'[toOffset(w)] = data_buffer[toOffset(w)] /\ active'[w] = active[w]
      BY <3>1, <2>3, <2>5, <1>3, <1>4
    <3>5. QED
      BY <2>2, <3>3, <3>4
  <2>6. QED
    BY <2>4, <2>5
<1>7. QED
  BY <1>3, <1>5, <1>6 DEF LeafInv, Progress

LEMMA BeginInv == LeafInv /\ traverse => LeafInv'
<1> SUFFICES ASSUME LeafInv, traverse PROVE LeafInv'
  OBVIOUS
<1>1. 0 \in Side /\ 0 \in 0..(DIM * DIM) /\ 0 \in Cells /\ 0 * DIM + 0 = 0
  BY Dim DEF Side, Cells
<1>2. LeafTypeOK'
  BY <1>1 DEF LeafInv, LeafTypeOK, traverse
<1>3. Mirrors'
  BY DEF LeafInv, Mirrors, traverse, Index, toOffset
<1>4. ListedSoFar'
  <2>1. ASSUME NEW v \in Voxels PROVE ~(toOffset(v) < 0)
    BY OffsetOfVoxel DEF Offsets
  <2>2. QED
    BY <2>1 DEF ListedSoFar, traverse, toOffset
<1>5. whole_mask_ptr' = cell' * DIM + bit'
  BY <1>1 DEF traverse
<1>6. QED
  BY <1>1, <1>2, <1>3, <1>4, <1>5 DEF LeafInv, Progress, traverse

LEMMA BitInv == LeafInv /\ TraverseBit => LeafInv'
<1> SUFFICES ASSUME LeafInv, TraverseBit PROVE LeafInv'
  OBVIOUS
<1> DEFINE u == fromOffset(cell * DIM + bit)
<1>1. /\ cell \in Cells /\ bit \in Side /\ whole_mask_ptr = cell * DIM + bit
      /\ mask_bit_buffer \in [Cells -> SUBSET Side] /\ offsets \in Seq(Offsets)
      /\ leafPc = "traversing" /\ leafPc' = "traversing"
      /\ ListedSoFar
  BY DEF LeafInv, LeafTypeOK, Progress, TraverseBit
<1>2. /\ u \in Voxels /\ Index(u) = cell /\ u[3] = bit /\ toOffset(u) = whole_mask_ptr
      /\ whole_mask_ptr \in Offsets
  BY <1>1, VoxelOfBit
<1> HIDE DEF u
<1>3. whole_mask_ptr \in Nat /\ whole_mask_ptr' = whole_mask_ptr + 1
  BY DEF LeafInv, LeafTypeOK, TraverseBit
<1>4. bit \in mask_bit_buffer[cell] <=> active[u] # None
  BY <1>2 DEF LeafInv, Mirrors
<1>5. offsets' = IF active[u] # None THEN Append(offsets, whole_mask_ptr) ELSE offsets
  BY <1>4 DEF TraverseBit
<1>6. offsets' \in Seq(Offsets)
  BY <1>1, <1>2, <1>5
<1>7. /\ cell' \in 0..(DIM * DIM) /\ bit' \in Side
      /\ whole_mask_ptr' = cell' * DIM + bit'
      /\ cell' \notin Cells => bit' = 0
  <2>1. cell \in Int /\ cell < DIM * DIM /\ cell >= 0 /\ bit \in 0..(DIM - 1)
    BY <1>1, Dim DEF Cells, Side
  <2>2. CASE bit + 1 < DIM
    <3>1. bit' = bit + 1 /\ cell' = cell
      BY <2>2 DEF TraverseBit
    <3>2. cell * DIM \in Int
      BY <2>1, Dim
    <3>3. QED
      BY <3>1, <3>2, <2>1, <2>2, <1>1, <1>3, Dim DEF Side, Cells
  <2>3. CASE ~(bit + 1 < DIM)
    <3>1. bit' = 0 /\ cell' = cell + 1 /\ bit = DIM - 1
      BY <2>1, <2>3, Dim DEF TraverseBit
    <3>2. (cell + 1) * DIM = cell * DIM + DIM /\ cell * DIM \in Int
      BY <2>1, Dim
    <3>3. QED
      BY <3>1, <3>2, <2>1, <1>1, <1>3, Dim DEF Side
  <2>4. QED
    BY <2>2, <2>3
<1>8. LeafTypeOK'
  BY <1>3, <1>6, <1>7 DEF LeafInv, LeafTypeOK, TraverseBit
<1>9. Mirrors'
  BY DEF LeafInv, Mirrors, TraverseBit, Index, toOffset
<1>10. ListedSoFar'
  <2>1. /\ \A m, e \in DOMAIN offsets' : m < e => offsets'[m] < offsets'[e]
        /\ \A e \in DOMAIN offsets' : offsets'[e] < whole_mask_ptr'
    <3>1. \A e \in DOMAIN offsets : offsets[e] \in Int
      BY <1>1, Dim DEF Offsets
    <3>2. QED
      BY <3>1, <1>1, <1>3, <1>5 DEF ListedSoFar
  <2>2. SUFFICES ASSUME NEW w \in Voxels
                 PROVE  (\E e \in DOMAIN offsets' : offsets'[e] = toOffset(w))
                           <=> active[w] # None /\ toOffset(w) < whole_mask_ptr'
    BY <2>1 DEF ListedSoFar, TraverseBit, toOffset
  <2>3. (\E e \in DOMAIN offsets : offsets[e] = toOffset(w))
            <=> active[w] # None /\ toOffset(w) < whole_mask_ptr
    BY <1>1 DEF ListedSoFar
  <2>4. toOffset(w) \in Int
    BY OffsetOfVoxel DEF Offsets
  <2>5. toOffset(w) = whole_mask_ptr <=> w = u
    BY <1>2, OffsetOfVoxel
  <2>6. (\E e \in DOMAIN offsets' : offsets'[e] = toOffset(w))
           <=> \/ \E e \in DOMAIN offsets : offsets[e] = toOffset(w)
               \/ active[u] # None /\ toOffset(w) = whole_mask_ptr
    <3>1. CASE active[u] # None
      <4>1. offsets' = Append(offsets, whole_mask_ptr)
        BY <3>1, <1>5
      <4>2. QED
        BY <3>1, <4>1, <1>1, <1>2
    <3>2. CASE ~(active[u] # None)
      BY <3>2, <1>5
    <3>3. QED
      BY <3>1, <3>2
  <2>7. toOffset(w) < whole_mask_ptr'
           <=> toOffset(w) < whole_mask_ptr \/ toOffset(w) = whole_mask_ptr
    BY <2>4, <1>3
  <2>8. QED
    BY <2>3, <2>5, <2>6, <2>7
<1>11. QED
  BY <1>1, <1>7, <1>8, <1>9, <1>10 DEF LeafInv, Progress

LEMMA OtherInv == LeafInv /\ (TraverseEnds \/ TraverseReturns) => LeafInv'
<1> SUFFICES ASSUME LeafInv, TraverseEnds \/ TraverseReturns PROVE LeafInv'
  OBVIOUS
<1>1. 0 \in Side /\ 0 \in 0..(DIM * DIM)
  BY Dim DEF Side
<1>2. LeafTypeOK'
  <2>1. <<>> \in Seq(Offsets)
    OBVIOUS
  <2>2. CASE TraverseEnds
    BY <2>2 DEF LeafInv, LeafTypeOK, TraverseEnds
  <2>3. CASE TraverseReturns
    <3>1. offsets' \in Seq(Offsets)
      BY <2>1, <2>3 DEF TraverseReturns
    <3>2. QED
      BY <1>1, <2>3, <3>1 DEF LeafInv, LeafTypeOK, TraverseReturns
  <2>4. QED
    BY <2>2, <2>3
<1>3. Mirrors'
  BY DEF LeafInv, Mirrors, TraverseEnds, TraverseReturns, Index, toOffset
<1>4. CASE TraverseEnds
  <2>1. ListedSoFar'
    BY <1>4 DEF LeafInv, Progress, TraverseEnds, ListedSoFar, toOffset
  <2>2. QED
    BY <1>2, <1>3, <1>4, <2>1 DEF LeafInv, Progress, TraverseEnds, Cells
<1>5. CASE TraverseReturns
  BY <1>2, <1>3, <1>5 DEF LeafInv, Progress, TraverseReturns
<1>6. QED
  BY <1>4, <1>5

LEMMA StutterInv == LeafInv /\ UNCHANGED leafVars => LeafInv'
BY ZenonT(40) DEF LeafInv, LeafTypeOK, Mirrors, Progress, ListedSoFar, Index, toOffset, leafVars

LEMMA StepInv == LeafInv /\ [LeafNext]_leafVars => LeafInv'
BY ConstructInv, SetActiveInv, BeginInv, BitInv, OtherInv, StutterInv DEF LeafNext

\* The leaf's buffers and the loops of traverse stay as LeafInv says.
THEOREM LeafInvariance == LeafSpec => []LeafInv
<1>1. LeafInit => LeafInv
  BY InitInv
<1>2. LeafInv /\ [LeafNext]_leafVars => LeafInv'
  BY StepInv
<1>3. QED
  BY <1>1, <1>2, PTL DEF LeafSpec

LEMMA InvImpliesExact == LeafInv => TraverseExact
<1> SUFFICES ASSUME LeafInv, leafPc = "listed" PROVE TraverseExact
  BY DEF TraverseExact
<1>1. ListedSoFar /\ offsets \in Seq(Offsets)
  BY DEF LeafInv, LeafTypeOK, Progress
<1>2. whole_mask_ptr = (DIM * DIM) * DIM
  <2>1. cell = DIM * DIM /\ bit = 0 /\ whole_mask_ptr = cell * DIM + bit
    BY Dim DEF LeafInv, LeafTypeOK, Progress, Cells
  <2>2. (DIM * DIM) * DIM \in Int
    BY Dim
  <2>3. QED
    BY <2>1, <2>2
<1>3. ASSUME NEW o \in Offsets
      PROVE  fromOffset(o) \in Voxels /\ toOffset(fromOffset(o)) = o /\ o < whole_mask_ptr
  <2>1. PICK c \in Cells, b \in Side : o = c * DIM + b
    BY BitOfOffset
  <2>2. o < whole_mask_ptr
    BY <1>2, Dim DEF Offsets
  <2>3. QED
    BY <2>1, <2>2, VoxelOfBit
<1>4. \A o \in Offsets :
        (\E e \in DOMAIN offsets : offsets[e] = o) <=> fromOffset(o) \in Activated
  BY <1>1, <1>3 DEF ListedSoFar, Activated
<1>5. \A e \in DOMAIN offsets : data_buffer[offsets[e]] = active[fromOffset(offsets[e])]
  <2>1. SUFFICES ASSUME NEW e \in DOMAIN offsets
                 PROVE  data_buffer[offsets[e]] = active[fromOffset(offsets[e])]
    OBVIOUS
  <2>2. offsets[e] \in Offsets
    BY <1>1
  <2>3. fromOffset(offsets[e]) \in Activated
    BY <1>4, <2>2
  <2>4. QED
    BY <1>3, <2>2, <2>3 DEF LeafInv, Mirrors, Activated
<1>6. QED
  BY <1>1, <1>4, <1>5 DEF TraverseExact, ListedSoFar

\* Whatever was activated, traverse lists it and nothing else, in ascending order.
THEOREM TraverseIsExact == LeafSpec => []TraverseExact
BY LeafInvariance, InvImpliesExact, PTL

\* The buffers and the counters of the loops keep their types: no index of a
\* buffer is out of its range.
THEOREM LeafTypeCorrect == LeafSpec => []LeafTypeOK
<1>1. LeafInv => LeafTypeOK
  BY DEF LeafInv
<1>2. QED
  BY <1>1, LeafInvariance, PTL

-----------------------------------------------------------------------------
(* The two CUDA programs: for every size of the data and of a block, what  *)
(* comes back from the device is what the host has computed.               *)

\* Quotient and remainder put a number together again: a thread's place is its
\* number.
LEMMA PlaceIsNumber ==
    ASSUME NEW t \in Int, NEW b \in Nat \ {0}
    PROVE  /\ Place(t, b) = t
           /\ t \div b \in Int /\ t % b \in 0 .. (b - 1)
           /\ t = (t \div b) * b + (t % b)
<1>1. t \div b \in Int /\ t % b \in 0 .. (b - 1) /\ t = (t \div b) * b + (t % b)
  OBVIOUS
<1>2. QED
  BY <1>1 DEF Place

\* There are threads for every place.
LEMMA EnoughBlocks ==
    ASSUME NEW size \in Nat \ {0}, NEW b \in Nat \ {0}
    PROVE  Blocks(size, b) * b \in Int /\ Blocks(size, b) * b >= size
<1> DEFINE a == size + b - 1
           q == a \div b
<1>1. a \in Int
  OBVIOUS
<1>2. a % b \in 0 .. (b - 1) /\ a = q * b + (a % b) /\ q \in Int
  BY <1>1, PlaceIsNumber
<1>3. q * b \in Int
  BY <1>2
<1>4. Blocks(size, b) = q
  BY DEF Blocks
<1> HIDE DEF q
<1>5. q * b = size + b - 1 - (a % b)
  BY <1>2, <1>3
<1>6. QED
  BY <1>2, <1>3, <1>4, <1>5

\* A number that is larger by one is larger by D when both are multiplied by D.
LEMMA RowsApart ==
    ASSUME NEW D \in Nat \ {0}, NEW a \in Int, NEW c \in Int, a >= c + 1
    PROVE  a * D \in Int /\ c * D \in Int /\ a * D >= c * D + D
<1>1. a * D - (c + 1) * D = (a - (c + 1)) * D
  OBVIOUS
<1>2. (a - (c + 1)) * D >= 0
  OBVIOUS
<1>3. (c + 1) * D = c * D + D
  OBVIOUS
<1>4. a * D \in Int /\ c * D \in Int /\ (c + 1) * D \in Int
  OBVIOUS
<1>5. QED
  BY <1>1, <1>2, <1>3, <1>4

\* An element has a row and a column.
LEMMA RowAndColumn ==
    ASSUME NEW e \in Elements
    PROVE  /\ e \div nx \in 0 .. (ny - 1) /\ e % nx \in 0 .. (nx - 1)
           /\ e = (e \div nx) * nx + (e % nx)
<1> DEFINE r == e \div nx
           c == e % nx
<1>1. nx * ny \in Int /\ e \in Int /\ e >= 0 /\ e <= nx * ny - 1
  BY SizeAssumption DEF Elements, nxy
<1>2. r \in Int /\ c \in 0 .. (nx - 1) /\ e = r * nx + c
  BY <1>1, SizeAssumption, PlaceIsNumber
<1> HIDE DEF r, c
<1>3. r * nx \in Int /\ nx * ny = ny * nx
  BY <1>2, SizeAssumption
<1>4. r >= 0
  <2> SUFFICES ASSUME 0 >= r + 1 PROVE FALSE
    BY <1>2
  <2>1. 0 * nx >= r * nx + nx
    BY <1>2, SizeAssumption, RowsApart
  <2>2. 0 * nx = 0
    BY SizeAssumption
  <2>3. QED
    BY <1>1, <1>2, <1>3, <2>1, <2>2, SizeAssumption
<1>5. r <= ny - 1
  <2> SUFFICES ASSUME r >= (ny - 1) + 1 PROVE FALSE
    BY <1>2, SizeAssumption
  <2>1. r * nx >= (ny - 1) * nx + nx /\ (ny - 1) * nx \in Int
    BY <1>2, SizeAssumption, RowsApart
  <2>2. (ny - 1) * nx = ny * nx - nx
    BY SizeAssumption
  <2>3. QED
    BY <1>1, <1>2, <1>3, <2>1, <2>2, SizeAssumption
<1>6. QED
  BY <1>2, <1>4, <1>5, SizeAssumption DEF r, c

\* And a row and a column are those of an element.
LEMMA ElementAt ==
    ASSUME NEW r \in 0 .. (ny - 1), NEW c \in 0 .. (nx - 1)
    PROVE  r * nx + c \in Elements
<1>1. ny * nx >= r * nx + nx /\ ny * nx \in Int /\ r * nx \in Int
  BY SizeAssumption, RowsApart
<1>2. r * nx >= 0 /\ nx * ny = ny * nx
  BY SizeAssumption
<1>3. QED
  BY <1>1, <1>2, SizeAssumption DEF Elements, nxy
-----------------------------------------------------------------------------
Launched == {"synchronize", "get last error", "copy back"}
Before == {"start", "on the host", "malloc d_MatA", "malloc d_MatB", "malloc d_MatC",
           "copy d_MatA", "copy d_MatB", "launch"}

\* The host's sum.
HostInv ==
    /\ sumPc \in (Before \ {"start"}) \cup Launched \cup {"check"} =>
         h_A \in [Elements -> Int] /\ h_B \in [Elements -> Int]
    /\ sumPc \in (Before \ {"start", "on the host"}) \cup Launched \cup {"check"} =>
         hostRef = [e \in Elements |-> h_A[e] + h_B[e]]

\* The buffers of the device, one after the other.
BufferInv ==
    /\ device = [p \in Pointers |-> device[p]]
    /\ sumPc \in {"copy d_MatA", "copy d_MatB", "launch"} \cup Launched =>
         device["d_MatC"] = [e \in Elements |-> device["d_MatC"][e]]
    /\ sumPc \in {"copy d_MatB", "launch"} \cup Launched => device["d_MatA"] = h_A
    /\ sumPc \in {"launch"} \cup Launched => device["d_MatB"] = h_B

\* How far the kernel has come: a kernel that failed has no threads, and the
\* threads of one that did not have added the rows that lie behind them.
KernelInv ==
    /\ sumPc \in Before => threads = NoThreads /\ ~launchError /\ ~fault
    /\ sumPc \in Launched /\ (launchError \/ fault) => threads = NoThreads
    /\ sumPc \in Launched /\ ~launchError /\ ~fault =>
         /\ threads \in [0 .. (Blocks(nx, dimx) * dimx - 1) -> 0 .. ny]
         /\ \A t \in DOMAIN threads, r \in 0 .. (ny - 1) :
              t < nx /\ r < threads[t] =>
                device["d_MatC"][r * nx + t] = h_A[r * nx + t] + h_B[r * nx + t]
    /\ sumPc = "copy back" => ~launchError

\* The inductive invariant of ch1.cu.
SumInv ==
    /\ HostInv /\ BufferInv /\ KernelInv
    /\ sumPc = "check" => gpuRef = hostRef
    /\ sumPc \in {"free", "returned"} => match

LEMMA SumInitially == SumInit => SumInv
BY DEF SumInit, DeviceInit, SumInv, HostInv, BufferInv, KernelInv, Before, Launched

\* The steps of the host before the launch.
LEMMA HostSteps ==
    ASSUME SumInv, AllocateHost \/ sumMatrixOnHost
    PROVE  SumInv'
<1>1. CASE AllocateHost
  BY <1>1, DataAssumption
     DEF AllocateHost, initialData, deviceVars, SumInv, HostInv, BufferInv, KernelInv, Before, Launched
<1>2. CASE sumMatrixOnHost
  BY <1>2 DEF sumMatrixOnHost, deviceVars, SumInv, HostInv, BufferInv, KernelInv, Before, Launched
<1>3. QED
  BY <1>1, <1>2

LEMMA AllocateSteps ==
    ASSUME SumInv, AllocateAll
    PROVE  SumInv'
<1>1. CASE Allocate("d_MatA", "malloc d_MatA", "malloc d_MatB")
  BY <1>1 DEF Allocate, Malloc, hostVars, SumInv, HostInv, BufferInv, KernelInv, Before, Launched, Pointers
<1>2. CASE Allocate("d_MatB", "malloc d_MatB", "malloc d_MatC")
  BY <1>2 DEF Allocate, Malloc, hostVars, SumInv, HostInv, BufferInv, KernelInv, Before, Launched, Pointers
<1>3. CASE Allocate("d_MatC", "malloc d_MatC", "copy d_MatA")
  BY <1>3 DEF Allocate, Malloc, hostVars, SumInv, HostInv, BufferInv, KernelInv, Before, Launched,
              Pointers, Elements
<1>4. QED
  BY <1>1, <1>2, <1>3 DEF AllocateAll

LEMMA CopySteps ==
    ASSUME SumInv, CopyInputs
    PROVE  SumInv'
<1>1. CASE sumPc = "copy d_MatA"
  <2>1. /\ sumPc' = "copy d_MatB"
        /\ device' = [device EXCEPT !["d_MatA"] = h_A]
        /\ UNCHANGED <<threads, launchError, fault, h_A, h_B, hostRef, gpuRef, match>>
    BY <1>1 DEF CopyInputs, CopyToDevice, hostVars
  <2>2. device'["d_MatA"] = h_A /\ device'["d_MatC"] = device["d_MatC"]
    BY <2>1 DEF SumInv, BufferInv, Pointers
  <2>3. device' = [p \in Pointers |-> device'[p]]
    BY <2>1 DEF SumInv, BufferInv
  <2>4. BufferInv'
    BY <1>1, <2>1, <2>2, <2>3 DEF SumInv, BufferInv, Launched
  <2>5. HostInv' /\ KernelInv'
    BY <1>1, <2>1 DEF SumInv, HostInv, KernelInv, Before, Launched
  <2>6. QED
    BY <2>1, <2>4, <2>5 DEF SumInv
<1>2. CASE sumPc = "copy d_MatB"
  <2>1. /\ sumPc' = "launch"
        /\ device' = [device EXCEPT !["d_MatB"] = h_B]
        /\ UNCHANGED <<threads, launchError, fault, h_A, h_B, hostRef, gpuRef, match>>
    BY <1>2 DEF CopyInputs, CopyToDevice, hostVars
  <2>2. /\ device'["d_MatB"] = h_B /\ device'["d_MatC"] = device["d_MatC"]
        /\ device'["d_MatA"] = device["d_MatA"]
    BY <2>1 DEF SumInv, BufferInv, Pointers
  <2>3. device' = [p \in Pointers |-> device'[p]]
    BY <2>1 DEF SumInv, BufferInv
  <2>4. BufferInv'
    BY <1>2, <2>1, <2>2, <2>3 DEF SumInv, BufferInv, Launched
  <2>5. HostInv' /\ KernelInv'
    BY <1>2, <2>1 DEF SumInv, HostInv, KernelInv, Before, Launched
  <2>6. QED
    BY <2>1, <2>4, <2>5 DEF SumInv
<1>3. QED
  BY <1>1, <1>2 DEF CopyInputs

\* The launch: no thread has done anything, or there is none.
LEMMA LaunchSteps ==
    ASSUME SumInv, LaunchKernel
    PROVE  SumInv'
<1>1. /\ sumPc = "launch" /\ sumPc' = "synchronize"
      /\ UNCHANGED <<h_A, h_B, hostRef, gpuRef, match, device, fault>>
  BY DEF LaunchKernel, Launch, LaunchFails, hostVars
<1>2. HostInv' /\ BufferInv'
  BY <1>1 DEF SumInv, HostInv, BufferInv, Before, Launched
<1>3. threads = NoThreads /\ ~launchError /\ ~fault
  BY <1>1 DEF SumInv, KernelInv, Before
<1>4. KernelInv'
  <2>1. CASE Launch(Blocks(nx, dimx), dimx)
    <3>1. threads' = [t \in 0 .. (Blocks(nx, dimx) * dimx - 1) |-> 0] /\ launchError' = launchError
      BY <2>1 DEF Launch
    <3>2. 0 \in 0 .. ny
      BY SizeAssumption
    <3>3. QED
      BY <1>1, <1>3, <3>1, <3>2 DEF KernelInv, Before, Launched
  <2>2. CASE LaunchFails
    <3>1. threads' = threads /\ launchError'
      BY <2>2 DEF LaunchFails
    <3>2. QED
      BY <1>1, <1>3, <3>1 DEF KernelInv, Before, Launched
  <2>3. QED
    BY <2>1, <2>2 DEF LaunchKernel
<1>5. QED
  BY <1>1, <1>2, <1>4 DEF SumInv

\* A turn of a thread adds the element of its row and its column.
LEMMA ThreadSteps ==
    ASSUME SumInv, NEW t \in DOMAIN threads, sumMatrixOnGPU1D(t)
    PROVE  SumInv'
<1>1. /\ UNCHANGED <<sumPc, h_A, h_B, hostRef, gpuRef, match, launchError, fault>>
      /\ threads[t] < ny
  BY DEF sumMatrixOnGPU1D, hostVars
<1>2. sumPc \notin Before
  BY DEF SumInv, KernelInv, NoThreads
<1>3. HostInv'
  BY <1>1 DEF SumInv, HostInv
<1>4. ASSUME sumPc \notin Launched
      PROVE  BufferInv' /\ KernelInv'
  <2>1. device' = [p \in Pointers |-> device'[p]]
    BY DEF SumInv, BufferInv, sumMatrixOnGPU1D
  <2>2. BufferInv'
    BY <1>1, <1>2, <1>4, <2>1 DEF BufferInv, Before, Launched
  <2>3. KernelInv'
    BY <1>1, <1>2, <1>4 DEF SumInv, KernelInv, Before, Launched
  <2>4. QED
    BY <2>2, <2>3
<1>5. ASSUME sumPc \in Launched
      PROVE  BufferInv' /\ KernelInv'
  <2> DEFINE iy == threads[t]
             idx == iy * nx + t
  <2>1. ~launchError /\ ~fault
    BY <1>5 DEF SumInv, KernelInv, NoThreads
  <2>2. /\ threads \in [0 .. (Blocks(nx, dimx) * dimx - 1) -> 0 .. ny]
        /\ \A u \in DOMAIN threads, r \in 0 .. (ny - 1) :
             u < nx /\ r < threads[u] =>
               device["d_MatC"][r * nx + u] = h_A[r * nx + u] + h_B[r * nx + u]
    BY <1>5, <2>1 DEF SumInv, KernelInv
  <2>3. t \in Int /\ t >= 0
    BY <2>2, SizeAssumption, EnoughBlocks
  <2>4. Place(t, dimx) = t
    BY <2>3, SizeAssumption, PlaceIsNumber
  <2>5. /\ device["d_MatA"] = h_A /\ device["d_MatB"] = h_B
        /\ device["d_MatC"] = [e \in Elements |-> device["d_MatC"][e]]
        /\ device = [p \in Pointers |-> device[p]]
    BY <1>5 DEF SumInv, BufferInv, Launched
  <2>6. iy \in 0 .. (ny - 1)
    BY <1>1, <2>2, SizeAssumption
  <2>7. CASE t < nx
    <3>1. /\ threads' = [threads EXCEPT ![t] = iy + 1]
          /\ device' = [device EXCEPT !["d_MatC"][idx] = h_A[idx] + h_B[idx]]
      BY <2>4, <2>5, <2>7 DEF sumMatrixOnGPU1D
    <3>2. idx \in Elements
      <4>1. t \in 0 .. (nx - 1)
        BY <2>3, <2>7, SizeAssumption
      <4>2. QED
        BY <2>6, <4>1, ElementAt
    <3> HIDE DEF idx
    <3>3. /\ device'["d_MatC"] = [device["d_MatC"] EXCEPT ![idx] = h_A[idx] + h_B[idx]]
          /\ device'["d_MatA"] = h_A /\ device'["d_MatB"] = h_B
          /\ device' = [p \in Pointers |-> device'[p]]
      BY <2>5, <3>1 DEF Pointers
    <3>4. BufferInv'
      BY <1>1, <1>5, <2>5, <3>3 DEF BufferInv, Launched
    <3>5. threads' \in [0 .. (Blocks(nx, dimx) * dimx - 1) -> 0 .. ny]
      BY <2>2, <2>6, <3>1, SizeAssumption
    <3>6. ASSUME NEW u \in DOMAIN threads', NEW r \in 0 .. (ny - 1), u < nx, r < threads'[u]
          PROVE  device'["d_MatC"][r * nx + u] = h_A[r * nx + u] + h_B[r * nx + u]
      <4> DEFINE e == r * nx + u
      <4>1. u \in Int /\ u >= 0 /\ u \in DOMAIN threads
        BY <3>1, <3>5, SizeAssumption, EnoughBlocks
      <4>2. e \in Elements
        <5>1. u \in 0 .. (nx - 1)
          BY <3>6, <4>1, SizeAssumption
        <5>2. QED
          BY <5>1, ElementAt
      <4>3. CASE u = t /\ r = iy
        <5>1. e = idx
          BY <4>3 DEF idx
        <5> HIDE DEF e
        <5>2. device'["d_MatC"][e] = h_A[e] + h_B[e]
          BY <2>5, <3>2, <3>3, <5>1
        <5>3. QED
          BY <5>2 DEF e
      <4>4. CASE ~(u = t /\ r = iy)
        <5>1. r < threads[u]
          BY <2>2, <2>6, <3>1, <3>6, <4>1, <4>4
        <5>2. device["d_MatC"][e] = h_A[e] + h_B[e]
          BY <2>2, <3>6, <4>1, <5>1
        <5> HIDE DEF e
        <5>3. device'["d_MatC"][e] = h_A[e] + h_B[e]
          BY <2>5, <3>2, <3>3, <4>2, <5>2
        <5>4. QED
          BY <5>3 DEF e
      <4>5. QED
        BY <4>3, <4>4
    <3>7. KernelInv'
      BY <1>1, <1>2, <2>1, <3>5, <3>6 DEF SumInv, KernelInv
    <3>8. QED
      BY <3>4, <3>7
  <2>8. CASE ~(t < nx)
    <3>1. threads' = [threads EXCEPT ![t] = ny] /\ device' = device
      BY <2>4, <2>8 DEF sumMatrixOnGPU1D
    <3>2. threads' \in [0 .. (Blocks(nx, dimx) * dimx - 1) -> 0 .. ny]
      BY <2>2, <3>1, SizeAssumption
    <3>3. \A u \in DOMAIN threads', r \in 0 .. (ny - 1) :
             u < nx /\ r < threads'[u] =>
               device["d_MatC"][r * nx + u] = h_A[r * nx + u] + h_B[r * nx + u]
      <4> SUFFICES ASSUME NEW u \in DOMAIN threads', NEW r \in 0 .. (ny - 1), u < nx, r < threads'[u]
                   PROVE  device["d_MatC"][r * nx + u] = h_A[r * nx + u] + h_B[r * nx + u]
        OBVIOUS
      <4>1. u # t /\ u \in DOMAIN threads /\ threads'[u] = threads[u]
        BY <2>2, <2>8, <3>1
      <4>2. QED
        BY <2>2, <4>1
    <3>4. KernelInv'
      BY <1>1, <1>2, <2>1, <3>1, <3>2, <3>3 DEF SumInv, KernelInv
    <3>5. BufferInv'
      BY <1>1, <3>1 DEF SumInv, BufferInv
    <3>6. QED
      BY <3>4, <3>5
  <2>9. QED
    BY <2>7, <2>8
<1>6. QED
  BY <1>1, <1>3, <1>4, <1>5 DEF SumInv

\* A kernel that breaks off leaves no threads, and a mark.
LEMMA BreakSteps ==
    ASSUME SumInv, KernelBreaksOff
    PROVE  SumInv'
<1>1. /\ threads' = NoThreads /\ fault'
      /\ UNCHANGED <<sumPc, h_A, h_B, hostRef, gpuRef, match, device, launchError>>
      /\ ~Idle(ny)
  BY DEF KernelBreaksOff, BreaksOff, hostVars
<1>2. sumPc \notin Before
  BY <1>1 DEF SumInv, KernelInv, NoThreads, Idle
<1>3. QED
  BY <1>1, <1>2 DEF SumInv, HostInv, BufferInv, KernelInv

\* What comes back is the host's sum: every thread has done all its rows.
LEMMA BackSteps ==
    ASSUME SumInv, CopyBack
    PROVE  SumInv'
<1>1. /\ sumPc = "copy back" /\ sumPc' = "check"
      /\ ~fault /\ \A t \in DOMAIN threads : threads[t] = ny
      /\ gpuRef' = device["d_MatC"]
      /\ UNCHANGED <<h_A, h_B, hostRef, match, device, threads, launchError, fault>>
  BY DEF CopyBack, WaitSucceeds, Idle, deviceVars
<1>2. /\ ~launchError
      /\ threads \in [0 .. (Blocks(nx, dimx) * dimx - 1) -> 0 .. ny]
      /\ \A t \in DOMAIN threads, r \in 0 .. (ny - 1) :
           t < nx /\ r < threads[t] =>
             device["d_MatC"][r * nx + t] = h_A[r * nx + t] + h_B[r * nx + t]
  BY <1>1 DEF SumInv, KernelInv, Launched
<1>3. /\ device["d_MatC"] = [e \in Elements |-> device["d_MatC"][e]]
      /\ hostRef = [e \in Elements |-> h_A[e] + h_B[e]]
  BY <1>1 DEF SumInv, HostInv, BufferInv, Launched
<1>4. ASSUME NEW e \in Elements
      PROVE  device["d_MatC"][e] = h_A[e] + h_B[e]
  <2> DEFINE r == e \div nx
             c == e % nx
  <2>1. r \in 0 .. (ny - 1) /\ c \in 0 .. (nx - 1) /\ e = r * nx + c
    BY RowAndColumn
  <2> HIDE DEF r, c
  <2>2. c \in 0 .. (Blocks(nx, dimx) * dimx - 1)
    BY <2>1, SizeAssumption, EnoughBlocks
  <2>3. c \in DOMAIN threads
    BY <1>2, <2>2
  <2>4. threads[c] = ny
    BY <1>1, <2>3
  <2>5. c < nx /\ r < ny
    BY <2>1, SizeAssumption
  <2>6. QED
    BY <1>2, <2>1, <2>3, <2>4, <2>5
<1>5. gpuRef' = hostRef
  BY <1>1, <1>3, <1>4
<1>6. HostInv' /\ BufferInv' /\ KernelInv'
  BY <1>1 DEF SumInv, HostInv, BufferInv, KernelInv, Before, Launched
<1>7. QED
  BY <1>1, <1>5, <1>6 DEF SumInv

LEMMA WaitingSteps ==
    ASSUME SumInv, Synchronize \/ GetLastError
    PROVE  SumInv'
<1>1. CASE Synchronize
  BY <1>1 DEF Synchronize, hostVars, deviceVars, SumInv, HostInv, BufferInv, KernelInv, Before, Launched
<1>2. CASE GetLastError
  BY <1>2 DEF GetLastError, hostVars, deviceVars, SumInv, HostInv, BufferInv, KernelInv, Before, Launched
<1>3. QED
  BY <1>1, <1>2

LEMMA LastSteps ==
    ASSUME SumInv, checkResult \/ FreeAll \/ CheckFails
    PROVE  SumInv'
<1>1. CASE checkResult
  <2>1. /\ sumPc = "check" /\ sumPc' = "free" /\ gpuRef = hostRef
        /\ match' = (\A e \in Elements : hostRef[e] = gpuRef[e])
        /\ UNCHANGED <<h_A, h_B, hostRef, gpuRef, device, threads, launchError, fault>>
    BY <1>1 DEF checkResult, deviceVars, SumInv
  <2>2. match'
    BY <2>1
  <2>3. HostInv' /\ BufferInv' /\ KernelInv'
    BY <2>1 DEF SumInv, HostInv, BufferInv, KernelInv, Before, Launched
  <2>4. QED
    BY <2>1, <2>2, <2>3 DEF SumInv
<1>2. CASE FreeAll
  <2>1. /\ sumPc = "free" /\ sumPc' = "returned" /\ match' = match
        /\ device' = [p \in Pointers |-> NoBuffer]
    BY <1>2 DEF FreeAll, FreeDevice
  <2>2. device' = [p \in Pointers |-> device'[p]]
    BY <2>1
  <2>3. QED
    BY <2>1, <2>2 DEF SumInv, HostInv, BufferInv, KernelInv, Before, Launched
<1>3. CASE CheckFails
  BY <1>3 DEF CheckFails, hostVars, deviceVars, SumInv, HostInv, BufferInv, KernelInv, Before, Launched
<1>4. QED
  BY <1>1, <1>2, <1>3

\* Whatever fails and whenever, the invariant holds.
THEOREM SumInvariance == SumSpec => []SumInv
<1>1. SumInv /\ [SumNext \/ SumFinished]_sumVars => SumInv'
  <2> SUFFICES ASSUME SumInv, [SumNext \/ SumFinished]_sumVars
               PROVE  SumInv'
    OBVIOUS
  <2>1. ASSUME NEW t \in DOMAIN threads, sumMatrixOnGPU1D(t)
        PROVE  SumInv'
    BY <2>1, ThreadSteps
  <2>2. CASE UNCHANGED sumVars
    BY <2>2 DEF sumVars, deviceVars, SumInv, HostInv, BufferInv, KernelInv
  <2>3. QED
    BY <2>1, <2>2, HostSteps, AllocateSteps, CopySteps, LaunchSteps, BreakSteps, BackSteps,
       WaitingSteps, LastSteps DEF SumNext, SumFinished
<1>2. QED
  BY <1>1, SumInitially, PTL DEF SumSpec

\* ch1.cu compares only a sum that the device has finished, and finds it right,
\* whatever the sizes of the matrices and of a block, and whatever call fails.
THEOREM DeviceSumIsHostSum == SumSpec => []DeviceEqualsHost
<1>1. SumInv => DeviceEqualsHost
  BY DEF SumInv, DeviceEqualsHost
<1>2. QED
  BY <1>1, SumInvariance, PTL
-----------------------------------------------------------------------------
\* The inductive invariant of book.cu: the numbers whose thread has run are
\* inverted and the others are not yet, and without threads none is.
RecInv ==
    /\ device = [p \in Pointers |-> device[p]]
    /\ recPc \in {"malloc", "copy to device", "launch", "copy back", "free", "verify"} =>
         recCpu = [e \in Places |-> Inverted(data[e])]
    /\ recPc \in {"on the host", "malloc", "copy to device", "launch", "copy back"} =>
         data = [e \in Places |-> data[e]]
    /\ recPc \in {"start", "on the host", "malloc", "copy to device", "launch"} =>
         threads = NoThreads /\ ~launchError /\ ~fault
    /\ recPc = "launch" => device["gpuData"] = data
    /\ recPc = "copy back" /\ launchError => threads = NoThreads
    /\ recPc = "copy back" /\ ~launchError /\ ~fault =>
         threads \in [0 .. (Blocks(WORK_SIZE, BLOCK_SIZE) * BLOCK_SIZE - 1) -> {0, 1}]
    /\ recPc = "copy back" /\ ~fault =>
         device["gpuData"] = [e \in Places |->
             IF e \in DOMAIN threads /\ threads[e] = 1 THEN Inverted(data[e]) ELSE data[e]]
    /\ recPc = "copy back" /\ fault => threads = NoThreads
    /\ recPc \in {"free", "verify"} =>
         /\ ~launchError => recGpu = recCpu
         /\ launchError => recGpu = data

LEMMA RecInitially == RecInit => RecInv
BY DEF RecInit, DeviceInit, RecInv

LEMMA RecHostSteps ==
    ASSUME RecInv, initialize \/ cpuReciprocal
    PROVE  RecInv'
<1>1. CASE initialize
  <2>1. /\ recPc = "start" /\ recPc' = "on the host"
        /\ UNCHANGED <<recCpu, recGpu, device, threads, launchError, fault>>
    BY <1>1 DEF initialize, deviceVars
  <2>2. data' = [e \in Places |-> data'[e]]
    BY <1>1 DEF initialize
  <2>3. QED
    BY <2>1, <2>2 DEF RecInv
<1>2. CASE cpuReciprocal
  BY <1>2 DEF cpuReciprocal, deviceVars, RecInv
<1>3. QED
  BY <1>1, <1>2

LEMMA RecLaunchSteps ==
    ASSUME RecInv, AllocateGpuData \/ CopyData \/ LaunchReciprocal
    PROVE  RecInv'
<1>1. CASE AllocateGpuData
  BY <1>1 DEF AllocateGpuData, Malloc, RecInv, Pointers
<1>2. CASE CopyData
  BY <1>2 DEF CopyData, CopyToDevice, arrays, RecInv, Pointers
<1>3. CASE LaunchReciprocal
  <2>1. /\ recPc = "launch" /\ recPc' = "copy back"
        /\ UNCHANGED <<data, recCpu, recGpu, device, fault>>
    BY <1>3 DEF LaunchReciprocal, Launch, LaunchFails, arrays
  <2>2. /\ threads = NoThreads /\ ~launchError /\ ~fault
        /\ device["gpuData"] = data /\ data = [e \in Places |-> data[e]]
    BY <2>1 DEF RecInv
  <2>3. CASE Launch(Blocks(WORK_SIZE, BLOCK_SIZE), BLOCK_SIZE)
    <3>1. /\ threads' = [t \in 0 .. (Blocks(WORK_SIZE, BLOCK_SIZE) * BLOCK_SIZE - 1) |-> 0]
          /\ launchError' = launchError
      BY <2>3 DEF Launch
    <3>2. \A e : ~(e \in DOMAIN threads' /\ threads'[e] = 1)
      BY <3>1
    <3>3. threads' \in [0 .. (Blocks(WORK_SIZE, BLOCK_SIZE) * BLOCK_SIZE - 1) -> {0, 1}]
      BY <3>1
    <3>4. device'["gpuData"] = [e \in Places |->
            IF e \in DOMAIN threads' /\ threads'[e] = 1 THEN Inverted(data'[e]) ELSE data'[e]]
      BY <2>1, <2>2, <3>2
    <3>5. QED
      BY <2>1, <2>2, <3>1, <3>3, <3>4 DEF RecInv
  <2>4. CASE LaunchFails
    <3>1. threads' = NoThreads /\ launchError'
      BY <2>2, <2>4 DEF LaunchFails
    <3>2. device'["gpuData"] = [e \in Places |->
            IF e \in DOMAIN threads' /\ threads'[e] = 1 THEN Inverted(data'[e]) ELSE data'[e]]
      BY <2>1, <2>2, <3>1 DEF NoThreads
    <3>3. QED
      BY <2>1, <2>2, <3>1, <3>2 DEF RecInv
  <2>5. QED
    BY <1>3, <2>3, <2>4 DEF LaunchReciprocal
<1>4. QED
  BY <1>1, <1>2, <1>3

\* A thread inverts the number at its own place, and no other thread does.
LEMMA RecThreadSteps ==
    ASSUME RecInv, NEW t \in DOMAIN threads, reciprocalKernel(t)
    PROVE  RecInv'
<1>1. /\ threads[t] = 0 /\ threads' = [threads EXCEPT ![t] = 1]
      /\ UNCHANGED <<recPc, data, recCpu, recGpu, launchError, fault>>
      /\ device' = [p \in Pointers |-> device'[p]]
  BY DEF reciprocalKernel, arrays, RecInv
<1>2. recPc \notin {"start", "on the host", "malloc", "copy to device", "launch"}
  BY DEF RecInv, NoThreads
<1>3. CASE recPc # "copy back"
  BY <1>1, <1>2, <1>3 DEF RecInv
<1>4. CASE recPc = "copy back"
  <2>1. ~fault /\ ~launchError
    BY <1>4 DEF RecInv, NoThreads
  <2>2. /\ threads \in [0 .. (Blocks(WORK_SIZE, BLOCK_SIZE) * BLOCK_SIZE - 1) -> {0, 1}]
        /\ device["gpuData"] = [e \in Places |->
             IF e \in DOMAIN threads /\ threads[e] = 1 THEN Inverted(data[e]) ELSE data[e]]
    BY <1>4, <2>1 DEF RecInv
  <2>3. t \in Int /\ t >= 0
    BY <2>2, WorkAssumption, EnoughBlocks
  <2>4. Place(t, BLOCK_SIZE) = t
    BY <2>3, WorkAssumption, PlaceIsNumber
  <2>5. device' = IF t < WORK_SIZE
                    THEN [device EXCEPT !["gpuData"][t] = Inverted(device["gpuData"][t])] ELSE device
    BY <2>4 DEF reciprocalKernel
  <2>6. threads' \in [0 .. (Blocks(WORK_SIZE, BLOCK_SIZE) * BLOCK_SIZE - 1) -> {0, 1}]
    BY <1>1, <2>2
  <2>7. device'["gpuData"] = [e \in Places |->
          IF e \in DOMAIN threads' /\ threads'[e] = 1 THEN Inverted(data[e]) ELSE data[e]]
    <3>1. CASE t < WORK_SIZE
      <4>1. t \in Places
        BY <2>3, <3>1, WorkAssumption DEF Places
      <4>2. device'["gpuData"] = [device["gpuData"] EXCEPT ![t] = Inverted(device["gpuData"][t])]
        BY <2>5, <3>1 DEF RecInv, Pointers
      <4>3. device["gpuData"][t] = data[t]
        BY <1>1, <2>2, <4>1
      <4>4. QED
        BY <1>1, <2>2, <4>1, <4>2, <4>3
    <3>2. CASE ~(t < WORK_SIZE)
      <4>1. t \notin Places
        BY <3>2, WorkAssumption DEF Places
      <4>2. device' = device
        BY <2>5, <3>2
      <4>3. QED
        BY <1>1, <2>2, <4>1, <4>2
    <3>3. QED
      BY <3>1, <3>2
  <2>8. QED
    BY <1>1, <1>4, <2>1, <2>6, <2>7 DEF RecInv
<1>5. QED
  BY <1>3, <1>4

LEMMA RecLastSteps ==
    ASSUME RecInv, ReciprocalBreaksOff \/ FreeGpuData \/ Verify \/ ReturnCheckFails
    PROVE  RecInv'
<1>1. CASE ReciprocalBreaksOff
  <2>1. /\ threads' = NoThreads /\ fault'
        /\ UNCHANGED <<recPc, data, recCpu, recGpu, device, launchError>>
        /\ ~Idle(1)
    BY <1>1 DEF ReciprocalBreaksOff, BreaksOff, arrays
  <2>2. recPc \notin {"start", "on the host", "malloc", "copy to device", "launch"}
    BY <2>1 DEF RecInv, NoThreads, Idle
  <2>3. QED
    BY <2>1, <2>2 DEF RecInv
<1>2. CASE FreeGpuData
  BY <1>2 DEF FreeGpuData, FreeDevice, arrays, RecInv
<1>3. CASE Verify
  BY <1>3 DEF Verify, deviceVars, RecInv
<1>4. CASE ReturnCheckFails
  BY <1>4 DEF ReturnCheckFails, arrays, deviceVars, RecInv
<1>5. QED
  BY <1>1, <1>2, <1>3, <1>4

LEMMA RecBackSteps ==
    ASSUME RecInv, CopyResult
    PROVE  RecInv'
<1>1. /\ recPc = "copy back" /\ recPc' = "free"
      /\ ~fault /\ \A t \in DOMAIN threads : threads[t] = 1
      /\ recGpu' = device["gpuData"]
      /\ UNCHANGED <<data, recCpu, device, threads, launchError, fault>>
  BY DEF CopyResult, WaitSucceeds, Idle, deviceVars
<1>2. /\ device["gpuData"] = [e \in Places |->
            IF e \in DOMAIN threads /\ threads[e] = 1 THEN Inverted(data[e]) ELSE data[e]]
      /\ recCpu = [e \in Places |-> Inverted(data[e])]
      /\ data = [e \in Places |-> data[e]]
  BY <1>1 DEF RecInv
<1>3. launchError => device["gpuData"] = data
  <2> SUFFICES ASSUME launchError PROVE device["gpuData"] = data
    OBVIOUS
  <2>1. DOMAIN threads = {}
    BY <1>1 DEF RecInv, NoThreads
  <2>2. QED
    BY <1>2, <2>1
<1>4. ~launchError => device["gpuData"] = recCpu
  <2> SUFFICES ASSUME ~launchError PROVE device["gpuData"] = recCpu
    OBVIOUS
  <2>1. threads \in [0 .. (Blocks(WORK_SIZE, BLOCK_SIZE) * BLOCK_SIZE - 1) -> {0, 1}]
    BY <1>1 DEF RecInv
  <2>2. \A e \in Places : e \in 0 .. (Blocks(WORK_SIZE, BLOCK_SIZE) * BLOCK_SIZE - 1)
    BY WorkAssumption, EnoughBlocks DEF Places
  <2>3. QED
    BY <1>1, <1>2, <2>1, <2>2
<1>5. QED
  BY <1>1, <1>2, <1>3, <1>4 DEF RecInv

\* Whether or not the kernel was launched, the invariant of the inversion holds.
THEOREM RecInvariance == RecSpec => []RecInv
<1>1. RecInv /\ [RecNext \/ RecFinished]_recVars => RecInv'
  <2> SUFFICES ASSUME RecInv, [RecNext \/ RecFinished]_recVars
               PROVE  RecInv'
    OBVIOUS
  <2>1. ASSUME NEW t \in DOMAIN threads, reciprocalKernel(t)
        PROVE  RecInv'
    BY <2>1, RecThreadSteps
  <2>2. CASE UNCHANGED recVars
    BY <2>2 DEF recVars, deviceVars, RecInv
  <2>3. QED
    BY <2>1, <2>2, RecHostSteps, RecLaunchSteps, RecLastSteps, RecBackSteps DEF RecNext, RecFinished
<1>2. QED
  BY <1>1, RecInitially, PTL DEF RecSpec

\* book.cu gets every number back inverted once, for every size of the vector and
\* of a block, unless its kernel was not launched, which it does not notice: then
\* it gets the numbers back as they were.
THEOREM ReciprocalIsExact == RecSpec => []ReciprocalsAgree
<1>1. RecInv => ReciprocalsAgree
  BY DEF RecInv, ReciprocalsAgree
<1>2. QED
  BY <1>1, RecInvariance, PTL

-----------------------------------------------------------------------------
(* OpenMP: for every size of the matrices and any team of threads, and     *)
(* whichever thread takes which row, the team stores the product.          *)

\* Every set of numbers has a least one.
LEMMA LeastNumber ==
    ASSUME NEW T \in SUBSET Nat, T # {}
    PROVE  \E m \in T : \A e \in T : m <= e
<1> DEFINE R == {p \in Nat \X Nat : p[1] < p[2]}
<1>1. IsWellFoundedOn(R, Nat)
  BY NatLessThanWellFounded DEF OpToRel
<1>2. PICK m \in T : \A e \in T : <<e, m>> \notin R
  <2> HIDE DEF R
  <2> QED
    BY <1>1, WFMin
<1>3. \A e \in T : ~(e < m)
  BY <1>2
<1> QED
  BY <1>2, <1>3

\* A set with 0 and with every successor has every number.
LEMMA Induction ==
    ASSUME NEW S, 0 \in S, \A m \in Nat : m \in S => m + 1 \in S
    PROVE  Nat \subseteq S
<1>1. SUFFICES ASSUME Nat \ S # {}
               PROVE  FALSE
  OBVIOUS
<1>2. PICK m \in Nat \ S : \A e \in Nat \ S : m <= e
  BY <1>1, LeastNumber
<1>3. m # 0 /\ m - 1 \in Nat /\ ~(m <= m - 1) /\ (m - 1) + 1 = m
  BY <1>2
<1>4. m - 1 \in S
  BY <1>2, <1>3
<1> QED
  BY <1>2, <1>3, <1>4

\* The sums of the first terms, for every number of terms.
LEMMA SumsExist ==
    ASSUME NEW size \in Nat, NEW d, \A e \in 0..(size - 1) : d[e] \in Int
    PROVE  \E g \in [0..size -> Int] :
              \A e \in 0..size : g[e] = IF e = 0 THEN 0 ELSE g[e - 1] + d[e - 1]
<1> DEFINE P(m) == \E g \in [0..m -> Int] :
                      \A e \in 0..m : g[e] = IF e = 0 THEN 0 ELSE g[e - 1] + d[e - 1]
           S == {m \in Nat : m <= size => P(m)}
<1>1. 0 \in S
  <2> DEFINE z == [e \in 0..0 |-> 0]
  <2>1. z \in [0..0 -> Int] /\ \A e \in 0..0 : e = 0 /\ z[e] = 0
    OBVIOUS
  <2> HIDE DEF z
  <2>2. \A e \in 0..0 : z[e] = IF e = 0 THEN 0 ELSE z[e - 1] + d[e - 1]
    BY <2>1
  <2> QED
    BY <2>1, <2>2
<1>2. ASSUME NEW m \in Nat, m \in S
      PROVE  m + 1 \in S
  <2>1. SUFFICES ASSUME m + 1 <= size
                 PROVE  P(m + 1)
    <3> HIDE DEF P
    <3> QED
      OBVIOUS
  <2>2. PICK g \in [0..m -> Int] :
            \A e \in 0..m : g[e] = IF e = 0 THEN 0 ELSE g[e - 1] + d[e - 1]
    BY <1>2, <2>1
  <2> DEFINE h == [e \in 0..(m + 1) |-> IF e = m + 1 THEN g[m] + d[m] ELSE g[e]]
  <2>3. d[m] \in Int
    BY <2>1
  <2>4. h \in [0..(m + 1) -> Int]
    BY <2>2, <2>3
  <2>5. ASSUME NEW e \in 0..(m + 1)
        PROVE  h[e] = IF e = 0 THEN 0 ELSE h[e - 1] + d[e - 1]
    <3>1. CASE e = m + 1
      <4>1. h[e] = g[m] + d[m] /\ h[e - 1] = g[m] /\ e - 1 = m /\ e # 0
        BY <3>1
      <4> HIDE DEF h
      <4> QED
        BY <4>1
    <3>2. CASE e \in 0..m
      <4>1. h[e] = g[e] /\ (e # 0 => h[e - 1] = g[e - 1])
        BY <3>2
      <4> HIDE DEF h
      <4> QED
        BY <2>2, <3>2, <4>1
    <3> QED
      BY <3>1, <3>2
  <2>6. \E f \in [0..(m + 1) -> Int] :
            \A e \in 0..(m + 1) : f[e] = IF e = 0 THEN 0 ELSE f[e - 1] + d[e - 1]
    <3> HIDE DEF h
    <3> QED
      BY <2>4, <2>5, Zenon
  <2> QED
    BY <2>6, Zenon
<1>3. size \in S
  <2> HIDE DEF S
  <2> QED
    BY <1>1, <1>2, Induction
<1> QED
  BY <1>3

\* What the innermost loop adds up, turn by turn.
LEMMA SumsEquation ==
    ASSUME arr1 \in [Rows -> [Rows -> Rows]], arr2 \in [Rows -> [Rows -> Rows]],
           NEW r \in Rows, NEW c \in Rows
    PROVE  /\ Sums(r, c)[0] = 0
           /\ \A e \in Rows : Sums(r, c)[e + 1] = Sums(r, c)[e] + arr1[r][e] * arr2[e][c]
<1> DEFINE d == [e \in Rows |-> arr1[r][e] * arr2[e][c]]
           F(f) == [e \in 0..n |-> IF e = 0 THEN 0 ELSE f[e - 1] + arr1[r][e - 1] * arr2[e - 1][c]]
<1>1. n \in Nat \ {0} /\ Rows = 0..(n - 1)
  BY ProductAssumption DEF Rows
<1>2. \A e \in 0..(n - 1) : d[e] \in Int
  <2>1. \A e \in Rows : arr1[r][e] \in Rows /\ arr2[e][c] \in Rows
    OBVIOUS
  <2>2. ASSUME NEW e \in Rows
        PROVE  arr1[r][e] * arr2[e][c] \in Int
    <3>1. arr1[r][e] \in Int /\ arr2[e][c] \in Int
      <4>1. Rows \subseteq Int
        BY <1>1
      <4> QED
        BY <2>1, <4>1
    <3> DEFINE x == arr1[r][e]
               y == arr2[e][c]
    <3> HIDE DEF x, y
    <3>2. x \in Int /\ y \in Int
      BY <3>1 DEF x, y
    <3>3. x * y \in Int
      BY <3>2
    <3> QED
      BY <3>3 DEF x, y
  <2> QED
    BY <1>1, <2>2
<1>3. PICK g \in [0..n -> Int] :
          \A e \in 0..n : g[e] = IF e = 0 THEN 0 ELSE g[e - 1] + d[e - 1]
  <2> HIDE DEF d
  <2> QED
    BY <1>1, <1>2, SumsExist
<1>4. \A e \in 0..n : e # 0 => d[e - 1] = arr1[r][e - 1] * arr2[e - 1][c]
  BY <1>1
<1>5. g = F(g)
  <2> HIDE DEF d
  <2> QED
    BY <1>3, <1>4
<1>6. Sums(r, c) = F(Sums(r, c))
  <2>1. Sums(r, c) = CHOOSE f : f = F(f)
    BY DEF Sums
  <2> HIDE DEF F
  <2> QED
    BY <1>5, <2>1
<1> DEFINE s == Sums(r, c)
<1> HIDE DEF s
<1>7. s = [e \in 0..n |-> IF e = 0 THEN 0 ELSE s[e - 1] + arr1[r][e - 1] * arr2[e - 1][c]]
  BY <1>6 DEF s
<1>8. s[0] = 0
  BY <1>1, <1>7
<1>9. ASSUME NEW e \in Rows
      PROVE  s[e + 1] = s[e] + arr1[r][e] * arr2[e][c]
  <2>1. e + 1 \in 0..n /\ e + 1 # 0 /\ (e + 1) - 1 = e
    BY <1>1
  <2>2. s[e + 1] = s[(e + 1) - 1] + arr1[r][(e + 1) - 1] * arr2[(e + 1) - 1][c]
    BY <1>7, <2>1
  <2> QED
    BY <2>1, <2>2
<1> QED
  BY <1>8, <1>9 DEF s

\* The values of the private variables.
Locals == [i : Int \cup {Unset}, j : Int \cup {Unset}, k : Int \cup {Unset}, temp : Int \cup {Unset}]

\* Where a thread is in its row, and what it has in its own temp.
ThreadInv(t) ==
    LET p == private[t]
    IN  /\ at[t] \in {"column", "adding"} => p.i \in Rows /\ p.j \in 0..n
        /\ at[t] = "adding" =>
              p.j \in Rows /\ p.k \in 0..n /\ p.temp \in Int /\ p.temp = Sums(p.i, p.j)[p.k]

\* Until the barrier opens arr3 holds the product, of which a thread that stores
\* has computed the same element again.
MulInv ==
    /\ mulPc \in {"start", "serial", "parallel", "returned"}
    /\ mulPc # "start" => arr1 \in [Rows -> [Rows -> Rows]] /\ arr2 \in [Rows -> [Rows -> Rows]]
    /\ mulPc \in {"parallel", "returned"} =>
          arr3 = serial /\ serial = [r \in Rows |-> [c \in Rows |-> ToInt(Dot(r, c))]]
    /\ at \in [Threads -> {"waiting", "column", "adding"}]
    /\ mulPc # "parallel" => \A t \in Threads : at[t] = "waiting"
    /\ private \in [Threads -> Locals]
    /\ \A t \in Threads : ThreadInv(t)

\* The assignments to private variables, and what they change.
AtElement(p, r, c)   == [p EXCEPT !.i = r, !.j = c]
Accumulates(p, m, z) == [p EXCEPT !.k = m, !.temp = z]
AtColumn(p, c)       == [p EXCEPT !.j = c]

LEMMA Assigned ==
    ASSUME NEW p \in Locals, NEW x \in Int, NEW y \in Int
    PROVE  /\ AtElement(p, x, y) \in Locals
           /\ AtElement(p, x, y).i = x /\ AtElement(p, x, y).j = y
           /\ Accumulates(p, x, y) \in Locals
           /\ Accumulates(p, x, y).i = p.i /\ Accumulates(p, x, y).j = p.j
           /\ Accumulates(p, x, y).k = x /\ Accumulates(p, x, y).temp = y
           /\ AtColumn(p, x) \in Locals
           /\ AtColumn(p, x).i = p.i /\ AtColumn(p, x).j = x
<1>1. PICK i0 \in Int \cup {Unset}, j0 \in Int \cup {Unset}, k0 \in Int \cup {Unset},
           t0 \in Int \cup {Unset} : p = [i |-> i0, j |-> j0, k |-> k0, temp |-> t0]
  BY DEF Locals
<1> DEFINE q == [p EXCEPT !.i = x]
           r == [p EXCEPT !.k = x]
<1>2. [p EXCEPT !.i = x, !.j = y] = [i |-> x, j |-> y, k |-> k0, temp |-> t0]
  <2>1. q = [i |-> x, j |-> j0, k |-> k0, temp |-> t0]
    BY <1>1
  <2>2. [p EXCEPT !.i = x, !.j = y] = [q EXCEPT !.j = y]
    OBVIOUS
  <2> HIDE DEF q
  <2>3. [q EXCEPT !.j = y] = [i |-> x, j |-> y, k |-> k0, temp |-> t0]
    BY <2>1
  <2> QED
    BY <2>2, <2>3
<1>3. [p EXCEPT !.k = x, !.temp = y] = [i |-> i0, j |-> j0, k |-> x, temp |-> y]
  <2>1. r = [i |-> i0, j |-> j0, k |-> x, temp |-> t0]
    BY <1>1
  <2>2. [p EXCEPT !.k = x, !.temp = y] = [r EXCEPT !.temp = y]
    OBVIOUS
  <2> HIDE DEF r
  <2>3. [r EXCEPT !.temp = y] = [i |-> i0, j |-> j0, k |-> x, temp |-> y]
    BY <2>1
  <2> QED
    BY <2>2, <2>3
<1>4. [p EXCEPT !.j = x] = [i |-> i0, j |-> x, k |-> k0, temp |-> t0]
  BY <1>1
<1> QED
  BY <1>1, <1>2, <1>3, <1>4 DEF Locals, AtElement, Accumulates, AtColumn

LEMMA MulInitially == MulInit => MulInv
<1> SUFFICES ASSUME MulInit
             PROVE  MulInv
  OBVIOUS
<1>1. private \in [Threads -> Locals]
  BY DEF MulInit, Locals
<1> QED
  BY <1>1 DEF MulInit, MulInv, ThreadInv

\* The sums do not change while the matrices do not.
LEMMA SumsKept ==
    ASSUME UNCHANGED <<arr1, arr2>>, NEW r, NEW c
    PROVE  Sums(r, c)' = Sums(r, c) /\ Dot(r, c)' = Dot(r, c)
BY DEF Sums, Dot

LEMMA MainSteps ==
    ASSUME MulInv, Populate \/ SerialLoops \/ Join
    PROVE  MulInv'
<1>1. CASE Populate
  <2>1. /\ mulPc = "start" /\ mulPc' = "serial" /\ arr1' \in Factors /\ arr2' \in Factors
        /\ UNCHANGED <<at, private>>
    BY <1>1 DEF Populate
  <2>2. arr1' \in [Rows -> [Rows -> Rows]] /\ arr2' \in [Rows -> [Rows -> Rows]]
    BY <2>1, ProductAssumption
  <2>3. \A t \in Threads : at'[t] = "waiting"
    BY <2>1 DEF MulInv
  <2> QED
    BY <2>1, <2>2, <2>3 DEF MulInv, ThreadInv
<1>2. CASE SerialLoops
  <2>1. /\ mulPc = "serial" /\ mulPc' = "parallel" /\ UNCHANGED <<arr1, arr2, at, private>>
        /\ arr3' = [r \in Rows |-> [c \in Rows |-> ToInt(Dot(r, c))]] /\ serial' = arr3'
    BY <1>2 DEF SerialLoops
  <2>2. \A r, c : Dot(r, c)' = Dot(r, c)
    BY <2>1, SumsKept
  <2>3. serial' = [r \in Rows |-> [c \in Rows |-> ToInt(Dot(r, c)')]]
    BY <2>1, <2>2
  <2>4. \A t \in Threads : at'[t] = "waiting"
    BY <2>1 DEF MulInv
  <2> QED
    BY <2>1, <2>3, <2>4 DEF MulInv, ThreadInv, ToInt
<1>3. CASE Join
  <2>1. /\ mulPc = "parallel" /\ mulPc' = "returned" /\ \A t \in Threads : at[t] = "waiting"
        /\ UNCHANGED <<matrices, at, private>>
    BY <1>3 DEF Join
  <2>2. \A r, c : Dot(r, c)' = Dot(r, c)
    BY <2>1, SumsKept DEF matrices
  <2> QED
    BY <2>1, <2>2 DEF MulInv, ThreadInv, matrices, ToInt
<1> QED
  BY <1>1, <1>2, <1>3

\* A step of one thread leaves the others alone.
LEMMA TeamSteps ==
    ASSUME MulInv, NEW t \in Threads,
           \/ \E r \in Rows : TakeRow(t, r)
           \/ BeginColumn(t) \/ AddProduct(t) \/ StoreElement(t) \/ EndRow(t)
    PROVE  MulInv'
<1> DEFINE p == private[t]
<1>1. p \in Locals /\ ThreadInv(t) /\ n \in Nat \ {0} /\ Rows = 0..(n - 1)
  BY ProductAssumption DEF MulInv, Rows
<1>2. mulPc = "parallel" /\ mulPc' = mulPc /\ UNCHANGED <<arr1, arr2, serial>>
  BY DEF MulInv, TakeRow, BeginColumn, AddProduct, StoreElement, EndRow, matrices
<1>3. arr1 \in [Rows -> [Rows -> Rows]] /\ arr2 \in [Rows -> [Rows -> Rows]]
  BY <1>2 DEF MulInv
<1>4. \A r, c : Sums(r, c)' = Sums(r, c) /\ Dot(r, c)' = Dot(r, c)
  BY <1>2, SumsKept
<1>5. SUFFICES
         /\ at' \in [Threads -> {"waiting", "column", "adding"}] /\ private' \in [Threads -> Locals]
         /\ \A u \in Threads : u # t => at'[u] = at[u] /\ private'[u] = private[u]
         /\ ThreadInv(t)' /\ arr3' = arr3
  <2> HIDE DEF p
  <2>1. ASSUME \A u \in Threads : u # t => at'[u] = at[u] /\ private'[u] = private[u]
        PROVE  \A u \in Threads : u # t => ThreadInv(u)'
    BY <1>4, <2>1 DEF MulInv, ThreadInv
  <2>2. serial' = [r \in Rows |-> [c \in Rows |-> ToInt(Dot(r, c)')]]
    BY <1>2, <1>4 DEF MulInv
  <2> QED
    BY <1>2, <1>3, <2>1, <2>2 DEF MulInv, ToInt
<1>6. at \in [Threads -> {"waiting", "column", "adding"}] /\ private \in [Threads -> Locals]
  BY DEF MulInv
<1>7. CASE \E r \in Rows : TakeRow(t, r)
  <2>1. PICK r \in Rows : TakeRow(t, r)
    BY <1>7
  <2>2. /\ private' = [private EXCEPT ![t].i = r, ![t].j = 0]
        /\ at' = [at EXCEPT ![t] = "column"] /\ arr3' = arr3
    BY <2>1 DEF TakeRow, matrices
  <2>3. private'[t] = AtElement(p, r, 0) /\ at'[t] = "column"
        /\ \A u \in Threads : u # t => at'[u] = at[u] /\ private'[u] = private[u]
    BY <1>6, <2>2 DEF AtElement
  <2>4. private'[t] \in Locals /\ private'[t].i = r /\ private'[t].j = 0
    <3>1. r \in Int /\ 0 \in Int
      BY <1>1
    <3> HIDE DEF p
    <3>2. LET q == AtElement(p, r, 0)
          IN  q \in Locals /\ q.i = r /\ q.j = 0
      BY <1>1, <3>1, Assigned
    <3> QED
      BY <2>3, <3>2
  <2>5. ThreadInv(t)'
    BY <1>1, <2>3, <2>4 DEF ThreadInv
  <2> QED
    BY <1>6, <2>2, <2>3, <2>4, <2>5
<1>8. CASE BeginColumn(t)
  <2>1. /\ at[t] = "column" /\ p.j < n /\ at' = [at EXCEPT ![t] = "adding"] /\ arr3' = arr3
        /\ private' = [private EXCEPT ![t].k = 0, ![t].temp = 0]
    BY <1>8 DEF BeginColumn, OwnTemp, matrices
  <2>2. p.i \in Rows /\ p.j \in Rows
    BY <1>1, <2>1 DEF ThreadInv
  <2>3. private'[t] = Accumulates(p, 0, 0) /\ at'[t] = "adding"
        /\ \A u \in Threads : u # t => at'[u] = at[u] /\ private'[u] = private[u]
    BY <1>6, <2>1 DEF Accumulates
  <2>4. /\ private'[t] \in Locals /\ private'[t].i = p.i /\ private'[t].j = p.j
        /\ private'[t].k = 0 /\ private'[t].temp = 0
    <3> HIDE DEF p
    <3>1. LET q == Accumulates(p, 0, 0)
          IN  q \in Locals /\ q.i = p.i /\ q.j = p.j /\ q.k = 0 /\ q.temp = 0
      BY <1>1, Assigned
    <3> QED
      BY <2>3, <3>1
  <2>5. Sums(p.i, p.j)[0] = 0
    BY <1>3, <2>2, SumsEquation
  <2>6. ThreadInv(t)'
    <3> HIDE DEF p
    <3> QED
      BY <1>1, <1>4, <2>2, <2>3, <2>4, <2>5 DEF ThreadInv
  <2> QED
    BY <1>6, <2>1, <2>3, <2>4, <2>6
<1>9. CASE AddProduct(t)
  <2> DEFINE z == p.temp + arr1[p.i][p.k] * arr2[p.k][p.j]
  <2>1. /\ at[t] = "adding" /\ p.k < n /\ UNCHANGED <<at, arr3>>
        /\ private' = [private EXCEPT ![t].k = @ + 1, ![t].temp = @ + arr1[p.i][p.k] * arr2[p.k][p.j]]
    BY <1>9 DEF AddProduct, OwnTemp, matrices
  <2>2. /\ p.i \in Rows /\ p.j \in Rows /\ p.k \in Rows /\ p.temp \in Int
        /\ p.temp = Sums(p.i, p.j)[p.k]
    BY <1>1, <2>1 DEF ThreadInv
  <2>3. private'[t] = Accumulates(p, p.k + 1, z) /\ at'[t] = "adding"
        /\ \A u \in Threads : u # t => at'[u] = at[u] /\ private'[u] = private[u]
    BY <1>6, <2>1 DEF Accumulates
  <2>4. z \in Int /\ z = Sums(p.i, p.j)[p.k + 1]
    <3> DEFINE x == arr1[p.i][p.k]
               y == arr2[p.k][p.j]
    <3>1. x \in Rows /\ y \in Rows
      BY <1>3, <2>2
    <3>2. Sums(p.i, p.j)[p.k + 1] = Sums(p.i, p.j)[p.k] + x * y
      BY <1>3, <2>2, SumsEquation
    <3>3. x \in Int /\ y \in Int /\ p.temp \in Int
      <4> HIDE DEF x, y
      <4>1. Rows \subseteq Int
        BY <1>1
      <4> QED
        BY <2>2, <3>1, <4>1
    <3> HIDE DEF x, y
    <3>4. x * y \in Int /\ p.temp + x * y \in Int
      BY <3>3
    <3> QED
      BY <2>2, <3>2, <3>4 DEF x, y
  <2>5. p.k + 1 \in Int
    BY <1>1, <2>2
  <2> HIDE DEF z
  <2>6. /\ private'[t] \in Locals /\ private'[t].i = p.i /\ private'[t].j = p.j
        /\ private'[t].k = p.k + 1 /\ private'[t].temp = z
    <3> HIDE DEF p
    <3>1. LET q == Accumulates(p, p.k + 1, z)
          IN  q \in Locals /\ q.i = p.i /\ q.j = p.j /\ q.k = p.k + 1 /\ q.temp = z
      BY <1>1, <2>4, <2>5, Assigned
    <3> QED
      BY <2>3, <3>1
  <2>7. ThreadInv(t)'
    <3> HIDE DEF p
    <3>1. p.k + 1 \in 0..n /\ p.j \in 0..n
      BY <1>1, <2>2
    <3> QED
      BY <1>4, <2>2, <2>3, <2>4, <2>6, <3>1 DEF ThreadInv
  <2> QED
    BY <1>6, <2>1, <2>3, <2>6, <2>7
<1>10. CASE StoreElement(t)
  <2>1. /\ at[t] = "adding" /\ p.k = n /\ at' = [at EXCEPT ![t] = "column"]
        /\ arr3' = [arr3 EXCEPT ![p.i][p.j] = ToInt(p.temp)]
        /\ private' = [private EXCEPT ![t].j = @ + 1]
    BY <1>10 DEF StoreElement, OwnTemp
  <2>2. p.i \in Rows /\ p.j \in Rows /\ p.temp = Sums(p.i, p.j)[n]
    BY <1>1, <2>1 DEF ThreadInv
  <2>3. private'[t] = AtColumn(p, p.j + 1) /\ at'[t] = "column"
        /\ \A u \in Threads : u # t => at'[u] = at[u] /\ private'[u] = private[u]
    BY <1>6, <2>1 DEF AtColumn
  <2>4. p.j + 1 \in 0..n
    BY <1>1, <2>2
  <2>5. private'[t] \in Locals /\ private'[t].i = p.i /\ private'[t].j = p.j + 1
    <3>1. p.j + 1 \in Int
      BY <1>1, <2>4
    <3> HIDE DEF p
    <3>2. LET q == AtColumn(p, p.j + 1)
          IN  q \in Locals /\ q.i = p.i /\ q.j = p.j + 1
      BY <1>1, <3>1, Assigned
    <3> QED
      BY <2>3, <3>2
  <2>6. ThreadInv(t)'
    <3> HIDE DEF p
    <3> QED
      BY <2>2, <2>3, <2>4, <2>5 DEF ThreadInv
  <2>7. arr3' = arr3
    <3>1. arr3 = [r \in Rows |-> [c \in Rows |-> ToInt(Dot(r, c))]]
      BY <1>2 DEF MulInv
    <3>2. ToInt(p.temp) = arr3[p.i][p.j]
      BY <2>2, <3>1 DEF Dot
    <3> HIDE DEF p
    <3> QED
      BY <2>1, <2>2, <3>1, <3>2
  <2> QED
    BY <1>6, <2>1, <2>3, <2>5, <2>6, <2>7
<1>11. CASE EndRow(t)
  <2>1. at' = [at EXCEPT ![t] = "waiting"] /\ UNCHANGED <<private, arr3>>
    BY <1>11 DEF EndRow, matrices
  <2>2. at'[t] = "waiting" /\ \A u \in Threads : u # t => at'[u] = at[u]
    BY <1>6, <2>1
  <2>3. ThreadInv(t)'
    BY <2>2 DEF ThreadInv
  <2> QED
    BY <1>6, <2>1, <2>2, <2>3
<1> QED
  BY <1>7, <1>8, <1>9, <1>10, <1>11

\* The inductive invariant of matmul.c.
THEOREM MulInvariance == MulSpec => []MulInv
<1>1. ASSUME MulInv, [MulNext \/ MulFinished]_mulVars
      PROVE  MulInv'
  <2>1. CASE UNCHANGED mulVars
    <3>1. \A r, c : Sums(r, c)' = Sums(r, c) /\ Dot(r, c)' = Dot(r, c)
      BY <2>1, SumsKept DEF mulVars
    <3> QED
      BY <1>1, <2>1, <3>1 DEF mulVars, MulInv, ThreadInv, ToInt
  <2> QED
    BY <1>1, <2>1, MainSteps, TeamSteps DEF MulNext, MulFinished
<1> QED
  BY <1>1, MulInitially, PTL DEF MulSpec

\* The team leaves the product that the three loops have left, for every size of
\* the matrices and of the team, and whichever thread takes which row.
THEOREM ProductIsRight == MulSpec => []ProductRight
<1>1. ASSUME MulInv
      PROVE  ProductRight
  <2>1. SUFFICES ASSUME mulPc = "returned"
                 PROVE  /\ arr3 = serial
                        /\ \A r, c \in Rows : Dot(r, c) <= MaxInt => arr3[r][c] = Dot(r, c)
    BY DEF ProductRight
  <2>2. arr3 = serial /\ serial = [r \in Rows |-> [c \in Rows |-> ToInt(Dot(r, c))]]
    BY <1>1, <2>1 DEF MulInv
  <2> QED
    BY <2>2 DEF ToInt
<1> QED
  BY <1>1, MulInvariance, PTL

-----------------------------------------------------------------------------
\* Divisibility, without the remainders.
LEMMA Multiple ==
    ASSUME NEW a \in Nat, NEW d \in Nat \ {0}
    PROVE  (a % d) = 0 <=> \E q \in Int : a = d * q
<1>1. (a % d) = 0 => a = d * (a \div d) /\ a \div d \in Int
  OBVIOUS
<1>2. ASSUME NEW q \in Int, a = d * q
      PROVE  (a % d) = 0
  BY <1>2
<1> QED
  BY <1>1, <1>2

LEMMA MultiplesAdd ==
    ASSUME NEW a \in Nat, NEW b \in Nat, NEW d \in Nat \ {0}, (a % d) = 0, (b % d) = 0
    PROVE  /\ ((a + b) % d) = 0
           /\ a >= b => ((a - b) % d) = 0
<1>1. PICK q \in Int : a = d * q
  BY Multiple
<1>2. PICK r \in Int : b = d * r
  BY Multiple
<1>3. a + b = d * (q + r) /\ a - b = d * (q - r)
  BY <1>1, <1>2
<1>4. a + b \in Nat /\ q + r \in Int /\ q - r \in Int
  OBVIOUS
<1>5. ((a + b) % d) = 0
  BY <1>3, <1>4, Multiple
<1>6. ASSUME a >= b
      PROVE  ((a - b) % d) = 0
  <2>1. a - b \in Nat
    BY <1>6
  <2> QED
    BY <1>3, <1>4, <2>1, Multiple
<1> QED
  BY <1>5, <1>6

\* The states the moves can lead to: no glass holds more than its capacity, and
\* what it holds is a multiple of whatever divides all the capacities.
Divides(d) == \A g \in glasses : (capacity[g] % d) = 0
Amounts(g) == {x \in Nat : x <= capacity[g] /\ \A d \in Nat \ {0} : Divides(d) => (x % d) = 0}
States == {s \in [glasses -> Nat] : \A g \in glasses : s[g] \in Amounts(g)}

LEMMA AmountFacts ==
    ASSUME capacity \in Seq(Nat), NEW g \in glasses
    PROVE  0 \in Amounts(g) /\ capacity[g] \in Amounts(g) /\ capacity[g] \in Nat
<1>1. capacity[g] \in Nat
  BY DEF glasses
<1>2. \A d \in Nat \ {0} : (0 % d) = 0
  <2> SUFFICES ASSUME NEW d \in Nat \ {0}
               PROVE  (0 % d) = 0
    OBVIOUS
  <2>1. 0 = d * 0
    OBVIOUS
  <2> QED
    BY <2>1, Multiple
<1> QED
  BY <1>1, <1>2 DEF Amounts, Divides

\* What is poured leaves multiples in both glasses.
LEMMA Poured ==
    ASSUME capacity \in Seq(Nat), NEW g \in glasses, NEW h \in glasses,
           NEW x \in Amounts(g), NEW y \in Amounts(h)
    PROVE  LET amount == Smaller(x, capacity[h] - y)
           IN  x - amount \in Amounts(g) /\ y + amount \in Amounts(h)
<1> DEFINE c == capacity[h]
           amount == Smaller(x, c - y)
<1>1. x \in Nat /\ y \in Nat /\ c \in Nat /\ y <= c /\ x <= capacity[g] /\ capacity[g] \in Nat
  BY AmountFacts DEF Amounts
<1>2. amount \in Nat /\ amount <= x /\ amount <= c - y
  BY <1>1 DEF Smaller
<1>3. x - amount \in Nat /\ x - amount <= capacity[g] /\ y + amount \in Nat /\ y + amount <= c
  <2> HIDE DEF amount, c
  <2> QED
    BY <1>1, <1>2
<1>4. ASSUME NEW d \in Nat \ {0}, Divides(d)
      PROVE  ((x - amount) % d) = 0 /\ ((y + amount) % d) = 0
  <2>1. (x % d) = 0 /\ (y % d) = 0 /\ (c % d) = 0
    BY <1>4 DEF Amounts, Divides
  <2>2. ((c - y) % d) = 0 /\ c - y \in Nat
    BY <1>1, <2>1, MultiplesAdd, SMTT(30)
  <2>3. (amount % d) = 0
    BY <2>1, <2>2 DEF Smaller
  <2> HIDE DEF amount, c
  <2> QED
    BY <1>1, <1>2, <2>1, <2>3, MultiplesAdd
<1> QED
  BY <1>3, <1>4 DEF Amounts

\* One glass holds something else.
Holding(s, g, x) == [s EXCEPT ![g] = x]

LEMMA ChangeKeepsStates ==
    ASSUME capacity \in Seq(Nat), NEW m \in moves, NEW s \in States
    PROVE  change(m, s) \in States
<1>1. s \in [glasses -> Nat] /\ \A g \in glasses : s[g] \in Amounts(g)
  BY DEF States
<1>2. \A g \in glasses : Amounts(g) \subseteq Nat
  BY DEF Amounts
<1>3. ASSUME NEW g \in glasses, NEW x \in Amounts(g), NEW r \in States
      PROVE  Holding(r, g, x) \in States
  BY <1>2, <1>3 DEF States, Holding
<1>4. CASE m \in [move : {"Empty", "Fill"}, glass : glasses]
  <2>1. m.glass \in glasses /\ m.move \in {"Empty", "Fill"}
    BY <1>4
  <2>2. 0 \in Amounts(m.glass) /\ capacity[m.glass] \in Amounts(m.glass)
    BY <2>1, AmountFacts
  <2>3. CASE m.move = "Empty"
    <3>1. change(m, s) = Holding(s, m.glass, 0)
      BY <2>3 DEF change, Holding
    <3> QED
      BY <1>3, <2>1, <2>2, <3>1
  <2>4. CASE m.move = "Fill"
    <3>1. change(m, s) = Holding(s, m.glass, capacity[m.glass])
      BY <2>4 DEF change, Holding
    <3> QED
      BY <1>3, <2>1, <2>2, <3>1
  <2> QED
    BY <2>1, <2>3, <2>4
<1>5. CASE m \in {p \in [move : {"Pour"}, from : glasses, to : glasses] : p.from # p.to}
  <2> DEFINE x == s[m.from]
             y == s[m.to]
             amount == Smaller(x, capacity[m.to] - y)
  <2>1. m.from \in glasses /\ m.to \in glasses /\ m.move = "Pour" /\ m.from # m.to
    BY <1>5
  <2>2. x - amount \in Amounts(m.from) /\ y + amount \in Amounts(m.to)
    BY <1>1, <2>1, Poured
  <2>3. change(m, s) = [s EXCEPT ![m.from] = @ - amount, ![m.to] = @ + amount]
    BY <2>1 DEF change
  <2> DEFINE r == Holding(s, m.from, x - amount)
  <2>4. change(m, s) = Holding(r, m.to, y + amount)
    BY <1>1, <2>1, <2>3 DEF Holding
  <2>5. r \in States
    BY <1>3, <2>1, <2>2
  <2> HIDE DEF r, amount, y
  <2> QED
    BY <1>3, <2>1, <2>2, <2>4, <2>5
<1> QED
  BY <1>4, <1>5 DEF moves

\* The recursions of Within and StatesOf, one turn of each.
Levels(f, b) == [e \in 0..b |-> IF e = 0 THEN {initialState} ELSE Grown(f[e - 1])]
Trail(f, h)  == [e \in 0..Len(h) |-> IF e = 0 THEN initialState ELSE change(h[e], f[e - 1])]

LEMMA LevelsFacts ==
    ASSUME NEW b \in Nat, NEW f, f = Levels(f, b)
    PROVE  f[0] = {initialState} /\ \A e \in 0..b : e # 0 => f[e] = Grown(f[e - 1])
<1>1. \A e \in 0..b : Levels(f, b)[e] = IF e = 0 THEN {initialState} ELSE Grown(f[e - 1])
  BY DEF Levels
<1> QED
  BY <1>1

LEMMA LevelsExist == \A b \in Nat : \E f : f = Levels(f, b)
<1> DEFINE S == {b \in Nat : \E f : f = Levels(f, b)}
<1>1. 0 \in S
  <2> DEFINE f == [e \in 0..0 |-> {initialState}]
  <2>1. f = Levels(f, 0)
    BY DEF Levels
  <2> HIDE DEF f
  <2> QED
    BY <2>1
<1>2. ASSUME NEW b \in Nat, b \in S
      PROVE  b + 1 \in S
  <2>1. PICK f : f = Levels(f, b)
    BY <1>2
  <2>2. f[0] = {initialState} /\ \A e \in 0..b : e # 0 => f[e] = Grown(f[e - 1])
    BY <2>1, LevelsFacts
  <2> DEFINE g == [e \in 0..(b + 1) |-> IF e = b + 1 THEN Grown(f[b]) ELSE f[e]]
  <2>3. ASSUME NEW e \in 0..(b + 1)
        PROVE  g[e] = IF e = 0 THEN {initialState} ELSE Grown(g[e - 1])
    <3>1. CASE e = b + 1
      <4>1. g[e] = Grown(f[b]) /\ g[e - 1] = f[b] /\ e # 0
        BY <3>1
      <4> HIDE DEF g
      <4> QED
        BY <4>1
    <3>2. CASE e \in 0..b
      <4>1. g[e] = f[e] /\ (e # 0 => g[e - 1] = f[e - 1])
        BY <3>2
      <4> HIDE DEF g
      <4> QED
        BY <2>2, <3>2, <4>1
    <3> QED
      BY <3>1, <3>2
  <2>4. g = [e \in 0..(b + 1) |-> g[e]]
    OBVIOUS
  <2> HIDE DEF g
  <2>5. g = Levels(g, b + 1)
    BY <2>3, <2>4 DEF Levels
  <2>6. b + 1 \in Nat
    OBVIOUS
  <2> QED
    BY <2>5, <2>6
<1>3. Nat \subseteq S
  <2> HIDE DEF S
  <2> QED
    BY <1>1, <1>2, Induction
<1> QED
  BY <1>3

\* The levels do not depend on how many are asked for.
LEMMA LevelsAgree ==
    ASSUME NEW b \in Nat, NEW f, f = Levels(f, b), NEW g, g = Levels(g, b + 1)
    PROVE  f[b] = g[b]
<1> DEFINE S == {e \in Nat : e <= b => f[e] = g[e]}
<1>1. /\ f[0] = {initialState} /\ \A e \in 0..b : e # 0 => f[e] = Grown(f[e - 1])
      /\ g[0] = {initialState} /\ \A e \in 0..(b + 1) : e # 0 => g[e] = Grown(g[e - 1])
  BY LevelsFacts
<1>2. 0 \in S
  BY <1>1
<1>3. ASSUME NEW e \in Nat, e \in S
      PROVE  e + 1 \in S
  <2>1. SUFFICES ASSUME e + 1 <= b
                 PROVE  f[e + 1] = g[e + 1]
    OBVIOUS
  <2>2. f[e] = g[e] /\ e + 1 \in 0..b /\ e + 1 \in 0..(b + 1) /\ e + 1 # 0 /\ (e + 1) - 1 = e
    BY <1>3, <2>1
  <2>3. f[e + 1] = Grown(f[(e + 1) - 1]) /\ g[e + 1] = Grown(g[(e + 1) - 1])
    BY <1>1, <2>2
  <2> QED
    BY <2>2, <2>3
<1>4. b \in S
  <2> HIDE DEF S
  <2> QED
    BY <1>2, <1>3, Induction
<1> QED
  BY <1>4

\* What more moves reach.
LEMMA WithinEquation ==
    /\ WithinMoves(0) = {initialState}
    /\ \A b \in Nat : WithinMoves(b + 1) = Grown(WithinMoves(b))
<1>1. ASSUME NEW b \in Nat
      PROVE  Within(b) = Levels(Within(b), b)
  <2>1. Within(b) = CHOOSE f : f = Levels(f, b)
    BY DEF Within, Levels
  <2> QED
    BY <2>1, LevelsExist
<1>2. Within(0)[0] = {initialState}
  <2>1. Within(0) = Levels(Within(0), 0)
    BY <1>1
  <2> DEFINE w == Within(0)
  <2> HIDE DEF w
  <2>2. w = Levels(w, 0)
    BY <2>1 DEF w
  <2>3. w[0] = {initialState}
    BY <2>2 DEF Levels
  <2> QED
    BY <2>3 DEF w
<1>3. ASSUME NEW b \in Nat
      PROVE  Within(b + 1)[b + 1] = Grown(Within(b)[b])
  <2> DEFINE v == Within(b)
             w == Within(b + 1)
  <2>1. v = Levels(v, b) /\ w = Levels(w, b + 1)
    BY <1>1
  <2> HIDE DEF v, w
  <2>2. v[b] = w[b]
    BY <2>1, LevelsAgree
  <2>3. w[b + 1] = Grown(w[(b + 1) - 1])
    <3>1. b + 1 \in Nat /\ b + 1 \in 0..(b + 1) /\ b + 1 # 0
      OBVIOUS
    <3> QED
      BY <2>1, <3>1, LevelsFacts
  <2>4. (b + 1) - 1 = b
    OBVIOUS
  <2> QED
    BY <2>2, <2>3, <2>4 DEF v, w
<1> QED
  BY <1>2, <1>3 DEF WithinMoves

\* A history leads where any trail of it ends.
LEMMA TrailIsStatesOf ==
    ASSUME NEW h, Len(h) \in Nat, NEW f, f = Trail(f, h)
    PROVE  StatesOf(h)[Len(h)] = f[Len(h)]
<1> DEFINE top == Len(h)
           g == StatesOf(h)
<1>1. g = CHOOSE x : x = Trail(x, h)
  BY DEF StatesOf, Trail
<1>2. g = Trail(g, h)
  BY <1>1
<1> HIDE DEF top, g
<1>3. \A x : x = Trail(x, h) =>
        x[0] = initialState /\ \A e \in 0..top : e # 0 => x[e] = change(h[e], x[e - 1])
  BY DEF Trail, top
<1>4. /\ f[0] = initialState /\ \A e \in 0..top : e # 0 => f[e] = change(h[e], f[e - 1])
      /\ g[0] = initialState /\ \A e \in 0..top : e # 0 => g[e] = change(h[e], g[e - 1])
  BY <1>2, <1>3
<1> DEFINE S == {e \in Nat : e <= top => f[e] = g[e]}
<1>5. 0 \in S
  BY <1>4
<1>6. ASSUME NEW e \in Nat, e \in S
      PROVE  e + 1 \in S
  <2>1. SUFFICES ASSUME e + 1 <= top
                 PROVE  f[e + 1] = g[e + 1]
    OBVIOUS
  <2>2. top \in Nat
    BY DEF top
  <2>3. f[e] = g[e] /\ e + 1 \in 0..top /\ e + 1 # 0 /\ (e + 1) - 1 = e
    BY <1>6, <2>1, <2>2
  <2>4. f[e + 1] = change(h[e + 1], f[(e + 1) - 1]) /\ g[e + 1] = change(h[e + 1], g[(e + 1) - 1])
    BY <1>4, <2>3
  <2> QED
    BY <2>3, <2>4
<1>7. top \in S
  <2> HIDE DEF S
  <2>1. top \in Nat
    BY DEF top
  <2> QED
    BY <1>5, <1>6, <2>1, Induction
<1> QED
  BY <1>7 DEF top, g

\* One more move makes a trail longer by one state.
LEMMA TrailExtends ==
    ASSUME NEW h \in Seq(moves), NEW f, f = Trail(f, h), NEW m \in moves
    PROVE  \E g : g = Trail(g, Append(h, m)) /\ g[Len(h) + 1] = change(m, f[Len(h)])
<1> DEFINE top == Len(h)
           q == Append(h, m)
           g == [e \in 0..(top + 1) |-> IF e = top + 1 THEN change(m, f[top]) ELSE f[e]]
<1>1. top \in Nat /\ Len(q) = top + 1 /\ q[top + 1] = m /\ \A e \in 1..top : q[e] = h[e]
  BY LenProperties, AppendProperties
<1>2. f[0] = initialState /\ \A e \in 0..top : e # 0 => f[e] = change(h[e], f[e - 1])
  BY DEF Trail
<1> HIDE DEF top, q
<1>3. ASSUME NEW e \in 0..(top + 1)
      PROVE  g[e] = IF e = 0 THEN initialState ELSE change(q[e], g[e - 1])
  <2>1. CASE e = top + 1
    <3>1. g[e] = change(m, f[top]) /\ g[e - 1] = f[top] /\ e # 0 /\ q[e] = m
      BY <1>1, <2>1
    <3> HIDE DEF g
    <3> QED
      BY <3>1
  <2>2. CASE e \in 0..top
    <3>1. g[e] = f[e] /\ (e # 0 => g[e - 1] = f[e - 1] /\ q[e] = h[e])
      BY <1>1, <2>2
    <3> HIDE DEF g
    <3> QED
      BY <1>2, <2>2, <3>1
  <2> QED
    BY <1>1, <2>1, <2>2
<1>4. g = [e \in 0..(top + 1) |-> g[e]] /\ g[top + 1] = change(m, f[top])
  BY <1>1
<1> HIDE DEF g
<1>5. g = Trail(g, q)
  BY <1>1, <1>3, <1>4 DEF Trail
<1> QED
  BY <1>4, <1>5 DEF top, q

\* A path is a history of moves, and it ends where the history leads.
PathRight(p) ==
    /\ p.history \in Seq(moves) /\ p.endState \in States
    /\ \E f : f = Trail(f, p.history) /\ f[Len(p.history)] = p.endState

\* The search has made the paths of so many moves: explored is what they and
\* shorter ones reach, and no shorter one has reached the target.
LevelInv(level) ==
    /\ \A p \in paths : Len(p.history) = level /\ p.endState \in explored
    /\ explored = WithinMoves(level)
    /\ \A s \in WithinMoves(level) :
          (level > 0 /\ s \in WithinMoves(level - 1)) \/ \E p \in paths : p.endState = s
    /\ level > 0 => \A s \in WithinMoves(level - 1) : ~Contains(s, target)

SolutionRight(p) ==
    /\ Contains(StatesOf(p.history)[Len(p.history)], target)
    /\ Measurable(target)
    /\ p.history # <<>> =>
         \A s \in WithinMoves(Len(p.history) - 1) : ~Contains(s, target)

\* More moves than so many reach nothing more, and nothing with the target.
Exhausted(level) ==
    /\ WithinMoves(level + 1) = WithinMoves(level)
    /\ \A s \in WithinMoves(level) : ~Contains(s, target)

\* The inductive invariant of Pouring.
PourInv ==
    /\ capacity \in Seq(Nat) /\ target \in Nat
    /\ search = "searching" => (\A p \in paths : PathRight(p)) /\ \E level \in Nat : LevelInv(level)
    /\ search # "found" => solution = {}
    /\ \A p \in solution : SolutionRight(p)
    /\ search = "no solution" => \E level \in Nat : Exhausted(level)

\* Nothing about the moves changes during a search.
LEMMA SameProblem ==
    ASSUME UNCHANGED <<capacity, target>>
    PROVE  /\ moves' = moves
           /\ \A p : PathRight(p)' <=> PathRight(p)
           /\ \A p : SolutionRight(p)' <=> SolutionRight(p)
           /\ \A b : WithinMoves(b)' = WithinMoves(b)
           /\ \A s : Contains(s, target)' <=> Contains(s, target)
<1>1. glasses' = glasses /\ initialState' = initialState /\ moves' = moves
  BY DEF glasses, initialState, moves
<1>2. \A m, s : change(m, s)' = change(m, s)
  BY DEF change
<1>3. States' = States
  BY <1>1 DEF States, Amounts, Divides
<1>4. \A f, h : Trail(f, h)' = Trail(f, h)
  BY <1>1, <1>2 DEF Trail
<1>5. \A s : Contains(s, target)' <=> Contains(s, target)
  BY <1>1 DEF Contains
<1>6. \A b : WithinMoves(b)' = WithinMoves(b)
  BY DEF WithinMoves, Within, Grown, initialState, moves, change, glasses
<1>7. \A h : StatesOf(h)' = StatesOf(h)
  BY DEF StatesOf, initialState, change, glasses
<1>8. Measurable(target)' <=> Measurable(target)
  BY <1>1 DEF Measurable
<1>9. \A p : PathRight(p)' <=> PathRight(p)
  BY <1>1, <1>3, <1>4 DEF PathRight
<1>10. \A p : SolutionRight(p)' <=> SolutionRight(p)
  BY <1>1, <1>6, <1>7, <1>8 DEF SolutionRight, Contains
<1> QED
  BY <1>1, <1>5, <1>6, <1>9, <1>10

\* The search as BeginSearch leaves it.
SearchBegun ==
    /\ search = "searching" /\ capacity \in Seq(Nat) /\ target \in Nat
    /\ paths = {[history |-> <<>>, endState |-> initialState]}
    /\ explored = {initialState} /\ solution = {}

LEMMA BegunRight == SearchBegun => PourInv
<1> SUFFICES ASSUME SearchBegun
             PROVE  PourInv
  OBVIOUS
<1> DEFINE p == [history |-> <<>>, endState |-> initialState]
<1>1. initialState \in States
  BY AmountFacts DEF SearchBegun, initialState, States, Amounts
<1>2. PathRight(p)
  <2>1. p.history = <<>> /\ p.endState = initialState
    OBVIOUS
  <2>2. <<>> \in Seq(moves) /\ Len(<<>>) = 0
    BY EmptySeq
  <2> DEFINE f == [e \in 0..0 |-> initialState]
  <2>3. f = Trail(f, <<>>) /\ f[0] = initialState
    BY <2>2 DEF Trail
  <2> HIDE DEF f, p
  <2>4. \E x : x = Trail(x, p.history) /\ x[Len(p.history)] = p.endState
    BY <2>1, <2>2, <2>3
  <2> QED
    BY <1>1, <2>1, <2>2, <2>4 DEF PathRight
<1>3. LevelInv(0)
  <2>1. paths = {p} /\ p.endState = initialState /\ Len(p.history) = 0
    BY EmptySeq DEF SearchBegun
  <2>2. explored = {initialState} /\ WithinMoves(0) = {initialState}
    BY WithinEquation DEF SearchBegun
  <2> HIDE DEF p
  <2> QED
    BY <2>1, <2>2 DEF LevelInv
<1> QED
  BY <1>2, <1>3 DEF SearchBegun, PourInv

LEMMA BegunRightNext == SearchBegun' => PourInv'
BY BegunRight, PTL

LEMMA BeginSearchKeeps ==
    ASSUME PourInv, BeginSearch
    PROVE  PourInv'
<1>1. PICK p \in Problems : capacity' = p.capacity /\ target' = p.target
  BY DEF BeginSearch
<1>2. capacity' \in Seq(Nat) /\ target' \in Nat
  BY <1>1, ProblemAssumption
<1>3. solution' = {} /\ search' = "searching"
  BY DEF BeginSearch, PourInv
<1>4. /\ paths' = {[history |-> <<>>, endState |-> initialState']}
      /\ explored' = {initialState'}
  BY DEF BeginSearch, initialState, glasses
<1>5. SearchBegun'
  BY <1>2, <1>3, <1>4 DEF SearchBegun
<1> QED
  BY <1>5, BegunRightNext

\* The next level is made of paths one move longer, and explored grows by what
\* one more move reaches.
LEMMA FromKeeps ==
    ASSUME PourInv, from
    PROVE  PourInv'
<1>1. /\ search = "searching" /\ search' = search /\ UNCHANGED <<capacity, target, solution>>
      /\ \A p \in paths : ~Contains(p.endState, target)
      /\ paths' = More /\ explored' = explored \cup {p.endState : p \in More}
  BY DEF from
<1>2. PICK level \in Nat : LevelInv(level)
  BY <1>1 DEF PourInv
<1>3. \A p \in paths : PathRight(p)
  BY <1>1 DEF PourInv
<1>4. /\ moves' = moves /\ \A p : PathRight(p)' <=> PathRight(p)
      /\ \A p : SolutionRight(p)' <=> SolutionRight(p)
      /\ \A b : WithinMoves(b)' = WithinMoves(b)
      /\ \A s : Contains(s, target)' <=> Contains(s, target)
  BY <1>1, SameProblem
<1> DEFINE W == WithinMoves(level)
           V == WithinMoves(level + 1)
<1>5. V = Grown(W)
  BY WithinEquation
<1>6. ASSUME NEW q \in More
      PROVE  /\ PathRight(q) /\ Len(q.history) = level + 1
             /\ q.endState \in V /\ q.endState \notin W
  <2>1. PICK p \in paths, m \in moves : q = extend(p, m) /\ q.endState \notin explored
    BY DEF More
  <2>2. q.history = Append(p.history, m) /\ q.endState = change(m, p.endState)
    BY <2>1 DEF extend
  <2>3. /\ PathRight(p) /\ Len(p.history) = level /\ p.history \in Seq(moves)
        /\ p.endState \in States
    BY <1>2, <1>3 DEF LevelInv, PathRight
  <2>4. q.history \in Seq(moves) /\ Len(q.history) = level + 1
    BY <2>2, <2>3, AppendProperties
  <2>5. q.endState \in States
    BY <2>2, <2>3, ChangeKeepsStates DEF PourInv
  <2>6. PICK f : f = Trail(f, p.history) /\ f[Len(p.history)] = p.endState
    BY <2>3 DEF PathRight
  <2>7. \E g : g = Trail(g, q.history) /\ g[Len(q.history)] = q.endState
    BY <2>2, <2>3, <2>4, <2>6, TrailExtends
  <2>8. p.endState \in W
    BY <1>2, <2>1 DEF LevelInv
  <2>9. q.endState \in V
    BY <1>5, <2>1, <2>2, <2>8 DEF Grown
  <2> QED
    BY <1>2, <2>1, <2>4, <2>5, <2>7, <2>9 DEF PathRight, LevelInv
<1>7. explored' = V
  <2>1. W \subseteq V /\ {q.endState : q \in More} \subseteq V /\ explored = W
    BY <1>2, <1>5, <1>6 DEF Grown, LevelInv
  <2>2. ASSUME NEW m \in moves, NEW s \in W
        PROVE  change(m, s) \in explored \cup {q.endState : q \in More}
    <3>1. CASE level > 0 /\ s \in WithinMoves(level - 1)
      <4>1. level - 1 \in Nat /\ (level - 1) + 1 = level
        BY <3>1
      <4>2. W = Grown(WithinMoves(level - 1))
        BY <4>1, WithinEquation
      <4> QED
        BY <2>1, <3>1, <4>2 DEF Grown
    <3>2. CASE \E p \in paths : p.endState = s
      <4>1. PICK p \in paths : p.endState = s
        BY <3>2
      <4>2. extend(p, m).endState = change(m, s)
        BY <4>1 DEF extend
      <4>3. extend(p, m).endState \notin explored => extend(p, m) \in More
        BY <4>1 DEF More
      <4> QED
        BY <4>2, <4>3
    <3> QED
      BY <1>2, <3>1, <3>2 DEF LevelInv
  <2> HIDE DEF W, V
  <2>3. V \subseteq explored \cup {q.endState : q \in More}
    BY <1>5, <2>1, <2>2 DEF Grown
  <2> QED
    BY <1>1, <2>1, <2>3
<1>8. ASSUME NEW s \in W
      PROVE  ~Contains(s, target)
  BY <1>1, <1>2 DEF LevelInv
<1>9. ASSUME NEW s \in V
      PROVE  s \in W \/ \E q \in paths' : q.endState = s
  BY <1>1, <1>2, <1>7 DEF LevelInv
<1>10. LevelInv(level + 1)'
  <2>1. level + 1 > 0 /\ (level + 1) - 1 = level
    OBVIOUS
  <2>2. /\ \A q \in paths' : Len(q.history) = level + 1 /\ q.endState \in explored'
        /\ explored' = WithinMoves(level + 1)'
    BY <1>1, <1>4, <1>6, <1>7
  <2>3. \A s \in WithinMoves(level + 1)' :
          s \in WithinMoves(level)' \/ \E q \in paths' : q.endState = s
    BY <1>4, <1>9
  <2>4. \A s \in WithinMoves(level)' : ~Contains(s, target)'
    BY <1>4, <1>8
  <2> QED
    BY <2>1, <2>2, <2>3, <2>4 DEF LevelInv
<1>11. \A p \in paths' : PathRight(p)'
  BY <1>1, <1>4, <1>6
<1>12. level + 1 \in Nat
  OBVIOUS
<1>13. \A p \in solution' : SolutionRight(p)'
  BY <1>1, <1>4 DEF PourInv
<1>14. solution' = {} /\ capacity' \in Seq(Nat) /\ target' \in Nat
  BY <1>1 DEF PourInv
<1> QED
  BY <1>1, <1>10, <1>11, <1>12, <1>13, <1>14 DEF PourInv

\* The path that is taken is of the first level with the target in it.
LEMMA TakenIsRight ==
    ASSUME PourInv, search = "searching", NEW p \in paths, Contains(p.endState, target)
    PROVE  SolutionRight(p)
<1>1. PICK level \in Nat : LevelInv(level)
  BY DEF PourInv
<1>2. PathRight(p) /\ Len(p.history) = level /\ capacity \in Seq(Nat) /\ target \in Nat
  BY <1>1 DEF PourInv, LevelInv
<1>3. PICK f : f = Trail(f, p.history) /\ f[Len(p.history)] = p.endState
  BY <1>2 DEF PathRight
<1>4. StatesOf(p.history)[Len(p.history)] = p.endState
  BY <1>2, <1>3, TrailIsStatesOf
<1>5. Measurable(target)
  <2>1. PICK g \in glasses : p.endState[g] = target
    BY DEF Contains
  <2>2. target \in Amounts(g)
    BY <1>2, <2>1 DEF PathRight, States
  <2>3. \A h2 \in glasses : capacity[h2] \in Nat
    BY <1>2 DEF glasses
  <2>4. ASSUME NEW h2 \in glasses, NEW d \in 1..capacity[h2], \A h \in glasses : (capacity[h] % d) = 0
        PROVE  (target % d) = 0
    <3>1. d \in Nat \ {0}
      BY <2>3
    <3> QED
      BY <2>2, <2>4, <3>1 DEF Amounts, Divides
  <2>5. target <= capacity[g]
    BY <2>2 DEF Amounts
  <2> QED
    BY <2>1, <2>4, <2>5 DEF Measurable
<1>6. ASSUME p.history # <<>>, NEW s \in WithinMoves(Len(p.history) - 1)
      PROVE  ~Contains(s, target)
  <2>1. level > 0
    BY <1>2, <1>6, EmptySeq DEF PathRight
  <2> QED
    BY <1>1, <1>2, <1>6, <2>1 DEF LevelInv
<1> QED
  BY <1>4, <1>5, <1>6 DEF SolutionRight

LEMMA TakeSolutionKeeps ==
    ASSUME PourInv, TakeSolution
    PROVE  PourInv'
<1>1. /\ search = "searching" /\ search' = "found" /\ UNCHANGED <<capacity, target, paths, explored>>
      /\ \E p \in paths : Contains(p.endState, target) /\ solution' = {p}
  BY DEF TakeSolution
<1>2. PICK p \in paths : Contains(p.endState, target) /\ solution' = {p}
  BY <1>1
<1>3. SolutionRight(p)'
  BY <1>1, <1>2, TakenIsRight, SameProblem
<1>4. capacity' \in Seq(Nat) /\ target' \in Nat
  BY <1>1 DEF PourInv
<1> QED
  BY <1>1, <1>2, <1>3, <1>4 DEF PourInv

\* Whatever is reached stays reached, and the levels that follow an equal one
\* are equal.
LEMMA LevelsGrow ==
    ASSUME NEW level \in Nat
    PROVE  /\ \A b \in Nat : initialState \in WithinMoves(b)
           /\ WithinMoves(level + 1) = WithinMoves(level) =>
                 \A b \in Nat : WithinMoves(b) \subseteq WithinMoves(level)
<1> DEFINE S == {b \in Nat : initialState \in WithinMoves(b)}
           U == {b \in Nat : b >= level => WithinMoves(b) = WithinMoves(level)}
           D == {d \in Nat : d <= level => WithinMoves(level - d) \subseteq WithinMoves(level)}
<1>1. \A b \in Nat : WithinMoves(b) \subseteq WithinMoves(b + 1)
  BY WithinEquation DEF Grown
<1>2. 0 \in S
  BY WithinEquation
<1>3. ASSUME NEW b \in Nat, b \in S
      PROVE  b + 1 \in S
  BY <1>1, <1>3
<1>4. Nat \subseteq S
  <2> HIDE DEF S
  <2> QED
    BY <1>2, <1>3, Induction
<1>5. 0 \in D
  OBVIOUS
<1>6. ASSUME NEW d \in Nat, d \in D
      PROVE  d + 1 \in D
  <2>1. SUFFICES ASSUME d + 1 <= level
                 PROVE  WithinMoves(level - (d + 1)) \subseteq WithinMoves(level)
    OBVIOUS
  <2>2. level - (d + 1) \in Nat /\ (level - (d + 1)) + 1 = level - d /\ d <= level
    BY <2>1
  <2>3. WithinMoves(level - (d + 1)) \subseteq WithinMoves((level - (d + 1)) + 1)
    BY <1>1, <2>2
  <2> QED
    BY <1>6, <2>2, <2>3
<1>7. Nat \subseteq D
  <2> HIDE DEF D
  <2> QED
    BY <1>5, <1>6, Induction
<1>8. ASSUME WithinMoves(level + 1) = WithinMoves(level), NEW b \in Nat
      PROVE  WithinMoves(b) \subseteq WithinMoves(level)
  <2>1. 0 \in U
    <3>1. 0 >= level => level = 0
      OBVIOUS
    <3> QED
      BY <3>1
  <2>2. ASSUME NEW e \in Nat, e \in U
        PROVE  e + 1 \in U
    <3>1. SUFFICES ASSUME e + 1 >= level
                   PROVE  WithinMoves(e + 1) = WithinMoves(level)
      OBVIOUS
    <3>2. CASE e + 1 = level
      BY <3>2
    <3>3. CASE e >= level
      <4>1. WithinMoves(e) = WithinMoves(level)
        BY <2>2, <3>3
      <4>2. WithinMoves(e + 1) = Grown(WithinMoves(e)) /\ WithinMoves(level + 1) = Grown(WithinMoves(level))
        BY WithinEquation
      <4> QED
        BY <1>8, <4>1, <4>2
    <3> QED
      BY <3>1, <3>2, <3>3
  <2>3. Nat \subseteq U
    <3> HIDE DEF U
    <3> QED
      BY <2>1, <2>2, Induction
  <2>4. CASE b >= level
    BY <2>3, <2>4
  <2>5. CASE b <= level
    <3>1. level - b \in Nat /\ level - b <= level /\ level - (level - b) = b
      BY <2>5
    <3> QED
      BY <1>7, <3>1
  <2> QED
    BY <2>4, <2>5
<1> QED
  BY <1>4, <1>8

\* A step that makes no level and takes no solution.
LEMMA EndKeeps ==
    ASSUME PourInv, StreamEnds \/ UNCHANGED pourVars
    PROVE  PourInv'
<1>1. UNCHANGED <<capacity, target, paths, explored, solution>>
  BY DEF StreamEnds, pourVars
<1>2. capacity' \in Seq(Nat) /\ target' \in Nat /\ \A p \in solution' : SolutionRight(p)'
  BY <1>1, SameProblem DEF PourInv
<1>3. CASE StreamEnds
  <2>1. search = "searching" /\ paths = {} /\ search' = "no solution" /\ solution' = solution
    BY <1>1, <1>3 DEF StreamEnds
  <2>2. PICK level \in Nat : LevelInv(level)
    BY <2>1, Zenon DEF PourInv
  <2>3. level > 0 /\ \A s \in WithinMoves(level) : s \in WithinMoves(level - 1)
    <3>1. \A s \in WithinMoves(level) : level > 0 /\ s \in WithinMoves(level - 1)
      BY <2>1, <2>2 DEF LevelInv
    <3>2. WithinMoves(level) # {}
      BY LevelsGrow
    <3> QED
      BY <3>1, <3>2
  <2>4. level - 1 \in Nat /\ (level - 1) + 1 = level
    BY <2>3
  <2>5. WithinMoves(level) = WithinMoves(level - 1)
    <3>1. WithinMoves(level) = Grown(WithinMoves(level - 1))
      BY <2>4, WithinEquation
    <3> QED
      BY <2>3, <3>1 DEF Grown
  <2>6. Exhausted(level - 1)
    BY <2>2, <2>3, <2>4, <2>5 DEF LevelInv, Exhausted
  <2>7. Exhausted(level - 1)'
    BY <1>1, <2>6, SameProblem DEF Exhausted
  <2>8. \E l \in Nat : Exhausted(l)'
    BY <2>4, <2>7
  <2>9. solution' = {}
    BY <2>1, Zenon DEF PourInv
  <2> QED
    BY <1>2, <2>1, <2>8, <2>9, Zenon DEF PourInv
<1>4. CASE UNCHANGED pourVars
  <2>1. search' = search
    BY <1>4 DEF pourVars
  <2>2. \A level \in Nat : LevelInv(level) => LevelInv(level)'
    BY <1>1, SameProblem DEF LevelInv
  <2>3. (\A p \in paths : PathRight(p)) => (\A p \in paths' : PathRight(p)')
    BY <1>1, SameProblem
  <2>4. \A level \in Nat : Exhausted(level) => Exhausted(level)'
    BY <1>1, SameProblem DEF Exhausted
  <2> QED
    BY <1>1, <1>2, <2>1, <2>2, <2>3, <2>4, Zenon DEF PourInv
<1> QED
  BY <1>3, <1>4

\* A search extends paths that are right a level at a time: the levels so far
\* are all that so many moves reach (from and solution of class Pouring).
THEOREM PourInvariance == PourSpec => []PourInv
<1>1. PourInit => PourInv
  <2>1. <<>> \in Seq(Nat) /\ 0 \in Nat
    OBVIOUS
  <2>2. SUFFICES ASSUME PourInit
                 PROVE  PourInv
    OBVIOUS
  <2>3. search = "not begun" /\ capacity = <<>> /\ target = 0 /\ solution = {}
    BY <2>2 DEF PourInit
  <2> QED
    BY <2>1, <2>3, Zenon DEF PourInv
<1>2. PourInv /\ [PourNext \/ PourFinished]_pourVars => PourInv'
  BY BeginSearchKeeps, FromKeeps, TakeSolutionKeeps, EndKeeps DEF PourNext, PourFinished
<1> QED
  BY <1>1, <1>2, PTL DEF PourSpec

\* For glasses of every size and number, the solution found ends with the
\* target, and no shorter sequence of moves does.
THEOREM SolutionIsShortest == PourSpec => []SolutionShortest
<1>1. PourInv => SolutionShortest
  BY DEF PourInv, SolutionRight, SolutionShortest
<1> QED
  BY <1>1, PourInvariance, PTL

\* A search that ends without a solution has seen every state that any number of
\* moves leads to, and the target is in none of them.
THEOREM NoneIsMissed ==
    PourSpec => [](search = "no solution" =>
                      \A b \in Nat : \A s \in WithinMoves(b) : ~Contains(s, target))
<1>1. PourInv => (search = "no solution" =>
                    \A b \in Nat : \A s \in WithinMoves(b) : ~Contains(s, target))
  <2> SUFFICES ASSUME PourInv, search = "no solution", NEW b \in Nat, NEW s \in WithinMoves(b)
               PROVE  ~Contains(s, target)
    OBVIOUS
  <2>1. PICK level \in Nat : Exhausted(level)
    BY Zenon DEF PourInv
  <2>2. WithinMoves(b) \subseteq WithinMoves(level)
    BY <2>1, LevelsGrow DEF Exhausted
  <2> QED
    BY <2>1, <2>2 DEF Exhausted
<1> QED
  BY <1>1, PourInvariance, PTL

\* What the largest glass holds when it held x and y is poured into it, and it is
\* emptied once if it overflows.
Around(x, y, top) == IF x + y <= top THEN x + y ELSE x + y - top

LEMMA AroundFacts ==
    ASSUME NEW top \in Nat \ {0}, NEW x \in 0..top, NEW y \in 0..top, NEW z \in 0..top
    PROVE  /\ Around(x, y, top) \in 0..top
           /\ Around(0, y, top) = y
           /\ Around(x, Around(y, z, top), top) = Around(Around(x, y, top), z, top)
BY DEF Around

\* Amounts that are closed under going around are the multiples of the least of
\* them, which divides the top as well.
LEMMA MultiplesOfLeast ==
    ASSUME NEW top \in Nat \ {0}, NEW T \in SUBSET (0..top), top \in T,
           \A x, y \in T : Around(x, y, top) \in T
    PROVE  \E d \in 1..top : /\ \A y \in T : (y % d) = 0
                             /\ \A t \in 1..top : (t % d) = 0 => t \in T
<1>1. PICK d \in T \ {0} : \A e \in T \ {0} : d <= e
  <2>1. T \ {0} \in SUBSET Nat /\ T \ {0} # {}
    OBVIOUS
  <2> QED
    BY <2>1, LeastNumber
<1>2. d \in Nat \ {0} /\ d \in 1..top
  BY <1>1
<1>3. ASSUME NEW times \in Nat, times # 0, times * d <= top
      PROVE  times * d \in T
  <2> DEFINE S == {turns \in Nat : turns # 0 /\ turns * d <= top => turns * d \in T}
  <2>1. 0 \in S
    OBVIOUS
  <2>2. ASSUME NEW turns \in Nat, turns \in S
        PROVE  turns + 1 \in S
    <3>1. SUFFICES ASSUME (turns + 1) * d <= top
                   PROVE  (turns + 1) * d \in T
      OBVIOUS
    <3>2. (turns + 1) * d = turns * d + d /\ turns * d \in Nat
      BY <1>2
    <3>3. CASE turns = 0
      BY <1>1, <3>2, <3>3
    <3>4. CASE turns # 0
      <4>1. turns * d \in T
        BY <1>2, <2>2, <3>1, <3>2, <3>4
      <4>2. Around(turns * d, d, top) = (turns + 1) * d
        BY <1>2, <3>1, <3>2 DEF Around
      <4> QED
        BY <1>1, <4>1, <4>2
    <3> QED
      BY <3>3, <3>4
  <2>3. times \in S
    <3> HIDE DEF S
    <3> QED
      BY <2>1, <2>2, Induction
  <2> QED
    BY <1>3, <2>3
<1> DEFINE q == top \div d
           r == top % d
<1>4. q \in Int /\ r \in 0..(d - 1) /\ top = q * d + r
  <2>1. top \in Int /\ d \in Nat \ {0}
    BY <1>2
  <2> HIDE DEF q, r
  <2>2. top \div d \in Int /\ top % d \in 0..(d - 1) /\ top = (top \div d) * d + (top % d)
    BY <2>1, Euclid
  <2> QED
    BY <2>2 DEF q, r
<1> HIDE DEF q, r
<1>5. q \in Nat \ {0} /\ q * d \in Nat
  <2>1. SUFFICES ASSUME 0 >= q
                 PROVE  FALSE
    BY <1>2, <1>4
  <2>2. 1 * d >= q * d + d
    BY <1>2, <1>4, <2>1, Stretch
  <2>3. q * d \in Int /\ 1 * d = d
    BY <1>2, <1>4
  <2> QED
    BY <1>2, <1>4, <2>2, <2>3
<1>6. r = 0 /\ top = q * d
  <2>1. SUFFICES ASSUME r # 0
                 PROVE  FALSE
    BY <1>4, <1>5
  <2>2. q * d \in T
    BY <1>3, <1>4, <1>5
  <2>3. Around(q * d, d, top) = d - r
    BY <1>2, <1>4, <1>5, <2>1 DEF Around
  <2>4. d - r \in T
    BY <1>1, <2>2, <2>3
  <2>5. d - r # 0 /\ ~(d <= d - r)
    BY <1>2, <1>4, <2>1
  <2> QED
    BY <1>1, <2>4, <2>5
\* Taking d off is going around by what is missing from d to the top.
<1>7. ASSUME NEW y \in T, y > d
      PROVE  y - d \in T
  <2>1. y \in 0..top
    OBVIOUS
  <2>2. (q - 1) * d = top - d /\ q - 1 \in Nat
    BY <1>2, <1>5, <1>6
  <2>3. q - 1 # 0
    <3>1. 0 * d = 0
      BY <1>2
    <3> QED
      BY <1>2, <1>7, <2>1, <2>2, <3>1
  <2>4. top - d \in T
    <3>1. (q - 1) * d <= top
      BY <1>2, <2>2
    <3>2. (q - 1) * d \in T
      BY <1>3, <2>2, <2>3, <3>1
    <3> QED
      BY <2>2, <3>2
  <2>5. Around(y, top - d, top) = y - d
    BY <1>2, <1>7, <2>1 DEF Around
  <2> QED
    BY <2>4, <2>5
<1>8. ASSUME NEW y \in T
      PROVE  (y % d) = 0
  <2> DEFINE B == {e \in T : (e % d) # 0}
  <2>1. SUFFICES ASSUME B # {}
                 PROVE  FALSE
    OBVIOUS
  <2>2. PICK b \in B : \A e \in B : b <= e
    <3>1. \A e \in B : e \in 0..top
      OBVIOUS
    <3> HIDE DEF B
    <3> QED
      BY <2>1, <3>1, LeastNumber
  <2>3. b \in T /\ (b % d) # 0 /\ b \in Nat
    OBVIOUS
  <2>4. b # 0 /\ b # d
    BY <1>2, <2>3, Multiple
  <2>5. b > d
    BY <1>1, <1>2, <2>3, <2>4
  <2>6. b - d \in T /\ b - d \in Nat /\ ~(b <= b - d)
    BY <1>2, <1>7, <2>3, <2>5
  <2>7. ((b - d) % d) # 0
    <3>1. (d % d) = 0
      BY <1>2
    <3>2. (b - d) + d = b
      BY <1>2, <2>3
    <3> QED
      BY <1>2, <2>3, <2>6, <3>1, <3>2, MultiplesAdd
  <2> QED
    BY <2>2, <2>6, <2>7
<1>9. ASSUME NEW t \in 1..top, (t % d) = 0
      PROVE  t \in T
  <2>1. PICK times \in Int : t = d * times
    BY <1>2, <1>9, Multiple
  <2>2. times \in Nat \ {0} /\ times * d = t
    <3>1. SUFFICES ASSUME 0 >= times
                   PROVE  FALSE
      BY <1>2, <2>1
    <3>2. d * times <= 0
      BY <1>2, <3>1
    <3> QED
      BY <2>1, <3>2
  <2> QED
    BY <1>3, <2>2
<1> QED
  BY <1>2, <1>8, <1>9

\* What some number of moves reaches, and how a glass of y and the glass l
\* of x change when all others are empty.
Reached == UNION {WithinMoves(b) : b \in Nat}
Two(l, x, g, y) == [h \in glasses |-> IF h = l THEN x ELSE IF h = g THEN y ELSE 0]
Alone(l, x) == [h \in glasses |-> IF h = l THEN x ELSE 0]

LEMMA ReachedGrows ==
    ASSUME NEW s \in Reached, NEW m \in moves
    PROVE  change(m, s) \in Reached
<1>1. PICK b \in Nat : s \in WithinMoves(b)
  BY DEF Reached
<1>2. change(m, s) \in WithinMoves(b + 1)
  BY <1>1, WithinEquation DEF Grown
<1>3. b + 1 \in Nat
  OBVIOUS
<1> QED
  BY <1>2, <1>3 DEF Reached

LEMMA MovesOfTwo ==
    ASSUME capacity \in Seq(Nat), NEW l \in glasses, NEW g \in glasses, g # l,
           NEW x \in Nat, NEW y \in Nat, Two(l, x, g, y) \in Reached
    PROVE  /\ Two(l, x, g, capacity[g]) \in Reached
           /\ Two(l, 0, g, y) \in Reached
           /\ LET amount == Smaller(y, capacity[l] - x)
              IN  Two(l, x + amount, g, y - amount) \in Reached
<1> DEFINE s == Two(l, x, g, y)
           fill == [move |-> "Fill", glass |-> g]
           empty == [move |-> "Empty", glass |-> l]
           pour == [move |-> "Pour", from |-> g, to |-> l]
           amount == Smaller(y, capacity[l] - x)
<1>1. fill \in moves /\ empty \in moves /\ pour \in moves
  BY DEF moves
<1>2. change(fill, s) = Two(l, x, g, capacity[g])
  BY DEF change, Two
<1>3. change(empty, s) = Two(l, 0, g, y)
  BY DEF change, Two
<1>4. change(pour, s) = Two(l, x + amount, g, y - amount)
  <2>1. s[g] = y /\ s[l] = x
    BY DEF Two
  <2>2. change(pour, s) = [s EXCEPT ![g] = @ - amount, ![l] = @ + amount]
    BY <2>1 DEF change
  <2> HIDE DEF amount
  <2> QED
    BY <2>1, <2>2 DEF Two
<1> QED
  BY <1>1, <1>2, <1>3, <1>4, ReachedGrows

\* Filling a glass and pouring it into the largest one goes around.
LEMMA RoundReached ==
    ASSUME capacity \in Seq(Nat), NEW l \in glasses,
           \A g \in glasses : capacity[g] <= capacity[l],
           NEW x \in 0..capacity[l], Alone(l, x) \in Reached, NEW g \in glasses
    PROVE  Alone(l, Around(x, capacity[g], capacity[l])) \in Reached
<1> DEFINE top == capacity[l]
           c == capacity[g]
<1>1. top \in Nat /\ c \in 0..top /\ x \in Nat /\ x <= top
  BY AmountFacts
<1>2. CASE g = l
  <2> DEFINE fill == [move |-> "Fill", glass |-> l]
  <2>1. fill \in moves
    BY DEF moves
  <2>2. change(fill, Alone(l, x)) = Alone(l, top)
    BY DEF change, Alone
  <2>3. Alone(l, top) \in Reached
    BY <2>1, <2>2, ReachedGrows
  <2>4. Around(x, c, top) = IF x = 0 THEN top ELSE x
    BY <1>1, <1>2 DEF Around
  <2> QED
    BY <2>3, <2>4
<1>3. CASE g # l
  <2>1. \A v \in Nat : Two(l, v, g, 0) = Alone(l, v)
    BY <1>3 DEF Two, Alone
  <2>2. Two(l, x, g, c) \in Reached
    BY <1>1, <1>3, <2>1, MovesOfTwo
  <2> DEFINE amount == Smaller(c, top - x)
  <2>3. Two(l, x + amount, g, c - amount) \in Reached
    BY <1>1, <1>3, <2>2, MovesOfTwo
  <2>4. CASE x + c <= top
    <3>1. amount = c /\ c - c = 0 /\ Around(x, c, top) = x + c /\ x + c \in Nat
      BY <1>1, <2>4 DEF Smaller, Around
    <3> HIDE DEF amount, c, top
    <3> QED
      BY <2>1, <2>3, <3>1 DEF c, top
  <2>5. CASE x + c > top
    <3> DEFINE rest == x + c - top
    <3>1. amount = top - x /\ x + (top - x) = top /\ c - (top - x) = rest
          /\ Around(x, c, top) = rest /\ rest \in Nat /\ rest <= top
      BY <1>1, <2>5 DEF Smaller, Around
    <3>2. Two(l, top, g, rest) \in Reached
      <4> HIDE DEF amount, c, top, rest
      <4> QED
        BY <2>3, <3>1
    <3>3. Two(l, 0, g, rest) \in Reached
      BY <1>1, <1>3, <3>1, <3>2, MovesOfTwo
    <3>4. Smaller(rest, top - 0) = rest /\ 0 + rest = rest /\ rest - rest = 0
      BY <1>1, <3>1 DEF Smaller
    <3>5. Two(l, rest, g, 0) \in Reached
      <4>1. 0 \in Nat
        OBVIOUS
      <4>2. Two(l, 0 + Smaller(rest, top - 0), g, rest - Smaller(rest, top - 0)) \in Reached
        BY <1>3, <3>1, <3>3, <4>1, MovesOfTwo
      <4> HIDE DEF rest, top
      <4> QED
        BY <3>4, <4>2
    <3> HIDE DEF rest, top, c
    <3> QED
      BY <2>1, <3>1, <3>5 DEF top, c
  <2> QED
    BY <1>1, <2>4, <2>5
<1> QED
  BY <1>2, <1>3

LEMMA LargestGlass ==
    ASSUME capacity \in Seq(Nat), glasses # {}
    PROVE  \E l \in glasses : \A g \in glasses : capacity[g] <= capacity[l]
<1> DEFINE S == {count \in Nat : count # 0 /\ count <= Len(capacity) =>
                     \E l \in 1..count : \A g \in 1..count : capacity[g] <= capacity[l]}
<1>1. glasses = 1..Len(capacity) /\ Len(capacity) \in Nat /\ \A g \in glasses : capacity[g] \in Nat
  BY DEF glasses
<1>2. 0 \in S
  OBVIOUS
<1>3. ASSUME NEW count \in Nat, count \in S
      PROVE  count + 1 \in S
  <2>1. SUFFICES ASSUME count + 1 <= Len(capacity)
                 PROVE  \E l \in 1..(count + 1) : \A g \in 1..(count + 1) : capacity[g] <= capacity[l]
    OBVIOUS
  <2>2. \A g \in 1..(count + 1) : capacity[g] \in Nat
    BY <1>1, <2>1
  <2>3. CASE count = 0
    BY <2>2, <2>3
  <2>4. CASE count # 0
    <3>1. PICK l \in 1..count : \A g \in 1..count : capacity[g] <= capacity[l]
      BY <1>1, <1>3, <2>1, <2>4
    <3>2. \A g \in 1..(count + 1) : g \in 1..count \/ g = count + 1
      OBVIOUS
    <3>3. l \in 1..(count + 1) /\ count + 1 \in 1..(count + 1) /\ capacity[l] \in Nat /\ capacity[count + 1] \in Nat
      BY <2>2
    <3>4. CASE capacity[count + 1] <= capacity[l]
      <4>1. \A g \in 1..(count + 1) : capacity[g] <= capacity[l]
        BY <3>1, <3>2, <3>4
      <4> QED
        BY <3>3, <4>1
    <3>5. CASE capacity[l] <= capacity[count + 1]
      <4>1. ASSUME NEW g \in 1..(count + 1)
            PROVE  capacity[g] <= capacity[count + 1]
        <5>1. capacity[g] <= capacity[l] \/ g = count + 1
          BY <3>1, <3>2
        <5>2. capacity[g] \in Nat
          BY <2>2
        <5> QED
          BY <3>3, <3>5, <5>1, <5>2
      <4> QED
        BY <3>3, <4>1
    <3>6. capacity[count + 1] <= capacity[l] \/ capacity[l] <= capacity[count + 1]
      BY <3>3
    <3> QED
      BY <3>4, <3>5, <3>6
  <2> QED
    BY <2>3, <2>4
<1>4. Len(capacity) \in S
  <2> HIDE DEF S
  <2> QED
    BY <1>1, <1>2, <1>3, Induction
<1> QED
  BY <1>1, <1>4

\* The amounts that can be added to whatever the largest glass holds.
LEMMA MeasurableReached ==
    ASSUME capacity \in Seq(Nat), NEW amount \in Nat, Measurable(amount)
    PROVE  \E b \in Nat : \E s \in WithinMoves(b) : Contains(s, amount)
<1>1. PICK l \in glasses : \A g \in glasses : capacity[g] <= capacity[l]
  BY LargestGlass DEF Measurable
<1> DEFINE top == capacity[l]
           R == {x \in 0..top : Alone(l, x) \in Reached}
           T == {y \in 0..top : \A x \in R : Around(x, y, top) \in R}
<1>2. top \in Nat /\ \A g \in glasses : capacity[g] \in 0..top
  BY <1>1, AmountFacts
<1>3. 0 \in R
  <2>1. initialState = Alone(l, 0)
    BY DEF initialState, Alone
  <2>2. initialState \in Reached
    BY LevelsGrow DEF Reached
  <2> QED
    BY <1>2, <2>1, <2>2
<1>4. amount \in 0..top
  BY <1>1, <1>2 DEF Measurable
<1>5. amount \in R
  <2>1. CASE amount = 0
    BY <1>3, <2>1
  <2>2. CASE amount # 0
    <3>1. top \in Nat \ {0} /\ amount \in 1..top
      BY <1>2, <1>4, <2>2
    <3>2. \A g \in glasses : capacity[g] \in T
      <4> SUFFICES ASSUME NEW g \in glasses, NEW x \in R
                   PROVE  Around(x, capacity[g], top) \in R
        BY <1>2
      <4>1. Alone(l, Around(x, capacity[g], top)) \in Reached
        BY <1>1, RoundReached
      <4>2. Around(x, capacity[g], top) \in 0..top
        BY <1>2, <3>1, AroundFacts
      <4> QED
        BY <4>1, <4>2
    <3>3. T \subseteq 0..top /\ R \subseteq 0..top
      OBVIOUS
    <3>4. \A y, z \in T : Around(y, z, top) \in T
      <4> SUFFICES ASSUME NEW y \in T, NEW z \in T, NEW x \in R
                   PROVE  Around(x, Around(y, z, top), top) \in R
        BY <3>1, <3>3, AroundFacts
      <4>1. Around(x, y, top) \in R
        OBVIOUS
      <4>2. Around(Around(x, y, top), z, top) \in R
        BY <4>1
      <4>3. x \in 0..top /\ y \in 0..top /\ z \in 0..top
        BY <3>3
      <4>4. Around(x, Around(y, z, top), top) = Around(Around(x, y, top), z, top)
        <5> HIDE DEF T, R, top
        <5> QED
          BY <3>1, <4>3, AroundFacts
      <4> QED
        BY <4>2, <4>4
    <3>5. T \subseteq R
      <4> SUFFICES ASSUME NEW y \in T
                   PROVE  y \in R
        OBVIOUS
      <4>1. Around(0, y, top) \in R
        BY <1>3
      <4> QED
        BY <3>1, <3>3, <4>1, AroundFacts
    <3>6. PICK d \in 1..top : /\ \A y \in T : (y % d) = 0
                              /\ \A t \in 1..top : (t % d) = 0 => t \in T
      <4>1. top \in T
        BY <3>2
      <4> HIDE DEF T, R, top
      <4> QED
        BY <3>1, <3>3, <3>4, <4>1, MultiplesOfLeast
    <3>7. (amount % d) = 0
      BY <3>2, <3>6 DEF Measurable
    <3> QED
      BY <3>1, <3>5, <3>6, <3>7
  <2> QED
    BY <2>1, <2>2
<1>6. Contains(Alone(l, amount), amount)
  BY DEF Contains, Alone
<1>7. PICK b \in Nat : Alone(l, amount) \in WithinMoves(b)
  BY <1>5 DEF Reached
<1> QED
  BY <1>6, <1>7

\* The search ends without a solution only if the target is more than any glass
\* holds, or no multiple of what divides all the capacities: whatever can be
\* measured with these glasses is found (solution of class Pouring).
THEOREM NothingIsMissed == PourSpec => []NothingMissed
<1>1. PourInv /\ (search = "no solution" =>
                    \A b \in Nat : \A s \in WithinMoves(b) : ~Contains(s, target))
        => NothingMissed
  BY MeasurableReached, Zenon DEF PourInv, NothingMissed
<1> QED
  BY <1>1, PourInvariance, NoneIsMissed, PTL

-----------------------------------------------------------------------------
(* intel-competition-2010: for every file within the limits and every int  *)
(* that can hold the product of two parameters, fill generates the numbers *)
(* of its case and takes off their mean.                                   *)

Cases == [M : 1..Limit, N : 1..Limit, seed0 : 1..Limit, a : 1..Limit, b : 1..Limit, m : 1..Limit]
Ints == -(IntMax + 1)..IntMax

\* Only what exceeds an int is changed, and the result is an int.
LEMMA Wrapped ==
    ASSUME NEW x \in Int
    PROVE  Wrap(x) \in Ints /\ (x \in Ints => Wrap(x) = x)
<1> DEFINE h == IntMax + 1
           y == x + h
           d == 2 * h
           z == y % d
<1>1. d \in Nat \ {0} /\ y \in Int
  BY LimitAssumption
<1>2. z \in 0..(d - 1) /\ (y \in 0..(d - 1) => z = y)
  <2> HIDE DEF h, y, d
  <2> QED
    BY <1>1
<1>3. Wrap(x) = z - h
  <2>1. x + IntMax + 1 = y
    BY LimitAssumption
  <2> HIDE DEF y
  <2> QED
    BY <2>1 DEF Wrap
<1> HIDE DEF z
<1> QED
  BY <1>2, <1>3, LimitAssumption DEF Ints

\* What is within the limits takes part in a * seed + b without exceeding an int.
LEMMA LimitsFit ==
    ASSUME NEW x \in 0..Limit, NEW y \in 0..Limit, NEW z \in 0..Limit
    PROVE  x * y \in 0..IntMax /\ x * y + z \in 0..IntMax
<1>1. x * y <= Limit * Limit
  <2>1. x * y <= x * Limit
    BY LimitAssumption
  <2>2. x * Limit <= Limit * Limit
    BY LimitAssumption
  <2>3. x * y \in Int /\ x * Limit \in Int /\ Limit * Limit \in Int
    BY LimitAssumption
  <2> QED
    BY <2>1, <2>2, <2>3
<1>2. x * y \in Nat /\ Limit * Limit \in Nat
  BY LimitAssumption
<1> QED
  BY <1>1, <1>2, LimitAssumption

\* Each space ends a field, and there is a number before it.
LEMMA FieldsOfLine ==
    ASSUME NEW line, IsLine(line)
    PROVE  \A f \in 1..6 : Fields(line)[f] = line[2 * f - 1]
<1> DEFINE Spaces(p) == {q \in 1..(p - 1) : line[q] = Space}
           EndsField(p) == p = Len(line) + 1 \/ line[p] = Space
           End(f) == CHOOSE p \in 1..(Len(line) + 1) : EndsField(p) /\ Cardinality(Spaces(p)) = f - 1
<1>1. Len(line) = 11
  BY DEF IsLine
<1>2. \A p \in 1..11 : line[p] = Space <=> (p % 2) = 0
  BY DEF IsLine
<1>3. /\ Spaces(2) = {} /\ Spaces(4) = {2} /\ Spaces(6) = {2, 4}
      /\ Spaces(8) = {2, 4, 6} /\ Spaces(10) = {2, 4, 6, 8} /\ Spaces(12) = {2, 4, 6, 8, 10}
  BY <1>2
<1>4. /\ Cardinality({}) = 0 /\ Cardinality({2}) = 1 /\ Cardinality({2, 4}) = 2
      /\ Cardinality({2, 4, 6}) = 3 /\ Cardinality({2, 4, 6, 8}) = 4
      /\ Cardinality({2, 4, 6, 8, 10}) = 5
  <2>1. Cardinality({}) = 0 /\ IsFiniteSet({})
    BY FS_EmptySet
  <2>2. \A S, x : IsFiniteSet(S) => IsFiniteSet(S \cup {x}) /\
            (x \notin S => Cardinality(S \cup {x}) = Cardinality(S) + 1)
    BY FS_AddElement
  <2>3. /\ {2} = {} \cup {2} /\ {2, 4} = {2} \cup {4} /\ {2, 4, 6} = {2, 4} \cup {6}
        /\ {2, 4, 6, 8} = {2, 4, 6} \cup {8} /\ {2, 4, 6, 8, 10} = {2, 4, 6, 8} \cup {10}
    OBVIOUS
  <2>4. IsFiniteSet({2}) /\ Cardinality({2}) = 1
    BY <2>1, <2>2, <2>3
  <2>5. IsFiniteSet({2, 4}) /\ Cardinality({2, 4}) = 2
    BY <2>2, <2>3, <2>4
  <2>6. IsFiniteSet({2, 4, 6}) /\ Cardinality({2, 4, 6}) = 3
    BY <2>2, <2>3, <2>5
  <2>7. IsFiniteSet({2, 4, 6, 8}) /\ Cardinality({2, 4, 6, 8}) = 4
    BY <2>2, <2>3, <2>6
  <2>8. IsFiniteSet({2, 4, 6, 8, 10}) /\ Cardinality({2, 4, 6, 8, 10}) = 5
    BY <2>2, <2>3, <2>7, SMTT(30)
  <2> QED
    BY <2>1, <2>4, <2>5, <2>6, <2>7, <2>8
<1>5. \A f \in 1..6 : Cardinality(Spaces(2 * f)) = f - 1
  <2> HIDE DEF Spaces
  <2>1. /\ 2 * 1 = 2 /\ 2 * 2 = 4 /\ 2 * 3 = 6 /\ 2 * 4 = 8 /\ 2 * 5 = 10 /\ 2 * 6 = 12
        /\ \A f \in 1..6 : f = 1 \/ f = 2 \/ f = 3 \/ f = 4 \/ f = 5 \/ f = 6
    OBVIOUS
  <2> QED
    BY <1>3, <1>4, <2>1
<1>6. \A p \in 1..12 : EndsField(p) <=> \E f \in 1..6 : p = 2 * f
  BY <1>1, <1>2
<1>7. ASSUME NEW f \in 1..6
      PROVE  End(f) = 2 * f
  <2> HIDE DEF Spaces, EndsField
  <2>1. 2 * f \in 1..(Len(line) + 1) /\ EndsField(2 * f) /\ Cardinality(Spaces(2 * f)) = f - 1
    BY <1>1, <1>5, <1>6
  <2>2. \A p \in 1..(Len(line) + 1) :
            EndsField(p) /\ Cardinality(Spaces(p)) = f - 1 => p = 2 * f
    BY <1>1, <1>5, <1>6
  <2> QED
    BY <2>1, <2>2
<1>8. Cardinality({q \in 1..Len(line) : line[q] = Space}) + 1 = 6
  <2>1. {q \in 1..Len(line) : line[q] = Space} = Spaces(12)
    BY <1>1
  <2>2. Cardinality(Spaces(12)) = 5
    <3> HIDE DEF Spaces
    <3> QED
      BY <1>3, <1>4
  <2> HIDE DEF Spaces
  <2>3. Cardinality({q \in 1..Len(line) : line[q] = Space}) = 5
    BY <2>1, <2>2
  <2> QED
    BY <2>3
<1>9. ASSUME NEW f \in 1..6
      PROVE  Fields(line)[f] = line[2 * f - 1]
  <2>1. Fields(line)[f] = IF End(f) = 1 \/ line[End(f) - 1] = Space THEN 0 ELSE line[End(f) - 1]
    BY <1>8 DEF Fields
  <2> HIDE DEF End
  <2>2. 2 * f - 1 \in 1..11 /\ ((2 * f - 1) % 2) # 0 /\ 2 * f # 1
    OBVIOUS
  <2>3. line[2 * f - 1] # Space
    BY <1>2, <2>2
  <2>4. End(f) = 2 * f
    BY <1>7
  <2> QED
    BY <2>1, <2>2, <2>3, <2>4
<1> QED
  BY <1>9

\* parse finds the case that the line states.
LEMMA ParseIsStated ==
    ASSUME NEW p \in DOMAIN file, IsLine(file[p])
    PROVE  parse(file[p]) = Stated(p) /\ Stated(p) \in Cases
<1> DEFINE line == file[p]
<1> HIDE DEF line
<1>1. IsLine(line)
  BY DEF line
<1>2. \A f \in 1..6 : Fields(line)[f] = line[2 * f - 1]
  BY <1>1, FieldsOfLine
<1>3. /\ Fields(line)[1] = line[1] /\ Fields(line)[2] = line[3] /\ Fields(line)[3] = line[5]
      /\ Fields(line)[4] = line[7] /\ Fields(line)[5] = line[9] /\ Fields(line)[6] = line[11]
  BY <1>2
<1>4. \A q \in 1..11 : (q % 2) = 1 => line[q] \in 1..Limit
  BY <1>1 DEF IsLine
<1>5. /\ line[1] \in 1..Limit /\ line[3] \in 1..Limit /\ line[5] \in 1..Limit
      /\ line[7] \in 1..Limit /\ line[9] \in 1..Limit /\ line[11] \in 1..Limit
  BY <1>4
<1> QED
  BY <1>3, <1>5 DEF parse, Stated, Cases, line

\* What a case consists of.
LEMMA CaseFacts ==
    ASSUME NEW c \in Cases
    PROVE  /\ c.M \in 1..Limit /\ c.N \in 1..Limit /\ c.seed0 \in 1..Limit
           /\ c.a \in 1..Limit /\ c.b \in 1..Limit /\ c.m \in 1..Limit
           /\ c.M \in Nat \ {0} /\ c.N \in Nat \ {0} /\ c.m \in Nat \ {0}
           /\ c.M * c.N \in Nat \ {0}
<1>1. /\ c.M \in 1..Limit /\ c.N \in 1..Limit /\ c.seed0 \in 1..Limit
      /\ c.a \in 1..Limit /\ c.b \in 1..Limit /\ c.m \in 1..Limit
  BY DEF Cases
<1>2. c.M \in Nat \ {0} /\ c.N \in Nat \ {0} /\ c.m \in Nat \ {0}
  BY <1>1, LimitAssumption
<1>3. \A x, y \in Nat \ {0} : x * y \in Nat \ {0}
  OBVIOUS
<1> QED
  BY <1>1, <1>2, <1>3

\* A remainder is less than what one divides by.
LEMMA RemainderFits ==
    ASSUME NEW c \in Cases, NEW x \in 0..Limit
    PROVE  /\ c.a * x + c.b \in 0..IntMax
           /\ ((c.a * x + c.b) % c.m) \in 0..(c.m - 1) /\ 0..(c.m - 1) \subseteq 0..Limit
<1>1. c.a \in 0..Limit /\ c.b \in 0..Limit /\ c.m \in 1..Limit /\ c.m \in Nat \ {0}
  BY CaseFacts
<1>2. c.a * x + c.b \in 0..IntMax
  BY <1>1, LimitsFit
<1> DEFINE y == c.a * x + c.b
           d == c.m
<1>3. y \in Int /\ d \in Nat \ {0}
  BY <1>1, <1>2
<1> HIDE DEF y, d
<1>4. (y % d) \in 0..(d - 1)
  BY <1>3
<1>5. 0..(d - 1) \subseteq 0..Limit
  BY <1>1, LimitAssumption DEF d
<1> QED
  BY <1>2, <1>4, <1>5 DEF y, d

\* The recursion of Numbers, one turn of it.
Generated(f, c, e) == IF e = 0 THEN c.seed0 ELSE (c.a * f[e - 1] + c.b) % c.m

LEMMA NumbersExist ==
    ASSUME NEW c \in Cases
    PROVE  \A top \in Nat : \E g \in [0..top -> 0..Limit] : \A e \in 0..top : g[e] = Generated(g, c, e)
<1> DEFINE P(top) == \E g \in [0..top -> 0..Limit] : \A e \in 0..top : g[e] = Generated(g, c, e)
           S == {top \in Nat : P(top)}
<1>1. 0 \in S
  <2> DEFINE g == [e \in 0..0 |-> c.seed0]
  <2>1. g \in [0..0 -> 0..Limit]
    BY CaseFacts
  <2>2. \A e \in 0..0 : g[e] = Generated(g, c, e)
    BY DEF Generated
  <2> HIDE DEF g
  <2> QED
    BY <2>1, <2>2
<1>2. ASSUME NEW top \in Nat, top \in S
      PROVE  top + 1 \in S
  <2>1. PICK g \in [0..top -> 0..Limit] : \A e \in 0..top : g[e] = Generated(g, c, e)
    BY <1>2
  <2> DEFINE x == Generated(g, c, top + 1)
             h == [e \in 0..(top + 1) |-> IF e = top + 1 THEN x ELSE g[e]]
  <2>2. x \in 0..Limit
    <3>1. g[top] \in 0..Limit /\ x = (c.a * g[top] + c.b) % c.m
      BY DEF Generated
    <3> QED
      BY <3>1, RemainderFits
  <2>3. h \in [0..(top + 1) -> 0..Limit]
    <3> HIDE DEF x
    <3> QED
      BY <2>2
  <2>4. ASSUME NEW e \in 0..(top + 1)
        PROVE  h[e] = Generated(h, c, e)
    <3> HIDE DEF x
    <3>1. e # 0 => h[e - 1] = g[e - 1]
      OBVIOUS
    <3>2. Generated(h, c, e) = Generated(g, c, e)
      <4> HIDE DEF h
      <4> QED
        BY <3>1 DEF Generated
    <3>3. h[e] = Generated(g, c, e)
      BY <2>1 DEF x
    <3> QED
      BY <3>2, <3>3
  <2> HIDE DEF h, x
  <2>5. P(top + 1)
    BY <2>3, <2>4
  <2> HIDE DEF P
  <2> QED
    BY <2>5
<1>3. Nat \subseteq S
  <2> HIDE DEF S
  <2> QED
    BY <1>1, <1>2, Induction
<1> QED
  BY <1>3

\* The numbers of a case, one after the other.
LEMMA NumbersEquation ==
    ASSUME NEW c \in Cases
    PROVE  LET x == Numbers(c)
               size == c.M * c.N
           IN  /\ x \in [0..size -> 0..Limit] /\ x[0] = c.seed0
               /\ \A e \in 0..(size - 1) :
                     x[e + 1] = (c.a * x[e] + c.b) % c.m /\ x[e + 1] \in 0..(c.m - 1)
<1> DEFINE size == c.M * c.N
           F(f) == [e \in 0..size |-> IF e = 0 THEN c.seed0 ELSE (c.a * f[e - 1] + c.b) % c.m]
           x == Numbers(c)
<1>1. size \in Nat \ {0}
  BY CaseFacts
<1>2. PICK g \in [0..size -> 0..Limit] : \A e \in 0..size : g[e] = Generated(g, c, e)
  <2> HIDE DEF size
  <2> QED
    BY <1>1, NumbersExist
<1>3. g = F(g)
  <2> HIDE DEF size
  <2> QED
    BY <1>2 DEF Generated
<1>4. x = F(x)
  <2>1. x = CHOOSE f : f = F(f)
    BY DEF Numbers
  <2> HIDE DEF F, x
  <2> QED
    BY <1>3, <2>1
<1> HIDE DEF x, size
<1>5. x[0] = c.seed0 /\ \A e \in 0..size : e # 0 => x[e] = (c.a * x[e - 1] + c.b) % c.m
  BY <1>1, <1>4
<1>6. \A e \in 0..(size - 1) : x[e + 1] = (c.a * x[e] + c.b) % c.m
  <2> SUFFICES ASSUME NEW e \in 0..(size - 1)
               PROVE  x[e + 1] = (c.a * x[e] + c.b) % c.m
    OBVIOUS
  <2>1. e + 1 \in 0..size /\ e + 1 # 0 /\ (e + 1) - 1 = e
    BY <1>1
  <2>2. x[e + 1] = (c.a * x[(e + 1) - 1] + c.b) % c.m
    BY <1>5, <2>1
  <2> QED
    BY <2>1, <2>2
<1> DEFINE S == {e \in Nat : e <= size => x[e] \in 0..Limit}
<1>7. 0 \in S
  BY <1>5, CaseFacts
<1>8. ASSUME NEW e \in Nat, e \in S
      PROVE  e + 1 \in S
  <2>1. SUFFICES ASSUME e + 1 <= size
                 PROVE  x[e + 1] \in 0..Limit
    OBVIOUS
  <2>2. e \in 0..(size - 1) /\ x[e] \in 0..Limit
    BY <1>1, <1>8, <2>1
  <2>3. x[e + 1] = (c.a * x[e] + c.b) % c.m
    BY <1>6, <2>2
  <2> QED
    BY <2>2, <2>3, RemainderFits
<1>9. \A e \in 0..size : x[e] \in 0..Limit
  <2>1. Nat \subseteq S
    <3> HIDE DEF S
    <3> QED
      BY <1>7, <1>8, Induction
  <2> QED
    BY <1>1, <2>1
<1>10. x \in [0..size -> 0..Limit]
  <2>1. x = [e \in 0..size |-> x[e]]
    BY <1>4
  <2> QED
    BY <1>9, <2>1
<1>11. \A e \in 0..(size - 1) : x[e + 1] \in 0..(c.m - 1)
  <2> SUFFICES ASSUME NEW e \in 0..(size - 1)
               PROVE  x[e + 1] \in 0..(c.m - 1)
    OBVIOUS
  <2>1. x[e] \in 0..Limit
    BY <1>1, <1>9
  <2>2. x[e + 1] = (c.a * x[e] + c.b) % c.m
    BY <1>6
  <2> QED
    BY <2>1, <2>2, RemainderFits
<1> QED
  BY <1>5, <1>6, <1>10, <1>11 DEF x, size

\* The sums of the first elements, one after the other.
LEMMA PartialEquation ==
    ASSUME NEW size \in Nat, NEW f, \A e \in 1..size : f[e] \in Int
    PROVE  LET s == Partial(f, size)
           IN  /\ \A e \in 0..size : s[e] \in Int
               /\ s[0] = 0 /\ \A e \in 0..(size - 1) : s[e + 1] = s[e] + f[e + 1]
<1> DEFINE d == [e \in 0..(size - 1) |-> f[e + 1]]
           F(g) == [e \in 0..size |-> IF e = 0 THEN 0 ELSE g[e - 1] + f[e]]
           s == Partial(f, size)
<1>1. \A e \in 0..(size - 1) : d[e] \in Int
  OBVIOUS
<1>2. PICK g \in [0..size -> Int] :
          \A e \in 0..size : g[e] = IF e = 0 THEN 0 ELSE g[e - 1] + d[e - 1]
  <2> HIDE DEF d
  <2> QED
    BY <1>1, SumsExist
<1>3. \A e \in 0..size : e # 0 => d[e - 1] = f[e]
  <2> SUFFICES ASSUME NEW e \in 0..size, e # 0
               PROVE  d[e - 1] = f[e]
    OBVIOUS
  <2>1. e - 1 \in 0..(size - 1) /\ (e - 1) + 1 = e
    OBVIOUS
  <2>2. d[e - 1] = f[(e - 1) + 1]
    BY <2>1
  <2> QED
    BY <2>1, <2>2
<1>4. g = F(g)
  <2> HIDE DEF d
  <2> QED
    BY <1>2, <1>3
<1>5. s = F(s)
  <2>1. s = CHOOSE h : h = F(h)
    BY DEF Partial
  <2> HIDE DEF F, s
  <2> QED
    BY <1>4, <2>1
<1> HIDE DEF s
<1>6. s[0] = 0 /\ \A e \in 0..size : e # 0 => s[e] = s[e - 1] + f[e]
  BY <1>5
<1>7. \A e \in 0..(size - 1) : s[e + 1] = s[e] + f[e + 1]
  <2> SUFFICES ASSUME NEW e \in 0..(size - 1)
               PROVE  s[e + 1] = s[e] + f[e + 1]
    OBVIOUS
  <2>1. e + 1 \in 0..size /\ e + 1 # 0 /\ (e + 1) - 1 = e
    OBVIOUS
  <2>2. s[e + 1] = s[(e + 1) - 1] + f[e + 1]
    BY <1>6, <2>1
  <2> QED
    BY <2>1, <2>2
<1> DEFINE S == {e \in Nat : e <= size => s[e] \in Int}
<1>8. 0 \in S
  BY <1>6
<1>9. ASSUME NEW e \in Nat, e \in S
      PROVE  e + 1 \in S
  <2>1. SUFFICES ASSUME e + 1 <= size
                 PROVE  s[e + 1] \in Int
    OBVIOUS
  <2>2. e \in 0..(size - 1) /\ s[e] \in Int /\ f[e + 1] \in Int
    BY <1>9, <2>1
  <2>3. s[e + 1] = s[e] + f[e + 1]
    BY <1>7, <2>2
  <2> QED
    BY <2>2, <2>3
<1>10. Nat \subseteq S
  <2> HIDE DEF S
  <2> QED
    BY <1>8, <1>9, Induction
<1>11. \A e \in 0..size : s[e] \in Int
  BY <1>10
<1> QED
  BY <1>6, <1>7, <1>11 DEF s

\* Sums of numbers up to a bound.
LEMMA PartialBounds ==
    ASSUME NEW size \in Nat, NEW f, NEW t \in Nat, \A e \in 1..size : f[e] \in 0..t
    PROVE  \A e \in 0..size : Partial(f, size)[e] \in 0..(e * t)
<1> DEFINE s == Partial(f, size)
           S == {e \in Nat : e <= size => s[e] \in 0..(e * t)}
<1>1. s[0] = 0 /\ \A e \in 0..(size - 1) : s[e + 1] = s[e] + f[e + 1]
  <2>1. \A e \in 1..size : f[e] \in Int
    OBVIOUS
  <2> QED
    BY <2>1, PartialEquation
<1> HIDE DEF s
<1>2. 0 \in S
  BY <1>1
<1>3. ASSUME NEW e \in Nat, e \in S
      PROVE  e + 1 \in S
  <2>1. SUFFICES ASSUME e + 1 <= size
                 PROVE  s[e + 1] \in 0..((e + 1) * t)
    OBVIOUS
  <2>2. s[e] \in 0..(e * t) /\ f[e + 1] \in 0..t /\ s[e + 1] = s[e] + f[e + 1]
    BY <1>1, <1>3, <2>1
  <2>3. (e + 1) * t = e * t + t /\ e * t \in Nat
    OBVIOUS
  <2> QED
    BY <2>2, <2>3
<1>4. Nat \subseteq S
  <2> HIDE DEF S
  <2> QED
    BY <1>2, <1>3, Induction
<1> QED
  BY <1>4 DEF s

\* What is taken off every element is taken off the sum as many times.
LEMMA PartialShift ==
    ASSUME NEW size \in Nat, NEW f, NEW g, NEW z \in Int,
           \A e \in 1..size : f[e] \in Int /\ g[e] = f[e] - z
    PROVE  \A e \in 0..size : Partial(g, size)[e] = Partial(f, size)[e] - e * z
<1> DEFINE s == Partial(f, size)
           u == Partial(g, size)
           S == {e \in Nat : e <= size => u[e] = s[e] - e * z}
<1>1. /\ s[0] = 0 /\ \A e \in 0..(size - 1) : s[e + 1] = s[e] + f[e + 1]
      /\ \A e \in 0..size : s[e] \in Int
  BY PartialEquation
<1>2. u[0] = 0 /\ \A e \in 0..(size - 1) : u[e + 1] = u[e] + g[e + 1]
  <2>1. \A e \in 1..size : g[e] \in Int
    OBVIOUS
  <2> QED
    BY <2>1, PartialEquation
<1> HIDE DEF s, u
<1>3. 0 \in S
  BY <1>1, <1>2
<1>4. ASSUME NEW e \in Nat, e \in S
      PROVE  e + 1 \in S
  <2>1. SUFFICES ASSUME e + 1 <= size
                 PROVE  u[e + 1] = s[e + 1] - (e + 1) * z
    OBVIOUS
  <2>2. e \in 0..(size - 1) /\ e + 1 \in 1..size /\ e \in 0..size
    BY <2>1
  <2>3. /\ u[e] = s[e] - e * z /\ s[e] \in Int
        /\ u[e + 1] = u[e] + g[e + 1] /\ s[e + 1] = s[e] + f[e + 1]
        /\ f[e + 1] \in Int /\ g[e + 1] = f[e + 1] - z
    BY <1>1, <1>2, <1>4, <2>1, <2>2
  <2>4. (e + 1) * z = e * z + z /\ e * z \in Int
    OBVIOUS
  <2> QED
    BY <2>3, <2>4
<1>5. Nat \subseteq S
  <2> HIDE DEF S
  <2> QED
    BY <1>3, <1>4, Induction
<1> QED
  BY <1>5 DEF s, u

LEMMA DivisionFacts ==
    ASSUME NEW x \in Int, NEW d \in Nat \ {0}
    PROVE  /\ x \div d \in Int /\ d * (x \div d) \in Int
           /\ x = d * (x \div d) + (x % d) /\ (x % d) \in 0..(d - 1)
           /\ x >= 0 => x \div d \in Nat
OBVIOUS

\* Within the limits PRNG computes what the ReadMe writes.
LEMMA NextNumber ==
    ASSUME par \in Cases, NEW s \in 0..Limit
    PROVE  PRNG(s) = (par.a * s + par.b) % par.m
<1> DEFINE y == par.a * s + par.b
           d == par.m
<1>1. par.a \in 0..Limit /\ par.b \in 0..Limit /\ d \in Nat \ {0}
  BY CaseFacts
<1>2. par.a * s \in 0..IntMax /\ y \in 0..IntMax
  BY <1>1, LimitsFit
<1>3. 0..IntMax \subseteq Ints /\ 0..IntMax \subseteq Nat
  BY LimitAssumption DEF Ints
<1>4. Wrap(Wrap(par.a * s) + par.b) = y
  <2>1. Wrap(par.a * s) = par.a * s
    BY <1>2, <1>3, Wrapped
  <2>2. Wrap(y) = y
    BY <1>2, <1>3, Wrapped
  <2> QED
    BY <2>1, <2>2
<1>5. PRNG(s) = y - Truncate(y, d) * d
  BY <1>4 DEF PRNG
<1>6. y \in Nat
  BY <1>2, <1>3
<1> HIDE DEF y, d
<1>7. Truncate(y, d) = y \div d
  BY <1>6 DEF Truncate
<1>8. y = d * (y \div d) + (y % d) /\ y \div d \in Int /\ (y % d) \in Int
  BY <1>1, <1>6, DivisionFacts
<1>9. (y \div d) * d = d * (y \div d) /\ d * (y \div d) \in Int
  BY <1>1, <1>8
<1>10. PRNG(s) = y % d
  BY <1>5, <1>7, <1>8, <1>9
<1> QED
  BY <1>10 DEF y, d

\* A product is as large as its factors say.
LEMMA Scaled ==
    ASSUME NEW x \in Int, NEW y \in Int, NEW z \in Nat \ {0}
    PROVE  x <= y <=> x * z <= y * z
OBVIOUS

LEMMA RoundedFacts ==
    ASSUME NEW x \in Nat, NEW d \in Nat \ {0}
    PROVE  /\ Rounded(x, d) \in Nat
           /\ 2 * x - d <= 2 * (d * Rounded(x, d)) /\ 2 * (d * Rounded(x, d)) <= 2 * x + d
<1> DEFINE q == x \div d
           r == x % d
<1>1. x \in Int /\ x >= 0
  OBVIOUS
<1>2. q \in Nat /\ x = d * q + r /\ r \in 0..(d - 1) /\ d * q \in Int
  BY <1>1, DivisionFacts
<1>3. Rounded(x, d) = IF 2 * r < d \/ (2 * r = d /\ q % 2 = 0) THEN q ELSE q + 1
  BY DEF Rounded
<1> HIDE DEF q, r
<1>4. d * (q + 1) = d * q + d
  BY <1>2
<1>5. CASE Rounded(x, d) = q /\ 2 * r <= d
  BY <1>2, <1>5
<1>6. CASE Rounded(x, d) = q + 1 /\ 2 * r >= d
  <2>1. Rounded(x, d) \in Nat
    BY <1>2, <1>6
  <2>2. d * Rounded(x, d) = d * q + d
    BY <1>4, <1>6
  <2> QED
    BY <1>2, <1>6, <2>1, <2>2
<1> QED
  BY <1>2, <1>3, <1>5, <1>6

\* A float is off by no more than one part in 2^Mantissa.
Near(x, d, q) ==
    /\ q \in Nat \X (Nat \ {0})
    /\ 2^Mantissa * (q[1] * d) <= 2^Mantissa * (x * q[2]) + x * q[2]
    /\ 2^Mantissa * (x * q[2]) <= 2^Mantissa * (q[1] * d) + x * q[2]

LEMMA FloatIsNear ==
    ASSUME NEW x \in Nat, NEW d \in Nat \ {0}, NEW q \in Floats(x, d)
    PROVE  Near(x, d, q)
<1> DEFINE T == 2^Mantissa
<1>1. T \in Nat
  BY FloatAssumption
<1>2. CASE x = 0
  <2>1. q = <<0, 1>>
    BY <1>2 DEF Floats
  <2> HIDE DEF T
  <2>2. q[1] * d = 0 /\ x * q[2] = 0 /\ T * 0 = 0
    BY <1>1, <1>2, <2>1
  <2> QED
    BY <2>1, <2>2 DEF Near, T
<1>3. CASE x # 0
  <2>1. PICK u \in Units : /\ T * (d * u[1]) <= 2 * (x * u[2])
                           /\ q = <<Rounded(x * u[2], d * u[1]) * u[1], u[2]>>
    BY <1>3 DEF Floats
  <2>2. u[1] \in Nat \ {0} /\ u[2] \in Nat \ {0}
    BY FloatAssumption DEF Units
  <2> DEFINE v == u[1]
             w == u[2]
             D == d * v
             X == x * w
             f == Rounded(X, D)
  <2>3. D \in Nat \ {0} /\ X \in Nat
    BY <2>2
  <2>4. f \in Nat /\ 2 * X - D <= 2 * (D * f) /\ 2 * (D * f) <= 2 * X + D
    BY <2>3, RoundedFacts
  <2>5. T * D <= 2 * X /\ q[1] = f * v /\ q[2] = w /\ q = <<f * v, w>>
    BY <2>1
  <2>6. v \in Nat \ {0} /\ w \in Nat \ {0}
    BY <2>2
  <2> HIDE DEF v, w, f, T
  <2>7. q[1] * d = D * f /\ f * v \in Nat
    BY <2>4, <2>5, <2>6
  <2> HIDE DEF D, X
  <2>8. D * f \in Nat /\ T * D \in Nat /\ T * X \in Nat /\ T * (D * f) \in Nat
    BY <1>1, <2>3, <2>4
  <2> DEFINE F == D * f
  <2> HIDE DEF F
  <2>9. /\ T * (2 * X - D) <= T * (2 * F) /\ T * (2 * F) <= T * (2 * X + D)
    BY <1>1, <2>3, <2>4, <2>8 DEF F
  <2>10. /\ T * (2 * X - D) = 2 * (T * X) - T * D
         /\ T * (2 * X + D) = 2 * (T * X) + T * D
         /\ T * (2 * F) = 2 * (T * F)
    BY <1>1, <2>3, <2>8 DEF F
  <2>11. T * F <= T * X + X /\ T * X <= T * F + X
    BY <1>1, <2>3, <2>5, <2>8, <2>9, <2>10 DEF F
  <2> QED
    BY <2>5, <2>6, <2>7, <2>11 DEF Near, T, F, X
<1> QED
  BY <1>2, <1>3

LEMMA ScaledUp ==
    ASSUME NEW x \in Int, NEW y \in Int, NEW z \in Nat, x <= y
    PROVE  x * z <= y * z
<1>1. CASE z = 0
  BY <1>1
<1>2. CASE z # 0
  BY <1>2, Scaled
<1> QED
  BY <1>1, <1>2

LEMMA ProductsGrow ==
    ASSUME NEW x \in Nat, NEW x1 \in Nat, x <= x1, NEW y \in Nat, NEW y1 \in Nat, y <= y1,
           NEW z \in Nat, NEW z1 \in Nat, z <= z1
    PROVE  x * y * z <= x1 * y1 * z1
<1>1. x * y <= x1 * y
  BY ScaledUp
<1>2. y * x1 <= y1 * x1
  BY ScaledUp
<1>3. x * y <= x1 * y1 /\ x * y \in Nat /\ x1 * y1 \in Nat
  BY <1>1, <1>2
<1>4. (x * y) * z <= (x1 * y1) * z
  BY <1>3, ScaledUp
<1>5. z * (x1 * y1) <= z1 * (x1 * y1)
  BY <1>3, ScaledUp
<1> QED
  BY <1>3, <1>4, <1>5

\* What is left of a bound when its factors are divided out.
LEMMA Divided ==
    ASSUME NEW T \in Nat, T >= 8, NEW P \in Nat, NEW Q \in Nat
    PROVE  /\ (T - 1) * (T * Q) <= (T + 1) * (T + 1) * P => T * Q <= (T + 4) * P
           /\ (T - 1) * (T - 1) * P <= (T + 1) * (T * Q) => T * P <= T * Q + 4 * P
<1> DEFINE R == T * Q
<1>1. R \in Nat
  OBVIOUS
<1> HIDE DEF R
<1>2. ASSUME (T - 1) * R <= (T + 1) * (T + 1) * P
      PROVE  R <= (T + 4) * P
  <2>1. (T + 1) * (T + 1) <= (T + 4) * (T - 1)
    OBVIOUS
  <2>2. (T + 1) * (T + 1) * P <= (T + 4) * (T - 1) * P
    BY <2>1, ScaledUp
  <2> DEFINE B1 == (T - 1) * R
             B2 == (T + 1) * (T + 1) * P
             B3 == (T + 4) * (T - 1) * P
             L == (T + 4) * P
  <2>3. /\ B1 \in Int /\ B2 \in Int /\ B3 \in Int /\ B1 <= B2 /\ B2 <= B3
        /\ R * (T - 1) = B1 /\ L * (T - 1) = B3 /\ L \in Int /\ T - 1 \in Nat \ {0}
    BY <1>1, <1>2, <2>2
  <2> HIDE DEF B1, B2, B3, L
  <2>4. R * (T - 1) <= L * (T - 1)
    BY <2>3
  <2>5. R <= L
    BY <1>1, <2>3, <2>4, Scaled
  <2> QED
    BY <2>5 DEF L
<1>3. ASSUME (T - 1) * (T - 1) * P <= (T + 1) * R
      PROVE  T * P <= R + 4 * P
  <2>1. (T - 4) * (T + 1) <= (T - 1) * (T - 1)
    OBVIOUS
  <2>2. (T - 4) * (T + 1) * P <= (T - 1) * (T - 1) * P
    BY <2>1, ScaledUp
  <2> DEFINE B1 == (T + 1) * R
             B2 == (T - 1) * (T - 1) * P
             B3 == (T - 4) * (T + 1) * P
             L == (T - 4) * P
  <2>3. /\ B1 \in Int /\ B2 \in Int /\ B3 \in Int /\ B2 <= B1 /\ B3 <= B2
        /\ R * (T + 1) = B1 /\ L * (T + 1) = B3 /\ L \in Int /\ T + 1 \in Nat \ {0}
    BY <1>1, <1>3, <2>2
  <2> HIDE DEF B1, B2, B3, L
  <2>4. L * (T + 1) <= R * (T + 1)
    BY <2>3
  <2>5. L <= R
    BY <1>1, <2>3, <2>4, Scaled
  <2>6. L = T * P - 4 * P /\ T * P \in Int /\ 4 * P \in Int
    BY DEF L
  <2> QED
    BY <1>1, <2>5, <2>6
<1> QED
  BY <1>2, <1>3 DEF R

\* The float quotient of two floats is off by four parts at most.
LEMMA QuotientIsNear ==
    ASSUME NEW x \in Nat, NEW d \in Nat \ {0}, NEW s \in Floats(x, 1), NEW z \in Floats(d, 1),
           NEW q \in Floats(s[1] * z[2], s[2] * z[1])
    PROVE  /\ q[1] \in Nat /\ q[2] \in Nat \ {0}
           /\ 2^Mantissa * (q[1] * d) <= (2^Mantissa + 4) * (x * q[2])
           /\ 2^Mantissa * (x * q[2]) <= 2^Mantissa * (q[1] * d) + 4 * (x * q[2])
<1> DEFINE T == 2^Mantissa
           a == s[1]
           a1 == s[2]
           b == z[1]
           b1 == z[2]
           u == q[1]
           v == q[2]
<1>1. T \in Nat /\ T >= 8
  BY FloatAssumption
<1>2. Near(x, 1, s) /\ Near(d, 1, z)
  BY FloatIsNear
<1>3. a \in Nat /\ a1 \in Nat \ {0} /\ b \in Nat /\ b1 \in Nat \ {0}
  BY <1>2 DEF Near
<1>4. /\ T * a <= (T + 1) * (x * a1) /\ (T - 1) * (x * a1) <= T * a
      /\ T * b <= (T + 1) * (d * b1) /\ (T - 1) * (d * b1) <= T * b
  <2>1. /\ T * (a * 1) <= T * (x * a1) + x * a1 /\ T * (x * a1) <= T * (a * 1) + x * a1
        /\ T * (b * 1) <= T * (d * b1) + d * b1 /\ T * (d * b1) <= T * (b * 1) + d * b1
    BY <1>2 DEF Near
  <2> HIDE DEF T, a, a1, b, b1
  <2>2. /\ (T + 1) * (x * a1) = T * (x * a1) + x * a1 /\ (T - 1) * (x * a1) = T * (x * a1) - x * a1
        /\ (T + 1) * (d * b1) = T * (d * b1) + d * b1 /\ (T - 1) * (d * b1) = T * (d * b1) - d * b1
        /\ a * 1 = a /\ b * 1 = b
    BY <1>1, <1>3
  <2>3. /\ x * a1 \in Nat /\ d * b1 \in Nat /\ T * (x * a1) \in Nat /\ T * (d * b1) \in Nat
        /\ T * a \in Nat /\ T * b \in Nat
    BY <1>1, <1>3
  <2> QED
    BY <2>1, <2>2, <2>3
<1>5. b # 0 /\ (x # 0 => a # 0)
  <2> HIDE DEF T, a, a1, b, b1
  <2>1. d * b1 \in Nat \ {0} /\ (x # 0 => x * a1 \in Nat \ {0})
    BY <1>3
  <2>2. (T - 1) * (d * b1) > 0 /\ (x # 0 => (T - 1) * (x * a1) > 0)
    BY <1>1, <2>1
  <2>3. b = 0 => T * b = 0
    BY <1>1
  <2>4. a = 0 => T * a = 0
    BY <1>1
  <2> QED
    BY <1>1, <1>3, <1>4, <2>2, <2>3, <2>4
<1>6. a * b1 \in Nat /\ a1 * b \in Nat \ {0}
  <2> HIDE DEF T, a, a1, b, b1
  <2> QED
    BY <1>3, <1>5
<1>7. Near(a * b1, a1 * b, q)
  BY <1>6, FloatIsNear
<1>8. /\ u \in Nat /\ v \in Nat \ {0}
      /\ T * (u * (a1 * b)) <= T * (a * b1 * v) + a * b1 * v
      /\ T * (a * b1 * v) <= T * (u * (a1 * b)) + a * b1 * v
  BY <1>7 DEF Near
<1> SUFFICES /\ T * (u * d) <= (T + 4) * (x * v)
             /\ T * (x * v) <= T * (u * d) + 4 * (x * v)
  BY <1>8
<1>9. CASE x = 0
  <2>1. s = <<0, 1>>
    BY <1>9 DEF Floats
  <2>2. a * b1 = 0
    BY <1>3, <2>1
  <2>3. q = <<0, 1>>
    BY <2>2 DEF Floats
  <2>4. u = 0
    BY <2>3
  <2> HIDE DEF T, a, a1, b, b1, u, v
  <2> QED
    BY <1>1, <1>8, <1>9, <2>4
<1>10. CASE x # 0
  <2> HIDE DEF T, a, a1, b, b1, u, v
  <2> DEFINE P == x * v
             Q == u * d
             K == T * a * a1 * b * b1
             X == x * a1
             D == d * b1
             U == u * (a1 * b)
             V == a * b1 * v
  <2>1. P \in Nat /\ Q \in Nat /\ K \in Nat \ {0}
    <3>1. T * a \in Nat \ {0} /\ a1 * b \in Nat \ {0}
      BY <1>1, <1>3, <1>5, <1>10
    <3>2. T * a * (a1 * b) \in Nat \ {0}
      BY <3>1
    <3>3. T * a * (a1 * b) * b1 \in Nat \ {0}
      BY <1>3, <3>2
    <3> QED
      BY <1>1, <1>3, <1>8, <3>3
  <2>2. X \in Nat /\ D \in Nat /\ U \in Nat /\ V \in Nat
    BY <1>3, <1>6, <1>8
  <2>3. /\ T * U <= (T + 1) * V /\ (T - 1) * V <= T * U
        /\ T * a <= (T + 1) * X /\ (T - 1) * X <= T * a
        /\ T * b <= (T + 1) * D /\ (T - 1) * D <= T * b
    <3>1. T * U <= T * V + V /\ T * V <= T * U + V
      BY <1>8
    <3> HIDE DEF U, V
    <3>2. (T + 1) * V = T * V + V /\ (T - 1) * V = T * V - V /\ T * V \in Nat /\ T * U \in Nat
      BY <1>1, <2>2
    <3>3. T * U <= (T + 1) * V /\ (T - 1) * V <= T * U
      BY <2>2, <3>1, <3>2
    <3> QED
      BY <1>4, <3>3
  <2>4. /\ T * U * (T * a) * ((T - 1) * D) <= (T + 1) * V * ((T + 1) * X) * (T * b)
        /\ (T - 1) * V * ((T - 1) * X) * (T * b) <= T * U * (T * a) * ((T + 1) * D)
    <3> HIDE DEF U, V, X, D
    <3>1. /\ T * U \in Nat /\ (T + 1) * V \in Nat /\ (T - 1) * V \in Nat /\ T * a \in Nat
          /\ (T + 1) * X \in Nat /\ (T - 1) * X \in Nat /\ T * b \in Nat
          /\ (T + 1) * D \in Nat /\ (T - 1) * D \in Nat
      BY <1>1, <1>3, <2>2
    <3> QED
      BY <2>3, <3>1, ProductsGrow
  <2>5. /\ T * U * (T * a) * ((T - 1) * D) = (T - 1) * (T * Q) * K
        /\ (T + 1) * V * ((T + 1) * X) * (T * b) = (T + 1) * (T + 1) * P * K
        /\ (T - 1) * V * ((T - 1) * X) * (T * b) = (T - 1) * (T - 1) * P * K
        /\ T * U * (T * a) * ((T + 1) * D) = (T + 1) * (T * Q) * K
    BY <1>1, <1>3, <1>8
  <2> DEFINE L1 == (T - 1) * (T * Q)
             R1 == (T + 1) * (T + 1) * P
             L2 == (T - 1) * (T - 1) * P
             R2 == (T + 1) * (T * Q)
  <2>6. L1 * K <= R1 * K /\ L2 * K <= R2 * K
    BY <2>4, <2>5
  <2> HIDE DEF P, Q, K
  <2>7. L1 \in Int /\ R1 \in Int /\ L2 \in Int /\ R2 \in Int
    BY <1>1, <2>1
  <2> HIDE DEF L1, R1, L2, R2
  <2>8. L1 <= R1 /\ L2 <= R2
    BY <2>1, <2>6, <2>7, Scaled
  <2>9. T * Q <= (T + 4) * P /\ T * P <= T * Q + 4 * P
    BY <1>1, <2>1, <2>8, Divided DEF L1, R1, L2, R2
  <2> QED
    BY <2>9 DEF P, Q
<1> QED
  BY <1>9, <1>10

\* The mean is within one half of the quotient but for the floats if the sum was
\* not negative, and an element that loses it is an int even if the sum had
\* wrapped around.
Means == -(IntMax - Limit + 1)..(IntMax + 1)
MeanIsNear(size, s, mid) ==
    LET bound == 2^Mantissa * size + 8 * s
    IN  2^Mantissa * (2 * s - 2 * (size * mid)) \in -bound..bound

\* What a quotient says of the number whose halves and quarters it rounds.
LEMMA FromQuotient ==
    ASSUME NEW T \in Nat, T >= 8, NEW size \in Nat \ {0}, NEW x \in Nat,
           NEW a \in Nat, NEW b \in Nat \ {0}, NEW h \in Int
    PROVE  /\ b * h <= 2 * a /\ T * (a * size) <= (T + 4) * (x * b)
                 => T * (size * h) <= 2 * (T * x) + 8 * x
           /\ 2 * a <= b * h /\ T * (x * b) <= T * (a * size) + 4 * (x * b)
                 => 2 * (T * x) <= T * (size * h) + 8 * x
<1> DEFINE z == T * size
           A1 == T * (a * size)
           H == T * (size * h)
           X == T * x
<1>1. /\ z \in Nat /\ A1 \in Nat /\ H \in Int /\ X \in Nat /\ x * b \in Nat
      /\ b * h \in Int /\ b * h * z = H * b /\ 2 * a * z = 2 * A1
      /\ (T + 4) * (x * b) = X * b + 4 * x * b /\ T * (x * b) = X * b
      /\ 4 * (x * b) = 4 * x * b /\ X * b \in Nat /\ 4 * x * b \in Nat
      /\ 2 * A1 \in Int /\ H * b \in Int
  OBVIOUS
<1>2. /\ b * h <= 2 * a => b * h * z <= 2 * a * z
      /\ 2 * a <= b * h => 2 * a * z <= b * h * z
  <2> HIDE DEF z
  <2> QED
    BY <1>1, ScaledUp
<1>3. (2 * X + 8 * x) * b = 2 * (X * b) + 2 * (4 * x * b)
  BY <1>1
<1> DEFINE L == 2 * X + 8 * x
           R == H + 8 * x
<1>4. L \in Int /\ L * b = 2 * (X * b) + 2 * (4 * x * b)
  BY <1>1, <1>3
<1>5. R \in Int /\ R * b = H * b + 2 * (4 * x * b) /\ (2 * X) * b = 2 * (X * b) /\ 2 * X \in Int
  BY <1>1
<1>6. ASSUME b * h <= 2 * a, T * (a * size) <= (T + 4) * (x * b)
      PROVE  T * (size * h) <= 2 * (T * x) + 8 * x
  <2>1. H * b <= 2 * A1 /\ A1 <= X * b + 4 * x * b
    BY <1>1, <1>2, <1>6
  <2> HIDE DEF H, A1, X, L
  <2>2. H * b <= L * b
    BY <1>1, <1>4, <2>1
  <2>3. H <= L
    BY <1>1, <1>4, <2>2, Scaled
  <2> QED
    BY <2>3 DEF H, L, X
<1>7. ASSUME 2 * a <= b * h, T * (x * b) <= T * (a * size) + 4 * (x * b)
      PROVE  2 * (T * x) <= T * (size * h) + 8 * x
  <2>1. 2 * A1 <= H * b /\ X * b <= A1 + 4 * x * b
    BY <1>1, <1>2, <1>7
  <2> HIDE DEF H, A1, X, R
  <2>2. (2 * X) * b <= R * b
    BY <1>1, <1>5, <2>1
  <2>3. 2 * X <= R
    BY <1>1, <1>5, <2>2, Scaled
  <2> QED
    BY <2>3 DEF H, R, X
<1> QED
  BY <1>6, <1>7

LEMMA MeanFacts ==
    ASSUME NEW size \in Nat \ {0}, NEW s \in Ints, size = 1 => s <= Limit, size <= 2 => s >= 0,
           NEW x \in Nat, x = (IF s < 0 THEN -s ELSE s), NEW a \in Nat, NEW b \in Nat \ {0},
           2^Mantissa * (a * size) <= (2^Mantissa + 4) * (x * b),
           2^Mantissa * (x * b) <= 2^Mantissa * (a * size) + 4 * (x * b)
    PROVE  LET mid == Truncate(2 * (IF s < 0 THEN -a ELSE a) + b, 2 * b)
           IN  mid \in Means /\ (s >= 0 => MeanIsNear(size, s, mid))
<1> DEFINE T == 2^Mantissa
           d == 2 * b
<1>1. T \in Nat /\ T >= 8 /\ d \in Nat \ {0}
  BY FloatAssumption
<1>2. IntMax \in Nat /\ Limit \in Nat \ {0} /\ 2 * Limit <= IntMax
  <2>1. Limit * Limit >= Limit /\ Limit * Limit \in Nat
    BY LimitAssumption
  <2> QED
    BY <2>1, LimitAssumption
<1>3. s \in Int /\ s <= IntMax /\ s >= -(IntMax + 1)
  BY <1>2 DEF Ints
<1>4. T * (a * size) <= (T + 4) * (x * b) /\ T * (x * b) <= T * (a * size) + 4 * (x * b)
  OBVIOUS
\* The relative error is at most one half.
<1>5. ASSUME NEW h \in Int, T * (size * h) <= 2 * (T * x) + 8 * x
      PROVE  size * h <= 3 * x
  <2> DEFINE g == size * h
             g3 == 3 * x
             X == T * x
  <2>1. g \in Int /\ g3 \in Int /\ T * g <= 2 * X + 8 * x
    BY <1>1, <1>5
  <2>2. 8 * x <= X /\ g3 * T = 3 * X /\ X \in Nat
    BY <1>1, ScaledUp
  <2>3. g * T <= g3 * T
    <3> HIDE DEF g, g3, T, X
    <3>1. g * T = T * g /\ T * g \in Int
      BY <1>1, <2>1
    <3> QED
      BY <1>1, <2>1, <2>2, <3>1
  <2> HIDE DEF g, g3, T
  <2>4. g <= g3
    BY <1>1, <2>1, <2>3, Scaled
  <2> QED
    BY <2>4 DEF g, g3
<1> HIDE DEF T
<1>6. CASE s >= 0
  <2> DEFINE y == 2 * a + b
             q == y \div d
  <2>1. Truncate(2 * (IF s < 0 THEN -a ELSE a) + b, 2 * b) = q
    BY <1>3, <1>6 DEF Truncate
  <2>2. q \in Nat /\ y = d * q + (y % d) /\ (y % d) \in 0..(d - 1) /\ d * q \in Int /\ y \in Nat
    <3>1. y \in Int /\ y >= 0 /\ y \in Nat
      OBVIOUS
    <3> HIDE DEF y, d
    <3> QED
      BY <1>1, <3>1, DivisionFacts
  <2> HIDE DEF q
  <2>3. d * q = 2 * (b * q) /\ b * q \in Nat
    BY <2>2
  <2>4. b * (2 * q - 1) = 2 * (b * q) - b /\ b * (2 * q + 1) = 2 * (b * q) + b
    BY <2>2
  <2>5. b * (2 * q - 1) <= 2 * a /\ 2 * a <= b * (2 * q + 1)
    <3>1. 2 * (b * q) <= y /\ y < 2 * (b * q) + 2 * b
      <4> HIDE DEF y
      <4> QED
        BY <2>2, <2>3
    <3> QED
      BY <2>3, <2>4, <3>1
  <2>6. 2 * q - 1 \in Int /\ 2 * q + 1 \in Int
    BY <2>2
  <2>7. T * (size * (2 * q - 1)) <= 2 * (T * x) + 8 * x
    BY <1>1, <1>4, <2>5, <2>6, FromQuotient
  <2>8. 2 * (T * x) <= T * (size * (2 * q + 1)) + 8 * x
    BY <1>1, <1>4, <2>5, <2>6, FromQuotient
  <2>9. /\ T * (size * (2 * q - 1)) = T * (2 * (size * q)) - T * size
        /\ T * (size * (2 * q + 1)) = T * (2 * (size * q)) + T * size
        /\ T * (2 * x - 2 * (size * q)) = 2 * (T * x) - T * (2 * (size * q))
        /\ T * (2 * (size * q)) \in Int /\ T * size \in Int /\ T * x \in Int
    BY <1>1, <2>2
  <2>10. x = s
    BY <1>3, <1>6
  <2>11. MeanIsNear(size, s, q)
    <3> DEFINE E == T * (2 * x - 2 * (size * q))
               bound == T * size + 8 * x
    <3>1. E \in Int /\ bound \in Int /\ -bound <= E /\ E <= bound
      BY <2>7, <2>8, <2>9
    <3> HIDE DEF E, bound
    <3>2. E \in -bound..bound
      BY <3>1
    <3> QED
      BY <2>10, <3>2 DEF E, bound, MeanIsNear, T
  <2>12. size * (2 * q - 1) <= 3 * s
    BY <1>5, <2>6, <2>7, <2>10
  <2>13. q <= IntMax + 1
    <3>1. CASE size = 1
      BY <1>2, <1>3, <2>2, <2>12, <3>1
    <3>2. CASE size >= 2 /\ q >= 1
      <4>1. size * (2 * q - 1) >= 2 * (2 * q - 1)
        BY <2>2, <3>2
      <4>2. size * (2 * q - 1) \in Int
        BY <2>2
      <4> QED
        BY <1>2, <1>3, <2>2, <2>12, <4>1, <4>2
    <3> QED
      BY <1>2, <2>2, <3>1, <3>2
  <2> QED
    BY <1>2, <2>1, <2>2, <2>11, <2>13 DEF Means
<1>7. CASE ~(s >= 0)
  <2>1. x = -s
    BY <1>3, <1>7
  <2>2. x <= IntMax + 1
    BY <1>2, <1>3, <2>1
  <2>3. size >= 3
    BY <1>7
  <2>4. 2 * (IF s < 0 THEN -a ELSE a) + b = b - 2 * a
    BY <1>3, <1>7
  <2>5. CASE b - 2 * a >= 0
    <3> DEFINE y == b - 2 * a
    <3>1. Truncate(y, d) = y \div d
      BY <2>5 DEF Truncate
    <3>2. y \in 0..(d - 1)
      BY <2>5
    <3> HIDE DEF y, d
    <3>3. y \div d = 0
      BY <1>1, <3>2
    <3>4. Truncate(y, d) \in Means
      BY <1>2, <3>1, <3>3 DEF Means
    <3> QED
      BY <1>7, <2>4, <3>4 DEF y, d
  <2>6. CASE ~(b - 2 * a >= 0)
    <3> DEFINE z == -(b - 2 * a)
               q == z \div d
    <3>1. Truncate(b - 2 * a, d) = -q
      BY <2>6 DEF Truncate
    <3>2. z \in Nat /\ z \in Int /\ z >= 0 /\ z = 2 * a - b
      BY <2>6
    <3>3. q \in Nat /\ z = d * q + (z % d) /\ (z % d) \in 0..(d - 1) /\ d * q \in Int
      <4> HIDE DEF z, d
      <4> QED
        BY <1>1, <3>2, DivisionFacts
    <3> HIDE DEF q, z
    <3>4. d * q = 2 * (b * q) /\ b * q \in Nat /\ b * (2 * q + 1) = 2 * (b * q) + b
      BY <3>3
    <3>5. b * (2 * q + 1) <= 2 * a /\ 2 * q + 1 \in Int
      BY <3>2, <3>3, <3>4
    <3>6. T * (size * (2 * q + 1)) <= 2 * (T * x) + 8 * x
      BY <1>1, <1>4, <3>5, FromQuotient
    <3>7. size * (2 * q + 1) <= 3 * x
      BY <1>5, <3>5, <3>6
    <3>8. size * (2 * q + 1) >= 3 * (2 * q + 1) /\ size * (2 * q + 1) \in Int
      BY <2>1, <2>2, <2>3, <3>3
    <3>9. 2 * q <= IntMax
      BY <1>2, <2>1, <2>2, <2>3, <3>3, <3>7, <3>8
    <3>10. -q \in Means
      BY <1>2, <3>3, <3>9 DEF Means
    <3> QED
      BY <1>7, <2>4, <3>1, <3>10
  <2> QED
    BY <2>5, <2>6
<1> QED
  BY <1>3, <1>6, <1>7

\* The matrices of a case, and what GeneratedRight says of one that was printed.
Grid(c, T) == [0..(c.M - 1) -> [0..(c.N - 1) -> T]]
MatrixRight(c, B) ==
    LET size == c.M * c.N
        flat == [p \in 1..size |-> B[(p - 1) \div c.N][(p - 1) % c.N]]
        x == Numbers(c)
        total == Partial(flat, size)[size]
        bound == 2^Mantissa * size + 8 * Partial(x, size)[size]
    IN  /\ \A p \in DOMAIN flat : flat[p] - flat[1] = x[p] - x[1]
        /\ Fits(c) => 2^Mantissa * (2 * total) \in -bound..bound

\* Rows that follow one another are cut where they were joined.
LEMMA CutRows ==
    ASSUME NEW M \in Nat \ {0}, NEW N \in Nat \ {0}, NEW p \in 1..(M * N)
    PROVE  LET r == (p - 1) \div N
               q == (p - 1) % N
           IN  r \in 0..(M - 1) /\ q \in 0..(N - 1) /\ r * N + q + 1 = p
<1> DEFINE e == p - 1
<1>1. M * N \in Nat
  OBVIOUS
<1>2. e \in Int /\ e \in 0..(M * N - 1) /\ e + 1 = p
  BY <1>1
<1> HIDE DEF e
<1>3. e \div N \in 0..(M - 1)
  BY <1>2, Quotient
<1>4. (e % N) \in 0..(N - 1) /\ e = (e \div N) * N + (e % N)
  BY <1>2, Euclid
<1> QED
  BY <1>2, <1>3, <1>4 DEF e

\* A matrix of the numbers of its case, less their mean, is right.
LEMMA MatrixIsRight ==
    ASSUME NEW c \in Cases, NEW B \in Grid(c, Int), NEW mid \in Int,
           \A r \in 0..(c.M - 1), q \in 0..(c.N - 1) :
              B[r][q] = Numbers(c)[r * c.N + q + 1] - mid,
           Fits(c) => LET size == c.M * c.N
                      IN  MeanIsNear(size, Partial(Numbers(c), size)[size], mid)
    PROVE  MatrixRight(c, B)
<1> DEFINE size == c.M * c.N
           x == Numbers(c)
           flat == [p \in 1..size |-> B[(p - 1) \div c.N][(p - 1) % c.N]]
<1>1. size \in Nat \ {0} /\ c.M \in Nat \ {0} /\ c.N \in Nat \ {0}
  BY CaseFacts
<1>2. x \in [0..size -> 0..Limit]
  BY NumbersEquation
<1>3. \A p \in 1..size : x[p] \in Int
  <2> HIDE DEF x, size
  <2> QED
    BY <1>1, <1>2, LimitAssumption
<1>4. ASSUME NEW p \in 1..size
      PROVE  flat[p] = x[p] - mid
  <2> DEFINE r == (p - 1) \div c.N
             q == (p - 1) % c.N
  <2>1. r \in 0..(c.M - 1) /\ q \in 0..(c.N - 1) /\ r * c.N + q + 1 = p
    <3> DEFINE M == c.M
               N == c.N
    <3>1. M \in Nat \ {0} /\ N \in Nat \ {0} /\ p \in 1..(M * N)
      BY <1>1
    <3> HIDE DEF M, N, flat, x
    <3>2. /\ (p - 1) \div N \in 0..(M - 1) /\ (p - 1) % N \in 0..(N - 1)
          /\ ((p - 1) \div N) * N + ((p - 1) % N) + 1 = p
      BY <3>1, CutRows, Zenon
    <3> QED
      BY <3>2 DEF M, N
  <2>2. flat[p] = B[r][q]
    OBVIOUS
  <2> HIDE DEF r, q, flat, x, size
  <2>3. B[r][q] = x[r * c.N + q + 1] - mid
    BY <2>1 DEF x
  <2> QED
    BY <2>1, <2>2, <2>3
<1>5. Partial(flat, size)[size] = Partial(x, size)[size] - size * mid
  <2>1. size \in 0..size /\ size \in Nat
    BY <1>1
  <2> HIDE DEF flat, x, size
  <2>2. \A p \in 1..size : x[p] \in Int /\ flat[p] = x[p] - mid
    BY <1>3, <1>4
  <2> QED
    BY <2>1, <2>2, PartialShift
<1>6. Partial(x, size)[size] \in Int /\ size * mid \in Int
  <2> HIDE DEF x, size
  <2>1. size \in 0..size /\ size \in Nat
    BY <1>1
  <2> QED
    BY <1>3, <2>1, PartialEquation
<1>7. DOMAIN flat = 1..size /\ 1 \in 1..size
  BY <1>1
<1>8. \A p \in DOMAIN flat : flat[p] - flat[1] = x[p] - x[1]
  <2> HIDE DEF flat, x, size
  <2> QED
    BY <1>3, <1>4, <1>7
<1>9. Fits(c) => LET bound == 2^Mantissa * size + 8 * Partial(x, size)[size]
                 IN  2^Mantissa * (2 * Partial(flat, size)[size]) \in -bound..bound
  <2> DEFINE P == Partial(x, size)[size]
             z == size * mid
  <2>1. Fits(c) => MeanIsNear(size, P, mid)
    OBVIOUS
  <2>2. P \in Int /\ z \in Int
    BY <1>6
  <2>3. Partial(flat, size)[size] = P - z
    BY <1>5
  <2>4. 2 * (P - z) = 2 * P - 2 * z
    <3> HIDE DEF P, z
    <3> QED
      BY <2>2
  <2> DEFINE total == Partial(flat, size)[size]
  <2>5. 2 * total = 2 * P - 2 * (size * mid)
    BY <2>3, <2>4
  <2> HIDE DEF total, P
  <2>6. Fits(c) => 2^Mantissa * (2 * total) \in -(2^Mantissa * size + 8 * P)..(2^Mantissa * size + 8 * P)
    <3> HIDE DEF size
    <3> QED
      BY <2>1, <2>5 DEF MeanIsNear
  <2> QED
    BY <2>6 DEF total, P
<1> QED
  BY <1>8, <1>9 DEF MatrixRight

\* Where fill is: the places before it, and how many they are.
AtPlace == i \in 0..par.M /\ j \in 0..(par.N - 1) /\ (i = par.M => j = 0)
Passed(r, q) == r < i \/ (r = i /\ q < j)
Done == i * par.N + j

\* The place of an element among all of them.
LEMMA PlaceOf ==
    ASSUME NEW c \in Cases, NEW r \in 0..(c.M - 1), NEW q \in 0..(c.N - 1)
    PROVE  r * c.N + q \in 0..(c.M * c.N - 1)
<1> DEFINE M == c.M
           N == c.N
<1>1. M \in Nat \ {0} /\ N \in Nat \ {0}
  BY CaseFacts
<1> HIDE DEF M, N
<1>2. r \in 0..(M - 1) /\ q \in 0..(N - 1)
  BY DEF M, N
<1>3. r * N \in Nat /\ M * N \in Nat
  BY <1>1, <1>2
<1>4. M * N >= r * N + N
  BY <1>1, <1>2, Stretch
<1>5. r * N + q \in 0..(M * N - 1)
  BY <1>1, <1>2, <1>3, <1>4
<1> QED
  BY <1>5 DEF M, N

\* The loops begin before every place.
LEMMA LoopBegins ==
    ASSUME par \in Cases, i = 0, j = 0
    PROVE  /\ AtPlace /\ Done = 0
           /\ \A r \in 0..(par.M - 1), q \in 0..(par.N - 1) : ~Passed(r, q)
<1>1. par.M \in Nat \ {0} /\ par.N \in Nat \ {0}
  BY CaseFacts
<1>2. 0 * par.N = 0
  BY <1>1
<1> QED
  BY <1>1, <1>2 DEF AtPlace, Done, Passed

\* They end behind every place.
LEMMA LoopEnds ==
    ASSUME par \in Cases, AtPlace, i = par.M
    PROVE  /\ Done = par.M * par.N
           /\ \A r \in 0..(par.M - 1), q \in 0..(par.N - 1) : Passed(r, q)
<1>1. par.M \in Nat \ {0} /\ par.N \in Nat \ {0} /\ par.M * par.N \in Nat
  BY CaseFacts
<1> QED
  BY <1>1 DEF AtPlace, Done, Passed

\* A turn goes on by one place.
LEMMA LoopGoesOn ==
    ASSUME par \in Cases, par' = par, AtPlace, i < par.M, NextPlace
    PROVE  /\ i \in 0..(par.M - 1) /\ j \in 0..(par.N - 1)
           /\ AtPlace' /\ Done' = Done + 1 /\ Done \in 0..(par.M * par.N - 1)
           /\ \A r \in 0..(par.M - 1), q \in 0..(par.N - 1) :
                 Passed(r, q)' <=> Passed(r, q) \/ (r = i /\ q = j)
<1> DEFINE M == par.M
           N == par.N
<1>1. M \in Nat \ {0} /\ N \in Nat \ {0}
  BY CaseFacts
<1>2. i \in 0..(M - 1) /\ j \in 0..(N - 1)
  BY <1>1 DEF AtPlace
<1>3. Done \in 0..(M * N - 1)
  BY <1>2, PlaceOf DEF Done
<1>4. IF j + 1 < N THEN i' = i /\ j' = j + 1 ELSE i' = i + 1 /\ j' = 0
  BY DEF NextPlace
<1>5. Done = i * N + j /\ Done' = i' * N + j' /\ (AtPlace' <=> i' \in 0..M /\ j' \in 0..(N - 1) /\ (i' = M => j' = 0))
  BY DEF Done, AtPlace
<1> HIDE DEF M, N
<1>6. CASE j + 1 < N
  <2>1. i' = i /\ j' = j + 1 /\ i * N \in Nat
    BY <1>1, <1>2, <1>4, <1>6
  <2>2. Done' = Done + 1 /\ AtPlace'
    BY <1>1, <1>2, <1>5, <1>6, <2>1
  <2>3. \A r \in 0..(M - 1), q \in 0..(N - 1) : Passed(r, q)' <=> Passed(r, q) \/ (r = i /\ q = j)
    BY <1>1, <1>2, <2>1 DEF Passed
  <2> QED
    BY <1>2, <1>3, <2>2, <2>3 DEF M, N
<1>7. CASE ~(j + 1 < N)
  <2>1. i' = i + 1 /\ j' = 0 /\ i * N \in Nat /\ (i + 1) * N = i * N + N /\ j + 1 = N
    BY <1>1, <1>2, <1>4, <1>7
  <2>2. Done' = Done + 1 /\ AtPlace'
    BY <1>1, <1>2, <1>5, <2>1
  <2>3. \A r \in 0..(M - 1), q \in 0..(N - 1) : Passed(r, q)' <=> Passed(r, q) \/ (r = i /\ q = j)
    BY <1>1, <1>2, <2>1 DEF Passed
  <2> QED
    BY <1>2, <1>3, <2>2, <2>3 DEF M, N
<1> QED
  BY <1>6, <1>7

\* An element of a matrix gets a value.
WithElement(B, r, q, x) == [B EXCEPT ![r][q] = x]

LEMMA ElementSet ==
    ASSUME NEW c, NEW T, NEW B \in Grid(c, T), NEW x \in T,
           NEW r \in 0..(c.M - 1), NEW q \in 0..(c.N - 1)
    PROVE  /\ WithElement(B, r, q, x) \in Grid(c, T)
           /\ \A s \in 0..(c.M - 1), u \in 0..(c.N - 1) :
                 WithElement(B, r, q, x)[s][u] = IF s = r /\ u = q THEN x ELSE B[s][u]
<1> DEFINE R == 0..(c.M - 1)
           C == 0..(c.N - 1)
           row == [B[r] EXCEPT ![q] = x]
<1>1. B \in [R -> [C -> T]] /\ r \in R /\ q \in C
  BY DEF Grid
<1> HIDE DEF R, C
<1>2. row \in [C -> T] /\ \A u \in C : row[u] = IF u = q THEN x ELSE B[r][u]
  BY <1>1
<1>3. WithElement(B, r, q, x) = [B EXCEPT ![r] = row]
  BY DEF WithElement
<1> HIDE DEF row
<1>4. /\ WithElement(B, r, q, x) \in [R -> [C -> T]]
      /\ \A s \in R : WithElement(B, r, q, x)[s] = IF s = r THEN row ELSE B[s]
  BY <1>1, <1>2, <1>3
<1>5. \A s \in R, u \in C : WithElement(B, r, q, x)[s][u] = IF s = r /\ u = q THEN x ELSE B[s][u]
  BY <1>2, <1>4
<1> QED
  BY <1>4, <1>5 DEF Grid, R, C

FileRight ==
    /\ file \in Seq([1..11 -> Nat \cup {Space}])
    /\ \A p \in DOMAIN file : IsLine(file[p])
PrintedRight == \A p \in DOMAIN out : MatrixRight(Stated(p), out[p])

\* The elements so far are the numbers of the case, and sum is their sum.
GeneratingInv ==
    /\ seed = Numbers(par)[Done]
    /\ sum \in Ints
    /\ Fits(par) => sum = Partial(Numbers(par), par.M * par.N)[Done]
    /\ A \in Grid(par, Int \cup {Unwritten})
    /\ \A r \in 0..(par.M - 1), q \in 0..(par.N - 1) :
          Passed(r, q) => A[r][q] = Numbers(par)[r * par.N + q + 1]

\* The elements so far have lost the mean, which is that of all the numbers.
SubtractingInv ==
    /\ mean \in Means
    /\ Fits(par) => LET size == par.M * par.N
                    IN  MeanIsNear(size, Partial(Numbers(par), size)[size], mean)
    /\ A \in Grid(par, Int)
    /\ \A r \in 0..(par.M - 1), q \in 0..(par.N - 1) :
          A[r][q] = Numbers(par)[r * par.N + q + 1] - (IF Passed(r, q) THEN mean ELSE 0)

\* The inductive invariant of main and fill.
GenInv ==
    /\ FileRight
    /\ out \in Seq(UNION {Grid(c, Int) : c \in Cases}) /\ PrintedRight
    /\ genPc \notin {"generating", "subtracting", "freed", "returned"} => k = 0 /\ out = <<>>
    /\ genPc = "freed" => k \in 0..Len(file) /\ Len(out) = k
    /\ genPc \in {"generating", "subtracting"} =>
          k \in 1..Len(file) /\ Len(out) = k - 1 /\ par = Stated(k) /\ AtPlace
    /\ genPc = "generating" => GeneratingInv
    /\ genPc = "subtracting" => SubtractingInv

\* What stays right while no file is opened and nothing is printed.
LEMMA PrintedKept ==
    ASSUME GenInv, UNCHANGED <<file, out>>
    PROVE  FileRight' /\ out' \in Seq(UNION {Grid(c, Int) : c \in Cases}) /\ PrintedRight'
<1>1. \A p : Stated(p)' = Stated(p)
  BY DEF Stated
<1> QED
  BY <1>1 DEF GenInv, FileRight, PrintedRight

\* The case that fill works on.
LEMMA CaseAtWork ==
    ASSUME GenInv, genPc \in {"generating", "subtracting"}
    PROVE  /\ par \in Cases /\ par = Stated(k) /\ AtPlace
           /\ par.M \in Nat \ {0} /\ par.N \in Nat \ {0} /\ par.M * par.N \in Nat \ {0}
           /\ Numbers(par) \in [0..(par.M * par.N) -> 0..Limit]
<1>1. k \in 1..Len(file) /\ par = Stated(k) /\ AtPlace /\ FileRight
  BY DEF GenInv
<1>2. k \in DOMAIN file /\ IsLine(file[k])
  BY <1>1 DEF FileRight
<1>3. par \in Cases
  BY <1>1, <1>2, ParseIsStated
<1> QED
  BY <1>1, <1>3, CaseFacts, NumbersEquation

\* The loops begin.
LoopAtStart == par \in Cases /\ i = 0 /\ j = 0
NothingPassed ==
    AtPlace /\ Done = 0 /\ \A r \in 0..(par.M - 1), q \in 0..(par.N - 1) : ~Passed(r, q)

LEMMA LoopStarts == LoopAtStart => NothingPassed
BY LoopBegins DEF LoopAtStart, NothingPassed

LEMMA LoopStartsNext == LoopAtStart' => NothingPassed'
BY LoopStarts, PTL

LEMMA GenInitially == GenInit => GenInv
<1> SUFFICES ASSUME GenInit
             PROVE  GenInv
  OBVIOUS
<1>1. file = <<>> /\ k = 0 /\ out = <<>> /\ genPc = "not begun"
  BY DEF GenInit
<1>2. FileRight
  <2>1. <<>> \in Seq([1..11 -> Nat \cup {Space}]) /\ DOMAIN <<>> = {}
    OBVIOUS
  <2> QED
    BY <1>1, <2>1, Zenon DEF FileRight
<1>3. out \in Seq(UNION {Grid(c, Int) : c \in Cases}) /\ PrintedRight
  <2>1. <<>> \in Seq(UNION {Grid(c, Int) : c \in Cases}) /\ DOMAIN <<>> = {}
    OBVIOUS
  <2> QED
    BY <1>1, <2>1, Zenon DEF PrintedRight
<1>4. genPc # "generating" /\ genPc # "subtracting" /\ genPc # "freed"
  BY <1>1, Zenon
<1> QED
  BY <1>1, <1>2, <1>3, <1>4, Zenon DEF GenInv

LEMMA OpenFileKeeps ==
    ASSUME GenInv, OpenFile
    PROVE  GenInv'
<1>1. genPc \notin {"generating", "subtracting", "freed", "returned"} /\ UNCHANGED <<k, out>>
  BY Zenon DEF OpenFile
<1>2. k' = 0 /\ out' = <<>>
  BY <1>1 DEF GenInv
<1>3. \/ file' \in Files /\ genPc' = "freed"
      \/ file' = file /\ genPc' = "returned"
  BY Zenon DEF OpenFile
<1>4. FileRight'
  <2>1. CASE file' \in Files
    BY <2>1, FileAssumption DEF FileRight
  <2>2. CASE file' = file
    BY <2>2 DEF GenInv, FileRight
  <2> QED
    BY <1>3, <2>1, <2>2
<1>5. out' \in Seq(UNION {Grid(c, Int) : c \in Cases}) /\ PrintedRight' /\ Len(out') = 0
  BY <1>2 DEF PrintedRight
<1>6. Len(file') \in Nat
  BY <1>4 DEF FileRight
<1> QED
  BY <1>2, <1>3, <1>4, <1>5, <1>6 DEF GenInv

LEMMA BeginCaseKeeps ==
    ASSUME GenInv, BeginCase
    PROVE  GenInv'
<1>1. /\ genPc = "freed" /\ k < Len(file) /\ k' = k + 1 /\ par' = parse(file[k + 1])
      /\ A' = [r \in 0..(par'.M - 1) |-> [c \in 0..(par'.N - 1) |-> Unwritten]]
      /\ i' = 0 /\ j' = 0 /\ sum' = 0 /\ seed' = par'.seed0
      /\ genPc' = "generating" /\ UNCHANGED <<file, mean, out>>
  BY DEF BeginCase
<1>2. FileRight' /\ out' \in Seq(UNION {Grid(c, Int) : c \in Cases}) /\ PrintedRight'
  BY <1>1, PrintedKept
<1>3. k \in 0..Len(file) /\ Len(out) = k /\ FileRight /\ Len(file) \in Nat
  BY <1>1 DEF GenInv, FileRight
<1>4. k + 1 \in 1..Len(file) /\ k + 1 \in DOMAIN file /\ (k + 1) - 1 = k
  BY <1>1, <1>3 DEF FileRight
<1>5. par' = Stated(k + 1) /\ par' \in Cases
  BY <1>1, <1>3, <1>4, ParseIsStated DEF FileRight
<1>6. Stated(k + 1) = Stated(k)'
  BY <1>1 DEF Stated
<1>7. NothingPassed'
  <2>1. LoopAtStart'
    BY <1>1, <1>5 DEF LoopAtStart
  <2> QED
    BY <2>1, LoopStartsNext
<1>8. Numbers(par')[0] = par'.seed0
  BY <1>5, NumbersEquation
<1>9. Partial(Numbers(par'), par'.M * par'.N)[0] = 0
  <2> DEFINE c == par'
             size == c.M * c.N
             x == Numbers(c)
  <2>1. x \in [0..size -> 0..Limit] /\ size \in Nat
    BY <1>5, NumbersEquation, CaseFacts
  <2> HIDE DEF x, size
  <2>2. \A e \in 1..size : x[e] \in Int
    BY <2>1, LimitAssumption
  <2>3. Partial(x, size)[0] = 0
    BY <2>1, <2>2, PartialEquation
  <2> QED
    BY <2>3 DEF x, size
<1>10. sum' \in Ints
  BY <1>1, LimitAssumption DEF Ints
<1>11. A' \in Grid(par, Int \cup {Unwritten})'
  BY <1>1 DEF Grid
<1>12. GeneratingInv'
  BY <1>1, <1>7, <1>8, <1>9, <1>10, <1>11 DEF GeneratingInv, NothingPassed
<1> QED
  BY <1>1, <1>2, <1>3, <1>4, <1>5, <1>6, <1>7, <1>12 DEF GenInv, NothingPassed

LEMMA GenerateKeeps ==
    ASSUME GenInv, Generate
    PROVE  GenInv'
<1> DEFINE size == par.M * par.N
           x == Numbers(par)
           s == Partial(x, size)
<1>1. /\ genPc = "generating" /\ i < par.M /\ seed' = PRNG(seed)
      /\ A' = WithElement(A, i, j, seed') /\ sum' = Wrap(sum + seed') /\ NextPlace
      /\ UNCHANGED <<genPc, file, k, par, mean, out>>
  BY DEF Generate, WithElement
<1>2. FileRight' /\ out' \in Seq(UNION {Grid(c, Int) : c \in Cases}) /\ PrintedRight'
  BY <1>1, PrintedKept
<1>3. /\ par \in Cases /\ par = Stated(k) /\ AtPlace /\ size \in Nat \ {0}
      /\ x \in [0..size -> 0..Limit] /\ par.m \in Nat \ {0}
  BY <1>1, CaseAtWork, CaseFacts
<1>4. GeneratingInv
  BY <1>1 DEF GenInv
<1>5. /\ i \in 0..(par.M - 1) /\ j \in 0..(par.N - 1)
      /\ AtPlace' /\ Done' = Done + 1 /\ Done \in 0..(size - 1)
      /\ \A r \in 0..(par.M - 1), q \in 0..(par.N - 1) :
            Passed(r, q)' <=> Passed(r, q) \/ (r = i /\ q = j)
  BY <1>1, <1>3, LoopGoesOn
<1>6. \A e \in 0..(size - 1) : x[e + 1] = (par.a * x[e] + par.b) % par.m /\ x[e + 1] \in 0..(par.m - 1)
  BY <1>3, NumbersEquation
<1> HIDE DEF x, size
<1>7. seed' = x[Done + 1] /\ x[Done + 1] \in 0..(par.m - 1) /\ seed' \in Int
  <2>1. seed = x[Done] /\ x[Done] \in 0..Limit
    BY <1>3, <1>4, <1>5 DEF GeneratingInv, x
  <2>2. x[Done + 1] = (par.a * x[Done] + par.b) % par.m /\ x[Done + 1] \in 0..(par.m - 1)
    BY <1>5, <1>6
  <2>3. PRNG(seed) = (par.a * seed + par.b) % par.m
    BY <1>3, <2>1, NextNumber
  <2>4. 0..(par.m - 1) \subseteq Int
    BY <1>3
  <2> QED
    BY <1>1, <2>1, <2>2, <2>3, <2>4
<1>8. sum \in Int /\ sum + seed' \in Int
  BY <1>4, <1>7, LimitAssumption DEF GeneratingInv, Ints
<1>9. sum' \in Ints
  BY <1>1, <1>8, Wrapped
<1>10. ASSUME Fits(par)
       PROVE  sum' = s[Done + 1]
  <2> DEFINE t == par.m - 1
  <2>1. t \in Nat /\ size * t <= IntMax
    BY <1>3, <1>10 DEF Fits, size
  <2>2. \A e \in 1..size : x[e] \in 0..t /\ x[e] \in Int
    <3> SUFFICES ASSUME NEW e \in 1..size
                 PROVE  x[e] \in 0..t /\ x[e] \in Int
      OBVIOUS
    <3>1. e - 1 \in 0..(size - 1) /\ (e - 1) + 1 = e
      BY <1>3
    <3>2. x[(e - 1) + 1] \in 0..t
      BY <1>6, <3>1
    <3> QED
      BY <2>1, <3>1, <3>2
  <2>3. sum = s[Done]
    BY <1>4, <1>10 DEF GeneratingInv, s, x, size
  <2> HIDE DEF t
  <2>4. s[Done + 1] = s[Done] + x[Done + 1]
    BY <1>3, <1>5, <2>2, PartialEquation DEF s
  <2>5. Done + 1 \in 0..size
    BY <1>3, <1>5
  <2>6. s[Done + 1] \in 0..((Done + 1) * t)
    BY <1>3, <2>1, <2>2, <2>5, PartialBounds DEF s
  <2>7. (Done + 1) * t <= size * t
    <3> DEFINE d == Done + 1
    <3>1. d \in 0..size /\ size \in Nat
      BY <1>3, <2>5
    <3> HIDE DEF d
    <3>2. (size - d) * t >= 0
      BY <2>1, <3>1
    <3>3. (size - d) * t = size * t - d * t /\ size * t \in Int /\ d * t \in Int
      BY <2>1, <3>1
    <3>4. d * t <= size * t
      BY <3>2, <3>3
    <3> QED
      BY <3>4 DEF d
  <2>8. s[Done + 1] \in Ints
    <3>1. (Done + 1) * t \in Int /\ size * t \in Int
      BY <1>3, <2>1, <2>5
    <3> HIDE DEF s
    <3> QED
      BY <2>1, <2>6, <2>7, <3>1, LimitAssumption DEF Ints
  <2>9. sum + seed' = s[Done + 1]
    BY <1>7, <2>3, <2>4
  <2> QED
    BY <1>1, <1>8, <2>8, <2>9, Wrapped
<1>11. /\ A' \in Grid(par, Int \cup {Unwritten})
       /\ \A r \in 0..(par.M - 1), q \in 0..(par.N - 1) :
             A'[r][q] = IF r = i /\ q = j THEN seed' ELSE A[r][q]
  <2> DEFINE T == Int \cup {Unwritten}
             y == seed'
  <2>1. A \in Grid(par, T) /\ y \in T /\ i \in 0..(par.M - 1) /\ j \in 0..(par.N - 1)
    BY <1>4, <1>5, <1>7 DEF GeneratingInv
  <2> HIDE DEF T, y
  <2>2. /\ WithElement(A, i, j, y) \in Grid(par, T)
        /\ \A r \in 0..(par.M - 1), q \in 0..(par.N - 1) :
              WithElement(A, i, j, y)[r][q] = IF r = i /\ q = j THEN y ELSE A[r][q]
    BY <2>1, ElementSet
  <2> QED
    BY <1>1, <2>2 DEF T, y
<1>12. ASSUME NEW r \in 0..(par.M - 1), NEW q \in 0..(par.N - 1), Passed(r, q)'
       PROVE  A'[r][q] = x[r * par.N + q + 1]
  <2>1. CASE r = i /\ q = j
    BY <1>7, <1>11, <2>1 DEF Done
  <2>2. CASE ~(r = i /\ q = j)
    BY <1>4, <1>5, <1>11, <1>12, <2>2 DEF GeneratingInv, x
  <2> QED
    BY <2>1, <2>2
<1>13. GeneratingInv'
  BY <1>1, <1>5, <1>7, <1>9, <1>10, <1>11, <1>12 DEF GeneratingInv, s, x, size
<1>14. k \in 1..Len(file) /\ Len(out) = k - 1 /\ Stated(k)' = Stated(k)
  BY <1>1 DEF GenInv, Stated
<1> QED
  BY <1>1, <1>2, <1>3, <1>5, <1>13, <1>14 DEF GenInv

LEMMA TakeMeanKeeps ==
    ASSUME GenInv, TakeMean
    PROVE  GenInv'
<1> DEFINE size == par.M * par.N
           x == Numbers(par)
           total == Partial(x, size)[size]
<1>1. /\ genPc = "generating" /\ i = par.M /\ i' = 0 /\ j' = 0 /\ genPc' = "subtracting"
      /\ UNCHANGED <<file, k, par, A, seed, sum, out>>
  BY DEF TakeMean
<1>2. FileRight' /\ out' \in Seq(UNION {Grid(c, Int) : c \in Cases}) /\ PrintedRight'
  BY <1>1, PrintedKept
<1>3. /\ par \in Cases /\ par = Stated(k) /\ AtPlace /\ size \in Nat \ {0}
      /\ par.M \in Nat \ {0} /\ par.N \in Nat \ {0}
      /\ x \in [0..size -> 0..Limit] /\ par.m \in Nat \ {0} /\ par.m \in 1..Limit
  BY <1>1, CaseAtWork, CaseFacts
<1>4. GeneratingInv
  BY <1>1 DEF GenInv
<1>5. Done = size /\ \A r \in 0..(par.M - 1), q \in 0..(par.N - 1) : Passed(r, q)
  BY <1>1, <1>3, LoopEnds
<1>6. NothingPassed'
  <2>1. LoopAtStart'
    BY <1>1, <1>3 DEF LoopAtStart
  <2> QED
    BY <2>1, LoopStartsNext
<1> DEFINE abs == IF sum < 0 THEN -sum ELSE sum
           HasMean(q) == mean' = Truncate(2 * (IF sum < 0 THEN -q[1] ELSE q[1]) + q[2], 2 * q[2])
<1>7. PICK s \in Floats(abs, 1), y \in Floats(size, 1) :
         \E q \in Floats(s[1] * y[2], s[2] * y[1]) : HasMean(q)
  BY DEF TakeMean
<1>8. PICK f \in Floats(s[1] * y[2], s[2] * y[1]) : HasMean(f)
  BY <1>7
<1> HIDE DEF x, size
<1>9. \A e \in 0..size : x[e] \in Nat
  BY <1>3, LimitAssumption
<1>10. Fits(par) => sum = total /\ total >= 0 /\ total <= size * Limit
  <2>1. \A e \in 1..size : x[e] \in 0..Limit
    BY <1>3
  <2>2. size \in 0..size /\ Limit \in Nat
    BY <1>3, LimitAssumption
  <2>3. total \in 0..(size * Limit)
    BY <1>3, <2>1, <2>2, PartialBounds
  <2>4. Fits(par) => sum = total
    BY <1>4, <1>5 DEF GeneratingInv, x, size
  <2> HIDE DEF total
  <2> QED
    BY <2>3, <2>4
<1>11. size <= 2 => sum >= 0 /\ sum <= size * Limit
  <2>1. SUFFICES ASSUME size <= 2
                 PROVE  Fits(par)
    BY <1>10
  <2>2. 2 * Limit <= IntMax
    <3>1. Limit * Limit \in Nat /\ Limit * Limit >= Limit
      BY LimitAssumption
    <3> QED
      BY <3>1, LimitAssumption
  <2>3. size * (par.m - 1) <= 2 * (par.m - 1) /\ size * (par.m - 1) \in Nat
    BY <1>3, <2>1, LimitAssumption
  <2>4. size * (par.m - 1) <= IntMax
    BY <1>3, <2>2, <2>3, LimitAssumption
  <2> QED
    BY <2>4 DEF Fits, size
<1>12. mean' \in Means /\ (sum >= 0 => MeanIsNear(size, sum, mean'))
  <2>1. sum \in Ints /\ sum \in Int
    BY <1>4, LimitAssumption DEF GeneratingInv, Ints
  <2>2. size = 1 => sum <= Limit
    BY <1>11, LimitAssumption
  <2>3. abs \in Nat
    BY <2>1
  <2> HIDE DEF abs
  <2>4. /\ f[1] \in Nat /\ f[2] \in Nat \ {0}
        /\ 2^Mantissa * (f[1] * size) <= (2^Mantissa + 4) * (abs * f[2])
        /\ 2^Mantissa * (abs * f[2]) <= 2^Mantissa * (f[1] * size) + 4 * (abs * f[2])
    BY <1>3, <1>8, <2>3, QuotientIsNear
  <2>5. abs = IF sum < 0 THEN -sum ELSE sum
    BY DEF abs
  <2> QED
    BY <1>3, <1>8, <1>11, <2>1, <2>2, <2>3, <2>4, <2>5, MeanFacts
<1>13. Fits(par) => MeanIsNear(size, total, mean')
  <2> HIDE DEF total
  <2> QED
    BY <1>10, <1>12
<1>14. ASSUME NEW r \in 0..(par.M - 1), NEW q \in 0..(par.N - 1)
       PROVE  A[r][q] = x[r * par.N + q + 1] /\ A[r][q] \in Int /\ A[r][q] = x[r * par.N + q + 1] - 0
  <2>1. A[r][q] = x[r * par.N + q + 1]
    BY <1>4, <1>5 DEF GeneratingInv, x
  <2>2. r * par.N + q \in 0..(size - 1)
    BY <1>3, PlaceOf DEF size
  <2>3. r * par.N + q + 1 \in 0..size
    <3> DEFINE z == r * par.N + q
    <3>1. z \in 0..(size - 1) /\ size \in Nat
      BY <1>3, <2>2
    <3> HIDE DEF z
    <3>2. z + 1 \in 0..size
      BY <3>1
    <3> QED
      BY <3>2 DEF z
  <2>4. x[r * par.N + q + 1] \in Nat
    BY <1>9, <2>3
  <2> QED
    BY <2>1, <2>4
<1>15. A \in Grid(par, Int)
  <2> DEFINE R == 0..(par.M - 1)
             C == 0..(par.N - 1)
  <2>1. A \in [R -> [C -> Int \cup {Unwritten}]]
    BY <1>4 DEF GeneratingInv, Grid
  <2>2. \A r \in R, q \in C : A[r][q] \in Int
    BY <1>14
  <2> HIDE DEF R, C
  <2>3. \A r \in R : A[r] \in [C -> Int]
    BY <2>1, <2>2
  <2>4. A \in [R -> [C -> Int]]
    BY <2>1, <2>3
  <2> QED
    BY <2>4 DEF Grid, R, C
<1>16. \A r \in 0..(par.M - 1), q \in 0..(par.N - 1) :
          A'[r][q] = x[r * par.N + q + 1] - (IF Passed(r, q)' THEN mean' ELSE 0)
  BY <1>1, <1>6, <1>14 DEF NothingPassed
<1>17. SubtractingInv'
  BY <1>1, <1>12, <1>13, <1>15, <1>16 DEF SubtractingInv, x, size
<1>18. k \in 1..Len(file) /\ Len(out) = k - 1 /\ Stated(k)' = Stated(k)
  BY <1>1 DEF GenInv, Stated
<1> QED
  BY <1>1, <1>2, <1>3, <1>6, <1>17, <1>18 DEF GenInv, NothingPassed

LEMMA SubtractKeeps ==
    ASSUME GenInv, Subtract
    PROVE  GenInv'
<1> DEFINE size == par.M * par.N
           x == Numbers(par)
           y == Wrap(A[i][j] - mean)
<1>1. /\ genPc = "subtracting" /\ i < par.M /\ A' = WithElement(A, i, j, y) /\ NextPlace
      /\ UNCHANGED <<genPc, file, k, par, seed, sum, mean, out>>
  BY DEF Subtract, WithElement
<1>2. FileRight' /\ out' \in Seq(UNION {Grid(c, Int) : c \in Cases}) /\ PrintedRight'
  BY <1>1, PrintedKept
<1>3. /\ par \in Cases /\ par = Stated(k) /\ AtPlace /\ size \in Nat \ {0} /\ par.m \in 1..Limit
  BY <1>1, CaseAtWork, CaseFacts
<1>4. SubtractingInv
  BY <1>1 DEF GenInv
<1>5. /\ i \in 0..(par.M - 1) /\ j \in 0..(par.N - 1)
      /\ AtPlace' /\ Done \in 0..(size - 1)
      /\ \A r \in 0..(par.M - 1), q \in 0..(par.N - 1) :
            Passed(r, q)' <=> Passed(r, q) \/ (r = i /\ q = j)
  BY <1>1, <1>3, LoopGoesOn
<1>6. x[Done + 1] \in 0..(par.m - 1)
  BY <1>3, <1>5, NumbersEquation
<1>7. ~Passed(i, j)
  BY <1>3, <1>5 DEF Passed, AtPlace
<1> HIDE DEF x, size
<1>8. A[i][j] = x[Done + 1]
  <2>1. A[i][j] = x[i * par.N + j + 1] - 0
    BY <1>4, <1>5, <1>7 DEF SubtractingInv, x
  <2> QED
    BY <1>6, <2>1 DEF Done
<1>9. mean \in Means /\ mean \in Int
  BY <1>4, LimitAssumption DEF SubtractingInv, Means
<1>10. y = x[Done + 1] - mean /\ y \in Int
  <2> DEFINE z == x[Done + 1]
  <2>1. z \in 0..(Limit - 1) /\ Limit \in Nat
    BY <1>3, <1>6, LimitAssumption
  <2> HIDE DEF z
  <2>2. z - mean \in Ints /\ z - mean \in Int
    BY <1>9, <2>1, LimitAssumption DEF Means, Ints
  <2>3. Wrap(z - mean) = z - mean
    BY <2>2, Wrapped
  <2>4. A[i][j] = z
    BY <1>8 DEF z
  <2> QED
    BY <2>2, <2>3, <2>4 DEF z
<1> HIDE DEF y
<1>11. /\ A' \in Grid(par, Int)
       /\ \A r \in 0..(par.M - 1), q \in 0..(par.N - 1) :
             A'[r][q] = IF r = i /\ q = j THEN y ELSE A[r][q]
  <2>1. A \in Grid(par, Int) /\ y \in Int /\ i \in 0..(par.M - 1) /\ j \in 0..(par.N - 1)
    BY <1>4, <1>5, <1>10 DEF SubtractingInv
  <2>2. /\ WithElement(A, i, j, y) \in Grid(par, Int)
        /\ \A r \in 0..(par.M - 1), q \in 0..(par.N - 1) :
              WithElement(A, i, j, y)[r][q] = IF r = i /\ q = j THEN y ELSE A[r][q]
    <3> DEFINE T == Int
    <3>1. A \in Grid(par, T) /\ y \in T /\ i \in 0..(par.M - 1) /\ j \in 0..(par.N - 1)
      BY <2>1
    <3> HIDE DEF T
    <3>2. /\ WithElement(A, i, j, y) \in Grid(par, T)
          /\ \A r \in 0..(par.M - 1), q \in 0..(par.N - 1) :
                WithElement(A, i, j, y)[r][q] = IF r = i /\ q = j THEN y ELSE A[r][q]
      BY <3>1, ElementSet
    <3> QED
      BY <3>2 DEF T
  <2> QED
    BY <1>1, <2>2
<1>12. ASSUME NEW r \in 0..(par.M - 1), NEW q \in 0..(par.N - 1)
       PROVE  A'[r][q] = x[r * par.N + q + 1] - (IF Passed(r, q)' THEN mean ELSE 0)
  <2>1. CASE r = i /\ q = j
    BY <1>5, <1>10, <1>11, <2>1 DEF Done
  <2>2. CASE ~(r = i /\ q = j)
    BY <1>4, <1>5, <1>11, <2>2 DEF SubtractingInv, x
  <2> QED
    BY <2>1, <2>2
<1>13. SubtractingInv'
  BY <1>1, <1>4, <1>11, <1>12 DEF SubtractingInv, x, size
<1>14. k \in 1..Len(file) /\ Len(out) = k - 1 /\ Stated(k)' = Stated(k)
  BY <1>1 DEF GenInv, Stated
<1> QED
  BY <1>1, <1>2, <1>3, <1>5, <1>13, <1>14 DEF GenInv

LEMMA PrintAndFreeKeeps ==
    ASSUME GenInv, PrintAndFree
    PROVE  GenInv'
<1> DEFINE Printed == UNION {Grid(c, Int) : c \in Cases}
<1>1. /\ genPc = "subtracting" /\ i = par.M /\ out' = Append(out, A) /\ genPc' = "freed"
      /\ UNCHANGED <<file, k, par, i, j, seed, sum, mean>>
  BY DEF PrintAndFree
<1>2. /\ par \in Cases /\ par = Stated(k) /\ AtPlace /\ FileRight
      /\ out \in Seq(Printed) /\ PrintedRight /\ SubtractingInv
      /\ k \in 1..Len(file) /\ Len(out) = k - 1
  BY <1>1, CaseAtWork DEF GenInv
<1>3. \A r \in 0..(par.M - 1), q \in 0..(par.N - 1) : Passed(r, q)
  BY <1>1, <1>2, LoopEnds
<1>4. \A r \in 0..(par.M - 1), q \in 0..(par.N - 1) :
          A[r][q] = Numbers(par)[r * par.N + q + 1] - mean
  BY <1>2, <1>3 DEF SubtractingInv
<1>5. A \in Grid(par, Int) /\ mean \in Int
  BY <1>2, LimitAssumption DEF SubtractingInv, Means
<1>6. MatrixRight(par, A)
  BY <1>2, <1>4, <1>5, MatrixIsRight DEF SubtractingInv
<1>7. A \in Printed
  BY <1>2, <1>5
<1> HIDE DEF Printed
<1>8. /\ out' \in Seq(Printed) /\ Len(out') = Len(out) + 1
      /\ out'[Len(out) + 1] = A /\ \A p \in 1..Len(out) : out'[p] = out[p]
  BY <1>1, <1>2, <1>7, AppendProperties
<1>9. \A p : Stated(p)' = Stated(p)
  BY <1>1 DEF Stated
<1>10. PrintedRight'
  <2> SUFFICES ASSUME NEW p \in DOMAIN out'
               PROVE  MatrixRight(Stated(p), out'[p])
    BY <1>9 DEF PrintedRight
  <2>1. Len(out) \in Nat /\ Len(out) + 1 = k
    BY <1>2, LenProperties
  <2>2. DOMAIN out' = 1..(Len(out) + 1) /\ DOMAIN out = 1..Len(out)
    BY <1>2, <1>8, LenProperties
  <2>3. CASE p = k
    BY <1>2, <1>6, <1>8, <2>1, <2>3
  <2>4. CASE p \in 1..Len(out)
    BY <1>2, <1>8, <2>2, <2>4 DEF PrintedRight
  <2> QED
    BY <2>1, <2>2, <2>3, <2>4
<1>11. FileRight' /\ k \in 0..Len(file) /\ Len(out') = k
  BY <1>1, <1>2, <1>8, LenProperties DEF FileRight
<1> QED
  BY <1>1, <1>8, <1>10, <1>11 DEF GenInv, Printed

\* The end of main.
LEMMA GenEndKeeps ==
    ASSUME GenInv, ReturnFromMain \/ UNCHANGED genVars
    PROVE  GenInv'
<1>1. UNCHANGED <<file, k, par, A, i, j, seed, sum, mean, out>>
  BY DEF ReturnFromMain, genVars
<1>2. FileRight' /\ out' \in Seq(UNION {Grid(c, Int) : c \in Cases}) /\ PrintedRight'
  BY <1>1, PrintedKept
<1>3. CASE ReturnFromMain
  BY <1>2, <1>3 DEF GenInv, ReturnFromMain
<1>4. CASE UNCHANGED genVars
  <2>1. genPc' = genPc
    BY <1>4 DEF genVars
  <2>2. /\ Stated(k)' = Stated(k) /\ Done' = Done /\ (AtPlace' <=> AtPlace)
        /\ \A r, q : Passed(r, q)' <=> Passed(r, q)
    BY <1>1 DEF Stated, Done, AtPlace, Passed
  <2>3. GeneratingInv' <=> GeneratingInv
    BY <1>1, <2>2 DEF GeneratingInv
  <2>4. SubtractingInv' <=> SubtractingInv
    BY <1>1, <2>2 DEF SubtractingInv
  <2> QED
    BY <1>1, <1>2, <2>1, <2>2, <2>3, <2>4 DEF GenInv
<1> QED
  BY <1>3, <1>4

\* The loops of fill keep what the elements so far are, and what has been printed
\* is right (main.cc and addons.cc).
THEOREM GenInvariance == GenSpec => []GenInv
<1>1. GenInv /\ [GenNext \/ GenFinished]_genVars => GenInv'
  BY OpenFileKeeps, BeginCaseKeeps, GenerateKeeps, TakeMeanKeeps, SubtractKeeps,
     PrintAndFreeKeeps, GenEndKeeps DEF GenNext, GenFinished
<1> QED
  BY <1>1, GenInitially, PTL DEF GenSpec

\* For every file within the limits and every width of an int that holds the
\* product of two parameters, and every mantissa of at least three bits, the matrices
\* printed are those of the cases, and where the sum is an int the mean is off by one
\* half and what its floats lose.
THEOREM GeneratorIsRight == GenSpec => []GeneratedRight
<1>1. GenInv => GeneratedRight
  BY DEF GenInv, PrintedRight, MatrixRight, GeneratedRight
<1> QED
  BY <1>1, GenInvariance, PTL
=============================================================================
