------------------------------ MODULE LeafNode ------------------------------
(***************************************************************************)
(* DataLeafNode of bit_masking.cc: DIM x DIM x DIM voxels, of each a value *)
(* in data_buffer and a bit in mask_bit_buffer that says whether it is     *)
(* active.  A cell of the mask is the set of its bits that are 1.          *)
(***************************************************************************)
EXTENDS Integers, Sequences

CONSTANTS
    DIM,        \* 8 in the code, where Log2Dim = 3 and a Cell has 8 bits
    CellBits,
    Values,     \* what a voxel may hold
    Zero,       \* T(0)
    None        \* of a voxel that was never activated

ASSUME DimAssumption == DIM \in Nat \ {0} /\ CellBits \in Nat /\ DIM <= CellBits
ASSUME ValueAssumption == Zero \in Values /\ None \notin Values

Side == 0..(DIM - 1)
Voxels == Side \X Side \X Side
Cells == 0..(DIM * DIM - 1)
Offsets == 0..(DIM * DIM * DIM - 1)

VARIABLES
    leafPc,             \* what the owner of the leaf is doing with it
    mask_bit_buffer,
    data_buffer,
    cell, bit,          \* the two loops of traverse
    whole_mask_ptr,
    offsets,            \* what traverse has collected
    active              \* the value every voxel was last given: nothing reads it
leafVars == <<leafPc, mask_bit_buffer, data_buffer, cell, bit, whole_mask_ptr, offsets, active>>

\* x << 2 * Log2Dim, y << Log2Dim and z, where x, y and z are below DIM.
toOffset(v) == (v[1] % DIM) * (DIM * DIM) + (v[2] % DIM) * DIM + (v[3] % DIM)

\* A voxel from an offset, as the shifts and masks of fromOffset take it apart.
fromOffset(o) == <<o \div (DIM * DIM), (o % (DIM * DIM)) \div DIM, (o % (DIM * DIM)) % DIM>>

LeafInit ==
    /\ leafPc = "no leaf"
    /\ mask_bit_buffer = [c \in Cells |-> {}]
    /\ data_buffer = [o \in Offsets |-> Zero]
    /\ cell = 0 /\ bit = 0 /\ whole_mask_ptr = 0
    /\ offsets = <<>>
    /\ active = [v \in Voxels |-> None]

\* The constructor: both buffers are zero.
Construct ==
    /\ leafPc = "no leaf"
    /\ leafPc' = "ready"
    /\ mask_bit_buffer' = [c \in Cells |-> {}]
    /\ data_buffer' = [o \in Offsets |-> Zero]
    /\ active' = [v \in Voxels |-> None]
    /\ UNCHANGED <<cell, bit, whole_mask_ptr, offsets>>

\* The cell is overwritten: its other bits are lost.
ClearsItsNeighbours(v, val) ==
    /\ leafPc = "ready"
    /\ mask_bit_buffer' = [mask_bit_buffer EXCEPT ![toOffset(v) \div DIM] = {toOffset(v) % DIM}]
    /\ data_buffer' = [data_buffer EXCEPT ![toOffset(v)] = val]
    /\ active' = [active EXCEPT ![v] = val]
    /\ UNCHANGED <<leafPc, cell, bit, whole_mask_ptr, offsets>>
\* A bit beyond the width of a cell would be lost.
setActive(v, val) ==
    LET offset == toOffset(v)
        index == offset \div DIM
        shift == offset - index * DIM
    IN  /\ leafPc = "ready"
        /\ mask_bit_buffer' = [mask_bit_buffer EXCEPT
                                 ![index] = @ \cup ({shift} \cap 0..(CellBits - 1))]
        /\ data_buffer' = [data_buffer EXCEPT ![offset] = val]
        /\ active' = [active EXCEPT ![v] = val]
        /\ UNCHANGED <<leafPc, cell, bit, whole_mask_ptr, offsets>>

traverse ==
    /\ leafPc = "ready"
    /\ leafPc' = "traversing"
    /\ cell' = 0 /\ bit' = 0 /\ whole_mask_ptr' = 0 /\ offsets' = <<>>
    /\ UNCHANGED <<mask_bit_buffer, data_buffer, active>>

\* A turn of the inner loop, for a bit of a cell.
TraverseBit ==
    /\ leafPc = "traversing" /\ cell \in Cells
    /\ offsets' = IF bit \in mask_bit_buffer[cell]
                    THEN Append(offsets, whole_mask_ptr) ELSE offsets
    /\ whole_mask_ptr' = whole_mask_ptr + 1
    /\ IF bit + 1 < DIM THEN bit' = bit + 1 /\ cell' = cell
       ELSE bit' = 0 /\ cell' = cell + 1
    /\ UNCHANGED <<leafPc, mask_bit_buffer, data_buffer, active>>

TraverseEnds ==
    /\ leafPc = "traversing" /\ cell \notin Cells
    /\ leafPc' = "listed"
    /\ UNCHANGED <<mask_bit_buffer, data_buffer, cell, bit, whole_mask_ptr, offsets, active>>

\* traverse returns, and its list is gone.
TraverseReturns ==
    /\ leafPc = "listed"
    /\ leafPc' = "ready"
    /\ cell' = 0 /\ bit' = 0 /\ whole_mask_ptr' = 0 /\ offsets' = <<>>
    /\ UNCHANGED <<mask_bit_buffer, data_buffer, active>>

LeafNext ==
    \/ Construct
    \/ \E v \in Voxels, val \in Values : setActive(v, val)
    \/ traverse \/ TraverseBit \/ TraverseEnds \/ TraverseReturns

LeafSpec == LeafInit /\ [][LeafNext]_leafVars
-----------------------------------------------------------------------------
Activated == {v \in Voxels : active[v] # None}

LeafTypeOK ==
    /\ leafPc \in {"no leaf", "ready", "traversing", "listed"}
    /\ mask_bit_buffer \in [Cells -> SUBSET Side]
    /\ data_buffer \in [Offsets -> Values]
    /\ cell \in 0..(DIM * DIM) /\ bit \in Side
    /\ whole_mask_ptr \in Nat
    /\ offsets \in Seq(Offsets)
    /\ active \in [Voxels -> Values \cup {None}]

\* What traverse lists: the offsets of the voxels that were activated, of all of
\* them and of no other, once each and in ascending order; each of them leads
\* back to its voxel and to the value that voxel was given last.
TraverseExact ==
    leafPc = "listed" =>
        /\ \A m, n \in DOMAIN offsets : m < n => offsets[m] < offsets[n]
        /\ \A o \in Offsets :
             (\E n \in DOMAIN offsets : offsets[n] = o) <=> fromOffset(o) \in Activated
        /\ \A n \in DOMAIN offsets : data_buffer[offsets[n]] = active[fromOffset(offsets[n])]
=============================================================================
