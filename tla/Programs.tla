------------------------------ MODULE Programs ------------------------------
(***************************************************************************)
(* The programs of the repository that run by themselves and share nothing *)
(* with each other, all of them written to be started once.  A behaviour   *)
(* runs one of them; the others have not begun.                            *)
(***************************************************************************)
EXTENDS Kaleidoscope, LeafNode, MatrixGenerator, SumMatrix, Reciprocal, ParallelProduct,
        Pouring

VARIABLE program    \* the one that was started
programVars == <<program, parserVars, leafVars, genVars, sumVars, recVars, mulVars, pourVars>>

Init ==
    /\ program \in {"mem-cpu-deep", "bit_masking", "intel-competition-2010",
                    "ch1", "book", "matmul", "W7"}
    /\ ParserInit /\ LeafInit /\ GenInit /\ SumInit /\ RecInit /\ MulInit /\ PourInit

RunParser ==
    /\ program = "mem-cpu-deep"
    /\ ParserNext \/ ParserFinished
    /\ UNCHANGED <<program, leafVars, genVars, sumVars, recVars, mulVars, pourVars>>

RunLeaf ==
    /\ program = "bit_masking"
    /\ LeafNext
    /\ UNCHANGED <<program, parserVars, genVars, sumVars, recVars, mulVars, pourVars>>

RunGenerator ==
    /\ program = "intel-competition-2010"
    /\ GenNext \/ GenFinished
    /\ UNCHANGED <<program, parserVars, leafVars, sumVars, recVars, mulVars, pourVars>>

RunSumMatrix ==
    /\ program = "ch1"
    /\ SumNext \/ SumFinished
    /\ UNCHANGED <<program, parserVars, leafVars, genVars, recPc, arrays, mulVars, pourVars>>

RunReciprocal ==
    /\ program = "book"
    /\ RecNext \/ RecFinished
    /\ UNCHANGED <<program, parserVars, leafVars, genVars, sumPc, hostVars, mulVars, pourVars>>

RunProduct ==
    /\ program = "matmul"
    /\ MulNext \/ MulFinished
    /\ UNCHANGED <<program, parserVars, leafVars, genVars, sumVars, recVars, pourVars>>

RunPouring ==
    /\ program = "W7"
    /\ PourNext \/ PourFinished
    /\ UNCHANGED <<program, parserVars, leafVars, genVars, sumVars, recVars, mulVars>>

Next == RunParser \/ RunLeaf \/ RunGenerator \/ RunSumMatrix \/ RunReciprocal \/ RunProduct
        \/ RunPouring

Spec == Init /\ [][Next]_programVars
=============================================================================
