-------------------------- MODULE ParallelProduct ---------------------------
(***************************************************************************)
(* omp/omp/mat_mult/matmul.c: the product of two matrices, first by three  *)
(* loops and then by a team of threads that share out the rows; i, j, k    *)
(* and temp are private to a thread.  Which thread takes which row is      *)
(* OpenMP's choice.                                                        *)
(***************************************************************************)
EXTENDS Integers

CONSTANTS
    Threads,
    n,          \* 100 to 2000 in the code
    Factors,    \* what rand() % n may put into a matrix
    MaxInt,     \* the largest int
    Unset       \* a place that malloc has returned, and a private copy at first

Rows == 0..(n - 1)

ASSUME ProductAssumption ==
    n \in Nat \ {0} /\ MaxInt \in Nat /\ Factors \subseteq [Rows -> [Rows -> Rows]]

VARIABLES
    mulPc,              \* what main is doing
    arr1, arr2, arr3,
    serial,             \* arr3 as the loops without OpenMP have left it
    rows,               \* the rows that no thread has taken
    at,                 \* where every thread is in its row
    private             \* its i, j, k and temp
mulVars == <<mulPc, arr1, arr2, arr3, serial, rows, at, private>>
matrices == <<arr1, arr2, arr3, serial>>

Empty == [r \in Rows |-> [c \in Rows |-> Unset]]

\* What the conversion of a double to an int does on x86.
ToInt(d) == IF d <= MaxInt THEN d ELSE -MaxInt - 1

\* What the innermost loop has collected in temp after every number of turns.
Sums(r, c) ==
    LET s[m \in 0..n] == IF m = 0 THEN 0 ELSE s[m - 1] + arr1[r][m - 1] * arr2[m - 1][c]
    IN  s
Dot(r, c) == Sums(r, c)[n]

MulInit ==
    /\ mulPc = "start"
    /\ arr1 = Empty /\ arr2 = Empty /\ arr3 = Empty /\ serial = Empty
    /\ rows = Rows
    /\ at = [t \in Threads |-> "waiting"]
    /\ private = [t \in Threads |-> [i |-> Unset, j |-> Unset, k |-> Unset, temp |-> Unset]]

Populate ==
    /\ mulPc = "start" /\ mulPc' = "serial"
    /\ arr1' \in Factors /\ arr2' \in Factors
    /\ UNCHANGED <<arr3, serial, rows, at, private>>

SerialLoops ==
    /\ mulPc = "serial" /\ mulPc' = "parallel"
    /\ arr3' = [r \in Rows |-> [c \in Rows |-> ToInt(Dot(r, c))]]
    /\ serial' = arr3'
    /\ UNCHANGED <<arr1, arr2, rows, at, private>>

\* The one temp of all threads, if it were not in the private clause.
SharedTemp(t) == CHOOSE u \in Threads : TRUE
\* The thread whose temp a thread uses.
OwnTemp(t) == t

TakeRow(t, r) ==
    /\ mulPc = "parallel" /\ at[t] = "waiting" /\ r \in rows
    /\ rows' = rows \ {r}
    /\ private' = [private EXCEPT ![t].i = r, ![t].j = 0]
    /\ at' = [at EXCEPT ![t] = "column"]
    /\ UNCHANGED <<mulPc, matrices>>

BeginColumn(t) ==
    /\ at[t] = "column" /\ private[t].j < n
    /\ private' = [private EXCEPT ![t].k = 0, ![OwnTemp(t)].temp = 0]
    /\ at' = [at EXCEPT ![t] = "adding"]
    /\ UNCHANGED <<mulPc, matrices, rows>>

AddProduct(t) ==
    LET p == private[t]
    IN  /\ at[t] = "adding" /\ p.k < n
        /\ private' = [private EXCEPT ![t].k = @ + 1,
                         ![OwnTemp(t)].temp = @ + arr1[p.i][p.k] * arr2[p.k][p.j]]
        /\ UNCHANGED <<mulPc, matrices, rows, at>>

StoreElement(t) ==
    LET p == private[t]
    IN  /\ at[t] = "adding" /\ p.k = n
        /\ arr3' = [arr3 EXCEPT ![p.i][p.j] = ToInt(private[OwnTemp(t)].temp)]
        /\ private' = [private EXCEPT ![t].j = @ + 1]
        /\ at' = [at EXCEPT ![t] = "column"]
        /\ UNCHANGED <<mulPc, arr1, arr2, serial, rows>>

EndRow(t) ==
    /\ at[t] = "column" /\ private[t].j = n
    /\ at' = [at EXCEPT ![t] = "waiting"]
    /\ UNCHANGED <<mulPc, matrices, rows, private>>

\* The barrier at the end of the loop.
Join ==
    /\ mulPc = "parallel" /\ mulPc' = "returned"
    /\ rows = {} /\ \A t \in Threads : at[t] = "waiting"
    /\ UNCHANGED <<matrices, rows, at, private>>

MulNext ==
    \/ Populate \/ SerialLoops \/ Join
    \/ \E t \in Threads :
         \/ \E r \in Rows : TakeRow(t, r)
         \/ BeginColumn(t) \/ AddProduct(t) \/ StoreElement(t) \/ EndRow(t)
MulFinished == mulPc = "returned" /\ UNCHANGED mulVars

MulSpec == MulInit /\ [][MulNext \/ MulFinished]_mulVars
-----------------------------------------------------------------------------
\* The team leaves the product that the three loops have left, whichever thread
\* took which row and however their turns were interleaved; and an element is
\* the element of the product if that is an int.
ProductRight ==
    mulPc = "returned" =>
        /\ arr3 = serial
        /\ \A r, c \in Rows : Dot(r, c) <= MaxInt => arr3[r][c] = Dot(r, c)
=============================================================================
