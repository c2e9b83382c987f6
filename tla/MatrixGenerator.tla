--------------------------- MODULE MatrixGenerator --------------------------
(***************************************************************************)
(* intel-competition-2010: main reads a file of cases, and for each of     *)
(* them parse takes the line apart, fill makes the matrix, main prints and *)
(* frees it.  A line is a sequence of numbers and spaces; an int wraps     *)
(* around, which is what the build does when it overflows.  A float is     *)
(* rounded to its mantissa, to the nearest one and at a tie to an even one.*)
(***************************************************************************)
EXTENDS Integers, Sequences, FiniteSets

CONSTANTS
    Files,      \* what the input file may hold: the lines after the first one
    Limit,      \* what main.cc states for the numbers of a line: 20000
    IntMax,     \* the largest int: 2^31 - 1 in the build
    Mantissa,   \* the bits of a float's mantissa: 24 in the build
    MaxExponent,    \* the units of floats are 2^-MaxExponent to 2^MaxExponent
    Space,
    Unwritten   \* what new int[N] holds

\* Six numbers with a space between each two.
IsLine(line) ==
    /\ line \in [1..11 -> 1..Limit \cup {Space}]
    /\ \A p \in 1..11 : line[p] = Space <=> p % 2 = 0

ASSUME LimitAssumption ==
    Limit \in Nat \ {0} /\ IntMax \in Nat /\ Limit * Limit + Limit <= IntMax
ASSUME FloatAssumption ==
    /\ 2^Mantissa \in Nat /\ 2^Mantissa >= 8
    /\ \A e \in 0..MaxExponent : 2^e \in Nat \ {0}
ASSUME FileAssumption ==
    /\ Space \notin Int
    /\ \A f \in Files : f \in Seq([1..11 -> Nat \cup {Space}]) /\ \A n \in DOMAIN f : IsLine(f[n])

VARIABLES
    genPc,      \* what main and fill are doing
    file,
    k,          \* the cases begun so far
    par,        \* what parse has found in the line
    A,
    i, j, seed, sum, mean,  \* the variables of fill
    out         \* the matrices printed
genVars == <<genPc, file, k, par, A, i, j, seed, sum, mean, out>>

Wrap(n) == ((n + IntMax + 1) % (2 * (IntMax + 1))) - (IntMax + 1)
Truncate(n, d) == IF n >= 0 THEN n \div d ELSE -((-n) \div d)
Rounded(n, d) ==
    LET q == n \div d
        r == n % d
    IN  IF 2 * r < d \/ (2 * r = d /\ q % 2 = 0) THEN q ELSE q + 1

\* n / d as a float, again a fraction: so many units, powers of two, that they
\* take all bits of the mantissa.  Only one unit does, and the set has one element.
Units == {<<2^e, 1>> : e \in 0..MaxExponent} \cup {<<1, 2^e>> : e \in 0..MaxExponent}
Floats(n, d) ==
    LET FillsMantissa(u) ==
            /\ n * u[2] < 2^Mantissa * (d * u[1])
            /\ 2^Mantissa * (d * u[1]) <= 2 * (n * u[2])
    IN  IF n = 0 THEN {<<0, 1>>}
        ELSE {<<Rounded(n * u[2], d * u[1]) * u[1], u[2]>> : u \in {v \in Units : FillsMantissa(v)}}

NoCase == [M |-> 0, N |-> 0, seed0 |-> 0, a |-> 0, b |-> 0, m |-> 0]

PRNG(s) ==
    LET next == Wrap(Wrap(par.a * s) + par.b) IN next - Truncate(next, par.m) * par.m

\* A field ends at a space or at the end of the line; an empty one is 0.
Fields(line) ==
    LET SpacesIn(places) == Cardinality({p \in places : line[p] = Space})
        EndsField(p) == p = Len(line) + 1 \/ line[p] = Space
        IsEmpty(p) == p = 1 \/ line[p - 1] = Space
        End(n) == CHOOSE p \in 1..(Len(line) + 1) : EndsField(p) /\ SpacesIn(1..(p - 1)) = n - 1
    IN  [n \in 1..(SpacesIn(1..Len(line)) + 1) |-> IF IsEmpty(End(n)) THEN 0 ELSE line[End(n) - 1]]

\* The order in which an older copy of addons.cc takes the parameters.
OlderParse(line) ==
    LET rez == Fields(line)
    IN  [M |-> rez[1], N |-> rez[2], a |-> rez[3], b |-> rez[4], m |-> rez[5], seed0 |-> rez[6]]
parse(line) ==
    LET rez == Fields(line)
    IN  [M |-> rez[1], N |-> rez[2], seed0 |-> rez[3], a |-> rez[4], b |-> rez[5], m |-> rez[6]]

GenInit ==
    /\ genPc = "not begun"
    /\ file = <<>>
    /\ k = 0 /\ par = NoCase /\ A = <<>>
    /\ i = 0 /\ j = 0 /\ seed = 0 /\ sum = 0 /\ mean = 0
    /\ out = <<>>

\* The file is opened, or main gives up.
OpenFile ==
    /\ genPc = "not begun"
    /\ \/ file' \in Files /\ genPc' = "freed"
       \/ UNCHANGED file /\ genPc' = "returned"
    /\ UNCHANGED <<k, par, A, i, j, seed, sum, mean, out>>

\* The next line is taken apart and a matrix allocated; fill begins.
BeginCase ==
    /\ genPc = "freed" /\ k < Len(file)
    /\ k' = k + 1
    /\ par' = parse(file[k + 1])
    /\ A' = [r \in 0..(par'.M - 1) |-> [c \in 0..(par'.N - 1) |-> Unwritten]]
    /\ i' = 0 /\ j' = 0 /\ sum' = 0 /\ seed' = par'.seed0
    /\ genPc' = "generating"
    /\ UNCHANGED <<file, mean, out>>

\* The next place of a loop over rows and columns.
NextPlace ==
    IF j + 1 < par.N THEN i' = i /\ j' = j + 1 ELSE i' = i + 1 /\ j' = 0

\* A turn of the first double loop of fill.
Generate ==
    /\ genPc = "generating" /\ i < par.M
    /\ seed' = PRNG(seed)
    /\ A' = [A EXCEPT ![i][j] = seed']
    /\ sum' = Wrap(sum + seed')
    /\ NextPlace
    /\ UNCHANGED <<genPc, file, k, par, mean, out>>

\* The quotient of two floats is a float; one half is added to it, in double,
\* which is exact, and the fraction cut off.
TakeMean ==
    /\ genPc = "generating" /\ i = par.M
    /\ \E s \in Floats(IF sum < 0 THEN -sum ELSE sum, 1), size \in Floats(par.M * par.N, 1) :
          \E q \in Floats(s[1] * size[2], s[2] * size[1]) :
             mean' = Truncate(2 * (IF sum < 0 THEN -q[1] ELSE q[1]) + q[2], 2 * q[2])
    /\ i' = 0 /\ j' = 0
    /\ genPc' = "subtracting"
    /\ UNCHANGED <<file, k, par, A, seed, sum, out>>

\* A turn of the second double loop.
Subtract ==
    /\ genPc = "subtracting" /\ i < par.M
    /\ A' = [A EXCEPT ![i][j] = Wrap(@ - mean)]
    /\ NextPlace
    /\ UNCHANGED <<genPc, file, k, par, seed, sum, mean, out>>

PrintAndFree ==
    /\ genPc = "subtracting" /\ i = par.M
    /\ out' = Append(out, A)
    /\ A' = <<>>
    /\ genPc' = "freed"
    /\ UNCHANGED <<file, k, par, i, j, seed, sum, mean>>

ReturnFromMain ==
    /\ genPc = "freed" /\ k = Len(file)
    /\ genPc' = "returned"
    /\ UNCHANGED <<file, k, par, A, i, j, seed, sum, mean, out>>

GenNext ==
    \/ OpenFile \/ BeginCase \/ Generate \/ TakeMean \/ Subtract \/ PrintAndFree
    \/ ReturnFromMain
GenFinished == genPc = "returned" /\ UNCHANGED genVars

GenSpec == GenInit /\ [][GenNext \/ GenFinished]_genVars
-----------------------------------------------------------------------------
\* The case that the n-th line states, in the order of the ReadMe.
Stated(n) == LET line == file[n]
             IN  [M |-> line[1], N |-> line[3], seed0 |-> line[5],
                  a |-> line[7], b |-> line[9], m |-> line[11]]

\* The pseudo-random numbers of a case, without any int.
Numbers(c) ==
    LET x[p \in 0..(c.M * c.N)] == IF p = 0 THEN c.seed0 ELSE (c.a * x[p - 1] + c.b) % c.m
    IN  x

\* The sums of the first elements.
Partial(f, size) ==
    LET s[p \in 0..size] == IF p = 0 THEN 0 ELSE s[p - 1] + f[p]
    IN  s

\* No sum of the case can exceed an int.
Fits(c) == c.M * c.N * (c.m - 1) <= IntMax

\* Two places of a printed matrix differ by what their pseudo-random numbers
\* differ by, rows following one another; and if no sum of the case can exceed
\* an int, the elements add up to zero but for the rounding of the mean: one half
\* for every element, and what the three floats of the mean lose, at most
\* 4 / 2^Mantissa of the sum, nothing where that is below one half.
GeneratedRight ==
    \A n \in DOMAIN out :
        LET c == Stated(n)
            size == c.M * c.N
            flat == [p \in 1..size |-> out[n][(p - 1) \div c.N][(p - 1) % c.N]]
            x == Numbers(c)
            total == Partial(flat, size)[size]
            bound == 2^Mantissa * size + 8 * Partial(x, size)[size]
        IN  /\ \A p \in DOMAIN flat : flat[p] - flat[1] = x[p] - x[1]
            /\ Fits(c) => 2^Mantissa * (2 * total) \in -bound..bound
=============================================================================
