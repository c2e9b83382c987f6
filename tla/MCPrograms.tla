----------------------------- MODULE MCPrograms -----------------------------
(* Every program on small inputs. *)
EXTENDS Programs

CONSTANTS t1, t2

\* Texts for the parser: all short ones, and longer ones of a given shape.
SeqsUpTo(S, bound) == UNION {[1..len -> S] : len \in 0..bound}
Chars == {"a", "1", ".", "def", "extern", "(", ")", ",", ";", "+", "*", " ", "\n", "#"}
Spaced(s) == [p \in 1..(2 * Len(s)) |-> IF p % 2 = 1 THEN s[(p + 1) \div 2] ELSE " "]
Operators == {"<", "+", "-", "*"}
MCTexts ==
    SeqsUpTo(Chars, 4)
    \cup {Spaced(s) : s \in SeqsUpTo({"def", "extern", "a", "(", ")", "+", ";"}, 5)}
    \cup {<<"def", " ", "a", "(">> \o s : s \in SeqsUpTo({"b", "(", ")", "+", " "}, 4)}
    \cup {<<"a", "(">> \o s : s \in SeqsUpTo({"1", "(", ")", ",", "*"}, 4)}
    \cup {<<"a", p, "b", q, "1", r, "2">> : p, q, r \in Operators}
    \cup {<<"a", p, "(", "b", q, "1", ")", r, "2">> : p, q, r \in Operators}

\* The example of the ReadMe, and cases with their sum below and above IntMax and
\* 2^Mantissa; in some the float of the mean tips over its rounding.
Line(M, N, seed0, a, b, m) == <<M, Space, N, Space, seed0, Space, a, Space, b, Space, m>>
MCFiles ==
    {<<Line(4, 3, 10, 3, 4, 17), Line(5, 6, 11, 4, 5, 18)>>}
    \cup {<<Line(M, N, seed0, a, b, m)>> : M \in 1..3, N \in {1, 2, 13, 20}, seed0 \in {1, 20},
                                           a \in {1, 7}, b \in {2, 20}, m \in {1, 13, 20}}

MCInitialData == {[p \in Elements |-> p], [p \in Elements |-> 10 * (p % 2)]}

\* Products with elements above and below MaxInt.
MCFactors == {[r \in Rows |-> [c \in Rows |-> (x * r + y * c + 1) % n]] : x, y \in 0..1}

\* The problem of W7, and others with and without solution.
MCProblems ==
    [capacity : {<<4, 7, 19>>, <<4, 7>>, <<3, 5>>, <<2, 4>>, <<4, 6>>, <<3>>, <<1, 2, 4>>, <<0, 2>>}, target : 0..8]
=============================================================================
