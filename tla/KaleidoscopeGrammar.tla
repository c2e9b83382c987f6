------------------------ MODULE KaleidoscopeGrammar -------------------------
(***************************************************************************)
(* The language of mem-cpu-deep/My/main.cpp without its parser: what the   *)
(* tokens of a text are, which sequences of tokens are sentences, and which*)
(* tree an expression has.  Nothing here reads from left to right: an      *)
(* expression is split at the operator that is applied last.               *)
(***************************************************************************)
EXTENDS Integers, Sequences, FiniteSets

\* A run of letters counts as one character: "def" stands for d, e and f.
Letters == {"a", "b", "def", "extern"}
Digits == {"1", "2"}
NumberChars == Digits \cup {"."}
Newlines == {"\n"}
Spaces == {" "} \cup Newlines

\* The trees; Null is the null pointer.
Null == [node |-> "null"]
Number(val) == [node |-> "number", val |-> val]
Variable(name) == [node |-> "variable", name |-> name]
Binary(op, lhs, rhs) == [node |-> "binary", op |-> op, lhs |-> lhs, rhs |-> rhs]
Call(callee, args) == [node |-> "call", callee |-> callee, args |-> args]
Prototype(name, args) == [node |-> "prototype", name |-> name, args |-> args]
Function(proto, body) == [node |-> "function", proto |-> proto, body |-> body]
Anonymous == Prototype(<<"__anon_expr">>, <<>>)

BinopPrecedence == [op \in {"<", "+", "-", "*"} |->
                       CASE op = "<" -> 10 [] op \in {"+", "-"} -> 20 [] op = "*" -> 40]
-----------------------------------------------------------------------------
\* The members of a set of numbers in order.
Ascending(S) ==
    [n \in 1..Cardinality(S) |-> CHOOSE i \in S : Cardinality({j \in S : j <= i}) = n]

\* A token is the sequence of its characters.  A digit belongs to a word if
\* only letters and digits are between it and a letter before it.
TokensOf(text) ==
    LET InComment(i) == \E j \in 1..i : /\ text[j] = "#"
                                        /\ \A k \in j..i : text[k] \notin Newlines
        InWord(i) == \E j \in 1..i : /\ text[j] \in Letters
                                     /\ \A k \in j..i : text[k] \in Letters \cup Digits
        InNumber(i) == text[i] \in NumberChars /\ ~InWord(i)
        Joined(i) == i > 1 /\ \/ InWord(i) /\ InWord(i - 1)
                              \/ InNumber(i) /\ InNumber(i - 1)
        Starts == {i \in DOMAIN text : ~InComment(i) /\ text[i] \notin Spaces /\ ~Joined(i)}
        End(i) == CHOOSE j \in i..Len(text) : /\ \A k \in (i + 1)..j : Joined(k)
                                              /\ j < Len(text) => ~Joined(j + 1)
        starts == Ascending(Starts)
    IN  [n \in DOMAIN starts |-> SubSeq(text, starts[n], End(starts[n]))]

Is(token, char) == token = <<char>>
IsKeyword(token) == Is(token, "def") \/ Is(token, "extern")
IsIdentifier(token) == Head(token) \in Letters /\ ~IsKeyword(token)
IsNumber(token) == Head(token) \in NumberChars
IsOperator(token) == Head(token) \in DOMAIN BinopPrecedence

\* How many parentheses are open before position p.
Depth(s, p) == Len(SelectSeq(SubSeq(s, 1, p - 1), LAMBDA t : Is(t, "(")))
               - Len(SelectSeq(SubSeq(s, 1, p - 1), LAMBDA t : Is(t, ")")))

\* The tree of the expression s, Null if s is none.
RECURSIVE TreeOf(_)
TreeOf(s) ==
    LET Precedence(p) == BinopPrecedence[Head(s[p])]
        operators == {p \in DOMAIN s : IsOperator(s[p]) /\ Depth(s, p) = 0}
        last == CHOOSE p \in operators :        \* the one applied last
                   /\ \A q \in operators : Precedence(p) <= Precedence(q)
                   /\ \A q \in operators : Precedence(p) = Precedence(q) => q <= p
        lhs == TreeOf(SubSeq(s, 1, last - 1))
        rhs == TreeOf(SubSeq(s, last + 1, Len(s)))
        enclosed == Len(s) >= 2 /\ Is(s[Len(s)], ")")
        commas == {p \in DOMAIN s : Is(s[p], ",") /\ Depth(s, p) = 1}
        cuts == Ascending({2, Len(s)} \cup commas)
        args == IF Len(s) = 3 THEN <<>>
                ELSE [n \in 1..(Len(cuts) - 1) |->
                         TreeOf(SubSeq(s, cuts[n] + 1, cuts[n + 1] - 1))]
    IN  CASE s = <<>> -> Null
          [] operators # {} ->
               IF lhs = Null \/ rhs = Null THEN Null ELSE Binary(Head(s[last]), lhs, rhs)
          [] Len(s) = 1 /\ IsNumber(s[1]) -> Number(s[1])
          [] Len(s) = 1 /\ IsIdentifier(s[1]) -> Variable(s[1])
          [] enclosed /\ Is(s[1], "(") -> TreeOf(SubSeq(s, 2, Len(s) - 1))
          [] enclosed /\ IsIdentifier(s[1]) /\ Is(s[2], "(") /\ Len(s) >= 3 ->
               IF \E n \in DOMAIN args : args[n] = Null THEN Null ELSE Call(s[1], args)
          [] OTHER -> Null

\* A name and its parameters.
PrototypeOf(s) ==
    IF /\ Len(s) >= 3 /\ IsIdentifier(s[1]) /\ Is(s[2], "(") /\ Is(s[Len(s)], ")")
       /\ \A p \in 3..(Len(s) - 1) : IsIdentifier(s[p])
      THEN Prototype(s[1], SubSeq(s, 3, Len(s) - 1))
      ELSE Null

\* What stands at the top level, by its kind.
ExternOf(s) == IF s # <<>> /\ Is(s[1], "extern") THEN PrototypeOf(Tail(s)) ELSE Null
ExpressionOf(s) == IF TreeOf(s) = Null THEN Null ELSE Function(Anonymous, TreeOf(s))
DefinitionOf(s) ==
    LET closing == {p \in DOMAIN s : Is(s[p], ")")}
        end == CHOOSE p \in closing : \A q \in closing : p <= q
        proto == PrototypeOf(SubSeq(s, 2, end))
        body == TreeOf(SubSeq(s, end + 1, Len(s)))
    IN  IF closing = {} \/ ~Is(s[1], "def") THEN Null
        ELSE IF proto = Null \/ body = Null THEN Null ELSE Function(proto, body)

\* A sentence of the language: definitions, externs, expressions and semicolons.
RECURSIVE IsSentence(_)
IsSentence(s) ==
    \/ s = <<>>
    \/ Is(s[1], ";") /\ IsSentence(Tail(s))
    \/ \E n \in DOMAIN s :
         /\ LET item == SubSeq(s, 1, n)
            IN  DefinitionOf(item) # Null \/ ExternOf(item) # Null \/ ExpressionOf(item) # Null
         /\ IsSentence(SubSeq(s, n + 1, Len(s)))
=============================================================================
