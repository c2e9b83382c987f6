---------------------------- MODULE Kaleidoscope ----------------------------
(***************************************************************************)
(* The lexer and the parser of mem-cpu-deep/My/main.cpp.  The functions of *)
(* the parser are operators from the statics to the statics and the tree   *)
(* they return, Null for nullptr; a turn of MainLoop is a step.            *)
(***************************************************************************)
EXTENDS KaleidoscopeGrammar

CONSTANT Texts      \* what stdin may hold

EOF == "EOF"

VARIABLES
    text,       \* stdin
    lex,        \* the statics: CurTok, IdentifierStr, NumVal, which character
                \* LastChar is, and how many tokens came before CurTok
    loop,       \* whether MainLoop has not begun, runs, or has returned
    log         \* what every turn of MainLoop that parsed something did
parserVars == <<text, lex, loop, log>>

\* LastChar when i characters have been read; at first it is a space.
CharAt(i) == IF i = 0 THEN " " ELSE IF i > Len(text) THEN EOF ELSE text[i]

\* The first character from i on that satisfies, or does not satisfy, a loop's test.
FirstIn(i, S) == CHOOSE j \in i..(Len(text) + 1) :
                    CharAt(j) \in S /\ \A k \in i..(j - 1) : CharAt(k) \notin S
FirstOutside(i, S) == CHOOSE j \in i..(Len(text) + 1) :
                         CharAt(j) \notin S /\ \A k \in i..(j - 1) : CharAt(k) \in S

Keyword(word) == CASE word = <<"def">> -> "tok_def"
                   [] word = <<"extern">> -> "tok_extern"
                   [] OTHER -> "tok_identifier"

RECURSIVE gettok(_)
gettok(s) ==
    LET i == FirstOutside(s.at, Spaces)
        endOfWord == FirstOutside(i, Letters \cup Digits)
        word == SubSeq(text, i, endOfWord - 1)
        endOfNumber == FirstOutside(i, NumberChars)
    IN  CASE CharAt(i) \in Letters ->
               [s EXCEPT !.cur = Keyword(word), !.id = word, !.at = endOfWord]
          [] CharAt(i) \in NumberChars ->
               [s EXCEPT !.cur = "tok_number", !.num = SubSeq(text, i, endOfNumber - 1),
                         !.at = endOfNumber]
          [] CharAt(i) = "#" -> gettok([s EXCEPT !.at = FirstIn(i, Newlines \cup {EOF})])
          [] CharAt(i) = EOF -> [s EXCEPT !.cur = "tok_eof", !.at = i]
          [] OTHER -> [s EXCEPT !.cur = CharAt(i), !.at = i + 1]

\* Beyond the end there is no further token to count.
getNextToken(s) ==
    gettok([s EXCEPT !.nth = IF s.cur = "tok_eof" THEN @ ELSE @ + 1])
-----------------------------------------------------------------------------
Return(s, ast) == [s |-> s, ast |-> ast]
LogError(s) == Return(s, Null)

GetTokPrecedence(s) ==
    IF s.cur \in DOMAIN BinopPrecedence THEN BinopPrecedence[s.cur] ELSE -1

\* What a function does with the tree that another one has returned: nullptr is
\* handed on.
Then(result, Go(_)) == IF result.ast = Null THEN result ELSE Go(result)

RECURSIVE ParseExpression(_), ParsePrimary(_), ParseBinOpRHS(_, _, _), ParseArgs(_, _, _)

ParseNumberExpr(s) == Return(getNextToken(s), Number(s.num))

ParseParenExpr(s) ==
    Then(ParseExpression(getNextToken(s)),
         LAMBDA e : IF e.s.cur = ")" THEN Return(getNextToken(e.s), e.ast) ELSE LogError(e.s))

\* Arguments that need no comma between them.
CommaOptional(s, callee, args) ==
    Then(ParseExpression(s),
         LAMBDA e :
           IF e.s.cur = ")" THEN Return(getNextToken(e.s), Call(callee, Append(args, e.ast)))
           ELSE ParseArgs(IF e.s.cur = "," THEN getNextToken(e.s) ELSE e.s,
                          callee, Append(args, e.ast)))
\* A turn of the loop over the arguments of a call.
ParseArgs(s, callee, args) ==
    Then(ParseExpression(s),
         LAMBDA e :
           CASE e.s.cur = ")" -> Return(getNextToken(e.s), Call(callee, Append(args, e.ast)))
             [] e.s.cur = "," -> ParseArgs(getNextToken(e.s), callee, Append(args, e.ast))
             [] OTHER -> LogError(e.s))

ParseIdentifierExpr(s) ==
    LET next == getNextToken(s)
        first == getNextToken(next)
    IN  CASE next.cur # "(" -> Return(next, Variable(s.id))
          [] first.cur = ")" -> Return(getNextToken(first), Call(s.id, <<>>))
          [] OTHER -> ParseArgs(first, s.id, <<>>)

ParsePrimary(s) ==
    CASE s.cur = "tok_identifier" -> ParseIdentifierExpr(s)
      [] s.cur = "tok_number" -> ParseNumberExpr(s)
      [] s.cur = "(" -> ParseParenExpr(s)
      [] OTHER -> LogError(s)

\* The operand on the right also takes operators of its own precedence.
RightTakesItsEqual(exprPrec, lhs, s) ==
    LET tokPrec == GetTokPrecedence(s)
    IN  IF tokPrec < exprPrec THEN Return(s, lhs)
        ELSE Then(ParsePrimary(getNextToken(s)),
                  LAMBDA rhs :
                    Then(IF tokPrec < GetTokPrecedence(rhs.s)
                           THEN ParseBinOpRHS(tokPrec, rhs.ast, rhs.s) ELSE rhs,
                         LAMBDA operand :
                           ParseBinOpRHS(exprPrec, Binary(s.cur, lhs, operand.ast), operand.s)))
\* A turn of the loop that joins operands to lhs while operators bind strongly enough.
ParseBinOpRHS(exprPrec, lhs, s) ==
    LET tokPrec == GetTokPrecedence(s)
    IN  IF tokPrec < exprPrec THEN Return(s, lhs)
        ELSE Then(ParsePrimary(getNextToken(s)),
                  LAMBDA rhs :
                    Then(IF tokPrec < GetTokPrecedence(rhs.s)
                           THEN ParseBinOpRHS(tokPrec + 1, rhs.ast, rhs.s) ELSE rhs,
                         LAMBDA operand :
                           ParseBinOpRHS(exprPrec, Binary(s.cur, lhs, operand.ast), operand.s)))

ParseExpression(s) ==
    Then(ParsePrimary(s), LAMBDA lhs : ParseBinOpRHS(0, lhs.ast, lhs.s))

\* The loop over the names of the parameters: they are not separated by commas.
RECURSIVE ParseNames(_, _)
ParseNames(s, names) ==
    LET t == getNextToken(s)
    IN  IF t.cur = "tok_identifier" THEN ParseNames(t, Append(names, t.id))
        ELSE Return(t, names)

ParsePrototype(s) ==
    LET next == getNextToken(s)
        params == ParseNames(next, <<>>)
    IN  CASE s.cur # "tok_identifier" -> LogError(s)
          [] next.cur # "(" -> LogError(next)
          [] params.s.cur # ")" -> LogError(params.s)
          [] OTHER -> Return(getNextToken(params.s), Prototype(s.id, params.ast))

ParseDefinition(s) ==
    Then(ParsePrototype(getNextToken(s)),
         LAMBDA proto :
           Then(ParseExpression(proto.s),
                LAMBDA body : Return(body.s, Function(proto.ast, body.ast))))

ParseTopLevelExpr(s) ==
    Then(ParseExpression(s), LAMBDA e : Return(e.s, Function(Anonymous, e.ast)))

ParseExtern(s) == ParsePrototype(getNextToken(s))
-----------------------------------------------------------------------------
ParserInit ==
    /\ text = <<>>
    /\ lex = [cur |-> "", id |-> <<>>, num |-> <<>>, at |-> 0, nth |-> 0]
    /\ loop = "not begun"
    /\ log = <<>>

\* What stdin holds is given before main runs.
GiveText ==
    /\ loop = "not begun"
    /\ loop' = "begun"
    /\ text' \in Texts
    /\ UNCHANGED <<lex, log>>

\* main: the first token is read before MainLoop.
Prime ==
    /\ loop = "begun"
    /\ loop' = "running"
    /\ lex' = getNextToken(lex)
    /\ UNCHANGED <<text, log>>

\* A handler that leaves the token at which the parser stopped.
StaysAtTheError(kind, result) ==
    /\ lex' = result.s
    /\ log' = Append(log, [kind |-> kind, first |-> lex.nth, next |-> result.s.nth,
                           ast |-> result.ast])
    /\ UNCHANGED <<text, loop>>
\* What the three handlers do with what they parsed: on an error they skip a token.
Handle(kind, result) ==
    /\ lex' = IF result.ast = Null THEN getNextToken(result.s) ELSE result.s
    /\ log' = Append(log, [kind |-> kind, first |-> lex.nth, next |-> result.s.nth,
                           ast |-> result.ast])
    /\ UNCHANGED <<text, loop>>

HandleDefinition ==
    /\ loop = "running" /\ lex.cur = "tok_def"
    /\ Handle("definition", ParseDefinition(lex))

HandleExtern ==
    /\ loop = "running" /\ lex.cur = "tok_extern"
    /\ Handle("extern", ParseExtern(lex))

HandleTopLevelExpression ==
    /\ loop = "running" /\ lex.cur \notin {"tok_eof", ";", "tok_def", "tok_extern"}
    /\ Handle("expression", ParseTopLevelExpr(lex))

SkipSemicolon ==
    /\ loop = "running" /\ lex.cur = ";"
    /\ lex' = getNextToken(lex)
    /\ UNCHANGED <<text, loop, log>>

ReturnAtEof ==
    /\ loop = "running" /\ lex.cur = "tok_eof"
    /\ loop' = "returned"
    /\ UNCHANGED <<text, lex, log>>

ParserNext ==
    \/ GiveText \/ Prime \/ SkipSemicolon \/ ReturnAtEof
    \/ HandleDefinition \/ HandleExtern \/ HandleTopLevelExpression
ParserFinished == loop = "returned" /\ UNCHANGED parserVars

ParserSpec == ParserInit /\ [][ParserNext \/ ParserFinished]_parserVars
-----------------------------------------------------------------------------
\* Every tree the parser returns (ParseExpression and all below it) is the tree
\* of the tokens it has consumed: operators of higher precedence bind tighter,
\* those of equal precedence group to the left, arguments and names are in order.
TreesRight ==
    LET tokens == TokensOf(text)
        TreeOfKind(kind, s) == CASE kind = "definition" -> DefinitionOf(s)
                                 [] kind = "extern" -> ExternOf(s)
                                 [] kind = "expression" -> ExpressionOf(s)
    IN  \A n \in DOMAIN log :
          log[n].ast # Null =>
             log[n].ast = TreeOfKind(log[n].kind, SubSeq(tokens, log[n].first, log[n].next - 1))

\* MainLoop reports no error exactly if the text is a sentence of the language:
\* taking the longest item never makes a correct text fail, and no error is lost
\* by skipping a token and going on from there.
AcceptsExactly ==
    loop = "returned" =>
        ((\A n \in DOMAIN log : log[n].ast # Null) <=> IsSentence(TokensOf(text)))

\* Every turn of MainLoop but the last takes a token, whatever the text is, so
\* MainLoop returns: after an error it does not stop at the same token for ever.
MakesHeadway == [][loop' = "running" => lex'.nth > lex.nth]_parserVars
=============================================================================
