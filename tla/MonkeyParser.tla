----------------------------- MODULE MonkeyParser -----------------------------
(***************************************************************************)
(* The lexer and the parser of monkey (monkey/lexer, monkey/parser) on one *)
(* line of the REPL: ParseProgram takes statement after statement, an      *)
(* error is noted and parsing goes on, and the REPL gives the statements   *)
(* to the evaluator if none was.                                           *)
(*                                                                         *)
(* Nothing runs beside them, and what the lexer returns does not depend on *)
(* the parser: the tokens are a function of the text, and one step is one  *)
(* statement.  A parsing function takes the parser, a record of the place  *)
(* of curToken, of whether there are errors and of what the last function  *)
(* returned, and gives it back changed.                                    *)
(***************************************************************************)
EXTENDS MonkeyAst, Integers, SequencesExt, TLC

CONSTANTS Texts,     \* the lines that are read, sequences of characters
          Letters,   \* isLetter
          Keywords,  \* from the words of token.go to the types of their tokens
          MaxInt     \* the largest int64

Blanks == {" "}
DigitValue == [d \in {"0", "1", "2", "3", "4", "5", "6", "7", "8", "9"} |-> CHOOSE n \in 0..9 : ToString(n) = d]
Digits == DOMAIN DigitValue
Pairs == {<<"=", "=">>, <<"!", "=">>}
Singles == {"=", "!", "(", ")", "{", "}", "[", "]", ",", ":", ";", "+", "-", "*", "/", "<", ">"}

LOWEST == 1
EQUALS == 2
LESSGREATER == 3
SUM == 4
PRODUCT == 5
PREFIX == 6
CALL == 7
INDEX == 8

precedences ==
  [t \in {"==", "!="} |-> EQUALS] @@ [t \in {"<", ">"} |-> LESSGREATER] @@ [t \in {"+", "-"} |-> SUM]
  @@ [t \in {"*", "/"} |-> PRODUCT] @@ ("(" :> CALL) @@ ("[" :> INDEX)

VARIABLES text,     \* the line
          tokens,   \* what NextToken returns on it; then EOF again and again
          cur,      \* the place of curToken; peekToken is the one behind it
          program,  \* the statements so far
          errors,   \* whether there are errors
          pc        \* "parse", then "rejected" or "parsed"

vars == <<text, tokens, cur, program, errors, pc>>

-----------------------------------------------------------------------------
(* The lexer.  A character is named by its place; readChar gives 0 behind  *)
(* the end, the same character as a NUL in the line.                       *)

Char(p) == IF p <= Len(text) THEN text[p] ELSE "NUL"

\* The first place from p on with a character that is not in S.
After(p, S) == CHOOSE q \in p..(Len(text) + 1) :
                 Char(q) \notin S /\ \A r \in p..(q - 1) : Char(r) \in S

\* The quote that closes a string, or a NUL, or the end.
readString(p) == CHOOSE q \in p..(Len(text) + 1) :
                   Char(q) \in {"quote", "NUL"} /\ \A r \in p..(q - 1) : Char(r) \notin {"quote", "NUL"}

Token(t, from, to, next) == [t |-> t, w |-> SubSeq(text, from, to), from |-> from, next |-> next]

NextToken(position) ==
  LET p == After(position, Blanks)
      c == Char(p)
      word == After(p, Letters)
      name == SubSeq(text, p, word - 1)
      digits == After(p, Digits)
      close == readString(p + 1)
  IN CASE <<c, Char(p + 1)>> \in Pairs -> Token(c \o Char(p + 1), p, p + 1, p + 2)
       [] c \in Singles /\ <<c, Char(p + 1)>> \notin Pairs -> Token(c, p, p, p + 1)
       [] c = "quote" -> Token("STRING", p + 1, close - 1, close + 1)
       [] c = "NUL" -> Token("EOF", p, p - 1, p + 1)
       [] c \in Letters -> Token(IF name \in DOMAIN Keywords THEN Keywords[name] ELSE "IDENT", p, word - 1, word)
       [] c \in Digits -> Token("INT", p, digits - 1, digits)
       [] OTHER -> Token("ILLEGAL", p, p, p + 1)

Tokens ==
  LET From[p \in 1..(Len(text) + 2)] ==
        LET tok == NextToken(p) IN IF p > Len(text) THEN <<>> ELSE <<tok>> \o From[tok.next]
  IN From[1]

EOF == [t |-> "EOF", w |-> <<>>]
TokenAt(i) == IF i \in DOMAIN tokens THEN tokens[i] ELSE EOF

-----------------------------------------------------------------------------
(* The parser *)

curToken(p) == TokenAt(p.at)
peek(p) == TokenAt(p.at + 1).t
nextToken(p) == [p EXCEPT !.at = @ + 1]
Return(p, e) == [p EXCEPT !.e = e]

\* An error is noted and nil returned.
Error(p) == [p EXCEPT !.e = NoTree, !.errors = TRUE]

expectPeek(p, t) == IF peek(p) = t THEN nextToken(p) ELSE Error(p)

\* How a function goes on behind the token it expects: it returns nil without it.
Expect(p, t, GoOn(_)) == IF peek(p) = t THEN GoOn(expectPeek(p, t)) ELSE expectPeek(p, t)

peekPrecedence(p) == IF peek(p) \in DOMAIN precedences THEN precedences[peek(p)] ELSE LOWEST

\* strconv.ParseInt with base 0: a 0 in front makes the number octal.
ParseInt(w) ==
  LET base == IF Len(w) > 1 /\ w[1] = "0" THEN 8 ELSE 10
      Add(n, d) == IF n \notin 0..MaxInt \/ DigitValue[d] >= base THEN -1 ELSE n * base + DigitValue[d]
      v == FoldLeft(Add, 0, w)
  IN [ok |-> v \in 0..MaxInt, v |-> v]

RECURSIVE parseExpression(_, _), Operators(_, _), Elements(_, _, _), parsePairs(_, _), parseNames(_, _),
          parseStatements(_, _)

parseIntegerLiteral(p) ==
  LET n == ParseInt(curToken(p).w) IN IF n.ok THEN Return(p, IntegerLiteral(n.v)) ELSE Error(p)

parsePrefixExpression(p) ==
  LET right == parseExpression(PREFIX, nextToken(p))
  IN Return(right, PrefixExpression(curToken(p).t, right.e))

parseGroupedExpression(p) ==
  LET e == parseExpression(LOWEST, nextToken(p)) IN Expect(e, ")", LAMBDA q : q)

\* parseExpressionList and parseCallArguments: p is before an element, done are those
\* before it.
Elements(end, done, p) ==
  LET e == parseExpression(LOWEST, nextToken(p))
      list == Append(done, e.e)
  IN IF peek(e) = "," THEN Elements(end, list, nextToken(e))
     ELSE Expect(e, end, LAMBDA q : Return(q, list))

parseExpressionList(end, p) ==
  IF peek(p) = end THEN Return(nextToken(p), <<>>) ELSE Elements(end, <<>>, p)

parseArrayLiteral(p) == LET l == parseExpressionList("]", p) IN Return(l, ArrayLiteral(l.e))

parsePairs(done, p) ==
  LET key == parseExpression(LOWEST, nextToken(p))
      value == parseExpression(LOWEST, nextToken(nextToken(key)))
      pairs == Append(done, <<key.e, value.e>>)
  IN CASE peek(p) = "}" -> Return(nextToken(p), HashLiteral(done))
       [] peek(p) # "}" /\ peek(key) # ":" -> Error(key)
       [] peek(p) # "}" /\ peek(key) = ":" /\ peek(value) = "}" -> parsePairs(pairs, value)
       [] OTHER -> Expect(value, ",", LAMBDA q : parsePairs(pairs, q))

parseHashLiteral(p) == parsePairs(<<>>, p)

\* A block ends at its brace, or at the end of the line.
parseBlockStatement(p) ==
  LET block == parseStatements(<<>>, nextToken(p)) IN Return(block, BlockStatement(block.e))

parseIfExpression(p) ==
  Expect(p, "(", LAMBDA open :
    LET cond == parseExpression(LOWEST, nextToken(open))
    IN Expect(cond, ")", LAMBDA close : Expect(close, "{", LAMBDA brace :
         LET then == parseBlockStatement(brace)
             Whole(q, else) == Return(q, IfExpression(cond.e, then.e, else))
         IN IF peek(then) # "ELSE" THEN Whole(then, NoBlock)
            ELSE Expect(nextToken(then), "{", LAMBDA else :
                   LET e == parseBlockStatement(else) IN Whole(e, e.e)))))

\* Whatever token stands where a parameter should is one.
parseNames(done, p) ==
  LET list == Append(done, curToken(p).w)
  IN IF peek(p) = "," THEN parseNames(list, nextToken(nextToken(p)))
     ELSE Expect(p, ")", LAMBDA q : Return(q, list))

parseFunctionParameters(p) ==
  IF peek(p) = ")" THEN Return(nextToken(p), <<>>) ELSE parseNames(<<>>, nextToken(p))

parseFunctionLiteral(p) ==
  Expect(p, "(", LAMBDA open :
    LET params == parseFunctionParameters(open)
    IN Expect(params, "{", LAMBDA brace :
         LET body == parseBlockStatement(brace) IN Return(body, FunctionLiteral(params.e, body.e))))

\* prefixParseFns
Prefix(p) ==
  LET t == curToken(p).t
  IN CASE t = "IDENT" -> Return(p, Identifier(curToken(p).w))
       [] t = "INT" -> parseIntegerLiteral(p)
       [] t = "STRING" -> Return(p, StringLiteral(curToken(p).w))
       [] t \in {"TRUE", "FALSE"} -> Return(p, Boolean(t = "TRUE"))
       [] t \in {"!", "-"} -> parsePrefixExpression(p)
       [] t = "(" -> parseGroupedExpression(p)
       [] t = "[" -> parseArrayLiteral(p)
       [] t = "{" -> parseHashLiteral(p)
       [] t = "IF" -> parseIfExpression(p)
       [] t = "FUNCTION" -> parseFunctionLiteral(p)

HasPrefix(p) ==
  curToken(p).t \in {"IDENT", "INT", "STRING", "TRUE", "FALSE", "!", "-", "(", "[", "{", "IF", "FUNCTION"}

parseCallExpression(left, p) ==
  LET args == parseExpressionList(")", p) IN Return(args, CallExpression(left, args.e))

parseIndexExpression(left, p) ==
  LET e == parseExpression(LOWEST, nextToken(p))
  IN Expect(e, "]", LAMBDA q : Return(q, IndexExpression(left, e.e)))

parseInfixExpression_Right(left, p) ==
  LET right == parseExpression(precedences[curToken(p).t] - 1, nextToken(p))
  IN Return(right, InfixExpression(curToken(p).t, left, right.e))

parseInfixExpression(left, p) ==
  LET right == parseExpression(precedences[curToken(p).t], nextToken(p))
  IN Return(right, InfixExpression(curToken(p).t, left, right.e))

\* infixParseFns
Infix(left, p) ==
  CASE curToken(p).t = "(" -> parseCallExpression(left, p)
    [] curToken(p).t = "[" -> parseIndexExpression(left, p)
    [] OTHER -> parseInfixExpression(left, p)

\* The loop of parseExpression: an operator that binds tighter takes what was parsed.
Operators(precedence, p) ==
  IF peek(p) # ";" /\ precedence < peekPrecedence(p)
  THEN Operators(precedence, Infix(p.e, nextToken(p)))
  ELSE p

parseExpression(precedence, p) == IF HasPrefix(p) THEN Operators(precedence, Prefix(p)) ELSE Error(p)

\* A semicolon behind a statement may be there or not.
Semicolon(p) == IF peek(p) = ";" THEN nextToken(p) ELSE p

parseLetStatement(p) ==
  Expect(p, "IDENT", LAMBDA name : Expect(name, "=", LAMBDA assign :
    LET value == parseExpression(LOWEST, nextToken(assign))
    IN Semicolon(Return(value, LetStatement(curToken(name).w, value.e)))))

parseReturnStatement(p) ==
  LET value == parseExpression(LOWEST, nextToken(p))
  IN Semicolon(Return(value, ReturnStatement(value.e)))

parseExpressionStatement(p) == Semicolon(parseExpression(LOWEST, p))

parseStatement(p) ==
  CASE curToken(p).t = "LET" -> parseLetStatement(p)
    [] curToken(p).t = "RETURN" -> parseReturnStatement(p)
    [] OTHER -> parseExpressionStatement(p)

\* The loop of parseBlockStatement.  What parseStatement returns is never nil, as an
\* interface with a nil *LetStatement in it is not.
parseStatements(done, p) ==
  IF curToken(p).t \in {"}", "EOF"} THEN Return(p, done)
  ELSE LET stmt == parseStatement(p) IN parseStatements(Append(done, stmt.e), nextToken(stmt))

-----------------------------------------------------------------------------
(* ParseProgram, and what the REPL does with it *)

Init ==
  /\ text \in Texts
  /\ tokens = Tokens
  /\ cur = 1
  /\ program = <<>>
  /\ errors = FALSE
  /\ pc = "parse"

ParseStatement ==
  /\ pc = "parse" /\ TokenAt(cur).t # "EOF"
  /\ LET stmt == parseStatement([at |-> cur, errors |-> errors, e |-> NoTree])
     IN cur' = stmt.at + 1 /\ program' = Append(program, stmt.e) /\ errors' = stmt.errors
  /\ UNCHANGED <<text, tokens, pc>>

EndProgram ==
  /\ pc = "parse" /\ TokenAt(cur).t = "EOF"
  /\ pc' = IF errors THEN "rejected" ELSE "parsed"
  /\ UNCHANGED <<text, tokens, cur, program, errors>>

Next == ParseStatement \/ EndProgram

Spec == Init /\ [][Next]_vars
=============================================================================
