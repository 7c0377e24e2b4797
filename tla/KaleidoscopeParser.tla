-------------------------- MODULE KaleidoscopeParser --------------------------
(***************************************************************************)
(* The lexer, the operator-precedence parser and the main loop of          *)
(* kaleidoscope/src/main.cpp.  The loop reads one item after the other; a  *)
(* handler that gets none skips a token.  What the handlers do with the    *)
(* items they get is KaleidoscopeSession.                                  *)
(*                                                                         *)
(* Nobody but gettok reads the input, and nothing runs beside the parser:  *)
(* the tokens are a function of the text, and what a parsing function      *)
(* returns, CurTok after it included, is one of the tokens and of CurTok   *)
(* before it.  So one step of the model is one turn of the loop.           *)
(* Characters are classes, and of the value of a number nothing is kept.   *)
(***************************************************************************)
EXTENDS Integers, SequencesExt

CONSTANTS Texts,     \* the inputs, sequences of characters
          Letters,   \* isalpha
          Digits,    \* isdigit, and the point
          Keywords   \* from the words "def" and "extern" to their tokens

Blanks == {"blank", "newline"}

\* A character is of one class, and none is the name of a token that is not a character.
ASSUME LexerAssumption ==
  /\ Texts \subseteq Seq(STRING \ {"EOF", "eof", "identifier", "number", "def", "extern"})
  /\ Letters \cap Digits = {}
  /\ (Letters \cup Digits) \cap (Blanks \cup {"#", "EOF"}) = {}
  /\ \A word \in DOMAIN Keywords : Keywords[word] \in {"def", "extern"}

\* BinopPrecedence, as main fills it in.
BinopPrecedence == [op \in {"<", "+", "-", "*"} |-> CASE op = "<" -> 10 [] op = "*" -> 40 [] OTHER -> 20]

VARIABLES text,    \* the input
          tokens,  \* what gettok returns on it, call after call, up to the first tok_eof
          CurTok,  \* the current token, as its place among them
          turns,   \* history: the turns of the loop, from which token to which
          done     \* MainLoop has returned

parserVars == <<text, tokens, CurTok, turns, done>>

-----------------------------------------------------------------------------
(* The lexer.  A character is named by its place; the end of the file is a *)
(* character behind the last one.                                          *)

Char(p) == IF p <= Len(text) THEN text[p] ELSE "EOF"

\* The first place from p on with a character that is not in S.
After(p, S) == CHOOSE q \in p..(Len(text) + 1) :
                 Char(q) \notin S /\ \A r \in p..(q - 1) : Char(r) \in S

\* A comment ends at its line's end or at the end of the file.
CommentEnd(p) == CHOOSE q \in p..(Len(text) + 1) :
                   /\ Char(q) \in {"newline", "EOF"}
                   /\ \A r \in p..(q - 1) : Char(r) \notin {"newline", "EOF"}

SkipTo_Once(p) == LET q == After(p, Blanks) IN IF Char(q) = "#" THEN CommentEnd(q) ELSE q

\* gettok skips blanks, and calls itself after a comment.
SkipTo(p) ==
  LET From[lastChar \in 1..(Len(text) + 1)] ==
        LET q == After(lastChar, Blanks)
        IN IF Char(q) = "#" THEN From[CommentEnd(q)] ELSE q
  IN From[p]

\* next is LastChar when gettok returns; the end of the file is not eaten.
Token(t, from, next) == [t |-> t, w |-> SubSeq(text, from, next - 1), from |-> from, next |-> next]

gettok(lastChar) ==
  LET p == SkipTo(lastChar)
  IN CASE Char(p) \in Letters ->
            LET q == After(p, Letters \cup (Digits \ {"."}))
                word == SubSeq(text, p, q - 1)
            IN Token(IF word \in DOMAIN Keywords THEN Keywords[word] ELSE "identifier", p, q)
       [] Char(p) \in Digits -> Token("number", p, After(p, Digits))
       [] Char(p) = "EOF" -> Token("eof", p, p)
       [] OTHER -> Token(Char(p), p, p + 1)

Tokens ==
  LET From[lastChar \in 1..(Len(text) + 1)] ==
        LET tok == gettok(lastChar)
        IN <<tok>> \o IF tok.t = "eof" THEN <<>> ELSE From[tok.next]
  IN From[1]

\* The token behind a token; tok_eof comes again and again.
getNextToken(i) == IF tokens[i].t = "eof" THEN i ELSE i + 1

-----------------------------------------------------------------------------
(* Trees and items *)

NumberExpr == [k |-> "number"]
VariableExpr(n) == [k |-> "variable", n |-> n]
BinaryExpr(op, l, r) == [k |-> "binary", op |-> op, l |-> l, r |-> r]
CallExpr(f, args) == [k |-> "call", f |-> f, args |-> args]
Prototype(f, params) == [k |-> "extern", f |-> f, params |-> params]
Function(proto, body) == [k |-> "def", f |-> proto.f, params |-> proto.params, body |-> body]
Anonymous(body) == [k |-> "expr", body |-> body]

\* What the functions return, nullptr or a tree, and CurTok after it.
Fail(cur) == [ok |-> FALSE, cur |-> cur]
Ok(tree, cur) == [ok |-> TRUE, tree |-> tree, cur |-> cur]

-----------------------------------------------------------------------------
(* The parser.  Its functions call each other: each is given the results   *)
(* P of the calls it makes, and Parse ties the knot.  A call is named by   *)
(* the function, ExprPrec, and the place of CurTok.                        *)

GetTokPrecedence(i) ==
  IF tokens[i].t \in DOMAIN BinopPrecedence THEN BinopPrecedence[tokens[i].t] ELSE -1

ParseParenExpr(P, i) ==
  LET v == P[<<"expression", 0, getNextToken(i)>>]
  IN CASE ~ v.ok -> v
       [] v.ok /\ tokens[v.cur].t # ")" -> Fail(v.cur)
       [] OTHER -> Ok(v.tree, getNextToken(v.cur))

ParseArguments_AnySeparator(P, i) ==
  LET arg == P[<<"expression", 0, i>>]
      rest == P[<<"arguments", 0, getNextToken(arg.cur)>>]
  IN CASE ~ arg.ok -> arg
       [] arg.ok /\ tokens[arg.cur].t = ")" -> Ok(<<arg.tree>>, getNextToken(arg.cur))
       [] arg.ok /\ tokens[arg.cur].t = "eof" -> Fail(arg.cur)
       [] OTHER -> IF rest.ok THEN Ok(<<arg.tree>> \o rest.tree, rest.cur) ELSE rest

\* The loop over the arguments of a call, from the first token of one.
ParseArguments(P, i) ==
  LET arg == P[<<"expression", 0, i>>]
      rest == P[<<"arguments", 0, getNextToken(arg.cur)>>]
  IN CASE ~ arg.ok -> arg
       [] arg.ok /\ tokens[arg.cur].t = ")" -> Ok(<<arg.tree>>, getNextToken(arg.cur))
       [] arg.ok /\ tokens[arg.cur].t = "," ->
            IF rest.ok THEN Ok(<<arg.tree>> \o rest.tree, rest.cur) ELSE rest
       [] OTHER -> Fail(arg.cur)

ParseIdentifierExpr(P, i) ==
  LET name == tokens[i].w
      open == getNextToken(i)
      first == getNextToken(open)
      args == P[<<"arguments", 0, first>>]
  IN CASE tokens[open].t # "(" -> Ok(VariableExpr(name), open)
       [] tokens[open].t = "(" /\ tokens[first].t = ")" -> Ok(CallExpr(name, <<>>), getNextToken(first))
       [] OTHER -> IF args.ok THEN Ok(CallExpr(name, args.tree), args.cur) ELSE args

ParsePrimary(P, i) ==
  CASE tokens[i].t = "identifier" -> ParseIdentifierExpr(P, i)
    [] tokens[i].t = "number" -> Ok(NumberExpr, getNextToken(i))
    [] tokens[i].t = "(" -> ParseParenExpr(P, i)
    [] OTHER -> Fail(i)

\* LHS after the loop of ParseBinOpRHS has merged it with one operand after the other.
Merge(lhs, operands) ==
  LET LHS[k \in 0..Len(operands)] ==
        IF k = 0 THEN lhs ELSE BinaryExpr(operands[k].op, LHS[k - 1], operands[k].rhs)
  IN LHS[Len(operands)]

ParseBinOpRHS_Right(P, exprPrec, i) ==
  LET tokPrec == GetTokPrecedence(i)
      primary == P[<<"primary", 0, getNextToken(i)>>]
      pending == P[<<"binoprhs", tokPrec, primary.cur>>]
      rhs == CASE ~ primary.ok \/ tokPrec > GetTokPrecedence(primary.cur) -> primary
               [] OTHER -> IF pending.ok THEN Ok(Merge(primary.tree, pending.tree), pending.cur) ELSE pending
      rest == P[<<"binoprhs", exprPrec, rhs.cur>>]
  IN CASE tokPrec < exprPrec -> Ok(<<>>, i)
       [] tokPrec >= exprPrec /\ ~ rhs.ok -> rhs
       [] OTHER -> IF rest.ok THEN Ok(<<[op |-> tokens[i].t, rhs |-> rhs.tree]>> \o rest.tree, rest.cur)
                   ELSE rest

\* The operands LHS is to be merged with.  An operator that binds tighter than this one
\* takes the right operand for its left.
ParseBinOpRHS(P, exprPrec, i) ==
  LET tokPrec == GetTokPrecedence(i)
      primary == P[<<"primary", 0, getNextToken(i)>>]
      pending == P[<<"binoprhs", tokPrec + 1, primary.cur>>]
      rhs == CASE ~ primary.ok \/ tokPrec >= GetTokPrecedence(primary.cur) -> primary
               [] OTHER -> IF pending.ok THEN Ok(Merge(primary.tree, pending.tree), pending.cur) ELSE pending
      rest == P[<<"binoprhs", exprPrec, rhs.cur>>]
  IN CASE tokPrec < exprPrec -> Ok(<<>>, i)
       [] tokPrec >= exprPrec /\ ~ rhs.ok -> rhs
       [] OTHER -> IF rest.ok THEN Ok(<<[op |-> tokens[i].t, rhs |-> rhs.tree]>> \o rest.tree, rest.cur)
                   ELSE rest

ParseExpression(P, i) ==
  LET lhs == P[<<"primary", 0, i>>]
      rhs == P[<<"binoprhs", 0, lhs.cur>>]
  IN CASE ~ lhs.ok -> lhs
       [] lhs.ok /\ ~ rhs.ok -> rhs
       [] OTHER -> Ok(Merge(lhs.tree, rhs.tree), rhs.cur)

Parsed(P, function, exprPrec, i) ==
  CASE function = "primary" -> ParsePrimary(P, i)
    [] function = "binoprhs" -> ParseBinOpRHS(P, exprPrec, i)
    [] function = "expression" -> ParseExpression(P, i)
    [] function = "arguments" -> ParseArguments(P, i)

\* No operator binds tighter than with 40.
ParseCalls == {"primary", "binoprhs", "expression", "arguments"} \X (0..41) \X DOMAIN tokens

Parse ==
  LET P[call \in ParseCalls] == Parsed(P, call[1], call[2], call[3])
  IN P

\* The identifiers behind the parenthesis i, and the token behind them.
ParseParameters(i) ==
  LET close == CHOOSE k \in (i + 1)..Len(tokens) :
                 /\ tokens[k].t # "identifier"
                 /\ \A l \in (i + 1)..(k - 1) : tokens[l].t = "identifier"
  IN [params |-> [k \in 1..(close - i - 1) |-> tokens[i + k].w], close |-> close]

ParsePrototype(i) ==
  LET open == getNextToken(i)
      args == ParseParameters(open)
  IN CASE tokens[i].t # "identifier" -> Fail(i)
       [] tokens[i].t = "identifier" /\ tokens[open].t # "(" -> Fail(open)
       [] tokens[i].t = "identifier" /\ tokens[open].t = "(" /\ tokens[args.close].t # ")" -> Fail(args.close)
       [] OTHER -> Ok(Prototype(tokens[i].w, args.params), getNextToken(args.close))

ParseDefinition(i) ==
  LET proto == ParsePrototype(getNextToken(i))
      body == Parse[<<"expression", 0, proto.cur>>]
  IN CASE ~ proto.ok -> proto
       [] proto.ok /\ ~ body.ok -> body
       [] OTHER -> Ok(Function(proto.tree, body.tree), body.cur)

ParseTopLevelExpr(i) ==
  LET e == Parse[<<"expression", 0, i>>]
  IN IF e.ok THEN Ok(Anonymous(e.tree), e.cur) ELSE e

ParseExtern(i) == ParsePrototype(getNextToken(i))

-----------------------------------------------------------------------------
(* The main loop *)

ParserInit ==
  /\ text \in Texts
  /\ tokens = Tokens
  /\ CurTok = 1
  /\ turns = <<>>
  /\ done = FALSE

Turn(turn) ==
  /\ CurTok' = turn.to
  /\ turns' = Append(turns, turn)
  /\ UNCHANGED <<text, tokens, done>>

Recover_None(i) == i

\* "Skip token for error recovery."
Recover(i) == getNextToken(i)

Handle(r) ==
  IF r.ok THEN Turn([from |-> CurTok, to |-> r.cur, got |-> "item", item |-> r.tree])
  ELSE Turn([from |-> CurTok, to |-> Recover(r.cur), got |-> "error"])

SemicolonTurn ==
  ~ done /\ tokens[CurTok].t = ";" /\ Turn([from |-> CurTok, to |-> getNextToken(CurTok), got |-> "nothing"])
DefinitionTurn == ~ done /\ tokens[CurTok].t = "def" /\ Handle(ParseDefinition(CurTok))
ExternTurn == ~ done /\ tokens[CurTok].t = "extern" /\ Handle(ParseExtern(CurTok))
ExpressionTurn ==
  /\ ~ done
  /\ tokens[CurTok].t \notin {"eof", ";", "def", "extern"}
  /\ Handle(ParseTopLevelExpr(CurTok))
Return == ~ done /\ tokens[CurTok].t = "eof" /\ done' = TRUE /\ UNCHANGED <<text, tokens, CurTok, turns>>

MainLoop == SemicolonTurn \/ DefinitionTurn \/ ExternTurn \/ ExpressionTurn \/ Return

ParserSpec == ParserInit /\ [][MainLoop]_parserVars
=============================================================================
