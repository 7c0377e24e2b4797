----------------------------- MODULE DumbcParser -----------------------------
(***************************************************************************)
(* The Pratt parser of dumbc (main.c).  The input is a sequence of lexemes: *)
(* "num", "big" (a literal of more than 32 digits), the operators and       *)
(* parentheses, and "bad" (a character no token starts with).               *)
(*                                                                          *)
(* The C call stack is the variable stack: one frame for each pending       *)
(* parse_unary_*, parse_grouped or binary parse function, together with the *)
(* parser_parse_expression that called it.  parser_parse_expression is      *)
(*   called   (mode "call", argument prec),                                 *)
(*   runs its loop (mode "loop", ret holds err and *e), and                 *)
(*   returns  (mode "return", ret holds err and *e).                        *)
(*                                                                          *)
(* Two kinds of error do not reach the caller: that of a parser_next_token  *)
(* whose result is not looked at, and that of a prefix function, which the  *)
(* loop overwrites with the result of the next infix function.  dropped     *)
(* records them.                                                            *)
(*                                                                          *)
(* Abstraction: arena_alloc succeeds (Arena models its failures), and the   *)
(* value atoi gives to a literal is not modelled.                           *)
(***************************************************************************)
EXTENDS ExprGrammar

CONSTANTS
  Inputs,    \* the lexeme sequences to parse
  MaxFrames  \* frames the C stack holds

Lexemes == {"num", "big", "+", "-", "*", "(", ")", "bad"}

ASSUME ParserAssumption ==
  /\ Inputs \subseteq Seq(Lexemes)
  /\ MaxFrames \in Nat

E_LITERAL_TOO_LARGE == 3
E_UNKNOWN_TOKEN == 4
E_INVALID_PREFIX_FN == 7
E_UNCLOSED_PAREN == 9

LOWEST == 1
SUM == 2
PRODUCT == 3
PREFIX == 4

VARIABLES
  input,    \* the expression, constant after Init
  debug,    \* built with -DDEBUG (the Makefile's build), constant after Init
  pos,      \* the lexeme the lexer is at
  curr,     \* parser->curr_token
  peek,     \* parser->peek_token
  stack,    \* pending calls, the innermost last
  mode,     \* "start", "call", "loop", "return", "done", "overflow"
  prec,     \* the precedence argument of the running parser_parse_expression
  ret,      \* its err and *e
  dropped   \* history: the errors that were not reported

vars == <<input, debug, pos, curr, peek, stack, mode, prec, ret, dropped>>

-----------------------------------------------------------------------------
(* Lexer, at the level of lexemes *)

EOF == [t |-> "eof", at |-> 0]
NoToken == [t |-> "num", at |-> 0]   \* the zero token of parser_t p = {...}

TokenType(lexeme) == IF lexeme = "big" THEN "num" ELSE lexeme

Lex_PastEnd(p, stale) ==
  IF p > Len(input) THEN [err |-> 0, tok |-> EOF, pos |-> p + 1]
  ELSE IF input[p] = "bad" THEN [err |-> E_UNKNOWN_TOKEN, tok |-> stale, pos |-> p]
  ELSE [err |-> 0, tok |-> [t |-> TokenType(input[p]), at |-> p], pos |-> p + 1]

\* lexer_next_token with the lexer at p, writing over the token stale: an
\* unknown character is an error that neither advances nor writes the token.
Lex(p, stale) ==
  IF p > Len(input) THEN [err |-> 0, tok |-> EOF, pos |-> p]
  ELSE IF input[p] = "bad" THEN [err |-> E_UNKNOWN_TOKEN, tok |-> stale, pos |-> p]
  ELSE [err |-> 0, tok |-> [t |-> TokenType(input[p]), at |-> p], pos |-> p + 1]

\* One parser_next_token, and two in a row: the error is that of the lexer.
Advance1 == Lex(pos, peek)
Advance2 == Lex(Advance1.pos, Advance1.tok)

NextToken == curr' = peek /\ peek' = Advance1.tok /\ pos' = Advance1.pos

NextTokenTwice == curr' = Advance1.tok /\ peek' = Advance2.tok /\ pos' = Advance2.pos

LexerError(errs) == IF E_UNKNOWN_TOKEN \in errs THEN {"lexer"} ELSE {}

PeekPrecedence_FlatSum(t) == IF t \in {"+", "-", "*"} THEN SUM ELSE LOWEST

PeekPrecedence(t) ==
  IF t \in {"+", "-"} THEN SUM ELSE
  IF t = "*" THEN PRODUCT ELSE LOWEST

-----------------------------------------------------------------------------
Init ==
  /\ input \in Inputs
  /\ debug \in BOOLEAN
  /\ pos = 1
  /\ curr = NoToken
  /\ peek = NoToken
  /\ stack = <<>>
  /\ mode = "start"
  /\ prec = LOWEST
  /\ ret = [err |-> 0, tree |-> Junk]
  /\ dropped = {}

\* parser_parse_expression is called with precedence p; f is the frame of the
\* caller.  A C stack with no room for the call ends the program.
Call(f, p) ==
  IF Len(stack) < MaxFrames
  THEN stack' = Append(stack, f) /\ mode' = "call" /\ prec' = p
  ELSE mode' = "overflow" /\ UNCHANGED <<stack, prec>>

\* The prefix or infix function of the running parser_parse_expression is done.
Finish(p, err, tree) ==
  /\ mode' = "loop"
  /\ prec' = p
  /\ ret' = [err |-> err, tree |-> tree]

\* parser_parse_expression is left.
Return(err, tree) ==
  /\ mode' = "return"
  /\ ret' = [err |-> err, tree |-> tree]

(***************************************************************************)
(* main: the DEBUG build runs the lexer over the whole expression first.   *)
(* parser_init: two tokens, each error reported.                           *)
(***************************************************************************)
ParserInit ==
  /\ mode = "start"
  /\ IF debug /\ \E i \in 1..Len(input) : input[i] = "bad"
     THEN /\ mode' = "done"
          /\ ret' = [err |-> E_UNKNOWN_TOKEN, tree |-> Junk]
          /\ UNCHANGED <<pos, curr, peek>>
     ELSE IF Advance1.err # 0
     THEN /\ NextToken
          /\ mode' = "done"
          /\ ret' = [err |-> Advance1.err, tree |-> Junk]
     ELSE /\ NextTokenTwice
          /\ IF Advance2.err # 0
             THEN mode' = "done" /\ ret' = [err |-> Advance2.err, tree |-> Junk]
             ELSE mode' = "call" /\ UNCHANGED ret
  /\ UNCHANGED <<input, debug, stack, prec, dropped>>

\* No prefix function for the current token: parser_parse_expression returns
\* the error at once.
NoPrefixFunction ==
  /\ mode = "call"
  /\ curr.t \notin {"+", "-", "num", "("}
  /\ Return(E_INVALID_PREFIX_FN, Junk)
  /\ UNCHANGED <<input, debug, pos, curr, peek, stack, prec, dropped>>

ParseNumericLiteral ==
  /\ mode = "call"
  /\ curr.t = "num"
  /\ IF input[curr.at] = "big"
     THEN Finish(prec, E_LITERAL_TOO_LARGE, Junk)
     ELSE Finish(prec, 0, Literal(curr.at))
  /\ UNCHANGED <<input, debug, pos, curr, peek, stack, dropped>>

\* parse_unary_plus, parse_unary_minus: the lexer's error is returned.
ParseUnary ==
  /\ mode = "call"
  /\ curr.t \in {"+", "-"}
  /\ NextToken
  /\ IF Advance1.err # 0
     THEN Finish(prec, Advance1.err, Junk) /\ UNCHANGED stack
     ELSE Call([fn |-> "unary", op |-> curr.t, prec |-> prec, left |-> Junk], PREFIX)
          /\ UNCHANGED ret
  /\ UNCHANGED <<input, debug, dropped>>

UnaryReturned ==
  /\ mode = "return"
  /\ stack # <<>>
  /\ LET f == stack[Len(stack)]
     IN /\ f.fn = "unary"
        /\ IF ret.err # 0
           THEN Finish(f.prec, ret.err, Junk)
           ELSE Finish(f.prec, 0, UnaryNode(f.op, ret.tree))
  /\ stack' = SubSeq(stack, 1, Len(stack) - 1)
  /\ UNCHANGED <<input, debug, pos, curr, peek, dropped>>

ParseGrouped_NoAdvance ==
  /\ mode = "call"
  /\ curr.t = "("
  /\ Call([fn |-> "group", op |-> "(", prec |-> prec, left |-> Junk], LOWEST)
  /\ UNCHANGED <<input, debug, pos, curr, peek, ret, dropped>>

\* parse_grouped: the errors of both its parser_next_token are ignored.
ParseGrouped ==
  /\ mode = "call"
  /\ curr.t = "("
  /\ NextToken
  /\ dropped' = dropped \cup LexerError({Advance1.err})
  /\ Call([fn |-> "group", op |-> "(", prec |-> prec, left |-> Junk], LOWEST)
  /\ UNCHANGED <<input, debug, ret>>

GroupedReturned_IgnoresError ==
  /\ mode = "return"
  /\ stack # <<>>
  /\ LET f == stack[Len(stack)]
     IN /\ f.fn = "group"
        /\ IF peek.t # ")"
           THEN /\ Finish(f.prec, E_UNCLOSED_PAREN, Junk)
                /\ UNCHANGED <<pos, curr, peek, dropped>>
           ELSE /\ NextToken
                /\ dropped' = dropped \cup LexerError({Advance1.err})
                /\ Finish(f.prec, 0, ret.tree)
  /\ stack' = SubSeq(stack, 1, Len(stack) - 1)
  /\ UNCHANGED <<input, debug>>

GroupedReturned ==
  /\ mode = "return"
  /\ stack # <<>>
  /\ LET f == stack[Len(stack)]
     IN /\ f.fn = "group"
        /\ IF ret.err # 0 \/ peek.t # ")"
           THEN /\ Finish(f.prec, IF ret.err # 0 THEN ret.err ELSE E_UNCLOSED_PAREN, Junk)
                /\ UNCHANGED <<pos, curr, peek, dropped>>
           ELSE /\ NextToken
                /\ dropped' = dropped \cup LexerError({Advance1.err})
                /\ Finish(f.prec, 0, ret.tree)
  /\ stack' = SubSeq(stack, 1, Len(stack) - 1)
  /\ UNCHANGED <<input, debug>>

LoopGoesOn == peek.t # "eof" /\ prec < PeekPrecedence(peek.t)

\* One turn of the loop: the operator becomes the current token, and
\* parse_binary_plus, parse_binary_minus or parse_multiplication steps past it
\* and parses its right operand.  A prefix error in ret is forgotten here.
ParseInfix ==
  /\ mode = "loop"
  /\ LoopGoesOn
  /\ NextTokenTwice
  /\ dropped' = dropped \cup LexerError({Advance1.err, Advance2.err})
                        \cup (IF ret.err # 0 THEN {"prefix"} ELSE {})
  /\ Call([fn |-> "binary", op |-> peek.t, prec |-> prec, left |-> ret.tree],
          PeekPrecedence(peek.t))
  /\ UNCHANGED <<input, debug, ret>>

\* The error of an infix function leaves parser_parse_expression at once.
BinaryReturned ==
  /\ mode = "return"
  /\ stack # <<>>
  /\ LET f == stack[Len(stack)]
     IN /\ f.fn = "binary"
        /\ IF ret.err # 0
           THEN Return(ret.err, f.left) /\ UNCHANGED prec
           ELSE Finish(f.prec, 0, BinaryNode(f.op, f.left, ret.tree))
  /\ stack' = SubSeq(stack, 1, Len(stack) - 1)
  /\ UNCHANGED <<input, debug, pos, curr, peek, dropped>>

LoopEnds ==
  /\ mode = "loop"
  /\ ~ LoopGoesOn
  /\ Return(ret.err, ret.tree)
  /\ UNCHANGED <<input, debug, pos, curr, peek, stack, prec, dropped>>

\* main has the result; it does not look for tokens after the expression.
ParserDone ==
  /\ mode = "return"
  /\ stack = <<>>
  /\ mode' = "done"
  /\ UNCHANGED <<input, debug, pos, curr, peek, stack, prec, ret, dropped>>

Next ==
  \/ ParserInit
  \/ NoPrefixFunction \/ ParseNumericLiteral \/ ParseUnary \/ ParseGrouped
  \/ ParseInfix \/ LoopEnds
  \/ UnaryReturned \/ GroupedReturned \/ BinaryReturned
  \/ ParserDone

Spec == Init /\ [][Next]_vars

-----------------------------------------------------------------------------
(* Properties *)

\* A token the lexer made of a lexeme of the input, or the end of it.
TokenOfInput(k) ==
  \/ k = EOF
  \/ \E i \in 1..Len(input) : input[i] # "bad" /\ k = [t |-> TokenType(input[i]), at |-> i]

\* A tree of literals of the input, whose other nodes have as many operands as their
\* operation takes; the only leaf that is no literal is Junk.
NodeOfInput(n) ==
  \/ n = Junk
  \/ \E i \in 1..Len(input) : input[i] = "num" /\ n = Literal(i)
  \/ n.op \in {"pos", "neg"} /\ n.at = 0 /\ Len(n.args) = 1
  \/ n.op \in {"add", "sub", "mul"} /\ n.at = 0 /\ Len(n.args) = 2

TreeOfInput(tree) == \A n \in Nodes(tree, Len(input)) : NodeOfInput(n)

TypeOK ==
  /\ pos \in 1..(Len(input) + 1)
  /\ \A k \in {curr, peek} : TokenOfInput(k) \/ (mode \in {"start", "done"} /\ k = NoToken)
  /\ Len(stack) <= MaxFrames
  /\ \A i \in 1..Len(stack) :
       /\ \/ stack[i].fn = "unary" /\ stack[i].op \in {"+", "-"} /\ stack[i].left = Junk
          \/ stack[i].fn = "group" /\ stack[i].op = "(" /\ stack[i].left = Junk
          \/ stack[i].fn = "binary" /\ stack[i].op \in {"+", "-", "*"}
       /\ stack[i].prec \in LOWEST..PREFIX
       /\ TreeOfInput(stack[i].left)
  /\ mode \in {"start", "call", "loop", "return", "done", "overflow"}
  /\ prec \in LOWEST..PREFIX
  /\ ret.err \in {0, E_LITERAL_TOO_LARGE, E_UNKNOWN_TOKEN,
                  E_INVALID_PREFIX_FN, E_UNCLOSED_PAREN}
  /\ TreeOfInput(ret.tree)
  /\ dropped \subseteq {"lexer", "prefix"}

Accepted == mode = "done" /\ ret.err = 0

\* The expression a run should accept: the first k lexemes, when they form a
\* sum that no operator continues and no unknown character follows.
ExpectedPrefix ==
  { k \in 1..Len(input) :
      /\ k < Len(input) => input[k + 1] \notin {"+", "-", "*", "bad"}
      /\ Derivations(input, k) # {} }

HasBad == \E i \in 1..Len(input) : input[i] = "bad"

\* The precedence-climbing loop accepts the grammar and builds its trees: a run
\* that forgets no error accepts exactly the inputs that start with a sum, and
\* the tree is the one derivation of that sum (precedence, left associativity,
\* unary operators over their operand only, parentheses).
AcceptsTheGrammar ==
  mode = "done" /\ ~ (debug /\ HasBad) =>
    /\ (ret.err = 0 /\ dropped = {}) <=> ExpectedPrefix # {}
    /\ ret.err = 0 /\ dropped = {} =>
         \E k \in ExpectedPrefix : Derivations(input, k) = {ret.tree}

HasJunk(tree) == \E n \in Nodes(tree, Len(input)) : n = Junk

\* An error that a later infix function overwrites is not only unreported: it
\* leaves an expression_t nobody wrote as the left operand, which the compiler
\* (and debug_expressions) then reads; and only such an error leaves one.
ForgottenErrorLeavesJunk ==
  Accepted => (HasJunk(ret.tree) <=> "prefix" \in dropped)

\* Each pending call has consumed a lexeme of its own: without unknown characters
\* a C stack with as many frames as the input has lexemes is never full.
FramesBoundedByInput ==
  ~ HasBad => /\ Len(stack) <= Len(input)
              /\ Len(input) <= MaxFrames => mode # "overflow"
=============================================================================
