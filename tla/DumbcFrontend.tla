---------------------------- MODULE DumbcFrontend ----------------------------
(***************************************************************************)
(* The front end of dumbc: DumbcLexer on the characters of an expression   *)
(* and DumbcParser on what it reads there.                                 *)
(*                                                                         *)
(* The DEBUG build runs the lexer over the whole expression before the     *)
(* parser does; the other build only as the parser asks for tokens.  The   *)
(* lexer knows nothing of the parser, so that it reads the same tokens     *)
(* either way, and here always runs first.  An unknown character is the    *)
(* last thing it can reach.                                                *)
(***************************************************************************)
EXTENDS DumbcParser

CONSTANTS
  Exprs,      \* the expressions, sequences of the lexer's characters
  MaxDigits   \* the digits parse_numeric_literal has room for, 32

VARIABLES expr, position, read_position, ch, lexing, start, tokens

Lexer == INSTANCE DumbcLexer WITH mode <- lexing

ASSUME FrontendAssumption == Exprs \subseteq Seq(Lexer!Chars) /\ MaxDigits \in Nat

lexerVars == <<expr, position, read_position, ch, lexing, start, tokens>>

FrontendInit ==
  /\ Lexer!Init
  /\ input = <<>>
  /\ debug = FALSE
  /\ pos = 1
  /\ curr = NoToken /\ peek = NoToken
  /\ stack = <<>>
  /\ mode = "lexing"
  /\ prec = LOWEST
  /\ ret = [err |-> 0, tree |-> Junk]
  /\ dropped = {}

Lexing == mode = "lexing" /\ Lexer!Next /\ UNCHANGED vars

\* The parser's view of a token.
LexemeOf(token) ==
  IF token.t = "num" THEN IF token.len > MaxDigits THEN "big" ELSE "num" ELSE token.t

StartParser ==
  /\ mode = "lexing"
  /\ lexing \in {"eof", "error"}
  /\ input' = [k \in DOMAIN tokens |-> LexemeOf(tokens[k])]
                \o (IF lexing = "error" THEN <<"bad">> ELSE <<>>)
  /\ debug' \in BOOLEAN
  /\ mode' = "start"
  /\ UNCHANGED <<pos, curr, peek, stack, prec, ret, dropped, lexerVars>>

Parsing == mode # "lexing" /\ Next /\ UNCHANGED lexerVars

FrontendNext == Lexing \/ StartParser \/ Parsing

\* One thread of straight-line code.
FrontendSpec ==
  FrontendInit /\ [][FrontendNext]_<<vars, lexerVars>>
  /\ WF_<<vars, lexerVars>>(FrontendNext)

-----------------------------------------------------------------------------
(* Properties *)

FrontendTypeOK ==
  /\ Lexer!TypeOK
  /\ mode # "lexing" => TypeOK /\ input \in Seq(Lexemes) /\ Len(input) <= Len(expr)

\* The tokens are the expression (DumbcLexer).
TokensCoverInput == Lexer!TokensCoverInput

\* Lexer and parser come to an end, unless an unknown character meets a build that
\* does not run the lexer first: after "(" the stale peek token is a "(" again
\* and parse_grouped calls itself until the C stack is full.
Terminates == <>(mode = "done" \/ (mode = "overflow" /\ ~ debug /\ HasBad))
=============================================================================
