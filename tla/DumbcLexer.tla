----------------------------- MODULE DumbcLexer -----------------------------
(***************************************************************************)
(* The lexer of dumbc (main.c), a character at a time, driven as main does *)
(* in the DEBUG build: lexer_next_token until end of file or an error.     *)
(* Characters are classes: a digit, a blank, an operator or parenthesis,   *)
(* and any other character.  Positions count from 0, as in the code.       *)
(***************************************************************************)
EXTENDS Naturals, Sequences

CONSTANTS Exprs   \* the expressions, sequences of characters

Operators == {"+", "-", "*", "(", ")"}
Chars == Operators \cup {"digit", "blank", "other"}

VARIABLES
  expr,           \* lexer->expr, constant after Init
  position,       \* lexer->position, of the character ch
  read_position,  \* lexer->read_position
  ch,             \* lexer->ch, "nul" at the end
  mode,           \* in lexer_next_token, in its literal loop, or stopped
  start,          \* where the literal being read starts
  tokens          \* history: the tokens returned, with their place and length

vars == <<expr, position, read_position, ch, mode, start, tokens>>

Init ==
  /\ expr \in Exprs
  /\ position = 0
  /\ read_position = 1
  /\ ch = IF expr = <<>> THEN "nul" ELSE expr[1]
  /\ mode = "token"
  /\ start = 0
  /\ tokens = <<>>

ReadChar ==
  /\ ch' = IF read_position >= Len(expr) THEN "nul" ELSE expr[read_position + 1]
  /\ position' = read_position
  /\ read_position' = read_position + 1

Emit(t, from, len) == tokens' = Append(tokens, [t |-> t, at |-> from, len |-> len])

SkipWhitespace_NoRead ==
  /\ mode = "token"
  /\ ch = "blank"
  /\ UNCHANGED vars

SkipWhitespace ==
  /\ mode = "token"
  /\ ch = "blank"
  /\ ReadChar
  /\ UNCHANGED <<expr, mode, start, tokens>>

ReadOperator ==
  /\ mode = "token"
  /\ ch \in Operators
  /\ Emit(ch, position, 1)
  /\ ReadChar
  /\ UNCHANGED <<expr, mode, start>>

StartLiteral ==
  /\ mode = "token"
  /\ ch = "digit"
  /\ mode' = "literal"
  /\ start' = position
  /\ UNCHANGED <<expr, position, read_position, ch, tokens>>

ReadDigit ==
  /\ mode = "literal"
  /\ ch = "digit"
  /\ ReadChar
  /\ UNCHANGED <<expr, mode, start, tokens>>

EndLiteral_EatsNext ==
  /\ mode = "literal"
  /\ ch # "digit"
  /\ Emit("num", start, position - start)
  /\ mode' = "token"
  /\ ReadChar
  /\ UNCHANGED <<expr, start>>

EndLiteral ==
  /\ mode = "literal"
  /\ ch # "digit"
  /\ Emit("num", start, position - start)
  /\ mode' = "token"
  /\ UNCHANGED <<expr, position, read_position, ch, start>>

\* The end of the expression is a token that is not stepped over, and an unknown
\* character an error that leaves the lexer where it is.
Stop ==
  /\ mode = "token"
  /\ ch \in {"nul", "other"}
  /\ mode' = IF ch = "nul" THEN "eof" ELSE "error"
  /\ UNCHANGED <<expr, position, read_position, ch, start, tokens>>

Next == SkipWhitespace \/ ReadOperator \/ StartLiteral \/ ReadDigit \/ EndLiteral \/ Stop

Spec == Init /\ [][Next]_vars

-----------------------------------------------------------------------------
(* Properties *)

TypeOK ==
  /\ position \in 0..Len(expr)
  /\ read_position = position + 1
  /\ ch \in Chars \cup {"nul"}
  /\ mode \in {"token", "literal", "eof", "error"}
  /\ start \in 0..position
  /\ \A i \in 1..Len(tokens) : tokens[i].t \in Operators \cup {"num"}

\* The character at place p (from 0), "nul" outside the expression.
At(p) == IF p \in 0..(Len(expr) - 1) THEN expr[p + 1] ELSE "nul"

TokenEnd(i) == IF i = 0 THEN 0 ELSE tokens[i].at + tokens[i].len

\* The tokens are the expression: in order, without overlap, nothing but blanks
\* between them and behind the last one, an operator on its own character and a
\* literal on a run of digits that no neighbouring digit prolongs.
TokensCoverInput ==
  mode \in {"eof", "error"} =>
    /\ \A i \in 1..Len(tokens) :
         LET k == tokens[i]
         IN /\ k.at >= TokenEnd(i - 1) /\ k.len > 0
            /\ \A p \in TokenEnd(i - 1)..(k.at - 1) : At(p) = "blank"
            /\ k.t # "num" => k.len = 1 /\ At(k.at) = k.t
            /\ k.t = "num" =>
                 /\ \A p \in k.at..(k.at + k.len - 1) : At(p) = "digit"
                 /\ At(k.at + k.len) # "digit"
    /\ \A p \in TokenEnd(Len(tokens))..(position - 1) : At(p) = "blank"
    /\ IF mode = "eof" THEN position = Len(expr) ELSE At(position) = "other"
=============================================================================
