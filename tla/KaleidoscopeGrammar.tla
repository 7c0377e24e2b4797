-------------------------- MODULE KaleidoscopeGrammar --------------------------
(***************************************************************************)
(* What the front end of kaleidoscope is meant to read: its tokens, by the *)
(* characters they stand on, and its items, by a grammar without           *)
(* precedences, as the comments over the parser give it but for the        *)
(* levels of the operators and the commas between arguments:               *)
(*   sum ::= product | sum + product | sum - product, and so on            *)
(*   primary ::= number | id | id ( expressions ) | ( expression )         *)
(*   item ::= def prototype expression | extern prototype | expression     *)
(***************************************************************************)
EXTENDS KaleidoscopeParser

Levels == {"comparison", "sum", "product", "primary", "list"}

\* What the productions make of the tokens i..j, D having the trees of the shorter spans
\* (and, of this one, those of the levels below).
Derived(D, level, i, j) ==
  LET Split(left, ops, right) ==
        UNION { { BinaryExpr(tokens[m].t, a, b) : a \in D[<<left, i, m - 1>>], b \in D[<<right, m + 1, j>>] }
                : m \in { k \in (i + 1)..(j - 1) : tokens[k].t \in ops } }
      Primary ==
        CASE i = j /\ tokens[i].t = "number" -> {NumberExpr}
          [] i = j /\ tokens[i].t = "identifier" -> {VariableExpr(tokens[i].w)}
          [] i + 1 < j /\ tokens[i].t = "(" /\ tokens[j].t = ")" -> D[<<"comparison", i + 1, j - 1>>]
          [] i + 1 < j /\ tokens[i].t = "identifier" /\ tokens[i + 1].t = "(" /\ tokens[j].t = ")" ->
               { CallExpr(tokens[i].w, args) :
                 args \in IF i + 2 = j THEN { <<>> } ELSE D[<<"list", i + 2, j - 1>>] }
          [] OTHER -> {}
  IN CASE i > j -> {}
       [] i <= j /\ level = "comparison" -> D[<<"sum", i, j>>] \cup Split("comparison", {"<"}, "sum")
       [] i <= j /\ level = "sum" -> D[<<"product", i, j>>] \cup Split("sum", {"+", "-"}, "product")
       [] i <= j /\ level = "product" -> D[<<"primary", i, j>>] \cup Split("product", {"*"}, "primary")
       [] i <= j /\ level = "primary" -> Primary
       [] i <= j /\ level = "list" ->
            { <<a>> : a \in D[<<"comparison", i, j>>] }
            \cup UNION { { <<a>> \o as : a \in D[<<"comparison", i, m - 1>>], as \in D[<<"list", m + 1, j>>] }
                         : m \in { k \in (i + 1)..(j - 1) : tokens[k].t = "," } }

Spans == Levels \X (1..(Len(tokens) + 1)) \X (0..Len(tokens))

Trees ==
  LET D[s \in Spans] == Derived(D, s[1], s[2], s[3])
  IN D

\* The trees of the tokens i..j as an expression, as a prototype and as an item.
Expressions(i, j) == Trees[<<"comparison", i, j>>]

Prototypes(i, j) ==
  IF /\ i + 2 <= j /\ tokens[i].t = "identifier" /\ tokens[i + 1].t = "(" /\ tokens[j].t = ")"
     /\ \A k \in (i + 2)..(j - 1) : tokens[k].t = "identifier"
  THEN { Prototype(tokens[i].w, [k \in 1..(j - i - 2) |-> tokens[i + 1 + k].w]) }
  ELSE {}

Items(i, j) ==
  CASE i <= j /\ tokens[i].t = "def" ->
         UNION { { Function(p, e) : p \in Prototypes(i + 1, m), e \in Expressions(m + 1, j) }
                 : m \in (i + 1)..(j - 1) }
    [] i <= j /\ tokens[i].t = "extern" -> Prototypes(i + 1, j)
    [] OTHER -> { Anonymous(e) : e \in Expressions(i, j) }

-----------------------------------------------------------------------------
(* Properties *)

\* Where a comment is: behind a "#", up to the end of its line.
InComment(p) ==
  \E q \in 1..p : text[q] = "#" /\ \A r \in q..p : text[r] # "newline"

\* gettok returns the text: every character that is neither blank nor in a comment
\* belongs to exactly one token, in order; words and numbers are as long as they can
\* be, and other characters are tokens of their own.
TokensAreTheText ==
  LET Code == { p \in 1..Len(text) : text[p] \notin Blanks /\ ~ InComment(p) }
      Of(tok) == tok.from..(tok.next - 1)
  IN turns = <<>> =>
       /\ Code = UNION { Of(tok) : tok \in ToSet(tokens) }
       /\ \A k \in DOMAIN tokens :
            LET tok == tokens[k]
            IN /\ k > 1 => tokens[k - 1].next <= tok.from
               /\ CASE tok.t \in {"identifier", "def", "extern"} ->
                         /\ text[tok.from] \in Letters
                         /\ \A p \in Of(tok) : text[p] \in Letters \cup Digits
                         /\ Char(tok.next) \notin Letters \cup (Digits \ {"."})
                         /\ tok.t = "identifier" <=> tok.w \notin DOMAIN Keywords
                    [] tok.t = "number" ->
                         (\A p \in Of(tok) : text[p] \in Digits) /\ Char(tok.next) \notin Digits
                    [] tok.t = "eof" -> k = Len(tokens)
                    [] OTHER -> tok.w = <<tok.t>>

\* What a turn of the loop reads has exactly the tree the grammar gives it, and what
\* the grammar derives up to a semicolon, or the end, is read as one item: the parser's
\* precedences, associativity and lookahead are the grammar's.
ParsesTheGrammar ==
  turns # <<>> =>
    LET turn == Last(turns)
        end == CHOOSE k \in turn.from..Len(tokens) :
                 /\ tokens[k].t \in {";", "eof"}
                 /\ \A l \in turn.from..(k - 1) : tokens[l].t # ";"
        whole == Items(turn.from, end - 1)
    IN /\ turn.got = "item" => Items(turn.from, turn.to - 1) = {turn.item}
       /\ whole # {} => turn.got = "item" /\ whole = {turn.item}

\* A semicolon is never read into an item, nor skipped together with what follows it:
\* whatever stands before it, however broken, the next token begins a turn of the loop.
SemicolonsResynchronise ==
  \A k \in 2..(CurTok - 1) :
    tokens[k - 1].t = ";" => \E turn \in ToSet(turns) : turn.from = k

\* Every turn of the loop goes forward in the text, one that ends in an error too, and
\* wherever in an item the error was met: so the loop comes to the end of every text.
TurnsGoForward == [][turns' # turns => CurTok' > CurTok]_parserVars
=============================================================================
