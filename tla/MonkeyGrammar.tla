----------------------------- MODULE MonkeyGrammar -----------------------------
(***************************************************************************)
(* What the front end of monkey reads, against which MonkeyParser is       *)
(* checked: tokens by the characters they stand on, lines by a grammar     *)
(* with a symbol for each precedence and no state.  Two of its rules are   *)
(* what the parser makes of them: a block may end at an end of the input   *)
(* instead of its brace, and any token, an end of the input too, may stand *)
(* where a parameter should.                                               *)
(***************************************************************************)
EXTENDS MonkeyParser, FiniteSetsExt

\* The tokens, with as many ends behind them as can be needed to close blocks.
Padded == tokens \o [k \in 1..(1 + Quantify(DOMAIN tokens, LAMBDA i : tokens[i].t = "{")) |-> EOF]

\* The trees of w[i..j] for each symbol of the grammar; D has those of all shorter stretches.
Derivations(w, D, i, j) ==
  LET Of(a, b, symbol) == IF a > b THEN {} ELSE D[a, b][symbol]
      Starts(ts) == i + Len(ts) - 1 <= j /\ \A k \in DOMAIN ts : w[i + k - 1].t = ts[k]
      Ends(t) == i < j /\ w[j].t = t
      One(t) == i = j /\ w[i].t = t
      \* The trees Build(m) for the places m of tokens in T.
      At(T, Build(_)) == UNION { Build(m) : m \in { k \in (i + 1)..j : w[k].t \in T } }
      If(condition, trees) == IF condition THEN trees ELSE {}
      \* Operators of one precedence associate to the left.
      Binary(left, ops, right) ==
        At(ops, LAMBDA m : { InfixExpression(w[m].t, l, r) : l \in D[i, m - 1][left], r \in Of(m + 1, j, right) })
      \* One or more, with commas between them.
      Listed(one, lists, item) ==
        { <<x>> : x \in one }
        \cup At({","}, LAMBDA m : { Append(l, x) : l \in D[i, m - 1][lists], x \in Of(m + 1, j, item) })
      List(a, b) == IF a > b THEN {<<>>} ELSE D[a, b].list
      \* Parameters between the parentheses at i + 1 and m.
      Parameters(m) ==
        CASE m = i + 2 -> {<<>>}
          [] /\ m > i + 2 /\ (m - i) % 2 = 1 /\ w[i + 2].t # ")"
             /\ \A k \in (i + 2)..(m - 1) : (k - i) % 2 = 1 => w[k].t = "," ->
               { [k \in 1..((m - i - 1) \div 2) |-> w[i + 2 * k].w] }
          [] OTHER -> {}
      number == ParseInt(w[i].w)
      primary ==
        CASE One("IDENT") -> { Identifier(w[i].w) }
          [] One("INT") /\ number.ok -> { IntegerLiteral(number.v) }
          [] One("STRING") -> { StringLiteral(w[i].w) }
          [] One("TRUE") \/ One("FALSE") -> { Boolean(w[i].t = "TRUE") }
          [] Starts(<<"(">>) /\ Ends(")") -> Of(i + 1, j - 1, "e")
          [] Starts(<<"[">>) /\ Ends("]") -> { ArrayLiteral(l) : l \in List(i + 1, j - 1) }
          [] Starts(<<"{">>) /\ Ends("}") ->
               IF j = i + 1 THEN { HashLiteral(<<>>) }
               ELSE { HashLiteral(ps) : ps \in Of(i + 1, IF w[j - 1].t = "," THEN j - 2 ELSE j - 1, "pairs") }
          [] Starts(<<"FUNCTION", "(">>) ->
               At({")"}, LAMBDA m :
                 { FunctionLiteral(ps, b) : ps \in Parameters(m), b \in Of(m + 1, j, "block") })
          [] Starts(<<"IF", "(">>) ->
               At({")"}, LAMBDA m :
                 LET Whole(thens, elses) ==
                       { IfExpression(c, th, el) : c \in Of(i + 2, m - 1, "e"), th \in thens, el \in elses }
                 IN Whole(Of(m + 1, j, "block"), { NoBlock })
                    \cup At({"ELSE"}, LAMBDA n : Whole(Of(m + 1, n - 1, "block"), Of(n + 1, j, "block"))))
          [] OTHER -> {}
      postfix ==
        primary
        \cup If(Ends(")"), At({"("}, LAMBDA m :
               { CallExpression(f, l) : f \in D[i, m - 1].postfix, l \in List(m + 1, j - 1) }))
        \cup If(Ends("]"), At({"["}, LAMBDA m :
               { IndexExpression(l, x) : l \in D[i, m - 1].postfix, x \in Of(m + 1, j - 1, "e") }))
      unary == postfix \cup If(w[i].t \in {"!", "-"}, { PrefixExpression(w[i].t, x) : x \in Of(i + 1, j, "unary") })
      product == unary \cup Binary("product", {"*", "/"}, "unary")
      sum == product \cup Binary("sum", {"+", "-"}, "product")
      lessgreater == sum \cup Binary("lessgreater", {"<", ">"}, "sum")
      e == lessgreater \cup Binary("e", {"==", "!="}, "lessgreater")
      pair == At({":"}, LAMBDA m : { <<k, v>> : k \in D[i, m - 1].e, v \in Of(m + 1, j, "e") })
      bare == e
              \cup If(Starts(<<"LET", "IDENT", "=">>), { LetStatement(w[i + 1].w, x) : x \in Of(i + 3, j, "e") })
              \cup If(Starts(<<"RETURN">>), { ReturnStatement(x) : x \in Of(i + 1, j, "e") })
      \* No token that would go on with the expression follows a statement without a semicolon.
      open == j < Len(w) /\ w[j + 1].t \in DOMAIN precedences
      statement == If(~ open, bare) \cup If(Ends(";"), Of(i, j - 1, "bare"))
      statements == { <<s>> : s \in statement }
                    \cup UNION { { Append(ss, s) : ss \in D[i, m].statements, s \in D[m + 1, j].statement }
                                 : m \in i..(j - 1) }
      block == If(Starts(<<"{">>) /\ (Ends("}") \/ Ends("EOF")),
                  { BlockStatement(ss) : ss \in IF j = i + 1 THEN {<<>>} ELSE D[i + 1, j - 1].statements })
  IN [postfix |-> postfix, unary |-> unary, product |-> product, sum |-> sum, lessgreater |-> lessgreater,
      e |-> e, list |-> Listed(e, "list", "e"), pair |-> pair, pairs |-> Listed(pair, "pairs", "pair"),
      bare |-> bare, statement |-> statement, statements |-> statements, block |-> block]

\* The programs of the line: statements up to an end that closes no block.
Programs ==
  LET w == Padded
      Longer(D, n) == D @@ [span \in { <<i, i + n - 1>> : i \in 1..(Len(w) - n + 1) } |->
                              Derivations(w, D, span[1], span[2])]
      D == FoldLeft(Longer, <<>>, [n \in 1..Len(w) |-> n])
  IN IF w[1].t = "EOF" THEN {<<>>}
     ELSE UNION { D[1, j].statements : j \in { k \in 1..(Len(w) - 1) : w[k + 1].t = "EOF" } }

-----------------------------------------------------------------------------
(* Properties *)

\* NextToken returns the text: every character that is neither blank nor NUL belongs
\* to exactly one token, in order, those of a string with its quotes; words and
\* numbers are as long as they can be, "==" is never two tokens, and a string is not
\* closed before its quote, unless the line ends, or a NUL stands in it.
TokensAreTheText ==
  LET Of(tok) == IF tok.t = "STRING" THEN (tok.from - 1)..(tok.next - 1) ELSE tok.from..(tok.next - 1)
  IN /\ { p \in DOMAIN text : text[p] \notin Blanks } \subseteq UNION { Of(tokens[k]) : k \in DOMAIN tokens }
     /\ \A k \in DOMAIN tokens :
          LET tok == tokens[k]
              after == Char(tok.next)
          IN /\ k > 1 => \A p \in Of(tokens[k - 1]), q \in Of(tok) : p < q
             /\ tok.t # "STRING" => \A p \in 1..Len(tok.w) : tok.w[p] = text[tok.from + p - 1]
             /\ CASE tok.t = "STRING" ->
                       /\ \A p \in 1..Len(tok.w) : tok.w[p] \notin {"quote", "NUL"}
                       /\ Char(tok.from - 1) = "quote" /\ Char(tok.next - 1) \in {"quote", "NUL"}
                  [] tok.w # <<>> /\ ToSet(tok.w) \subseteq Letters ->
                       after \notin Letters /\ (tok.t = "IDENT" <=> tok.w \notin DOMAIN Keywords)
                  [] tok.t = "INT" -> ToSet(tok.w) \subseteq Digits /\ after \notin Digits
                  [] OTHER -> tok.t \in {"=", "!"} => after # "="

\* A line without errors has exactly one derivation, its program; a line with errors
\* has none.  So the precedences, the lookahead and the recovery from errors do what
\* the grammar says, and no tree with a hole in it is ever evaluated.
ParsesTheGrammar ==
  /\ pc = "parsed" => Programs = {program}
  /\ pc = "rejected" => Programs = {}

\* What the REPL gives to the evaluator is what stands in the line.
LinesReadAsWritten == (cur = 1 => TokensAreTheText) /\ ParsesTheGrammar
=============================================================================
