----------------------------- MODULE ExprGrammar -----------------------------
(***************************************************************************)
(* The language the parser of dumbc is meant to accept, given by a grammar *)
(* instead of by precedences:                                              *)
(*   sum     ::= product | sum + product | sum - product                   *)
(*   product ::= prefix | product * prefix                                 *)
(*   prefix  ::= num | + prefix | - prefix | ( sum )                       *)
(* Trees(w) has the trees of every span w[i..j] at every level, found from *)
(* the productions alone.                                                  *)
(***************************************************************************)
EXTENDS DumbcAst

\* What the productions make of w[i..j], D having the trees of the shorter spans (and, of
\* this one, those of the levels below).
Produced(w, D, level, i, j) ==
  LET Split(left, ops, right) ==
        UNION { { BinaryNode(w[m], l, r) :
                    l \in D[<<left, i, m - 1>>], r \in D[<<right, m + 1, j>>] }
                : m \in { k \in (i + 1)..(j - 1) : w[k] \in ops } }
  IN CASE i > j -> {}
       [] i <= j /\ level = "sum" ->
            D[<<"product", i, j>>] \cup Split("sum", {"+", "-"}, "product")
       [] i <= j /\ level = "product" ->
            D[<<"prefix", i, j>>] \cup Split("product", {"*"}, "prefix")
       [] i <= j /\ level = "prefix" /\ w[i] = "num" ->
            IF i = j THEN {Literal(i)} ELSE {}
       [] i <= j /\ level = "prefix" /\ w[i] \in {"+", "-"} ->
            { UnaryNode(w[i], v) : v \in D[<<"prefix", i + 1, j>>] }
       [] i <= j /\ level = "prefix" /\ w[i] = "(" ->
            IF w[j] = ")" THEN D[<<"sum", i + 1, j - 1>>] ELSE {}
       [] OTHER -> {}

Spans(w) == {"sum", "product", "prefix"} \X (1..(Len(w) + 1)) \X (0..Len(w))

Trees(w) ==
  LET D[s \in Spans(w)] == Produced(w, D, s[1], s[2], s[3])
  IN D

\* The trees of the first k lexemes of w as a sum.
Derivations(w, k) == Trees(w)[<<"sum", 1, k>>]
=============================================================================
