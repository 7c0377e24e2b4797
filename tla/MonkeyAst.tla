------------------------------- MODULE MonkeyAst -------------------------------
(***************************************************************************)
(* The abstract syntax of monkey (monkey/ast), which the parser builds and *)
(* the evaluator walks.  A statement that is an expression is the          *)
(* expression.                                                             *)
(***************************************************************************)

IntegerLiteral(v) == [k |-> "int", v |-> v]
Boolean(b) == [k |-> "bool", b |-> b]
StringLiteral(s) == [k |-> "string", s |-> s]
Identifier(n) == [k |-> "id", n |-> n]
PrefixExpression(op, e) == [k |-> "prefix", op |-> op, right |-> e]
InfixExpression(op, l, r) == [k |-> "infix", op |-> op, left |-> l, right |-> r]
LetStatement(n, e) == [k |-> "let", n |-> n, value |-> e]
ReturnStatement(e) == [k |-> "return", value |-> e]
BlockStatement(s) == [k |-> "block", stmts |-> s]
NoBlock == [k |-> "absent"]
IfExpression(c, th, el) == [k |-> "if", cond |-> c, then |-> th, else |-> el]
FunctionLiteral(ps, b) == [k |-> "fn", params |-> ps, body |-> b]
CallExpression(f, args) == [k |-> "call", fn |-> f, args |-> args]
ArrayLiteral(es) == [k |-> "array", elements |-> es]
IndexExpression(l, e) == [k |-> "index", left |-> l, index |-> e]
\* The pairs are entries of a Go map by the address of their key: no two are the same.
HashLiteral(ps) == [k |-> "hash", pairs |-> ps]

\* Go's nil, where a part could not be parsed.
NoTree == [k |-> "nil"]
=============================================================================
