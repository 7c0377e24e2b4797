------------------------------ MODULE DumbcAst ------------------------------
(***************************************************************************)
(* The expression trees of dumbc (expression_t and the structures its v    *)
(* points to).  A literal is identified by the place of its token: the     *)
(* digits matter to no property.  A node is a record with the operation,   *)
(* that place (0 but for literals) and the sequence of its operands.       *)
(***************************************************************************)
EXTENDS Naturals, Sequences

Literal(at) == [op |-> "num", at |-> at, args |-> <<>>]

UnaryPlus(v)  == [op |-> "pos", at |-> 0, args |-> <<v>>]
UnaryMinus(v) == [op |-> "neg", at |-> 0, args |-> <<v>>]

BinaryPlus(l, r)  == [op |-> "add", at |-> 0, args |-> <<l, r>>]
BinaryMinus(l, r) == [op |-> "sub", at |-> 0, args |-> <<l, r>>]
BinaryMul(l, r)   == [op |-> "mul", at |-> 0, args |-> <<l, r>>]

\* An expression_t from arena_alloc that no parse function has written.
Junk == [op |-> "junk", at |-> 0, args |-> <<>>]

\* The node an operator token builds, in prefix and in infix position.
UnaryNode(t, v) == IF t = "+" THEN UnaryPlus(v) ELSE UnaryMinus(v)

BinaryNode(t, l, r) ==
  IF t = "+" THEN BinaryPlus(l, r) ELSE
  IF t = "-" THEN BinaryMinus(l, r) ELSE BinaryMul(l, r)

\* The nodes of a tree down to a depth.
Nodes(tree, depth) ==
  LET N[d \in 0..depth] ==
        IF d = 0 THEN {tree}
        ELSE N[d - 1] \cup
             UNION { {n.args[k] : k \in DOMAIN n.args} : n \in N[d - 1] }
  IN N[depth]
=============================================================================
