--------------------------- MODULE MCDumbcCodegen ---------------------------
(* Instances of DumbcCodegen for TLC: the trees over a row of leaves, each     *)
(* subtree bare or under a sign.                                               *)
EXTENDS DumbcSemantics

CONSTANTS SignedLeaves,  \* up to this many leaves with every placing of signs
          NegatedLeaves, \* up to this many, with minus signs, + and * only
          PlainLeaves    \* up to this many, without signs

Sign(s, e) == IF s = "neg" THEN UnaryMinus(e) ELSE UnaryPlus(e)

\* The trees with the given leaves, operators and signs, whose leaves are
\* 1..n from left to right.
TreesOver(n, leaves(_), ops, signs) ==
  LET Signed(T) == T \cup { Sign(s, e) : s \in signs, e \in T }
      Span[i \in 1..n, j \in 1..n] ==
        IF i = j THEN Signed(leaves(i))
        ELSE Signed(UNION { { BinaryNode(op, l, r) : l \in Span[i, m], r \in Span[m + 1, j] }
                            : m \in i..(j - 1), op \in ops })
  IN UNION { Span[1, k] : k \in 1..n }

LeafOrJunk(i) == {Literal(i), Junk}
Leaf(i) == {Literal(i)}

MCTrees ==
  TreesOver(SignedLeaves, LeafOrJunk, {"+", "-", "*"}, {"neg", "pos"})
  \cup TreesOver(NegatedLeaves, Leaf, {"+", "*"}, {"neg"})
  \cup TreesOver(PlainLeaves, Leaf, {"+", "-", "*"}, {})
=============================================================================
