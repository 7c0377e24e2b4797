----------------------------- MODULE MCTraversals -----------------------------
(* The graphs on which TLC checks Traversals. *)
EXTENDS Traversals, SequencesExt

Increasing(S) == SetToSortSeq(S, LAMBDA a, b : a < b)

\* The graphs in which the neighbours of each node m are one of Lists(m).
GraphsOver(Lists(_)) ==
  FoldSet(LAMBDA m, graphs : { (m :> l) @@ g : l \in Lists(m), g \in graphs }, {<<>>}, Nodes)

\* The last node has fewer neighbours than the others, to keep the graphs few.
LastNode == CHOOSE m \in Nodes : \A k \in Nodes : k <= m

\* For Bfs: two neighbours at most, loops and parallel edges too, none at the last
\* node: the number of edges is around the capacity.
MCBfsGraphs ==
  GraphsOver(LAMBDA m : IF m = LastNode THEN {<<>>} ELSE SeqOf(Nodes \ {LastNode}, 2))

AtMost(m) == IF m = LastNode THEN 1 ELSE 2

\* For BfsPath: two neighbours at most, those of the first node with a loop and
\* parallel edges.
MCPathGraphs ==
  GraphsOver(LAMBDA m :
    { Increasing(S) : S \in { T \in SUBSET (Nodes \ {m}) : Cardinality(T) <= AtMost(m) } }
    \cup (IF m = Zero THEN { <<m, LastNode>>, <<LastNode, LastNode>> } ELSE {}))

\* For Dfs: two neighbours at most, in any order.
MCDfsGraphs ==
  GraphsOver(LAMBDA m : { l \in SeqOf(Nodes \ {m}, AtMost(m)) : IsInjective(l) })

\* For Components: any number of neighbours, without loops and parallel edges.
MCComponentGraphs == GraphsOver(LAMBDA m : { Increasing(S) : S \in SUBSET (Nodes \ {m}) })

MCGraphs == MCBfsGraphs \cup MCPathGraphs \cup MCDfsGraphs \cup MCComponentGraphs
=============================================================================
