------------------------------- MODULE Distance -------------------------------
(***************************************************************************)
(* How far apart the nodes of a graph are, for what the traversals of      *)
(* graphs/ promise about the order they visit in.                          *)
(***************************************************************************)
EXTENDS Naturals, Functions

\* The nodes within d steps of n in a graph.
Within(adj, n, d) ==
  LET W[k \in 0..d] ==
        IF k = 0 THEN {n} ELSE W[k - 1] \cup UNION { Range(adj[m]) : m \in W[k - 1] }
  IN W[d]
=============================================================================
