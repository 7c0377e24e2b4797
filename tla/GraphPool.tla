------------------------------- MODULE GraphPool -------------------------------
(***************************************************************************)
(* What the programs of graphs/ share: the pool of vertices of graph.c,    *)
(* finished before a traversal starts, and the arrays behind the queues of *)
(* queue.c, which are only appended to and have a slot for each vertex the *)
(* pool has room for.                                                      *)
(***************************************************************************)
EXTENDS Distance, FiniteSets, Sequences

CONSTANTS Nodes,     \* the vertices of the pool
          Zero,      \* the vertex with index 0
          Graphs,    \* adjacency functions: neighbors[0 .. neighbors_len - 1]
          Capacity   \* NUM_NODES_IN_POOL, the length of a queue's array

ASSUME PoolAssumption ==
  /\ IsFiniteSet(Nodes)
  /\ Zero \in Nodes
  /\ Graphs \subseteq [Nodes -> Seq(Nodes)]
  /\ Capacity \in Nat /\ Cardinality(Nodes) <= Capacity
=============================================================================
