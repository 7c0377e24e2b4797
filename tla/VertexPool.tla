------------------------------- MODULE VertexPool -------------------------------
(***************************************************************************)
(* The pool of vertices of graphs/graph.c while a program builds its       *)
(* graph.  The programs make edges only between vertices they were given.  *)
(* Vertices count from 1.                                                  *)
(***************************************************************************)
EXTENDS Naturals, FiniteSets, Sequences

CONSTANTS Pool,          \* NUM_NODES_IN_POOL, 32768
          MaxNeighbors,  \* MAX_NEIGHBORS, 32
          MaxCalls       \* bound of the model

VARIABLES neighbors, \* neighbors[0 .. neighbors_len - 1] of each vertex of the pool
          len,       \* nodes_len
          calls,     \* history: the edges asked for, and <<>> for a vertex
          pc         \* "build", or "exited" when a call ended the program

vars == <<neighbors, len, calls, pc>>

Init ==
  /\ neighbors = [v \in 1..Pool |-> <<>>]
  /\ len = 0
  /\ calls = <<>>
  /\ pc = "build"

Call(c) == pc = "build" /\ Len(calls) < MaxCalls /\ calls' = Append(calls, c)

graph_new_vertex ==
  /\ Call(<<>>)
  /\ IF len >= Pool
     THEN pc' = "exited" /\ UNCHANGED <<neighbors, len>>
     ELSE len' = len + 1 /\ neighbors' = [neighbors EXCEPT ![len + 1] = <<>>] /\ UNCHANGED pc

AddEdge_Replaces(from, to) ==
  /\ Call(<<from, to>>)
  /\ neighbors' = IF Len(neighbors[from]) >= MaxNeighbors THEN [neighbors EXCEPT ![from][MaxNeighbors] = to]
            ELSE [neighbors EXCEPT ![from] = Append(@, to)]
  /\ UNCHANGED <<len, pc>>

AddEdge(from, to) ==
  /\ Call(<<from, to>>)
  /\ IF Len(neighbors[from]) >= MaxNeighbors
     THEN pc' = "exited" /\ UNCHANGED neighbors
     ELSE neighbors' = [neighbors EXCEPT ![from] = Append(@, to)] /\ UNCHANGED pc
  /\ UNCHANGED len

Next == graph_new_vertex \/ \E from, to \in 1..len : AddEdge(from, to)

Spec == Init /\ [][Next]_vars

-----------------------------------------------------------------------------
(* Properties *)

\* The graph is one the traversals are given: every edge is to a vertex handed out,
\* and no array is past its limit.
TypeOK ==
  /\ len \in 0..Pool
  /\ neighbors \in [1..Pool -> Seq(1..len)]
  /\ \A v \in 1..Pool : Len(neighbors[v]) <= (IF v <= len THEN MaxNeighbors ELSE 0)
  /\ pc \in {"build", "exited"}

\* Those of the first k calls that asked for a vertex, and for an edge out of v.
Vertices(k) == { j \in 1..k : calls[j] = <<>> }
EdgesOf(v, k) == { j \in 1..k : calls[j] # <<>> /\ calls[j][1] = v }

\* The pool holds the graph the calls describe, with the edges out of a vertex in the
\* order they were asked for, up to the call that asks for too much; and a program
\* that stays within the limits is never ended.
HoldsWhatWasAsked ==
  LET kept == IF pc = "exited" THEN Len(calls) - 1 ELSE Len(calls)
  IN /\ \A v \in 1..Pool :
          /\ Len(neighbors[v]) = Cardinality(EdgesOf(v, kept))
          /\ \A j \in EdgesOf(v, kept) : neighbors[v][Cardinality(EdgesOf(v, j))] = calls[j][2]
     /\ pc = "exited" <=> \/ Cardinality(Vertices(Len(calls))) > Pool
                          \/ \E v \in 1..Pool : Cardinality(EdgesOf(v, Len(calls))) > MaxNeighbors
=============================================================================
