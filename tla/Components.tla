------------------------------ MODULE Components ------------------------------
(***************************************************************************)
(* find_connected_components of graphs/connected-components.c: for each    *)
(* vertex in the order it was created, a depth-first search gives a new    *)
(* number to everything it reaches along the edges' own direction.         *)
(***************************************************************************)
EXTENDS Distance, FiniteSets, Sequences

CONSTANTS Size,    \* nodes_len: the vertices are 1..Size in order of creation
          Graphs

Vertices == 1..Size

VARIABLES adj,         \* the graph, constant after Init
          n,           \* the vertex the outer loop is at
          count,
          visited,
          components,  \* 0 for a vertex without a number
          stack        \* the running calls of dfs, with their place

vars == <<adj, n, count, visited, components, stack>>

Init ==
  /\ adj \in Graphs
  /\ n = 1
  /\ count = 0
  /\ visited = {}
  /\ components = [m \in Vertices |-> 0]
  /\ stack = <<>>

\* dfs(at, visited, components, c), called from the frames given.
Enter(at, c, frames) ==
  /\ visited' = visited \cup {at}
  /\ components' = [components EXCEPT ![at] = c]
  /\ stack' = Append(frames, [node |-> at, i |-> 1])

NextVertex ==
  /\ stack = <<>>
  /\ n <= Size
  /\ n' = n + 1
  /\ IF n \in visited
     THEN UNCHANGED <<count, visited, components, stack>>
     ELSE count' = count + 1 /\ Enter(n, count + 1, <<>>)
  /\ UNCHANGED adj

Top == stack[Len(stack)]

Recurse ==
  /\ stack # <<>>
  /\ Top.i <= Len(adj[Top.node])
  /\ LET next == adj[Top.node][Top.i]
         frames == [stack EXCEPT ![Len(stack)] = [node |-> Top.node, i |-> Top.i + 1]]
     IN IF next \in visited
        THEN stack' = frames /\ UNCHANGED <<visited, components>>
        ELSE Enter(next, count, frames)
  /\ UNCHANGED <<adj, n, count>>

Leave_Stays ==
  /\ stack # <<>>
  /\ Top.i > Len(adj[Top.node])
  /\ stack' = [stack EXCEPT ![Len(stack)].i = 1]
  /\ UNCHANGED <<adj, n, count, visited, components>>

Leave ==
  /\ stack # <<>>
  /\ Top.i > Len(adj[Top.node])
  /\ stack' = SubSeq(stack, 1, Len(stack) - 1)
  /\ UNCHANGED <<adj, n, count, visited, components>>

Next == NextVertex \/ Recurse \/ Leave

\* A single thread.
Spec == Init /\ [][Next]_vars /\ WF_vars(Next)

-----------------------------------------------------------------------------
(* Properties *)

TypeOK ==
  /\ n \in 1..(Size + 1)
  /\ count \in 0..Size
  /\ visited \subseteq Vertices
  /\ components \in [Vertices -> 0..count]
  /\ stack \in Seq([node : Vertices, i : Nat \ {0}]) /\ Len(stack) <= Size

Done == n > Size /\ stack = <<>>

Reach(m) == Within(adj, m, Size)

\* The oldest vertex from which m can be reached.
Oldest(m) == CHOOSE k \in Vertices : m \in Reach(k) /\ \A j \in Vertices : m \in Reach(j) => k <= j

\* What the numbers mean on any graph: they run from 1 to count without a gap, and
\* two vertices have the same one exactly when the oldest vertex that reaches
\* them is the same.
NumbersByOldestAncestor ==
  Done =>
    /\ Range(components) = 1..count
    /\ \A m, k \in Vertices : components[m] = components[k] <=> Oldest(m) = Oldest(k)
=============================================================================
