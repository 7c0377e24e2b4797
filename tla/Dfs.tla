---------------------------------- MODULE Dfs ----------------------------------
(***************************************************************************)
(* The recursive depth-first traversal of graphs/dfs.c.  The C call stack  *)
(* is the sequence stack: one frame for each running __dfs, with its node  *)
(* and the place of its loop over the neighbours.                          *)
(***************************************************************************)
EXTENDS GraphPool

VARIABLES adj, start,  \* the graph and the start, constant after Init
          visited,
          printed,     \* the nodes fn was called on, in order
          stack,
          pc

vars == <<adj, start, visited, printed, stack, pc>>

Init ==
  /\ adj \in Graphs
  /\ start \in Nodes
  /\ visited = {}
  /\ printed = <<>>
  /\ stack = <<>>
  /\ pc = "call"

\* __dfs(at) returns at once from a visited node; else it marks it, calls fn and
\* starts its loop.
Enter(at, frames) ==
  IF at \in visited
  THEN stack' = frames /\ UNCHANGED <<visited, printed>>
  ELSE /\ visited' = visited \cup {at}
       /\ printed' = Append(printed, at)
       /\ stack' = Append(frames, [node |-> at, i |-> 1])

Call ==
  /\ pc = "call"
  /\ Enter(start, <<>>)
  /\ pc' = "run"
  /\ UNCHANGED <<adj, start>>

Top == stack[Len(stack)]

\* One turn of the loop of the innermost call.
Recurse_Breadth ==
  /\ pc = "run"
  /\ stack # <<>>
  /\ Top.i <= Len(adj[Top.node])
  /\ LET next == adj[Top.node][Top.i]
         frames == [stack EXCEPT ![Len(stack)] = [node |-> Top.node, i |-> Top.i + 1]]
     IN IF next \in visited
        THEN stack' = frames /\ UNCHANGED <<visited, printed>>
        ELSE /\ visited' = visited \cup {next}
             /\ printed' = Append(printed, next)
             /\ stack' = <<[node |-> next, i |-> 1]>> \o frames
  /\ UNCHANGED <<adj, start, pc>>

Recurse ==
  /\ pc = "run"
  /\ stack # <<>>
  /\ Top.i <= Len(adj[Top.node])
  /\ Enter(adj[Top.node][Top.i], [stack EXCEPT ![Len(stack)] = [node |-> Top.node, i |-> Top.i + 1]])
  /\ UNCHANGED <<adj, start, pc>>

Leave ==
  /\ pc = "run"
  /\ stack # <<>>
  /\ Top.i > Len(adj[Top.node])
  /\ stack' = SubSeq(stack, 1, Len(stack) - 1)
  /\ UNCHANGED <<adj, start, visited, printed, pc>>

Return ==
  /\ pc = "run"
  /\ stack = <<>>
  /\ pc' = "done"
  /\ UNCHANGED <<adj, start, visited, printed, stack>>

Next == Call \/ Recurse \/ Leave \/ Return

\* A single thread.
Spec == Init /\ [][Next]_vars /\ WF_vars(Next)

-----------------------------------------------------------------------------
(* Properties *)

TypeOK ==
  /\ visited \subseteq Nodes
  /\ printed \in Seq(Nodes)
  /\ stack \in Seq([node : Nodes, i : Nat \ {0}]) /\ Len(stack) <= Cardinality(Nodes)
  /\ \A j \in 1..Len(stack) : stack[j].i <= Len(adj[stack[j].node]) + 1
  /\ pc \in {"call", "run", "done"}

\* The running calls form a simple path of the graph from the start: the depth of
\* the C stack is bounded by the number of vertices.
StackIsSimplePath ==
  /\ Len(stack) > 0 => stack[1].node = start
  /\ \A j \in 1..(Len(stack) - 1) :
       stack[j + 1].node = adj[stack[j].node][stack[j].i - 1]
  /\ \A j, k \in 1..Len(stack) : j # k => stack[j].node # stack[k].node

\* The order is depth first: a node is printed from a caller printed before it
\* all of whose later callees lead nowhere that was not printed already.
DepthFirst ==
  \A k \in 2..Len(printed) : \E j \in 1..(k - 1) :
    /\ printed[k] \in Range(adj[printed[j]])
    /\ \A m \in (j + 1)..(k - 1) :
         Range(adj[printed[m]]) \subseteq { printed[l] : l \in 1..(k - 1) }
=============================================================================
