------------------------------- MODULE BfsPath -------------------------------
(***************************************************************************)
(* Breadth-first search with parents, and the path it reconstructs         *)
(* (graphs/bfs-solve-path-find.c over graph.c and queue.c).  A node is     *)
(* marked when it enters the queue.  The queue is an array that is only    *)
(* appended to: queue.data[0 .. tail-1] is the sequence queue, and head    *)
(* the number of elements taken from it.                                   *)
(***************************************************************************)
EXTENDS GraphPool

VARIABLES
  adj, start, end,  \* the graph and the two ends, constant after Init
  queue, head,
  visited,
  parent,           \* p[n] for the n whose parent was written
  curr, i,          \* the node being expanded and the next of its neighbours
  path,             \* final_path, filled from the end backwards
  pc

vars == <<adj, start, end, queue, head, visited, parent, curr, i, path, pc>>

\* main's array path is {0}: an entry not written holds the first vertex.
Init ==
  /\ adj \in Graphs
  /\ start \in Nodes
  /\ end \in Nodes
  /\ queue = <<start>>
  /\ head = 0
  /\ visited = {start}
  /\ parent = [n \in Nodes |-> Zero]
  /\ curr = start
  /\ i = 1
  /\ path = <<>>
  /\ pc = "loop"

Dequeue ==
  /\ pc = "loop"
  /\ head # Len(queue)
  /\ curr' = queue[head + 1]
  /\ head' = head + 1
  /\ i' = 1
  /\ pc' = "neighbors"
  /\ UNCHANGED <<adj, start, end, queue, visited, parent, path>>

Explore_SkipsCheck ==
  /\ pc = "neighbors"
  /\ i <= Len(adj[curr])
  /\ LET next == adj[curr][i]
     IN /\ queue' = Append(queue, next)
        /\ visited' = visited \cup {next}
        /\ parent' = [parent EXCEPT ![next] = curr]
  /\ i' = i + 1
  /\ UNCHANGED <<adj, start, end, head, curr, path, pc>>

Explore_ParentAlways ==
  /\ pc = "neighbors"
  /\ i <= Len(adj[curr])
  /\ LET next == adj[curr][i]
     IN /\ parent' = [parent EXCEPT ![next] = curr]
        /\ IF next \in visited
           THEN UNCHANGED <<queue, visited>>
           ELSE /\ queue' = Append(queue, next)
                /\ visited' = visited \cup {next}
  /\ i' = i + 1
  /\ UNCHANGED <<adj, start, end, head, curr, path, pc>>

\* One turn of the inner loop.
Explore ==
  /\ pc = "neighbors"
  /\ i <= Len(adj[curr])
  /\ LET next == adj[curr][i]
     IN IF next \in visited
        THEN UNCHANGED <<queue, visited, parent>>
        ELSE /\ queue' = Append(queue, next)
             /\ visited' = visited \cup {next}
             /\ parent' = [parent EXCEPT ![next] = curr]
  /\ i' = i + 1
  /\ UNCHANGED <<adj, start, end, head, curr, path, pc>>

Explored_FirstOnly ==
  /\ pc = "neighbors"
  /\ i > Len(adj[curr]) \/ i > 1
  /\ pc' = "loop"
  /\ UNCHANGED <<adj, start, end, queue, head, visited, parent, curr, i, path>>

Explored ==
  /\ pc = "neighbors"
  /\ i > Len(adj[curr])
  /\ pc' = "loop"
  /\ UNCHANGED <<adj, start, end, queue, head, visited, parent, curr, i, path>>

\* solve returns, and reconstruct_path looks at the end node; at is curr.
Solved ==
  /\ pc = "loop"
  /\ head = Len(queue)
  /\ curr' = end
  /\ pc' = IF end \in visited THEN "walk" ELSE "nopath"
  /\ UNCHANGED <<adj, start, end, queue, head, visited, parent, i, path>>

\* final_path is reversed at the end: the sequence path is kept that way round.
Walk ==
  /\ pc = "walk"
  /\ path' = <<curr>> \o path
  /\ IF curr = start
     THEN pc' = "found" /\ UNCHANGED curr
     ELSE curr' = parent[curr] /\ UNCHANGED pc
  /\ UNCHANGED <<adj, start, end, queue, head, visited, parent, i>>

Next == Dequeue \/ Explore \/ Explored \/ Solved \/ Walk

\* A single thread.
Spec == Init /\ [][Next]_vars /\ WF_vars(Next)

-----------------------------------------------------------------------------
(* Properties *)

TypeOK ==
  /\ queue \in Seq(Nodes) /\ Len(queue) <= Capacity
  /\ head \in 0..Len(queue)
  /\ visited \subseteq Nodes
  /\ parent \in [Nodes -> Nodes]
  /\ curr \in Nodes
  /\ i \in 1..(Len(adj[curr]) + 1) \/ pc \in {"loop", "walk", "found", "nopath"}
  /\ Len(path) <= Cardinality(Nodes)
  /\ pc \in {"loop", "neighbors", "walk", "found", "nopath"}

\* A node enters the queue once, when it is marked, so that the array of as many
\* slots as the pool has vertices is never overrun.
QueuedOnce ==
  /\ Range(queue) = visited
  /\ Len(queue) = Cardinality(visited)

\* A step from one node to a neighbour.
IsPath(s) ==
  /\ Len(s) > 0
  /\ \A k \in 1..(Len(s) - 1) : s[k + 1] \in Range(adj[s[k]])

\* The path printed is a path of the graph from start to end, and no path has
\* fewer steps; "No path found" is printed only when there is none.
ShortestPath ==
  /\ pc = "found" =>
       /\ IsPath(path) /\ path[1] = start /\ path[Len(path)] = end
       /\ Len(path) > 1 => end \notin Within(adj, start, Len(path) - 2)
  /\ pc = "nopath" => end \notin Within(adj, start, Cardinality(Nodes))
=============================================================================
