---------------------------------- MODULE Bfs ----------------------------------
(***************************************************************************)
(* The breadth-first traversal of graphs/bfs.c, which marks a node when it *)
(* leaves the queue and enqueues every neighbour, marked or not: a node is *)
(* enqueued once for every edge into it, and the array behind the queue,   *)
(* of one slot per vertex of the pool, is not checked.                     *)
(***************************************************************************)
EXTENDS GraphPool

VARIABLES adj, start,  \* the graph and the start, constant after Init
          queue, head,
          visited,
          printed,     \* the nodes whose label was printed, in order
          curr, i,     \* the node being expanded and the next of its neighbours
          pc

vars == <<adj, start, queue, head, visited, printed, curr, i, pc>>

Init ==
  /\ adj \in Graphs
  /\ start \in Nodes
  /\ queue = <<start>>
  /\ head = 0
  /\ visited = {}
  /\ printed = <<>>
  /\ curr = start
  /\ i = 1
  /\ pc = "loop"

Dequeue ==
  /\ pc = "loop"
  /\ head # Len(queue)
  /\ curr' = queue[head + 1]
  /\ head' = head + 1
  /\ IF curr' \in visited
     THEN UNCHANGED <<visited, printed, i, pc>>
     ELSE /\ visited' = visited \cup {curr'}
          /\ printed' = Append(printed, curr')
          /\ i' = 1
          /\ pc' = "neighbors"
  /\ UNCHANGED <<adj, start, queue>>

\* One turn of the inner loop.  Past the end of the array the enqueue writes
\* over whatever follows it: the program goes wrong.
Enqueue_Twice ==
  /\ pc = "neighbors"
  /\ i <= Len(adj[curr])
  /\ IF Len(queue) < Capacity
     THEN queue' = queue \o <<adj[curr][i], adj[curr][i]>> /\ i' = i + 1 /\ UNCHANGED pc
     ELSE pc' = "overrun" /\ UNCHANGED <<queue, i>>
  /\ UNCHANGED <<adj, start, head, visited, printed, curr>>

Enqueue ==
  /\ pc = "neighbors"
  /\ i <= Len(adj[curr])
  /\ IF Len(queue) < Capacity
     THEN queue' = Append(queue, adj[curr][i]) /\ i' = i + 1 /\ UNCHANGED pc
     ELSE pc' = "overrun" /\ UNCHANGED <<queue, i>>
  /\ UNCHANGED <<adj, start, head, visited, printed, curr>>

Expanded ==
  /\ pc = "neighbors"
  /\ i > Len(adj[curr])
  /\ pc' = "loop"
  /\ UNCHANGED <<adj, start, queue, head, visited, printed, curr, i>>

Return ==
  /\ pc = "loop"
  /\ head = Len(queue)
  /\ pc' = "done"
  /\ UNCHANGED <<adj, start, queue, head, visited, printed, curr, i>>

Next == Dequeue \/ Enqueue \/ Expanded \/ Return

\* A single thread.
Spec == Init /\ [][Next]_vars /\ WF_vars(Next)

-----------------------------------------------------------------------------
(* Properties *)

TypeOK ==
  /\ queue \in Seq(Nodes) /\ Len(queue) <= Capacity
  /\ head \in 0..Len(queue)
  /\ visited \subseteq Nodes
  /\ printed \in Seq(Nodes)
  /\ curr \in Nodes /\ (pc = "neighbors" => i \in 1..(Len(adj[curr]) + 1))
  /\ pc \in {"loop", "neighbors", "overrun", "done"}

\* The edges out of the nodes of S, each by its place among those of its node.
Edges(S) == UNION { {n} \X (1..Len(adj[n])) : n \in S }

\* The array is overrun exactly by the graphs with as many edges out of the nodes
\* that can be reached as it has slots: the queue never holds more than the start
\* and one entry for each edge out of a visited node.
OverrunsByEdges ==
  /\ Len(queue) <= 1 + Cardinality(Edges(visited))
  /\ pc = "overrun" => Cardinality(Edges(visited)) >= Capacity
  /\ pc = "done" => Cardinality(Edges(visited)) < Capacity

\* Each reached node is printed once, and nearer nodes first.
PrintsInLayers ==
  /\ \A j, k \in 1..Len(printed) : j < k =>
       /\ printed[j] # printed[k]
       /\ \A d \in 0..Cardinality(Nodes) :
            printed[k] \in Within(adj, start, d) => printed[j] \in Within(adj, start, d)
  /\ pc = "done" => Range(printed) = Within(adj, start, Cardinality(Nodes))
=============================================================================
