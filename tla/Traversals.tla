----------------------------- MODULE Traversals -----------------------------
(***************************************************************************)
(* The programs of graphs/ together: a behaviour picks one of the five, or *)
(* the building of a graph they begin with, and is a behaviour of it.      *)
(* What they all promise, that they are searches and that they end, is     *)
(* then one property, and each keeps those of its own order.  The          *)
(* variables have one meaning for all the programs that use them; those a  *)
(* program does not use keep their value.                                  *)
(***************************************************************************)
EXTENDS GraphPool

CONSTANTS BfsGraphs, PathGraphs, DfsGraphs, ComponentGraphs,  \* what each is given
          R, C,                         \* rows and columns of the mazes
          Pool, MaxNeighbors, MaxCalls  \* limits of the pool, and of the calls to it

\* Components takes the vertices in the order of their numbers.
ASSUME TraversalsAssumption ==
  /\ BfsGraphs \subseteq Graphs /\ PathGraphs \subseteq Graphs /\ DfsGraphs \subseteq Graphs
  /\ ComponentGraphs \subseteq Graphs /\ Nodes = 1..Cardinality(Nodes)
  /\ R \in Nat \ {0} /\ C \in Nat \ {0}
  /\ Pool \in Nat /\ MaxNeighbors \in Nat /\ MaxCalls \in Nat

VARIABLES program, adj, start, end, queue, head, visited, parent, curr, i, path,
          printed, stack, pc, vertex, count, components, maze, left, layers, moves,
          neighbors, len, calls

BFS  == INSTANCE Bfs WITH Graphs <- BfsGraphs
PATH == INSTANCE BfsPath WITH Graphs <- PathGraphs
DFS  == INSTANCE Dfs WITH Graphs <- DfsGraphs
COMP == INSTANCE Components WITH Graphs <- ComponentGraphs, Size <- Cardinality(Nodes), n <- vertex
GRID == INSTANCE GridBfs WITH path <- parent, final <- path
POOL == INSTANCE VertexPool

-----------------------------------------------------------------------------
(* The variables each program leaves alone, at their first values. *)

NoGraph      == adj = [m \in Nodes |-> <<>>] /\ start = Zero
NoQueue      == queue = <<>> /\ head = 0 /\ curr = Zero /\ i = 1
NoPath       == end = Zero /\ parent = <<>> /\ path = <<>>
NoOrder      == printed = <<>>
NoStack      == stack = <<>>
NoComponents == vertex = 1 /\ count = 0 /\ components = <<>>
NoMaze       == maze = <<>> /\ left = 1 /\ layers = 0 /\ moves = 0
NoPool       == neighbors = <<>> /\ len = 0 /\ calls = <<>>

Init ==
  \/ /\ program = "bfs" /\ BFS!Init
     /\ NoPath /\ NoStack /\ NoComponents /\ NoMaze /\ NoPool
  \/ /\ program = "bfs_path" /\ PATH!Init
     /\ NoOrder /\ NoStack /\ NoComponents /\ NoMaze /\ NoPool
  \/ /\ program = "dfs" /\ DFS!Init
     /\ NoQueue /\ NoPath /\ NoComponents /\ NoMaze /\ NoPool
  \/ /\ program = "components" /\ COMP!Init
     /\ start = Zero /\ pc = "run" /\ NoQueue /\ NoPath /\ NoOrder /\ NoMaze /\ NoPool
  \/ /\ program = "grid" /\ GRID!Init
     /\ NoGraph /\ end = Zero /\ NoOrder /\ NoStack /\ NoComponents /\ NoPool
  \/ /\ program = "pool" /\ POOL!Init
     /\ NoGraph /\ visited = {} /\ NoQueue /\ NoPath /\ NoOrder /\ NoStack /\ NoComponents /\ NoMaze

poolVars == <<neighbors, len, calls>>

BfsStep ==
  /\ program = "bfs" /\ BFS!Next
  /\ UNCHANGED <<program, poolVars, end, parent, path, stack, vertex, count, components,
                 maze, left, layers, moves>>
PathStep ==
  /\ program = "bfs_path" /\ PATH!Next
  /\ UNCHANGED <<program, poolVars, printed, stack, vertex, count, components, maze, left, layers, moves>>
DfsStep ==
  /\ program = "dfs" /\ DFS!Next
  /\ UNCHANGED <<program, poolVars, end, queue, head, parent, curr, i, path, vertex, count, components,
                 maze, left, layers, moves>>
ComponentsStep ==
  /\ program = "components" /\ COMP!Next
  /\ UNCHANGED <<program, poolVars, start, end, queue, head, parent, curr, i, path, printed, pc,
                 maze, left, layers, moves>>
GridStep ==
  /\ program = "grid" /\ GRID!Next
  /\ UNCHANGED <<program, poolVars, adj, start, end, printed, stack, vertex, count, components>>

PoolStep ==
  /\ program = "pool" /\ POOL!Next
  /\ UNCHANGED <<program, adj, start, end, queue, head, visited, parent, curr, i, path,
                 printed, stack, vertex, count, components, maze, left, layers, moves>>

Next == BfsStep \/ PathStep \/ DfsStep \/ ComponentsStep \/ GridStep \/ PoolStep

vars == <<program, adj, start, end, queue, head, visited, parent, curr, i, path,
          printed, stack, pc, vertex, count, components, maze, left, layers, moves, poolVars>>

\* Each program is a single thread.
Spec == Init /\ [][Next]_vars /\ WF_vars(Next)

-----------------------------------------------------------------------------
(* Properties *)

TypeOK ==
  CASE program = "bfs" -> BFS!TypeOK
    [] program = "bfs_path" -> PATH!TypeOK
    [] program = "dfs" -> DFS!TypeOK
    [] program = "components" -> COMP!TypeOK
    [] program = "grid" -> GRID!TypeOK
    [] program = "pool" -> POOL!TypeOK

\* The queue macros do not look at the end of the array.  In bfs.c it is overrun
\* exactly by the graphs with as many edges out of the nodes reached as it has
\* slots; in bfs-solve-path-find.c, where a node is queued once, never.
QueueRoom ==
  /\ program = "bfs" => BFS!OverrunsByEdges
  /\ program = "bfs_path" => PATH!QueuedOnce

\* Each visits in the order it is for.  Nodes are printed once and in the order of
\* their distance (bfs.c); in depth-first order, from a stack of calls that is a simple
\* path of the graph (dfs.c); and are numbered by the oldest vertex that reaches them,
\* which makes components when every edge has its reverse (connected-components.c).
VisitsInOrder ==
  /\ program = "bfs" => BFS!PrintsInLayers
  /\ program = "dfs" => DFS!DepthFirst /\ DFS!StackIsSimplePath
  /\ program = "components" => COMP!NumbersByOldestAncestor

\* The path printed is a shortest one, in a graph (bfs-solve-path-find.c) and through
\* a maze to an end (bfs-shortest-path-in-grid.c).
ShortestPaths ==
  /\ program = "bfs_path" => PATH!ShortestPath
  /\ program = "grid" => GRID!PrintsShortestPath

\* The graph a traversal finds is the one the calls before it described, and only a
\* vertex or an edge too many ends the program (graph.c).
PoolHoldsWhatWasAsked == program = "pool" => POOL!HoldsWhatWasAsked

\* Every traversal ends, the walks back along the parents included; building a graph
\* is the callers' own to end.
Terminates ==
  <>(CASE program = "components" -> COMP!Done
       [] program = "pool" -> TRUE
       [] OTHER -> pc \in {"done", "overrun", "found", "nopath", "none"})

\* The nodes marked, and whether all that will be looked at has been.
Marked ==
  CASE program = "grid" -> visited
    [] program = "components" -> {start}
    [] OTHER -> visited \cup {start}

Over == CASE program = "bfs_path" -> pc \in {"walk", "found", "nopath"}
          [] OTHER -> pc \in {"done", "none"}

Search ==
  INSTANCE Search WITH
    adj <- IF program = "grid" THEN GRID!Moves ELSE adj,
    start <- IF program = "grid" THEN GRID!Start ELSE start,
    marked <- Marked,
    over <- Over

\* The four that start from one node implement Search: they mark, in whatever
\* order, what the start leads to and nothing else, and stop when nothing is left.
\* Components, which starts again and again, is mapped to a search that waits.
ImplementsSearch == Search!Spec
=============================================================================
