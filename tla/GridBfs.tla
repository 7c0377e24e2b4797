-------------------------------- MODULE GridBfs --------------------------------
(***************************************************************************)
(* The shortest path through a maze of graphs/bfs-shortest-path-in-grid.c. *)
(* The two queues of rows and of columns are used in step, so one sequence *)
(* of cells stands for both; queue.data[0 .. tail-1] is the sequence and   *)
(* head the number of cells taken.  The maze is a constant of the program, *)
(* here any maze.                                                          *)
(***************************************************************************)
EXTENDS Integers, Distance, SequencesExt

CONSTANTS R, C   \* rows and columns, both positive

Cells == (0..R - 1) \X (0..C - 1)

Start == <<0, 0>>    \* (sr, sc)

VARIABLES
  maze,           \* "empty", "rock" or "end" for each cell, constant after Init
  queue, head,
  visited,
  path,           \* the cell each cell was reached from
  curr, i,        \* the cell whose neighbours are explored, and the direction
  left, layers,   \* nodes_left_in_layer and the count explore_neighbors returns
  moves,          \* move_count
  final,          \* final_path
  pc

vars == <<maze, queue, head, visited, path, curr, i, left, layers, moves, final, pc>>

\* {0} sets an entry of path to the index 0, which is the start's.
Init ==
  /\ maze \in [Cells -> {"empty", "rock", "end"}] /\ maze[Start] = "empty"
  /\ queue = <<Start>>
  /\ head = 0
  /\ visited = {Start}
  /\ path = [c \in Cells |-> Start]
  /\ curr = Start
  /\ i = 1
  /\ left = 1 /\ layers = 0
  /\ moves = 0
  /\ final = <<>>
  /\ pc = "loop"

\* dr and dc.
Directions == << <<-1, 0>>, <<1, 0>>, <<0, 1>>, <<0, -1>> >>

Toward(c, d) == <<c[1] + Directions[d][1], c[2] + Directions[d][2]>>

\* The head of the loop of solve: an end is recognized when it leaves the queue.
Dequeue ==
  /\ pc = "loop"
  /\ head # Len(queue)
  /\ curr' = queue[head + 1]
  /\ head' = head + 1
  /\ i' = 1
  /\ layers' = 0
  /\ IF maze[curr'] = "end"
     THEN pc' = "backtrack"
     ELSE pc' = "explore"
  /\ UNCHANGED <<maze, queue, visited, path, left, moves, final>>

Free(c) == c \in Cells /\ maze[c] # "rock"

Enters(c) == Free(c) /\ c \notin visited

\* One direction of explore_neighbors.
Explore ==
  /\ pc = "explore"
  /\ i <= Len(Directions)
  /\ i' = i + 1
  /\ LET next == Toward(curr, i)
     IN IF Enters(next)
        THEN /\ queue' = Append(queue, next)
             /\ visited' = visited \cup {next}
             /\ path' = [path EXCEPT ![next] = curr]
             /\ layers' = layers + 1
        ELSE UNCHANGED <<queue, visited, path, layers>>
  /\ UNCHANGED <<maze, head, curr, left, moves, final, pc>>

\* The end of the loop of solve.  nodes_in_next_layer is assigned the count of the
\* last cell explored, not increased by it, so a layer is taken to be as
\* large as the last cell's share of it; left may go below zero.
Explored ==
  /\ pc = "explore"
  /\ i > Len(Directions)
  /\ IF left = 1
     THEN left' = layers /\ moves' = moves + 1
     ELSE left' = left - 1 /\ UNCHANGED moves
  /\ pc' = "loop"
  /\ UNCHANGED <<maze, queue, head, visited, path, curr, i, layers, final>>

\* One turn of the loop that follows path back from the end.
Backtrack ==
  /\ pc = "backtrack"
  /\ curr # Start
  /\ final' = Append(final, curr)
  /\ curr' = path[curr]
  /\ UNCHANGED <<maze, queue, head, visited, path, i, left, layers, moves, pc>>

\* The start is added, the list reversed and printed with move_count.
Report ==
  /\ pc = "backtrack"
  /\ curr = Start
  /\ final' = Reverse(Append(final, Start))
  /\ pc' = "found"
  /\ UNCHANGED <<maze, queue, head, visited, path, curr, i, left, layers, moves>>

NoPath ==
  /\ pc = "loop"
  /\ head = Len(queue)
  /\ pc' = "none"
  /\ UNCHANGED <<maze, queue, head, visited, path, curr, i, left, layers, moves, final>>

Next == Dequeue \/ Explore \/ Explored \/ Backtrack \/ Report \/ NoPath

\* A single thread.
Spec == Init /\ [][Next]_vars /\ WF_vars(Next)

-----------------------------------------------------------------------------
(* Properties *)

\* The queues of R*C entries hold every cell once at most, so no enqueue of the
\* unchecked macro is past their end; nor is final_path overrun.
TypeOK ==
  /\ queue \in Seq(Cells) /\ IsInjective(queue)
  /\ head \in 0..Len(queue)
  /\ visited \subseteq Cells
  /\ path \in [Cells -> Cells]
  /\ curr \in Cells /\ i \in 1..5
  /\ layers \in 0..4 /\ left \in Int /\ moves \in Nat
  /\ Len(final) <= R * C
  /\ pc \in {"loop", "explore", "backtrack", "found", "none"}

\* Where each direction leads from a cell; nowhere, at a rock or the edge of the maze.
Around(c) == [d \in 1..4 |-> IF Free(Toward(c, d)) THEN Toward(c, d) ELSE c]

Moves == [c \in Cells |-> Around(c)]

\* The printed steps lead from the start to an end, each to a free neighbour, and
\* no end is nearer; without a path there is none.
PrintsShortestPath ==
  /\ pc = "found" =>
       /\ final[1] = Start /\ maze[Last(final)] = "end"
       /\ \A k \in 1..(Len(final) - 1) :
            Free(final[k + 1]) /\ \E d \in 1..4 : final[k + 1] = Toward(final[k], d)
       /\ Len(final) > 1 => \A c \in Within(Moves, Start, Len(final) - 2) : maze[c] # "end"
  /\ pc = "none" => \A c \in Within(Moves, Start, R * C) : maze[c] # "end"

\* line 115 prints "Path found! Length: %d moves" with move_count: as many moves as
\* steps follow.
MovesAreTheSteps == pc = "found" => moves = Len(final) - 1
=============================================================================
