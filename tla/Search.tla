-------------------------------- MODULE Search --------------------------------
(***************************************************************************)
(* What every traversal of graphs/ promises, with nothing said of its      *)
(* order: it marks the start, then one by one nodes a marked node leads    *)
(* to, and is over when no marked node leads to an unmarked one.           *)
(* BfsPath, Bfs, Dfs and GridBfs implement it.                             *)
(***************************************************************************)
EXTENDS Sequences, Functions

VARIABLES adj,     \* adj[n]: the neighbours of n in the order they were added
          start,   \* the node the traversal starts from
          marked,  \* the nodes marked up to now
          over     \* the traversal has returned

vars == <<adj, start, marked, over>>

Successors(n) == Range(adj[n])

\* A set of nodes that no edge leaves.
Closed(S) == \A n \in S : Successors(n) \subseteq S

Init ==
  /\ \A n \in DOMAIN adj : adj[n] \in Seq(DOMAIN adj)
  /\ start \in DOMAIN adj
  /\ marked = {start}
  /\ over = FALSE

Mark ==
  /\ ~ over
  /\ \E n \in marked : \E m \in Successors(n) :
       m \notin marked /\ marked' = marked \cup {m}
  /\ UNCHANGED <<adj, start, over>>

Return ==
  /\ ~ over
  /\ Closed(marked)
  /\ over' = TRUE
  /\ UNCHANGED <<adj, start, marked>>

Next == Mark \/ Return

Spec == Init /\ [][Next]_vars

-----------------------------------------------------------------------------
\* When the traversal has returned, the marked nodes are exactly those reachable
\* from the start: the least set that contains it and that no edge leaves.
MarksTheReachable ==
  over => /\ start \in marked /\ Closed(marked)
          /\ \A S \in SUBSET DOMAIN adj : start \in S /\ Closed(S) => marked \subseteq S
=============================================================================
