\* Four vertices: the first at which a wrong order shows in a depth-first search,
\* with shortcuts, cycles and ends that are not reached; an array of four slots,
\* overrun from four edges on; every maze of nine cells.
CONSTANTS
  Nodes = {1, 2, 3, 4}
  Zero = 1
  Capacity = 4
  Graphs <- MCGraphs
  BfsGraphs <- MCBfsGraphs
  PathGraphs <- MCPathGraphs
  DfsGraphs <- MCDfsGraphs
  ComponentGraphs <- MCComponentGraphs
  R = 3
  C = 3
  Pool = 2
  MaxNeighbors = 2
  MaxCalls = 6
SPECIFICATION Spec
INVARIANTS TypeOK QueueRoom VisitsInOrder ShortestPaths PoolHoldsWhatWasAsked
PROPERTIES Terminates ImplementsSearch
\* The programs stop.
CHECK_DEADLOCK FALSE
