\* Up to four operators, one more than six registers serve; signs everywhere; a
\* vector that starts at two slots and outgrows a chunk of eight.
CONSTANTS
  SignedLeaves = 2
  NegatedLeaves = 4
  PlainLeaves = 5
  MaxDepth = 7
  MaxRegs = 6
  InitialCap = 2
  ChunkSlots = 8
  Trees <- MCTrees
SPECIFICATION Spec
INVARIANTS PendingOperandsApart VectorInBounds IRCorrect CompilesWithinRegisters PrintsTheValue
\* The compiler stops when it is done.
CHECK_DEADLOCK FALSE
