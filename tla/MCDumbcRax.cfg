\* A single literal: main.c:1379 says that what is printed was in rax.
CONSTANTS
  SignedLeaves = 1
  NegatedLeaves = 1
  PlainLeaves = 2
  MaxDepth = 3
  MaxRegs = 6
  InitialCap = 2
  ChunkSlots = 8
  Trees <- MCTrees
SPECIFICATION Spec
INVARIANT PrintsWhatIsInRax
CHECK_DEADLOCK FALSE
