\* Chunk size 7 and three chunks: exact fits, refusals, a failed malloc followed
\* by requests served from its chunk, and exhaustion are all reached.  A buffer of
\* three characters and its NUL: inputs of five characters fill it almost twice.
CONSTANTS
  ChunkSize = 7
  MaxChunks = 3
  Sizes <- MCSizes
  LineLen = 4
  Letters = {"E", "P"}
  Digits = {"1"}
  Inputs <- MCInputs
  END <- MCEND
  PRINT <- MCPRINT
  MaxInput = 5
SPECIFICATION MCSpec
INVARIANTS TypeOK BlocksDisjoint WildOnlyAfterNull HalfFull PrintedTypesAreTheText OddQuotesEndTheProgram
PROPERTY ImplementsAllocator
\* The program stops after arena_free, and at the end of its input.
CHECK_DEADLOCK FALSE
