\* One write that fails is enough.
CONSTANT MaxRuns = 3
SPECIFICATION Spec
INVARIANT CompiledIsWhole
\* No run follows the last one.
CHECK_DEADLOCK FALSE
