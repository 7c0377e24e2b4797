\* One failing tool is enough.
CONSTANT MaxRuns = 3
SPECIFICATION Spec
INVARIANT ErrorMeansNonZero
\* No run follows the last one.
CHECK_DEADLOCK FALSE
