\* Three rows and three columns are enough for a layer of two cells.
CONSTANTS
  R = 3
  C = 3
SPECIFICATION Spec
INVARIANT MovesAreTheSteps
\* The program stops.
CHECK_DEADLOCK FALSE
