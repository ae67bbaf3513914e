SPECIFICATION Spec
CONSTANTS
  Levels = 2
  Nests <- MCDiagonal
  Symbols <- MCSymbols
  Iterations <- MCIterations
INVARIANTS
  RunsInOrder
CHECK_DEADLOCK FALSE
