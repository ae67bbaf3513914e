SPECIFICATION Spec
CONSTANTS
  Levels = 2
  Nests <- MCSuperdiagonal
  Symbols <- MCSymbols
  Iterations <- MCIterations
INVARIANTS
  ScansOnce
CHECK_DEADLOCK FALSE
