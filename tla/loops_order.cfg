SPECIFICATION Spec
CONSTANTS
  Dim = 2
  Inf = 9
  Apart = 1
  Extent = 1
  Programs <- MCSeparate
  Amounts <- MCAmounts
INVARIANT RunsForward
CHECK_DEADLOCK FALSE
