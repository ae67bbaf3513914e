SPECIFICATION MCSpec
CONSTANTS
  N = 4
  Graphs <- MCGraphs
  Types <- MCTypes
  Dim = 2
  Inf = 9
  Apart = 1
  Extent = 1
  Programs <- MCPrograms
  Amounts <- MCAmounts
INVARIANTS
  TypeOK
  GroupsInOrder
  BadApart
  LeftAlone
  StepsGiveResult
  Greedy
  ScriptTypeOK
  Covered
  WholeRunsForward
  OriginalAccepts
PROPERTY Returns
CHECK_DEADLOCK FALSE
