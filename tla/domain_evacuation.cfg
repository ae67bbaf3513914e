CONSTANTS
  Handle = {h1, h2, h3}
  Body = {b1, b2, b3}
  Point = {p1}
  Name = {NoName}
  NoName = NoName
  NullRel = NullRel
  Dead = Dead
  NoBody = NoBody
  Kept <- MCKept
  UFTuples <- Argument_Tuple
  RemovesShared = FALSE
SYMMETRY MCSymmetry
SPECIFICATION Spec
CHECK_DEADLOCK FALSE
PROPERTIES SharersUndamaged
