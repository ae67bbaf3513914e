CONSTANTS
  Handle = {h1, h2}
  Body = {b1, b2}
  Point = {p1}
  Name = {NoName}
  NoName = NoName
  NullRel = NullRel
  Dead = Dead
  NoBody = NoBody
  Kept <- MCKept
  UFTuples <- InputTuples
  RemovesShared = FALSE
SYMMETRY MCSymmetry
SPECIFICATION Spec
CHECK_DEADLOCK FALSE
INVARIANTS NoOtherPointers
