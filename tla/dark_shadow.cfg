SPECIFICATION Spec
CONSTANTS
  Problems <- MCSlivers
  Coordinates <- MCCoordinates
INVARIANT VerifiedHasSolution
CHECK_DEADLOCK FALSE
