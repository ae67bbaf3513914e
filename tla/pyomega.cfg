SPECIFICATION PartSpec
CONSTANTS
  MaxConstraints = 4
  MaxComparisons = 2
  AnyShape = FALSE
  Names <- MCNames
  Params <- MCParams
  Callers <- MCCallers
  Inlined <- MCInlined
  Fuel = 6
  Iterators <- MCIterators
  Letters <- MCLetters
  Constraints <- MCConstraints
  Computations <- MCComputations
  Order <- MCOrder
  Inside <- MCInside
  Ends <- MCEnds
  Calls <- MCCalls
  Levels = 2
  Nests <- MCNests
  Symbols <- MCSymbols
  Iterations <- MCIterations
  Problems <- MCProblems
  Coordinates <- MCCoordinates
  Dim = 3
  Inf = 2
INVARIANTS
  PartsTypeOK
  ParsedAsWritten
  
  ParametersAsUsed
  IteratorsSubstituted
  ArgumentsArePrefix
  CallsStayDistinct
  GivenOfSymbols
  MacrosRestore
  ScansOnce
  RunsInOrder
  SolvesExactly
  EqualitiesImplied
  SplitsExactly
  StaysForward
PROPERTY Answers
CHECK_DEADLOCK FALSE
