CONSTANTS
  Handle = {h1, h2}
  Function = {f}
  Arity <- MCArity
  MaxZeros = 1
  MaxConjuncts = 2
  Null = Null
  FirstOfInput = FALSE
  ProjectsMixed = FALSE
SYMMETRY MCSymmetry
SPECIFICATION Spec
INVARIANTS TypeOK RemapReset NoClash Declared LostIsInexact PairsAsDocumented
