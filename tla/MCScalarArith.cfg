SPECIFICATION ArithSpec
CONSTANTS
  W = 2
  N = 3
  Divisions <- MCDivisions
  Operands <- MCOperands
  WideMax = 3
  Inputs <- MCInputs
  FieldBuilds <- MCFieldBuilds
  InverseBuilds <- MCInverseBuilds
INVARIANTS LimbChainsAreExact FieldIsExact LazyIsEager
PROPERTIES ImplementsAbstractions EuclidEnds
