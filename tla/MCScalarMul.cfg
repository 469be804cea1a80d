SPECIFICATION MulSpec
CONSTANTS
  Order = 1009
  Second = 7
  LimbBits = 4
  PubconstBits = 9
  Calls <- MCCalls
  Seeds <- MCSeeds
  ScalarBits = 12
  Width = 24
  Scalars <- MCScalars
INVARIANT DigitsAreTheScalar
PROPERTIES ImplementsMultiplication GlvImplementsMultiplication
