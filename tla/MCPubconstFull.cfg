SPECIFICATION MulSpec
CONSTANTS
  Order = 1009
  Second = 7
  LimbBits = 4
  PubconstBits = 9
  Calls <- MCFullCalls
  Seeds <- MCSeeds
  ScalarBits = 12
  Width = 24
  Scalars = {}
INVARIANT PubconstComputesKP
