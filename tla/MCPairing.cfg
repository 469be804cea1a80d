SPECIFICATION PairingSpec
CONSTANTS
  FP_MODULUS = 163
  Chunk = 2
  Builds <- MCBuilds
  Calls <- MCCalls
INVARIANTS
  PairsAreAligned
  TowerIsTheField
  RunningPointIsTheMultiple
  FinalExpIsThePower
  PairingIsBilinear
PROPERTY ImplementsProduct
