CONSTANTS
  R = 3
  a = a
  b = b
  m1 = m1
  Keys = {a, b}
  Gen = Gen
  Msgs = {m1}
  MaxN = 2
  MaxSigs = 5
  Counts = {2, 3}
  SignedBytes <- MCSignedBytes
  Foreign <- MCForeign
  Claims <- MCClaims
SPECIFICATION NetworkSpec
INVARIANTS
  ClaimsNameOnlySigners
  ProofsAndSignaturesApart
  HonestAggregatesVerify
CHECK_DEADLOCK FALSE
