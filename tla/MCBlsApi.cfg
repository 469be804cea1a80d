CONSTANTS
  R = 5
  a = a
  b = b
  m1 = m1
  m2 = m2
  m3 = m3
  Keys = {a, b}
  Gen = Gen
  Msgs = {m1, m2, m3}
  MaxN = 3
  Uninit = Uninit
  Calls <- MCCalls
SPECIFICATION Spec
INVARIANTS
  TypeOK
  SlotsHoldTheClaim
  AcceptanceIsEarned
  WhatIsMadeVerifies
PROPERTIES
  ImplementsService
