SPECIFICATION RuntimeSpec
CONSTANTS
  Threads = {l, t1, t2}
  Loader = l
  MaxGrowth = 1
INVARIANTS KernelsAreRunnable JsCallIsSound PyCallIsSound
PROPERTY FlagSettles
CHECK_DEADLOCK FALSE
