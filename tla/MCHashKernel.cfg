CONSTANT Curves <- MCKernelCurves
SPECIFICATION Spec
CHECK_DEADLOCK FALSE
INVARIANT EveryHashIsInTheGroup
