CONSTANT Curves <- MCCurves
SPECIFICATION Spec
CHECK_DEADLOCK FALSE
INVARIANTS MapIsExact HashIsExact
