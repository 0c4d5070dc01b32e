SPECIFICATION Spec
CONSTANTS
  Functions <- MCFunctions
  None = None
INVARIANT BarrierBetweenSeparates
CHECK_DEADLOCK FALSE
