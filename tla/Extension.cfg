SPECIFICATION Spec
CONSTANTS
  Window = {w1}
  Restart <- MCRestart
  None = None
  MaxOpens = 2
  MaxFaults = 2
INVARIANT OneServer
INVARIANT CachedIsWhole
PROPERTY BadgeSettles
CHECK_DEADLOCK FALSE
