SPECIFICATION Spec
CONSTANTS
  Functions <- MCFunctions
  None = None
INVARIANT TypeOK
INVARIANT LoopQueryIsBetween
INVARIANT DiscardIsNotMissed
INVARIANT LivenessIsPathwise
INVARIANT ReadFirstIsLive
PROPERTY DominatorsAsSpecified
PROPERTY AnalysisFinishes
CHECK_DEADLOCK FALSE
