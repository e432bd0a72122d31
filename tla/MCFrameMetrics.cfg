CONSTANTS
  FrameMetricsLimit = 2
  MaxFrames = 5
  MaxCmds = 2
  MaxPasses = 2
SPECIFICATION MetricsSpec
INVARIANTS
  SameFrames
  EveryPassAttributed
CHECK_DEADLOCK FALSE
