CONSTANT MaxLoads = 4
SPECIFICATION FairSpec
INVARIANTS
  LastRequestShown
  StatsOfShownCapture
PROPERTIES
  WindowComesBack
  CloseTerminates
CHECK_DEADLOCK FALSE
