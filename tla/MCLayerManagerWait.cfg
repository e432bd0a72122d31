CONSTANTS
  Clients = {c1, c2}
  None = None
SPECIFICATION LayerFairSpec
PROPERTIES
  WaitUntilStopped
CHECK_DEADLOCK FALSE
