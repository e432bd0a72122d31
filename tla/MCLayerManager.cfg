CONSTANTS
  Clients = {c1, c2}
  None = None
SPECIFICATION LayerFairSpec
INVARIANTS
  OneClientAtATime
  CallbacksInTurn
PROPERTIES
  NoCallbackAfterExit
  ExitTerminates
CHECK_DEADLOCK FALSE
