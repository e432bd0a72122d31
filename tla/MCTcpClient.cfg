CONSTANTS
  Requests = {"pm4Capture", "livePSOs"}
  Unhandled = {"livePSOs"}
SPECIFICATION FairSpec
INVARIANTS
  ResponseMatchesRequest
PROPERTIES
  EachRequestStartsClean
  NoResetUnderKeepAlive
  DisconnectedUntilConnect
  DisconnectTerminates
  RequestReturns
  KeepAliveDetects
