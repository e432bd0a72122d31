CONSTANTS
  t1 = t1
  t2 = t2
  FrameThreads <- TwoThreads
  UIntMod = 4
  NumFrameToTrace = 1
SPECIFICATION Spec
INVARIANTS
  RecordingOnlyForRequest
  ReplyFollowsOwnRecording
PROPERTIES
  ImplementsCaptureService
