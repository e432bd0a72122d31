CONSTANTS
  t1 = t1
  t2 = t2
  FrameThreads <- OneThread
  UIntMod = 5
  NumFrameToTrace = 2
SPECIFICATION FairSpec
INVARIANTS
  ByFrameRecordsExactly
PROPERTIES
  EveryRequestAnswered
