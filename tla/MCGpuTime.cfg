CONSTANTS
  c1 = c1
  c2 = c2
  t1 = t1
  t2 = t2
  Cmds <- TwoCmds
  Pools = {p1}
  Threads <- TwoThreads
  TotalSlots = 4
  MaxFrameCmds = 1
  MaxBatch = 1
  MaxRenderPasses = 1
SPECIFICATION Spec
INVARIANTS
  SlotsExclusive
  NoSlotLost
  FrameCmdsCached
  
SYMMETRY Symmetry
CHECK_DEADLOCK FALSE
