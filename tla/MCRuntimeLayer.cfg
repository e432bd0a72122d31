CONSTANTS
  None = None
  Cmds = {c1}
  Pools = {p1}
  Threads = {t1, t2}
  Presenters = {t1}
  Pipelines = {g1}
  RenderPasses = {r1}
  Names = {"Unnamed RenderPass", "scene"}
  Requests <- MCRequests
  CountBound = 2
SPECIFICATION FairSpec
INVARIANTS
  OnlyMatchingDrawsDropped
  DrawcallLimitKept
PROPERTIES
  RequestedFilterApplied
