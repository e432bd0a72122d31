------------------------ MODULE FrameBoundaryDetector ------------------------
(***************************************************************************)
(* Dive::FrameBoundaryDetector: which primary command buffers carry the    *)
(* label that ends a frame of an OpenXR application.  Each of its methods  *)
(* is one section under m_mutex.                                           *)
(***************************************************************************)
CONSTANTS Cmds, Pools, None

VARIABLES
  m_cmds,      \* the pool of each tracked buffer, None if it is not tracked
  boundary     \* the tracked buffers with is_frameboundary

detectorVars == <<m_cmds, boundary>>

DetectorTypeOK ==
  /\ m_cmds \in [Cmds -> Pools \cup {None}]
  /\ boundary \in SUBSET Cmds

DetectorInit ==
  /\ m_cmds = [c \in Cmds |-> None]
  /\ boundary = {}

OnAllocateCommandBuffers(pool, c) ==
  /\ m_cmds' = [m_cmds EXCEPT ![c] = pool]
  /\ boundary' = boundary \ {c}

OnFreeCommandBuffers(c) ==
  /\ m_cmds' = [m_cmds EXCEPT ![c] = None]
  /\ boundary' = boundary \ {c}

OnResetCommandBuffer(c) ==
  /\ boundary' = boundary \ {c}
  /\ UNCHANGED m_cmds

OnResetCommandPool(pool) ==
  /\ boundary' = {c \in boundary : m_cmds[c] # pool}
  /\ UNCHANGED m_cmds

\* The delimiter; every other label leaves the flag alone.
MarkBoundary(c) ==
  /\ boundary' = IF m_cmds[c] # None THEN boundary \cup {c} ELSE boundary
  /\ UNCHANGED m_cmds

ContainsFrameBoundary(batch) == batch \cap boundary # {}
=============================================================================
