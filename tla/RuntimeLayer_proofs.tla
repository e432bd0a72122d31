------------------------ MODULE RuntimeLayer_proofs ------------------------
(***************************************************************************)
(* Proofs about RuntimeLayer, for any threads, command buffers, pools,     *)
(* pipelines, render passes and requests.                                  *)
(***************************************************************************)
EXTENDS RuntimeLayer, SequenceTheorems, TLAPS

-----------------------------------------------------------------------------
(* Draws are dropped only when they match.                                 *)
(*                                                                         *)
(* A recording begins outside of render passes only because every buffer   *)
(* that nobody records is outside: BeginCommandBuffer leaves the flag for  *)
(* the filtered render pass as an earlier recording had set it.            *)

MatchTypes ==
  /\ sCmdBufferCurrentPipelineHasAlpha \in [Threads -> SUBSET Cmds]
  /\ sCmdBufferInFilteredRenderPass \in [Threads -> SUBSET Cmds]
  /\ state \in [Cmds -> Threads \cup {"initial", "executable"}]
  /\ blends \in SUBSET Cmds
  /\ inPass \in [Cmds -> {None, "other", "target"}]

RestsOutsidePasses == \A c \in Cmds : state[c] \notin Threads => inPass[c] = None

MatchInv == MatchTypes /\ RestsOutsidePasses /\ OnlyMatchingDrawsDropped

matchVars == <<sCmdBufferCurrentPipelineHasAlpha, sCmdBufferInFilteredRenderPass,
               state, blends, inPass>>

\* Steps that touch neither the recordings nor the thread_local maps.
LEMMA MatchUnchanged ==
  MatchInv /\ UNCHANGED matchVars => MatchInv'
  BY DEF MatchInv, MatchTypes, RestsOutsidePasses, OnlyMatchingDrawsDropped, matchVars

\* The host's requests, the frame boundaries, the registries, and allocation.
LEMMA MatchFrames ==
  ASSUME \/ DrawcallFilterConfigRequest
         \/ \E t \in Presenters : FrameBoundary(t) \/ ProcessFrameBoundaryTasks(t)
         \/ \E t \in Threads : Objects(t)
  PROVE  UNCHANGED matchVars
  <1>1. CASE DrawcallFilterConfigRequest
    BY <1>1 DEF DrawcallFilterConfigRequest, matchVars, cacheVars, cmdVars
  <1>2. ASSUME NEW t \in Presenters, FrameBoundary(t) PROVE UNCHANGED matchVars
    BY <1>2 DEF FrameBoundary, QueuePresentKHR, QueueSubmit, BeginFrameBoundary,
                matchVars, cacheVars, cmdVars
  <1>3. ASSUME NEW t \in Presenters, ProcessFrameBoundaryTasks(t)
        PROVE  UNCHANGED matchVars
    BY <1>3 DEF ProcessFrameBoundaryTasks, ResetDrawcallCounter, TakeTasks, RunTask,
                matchVars, cacheVars, cmdVars
  <1>4. ASSUME NEW t \in Threads, Objects(t) PROVE UNCHANGED matchVars
    BY <1>4 DEF Objects, CreateGraphicsPipelines, DestroyPipeline, CreateRenderPass,
                SetDebugUtilsObjectNameEXT, DestroyRenderPass, SetRenderPass, Quiet,
                matchVars, cacheVars, cmdVars
  <1> QED BY <1>1, <1>2, <1>3, <1>4

\* Buffers that go back to the initial state, and are forgotten by one thread at
\* least in part, leave every other recording as it was.
LEMMA MatchReset ==
  ASSUME MatchInv, NEW t \in Threads, NEW forgotten, NEW reset,
         Forget(t, forgotten), BackToInitial(reset)
  PROVE  MatchInv'
  <1> USE DEF MatchInv, MatchTypes
  <1>1. /\ \A u \in Threads : /\ sCmdBufferCurrentPipelineHasAlpha'[u]
                                   \subseteq sCmdBufferCurrentPipelineHasAlpha[u]
                              /\ sCmdBufferInFilteredRenderPass'[u]
                                   \subseteq sCmdBufferInFilteredRenderPass[u]
        /\ MatchTypes'
    BY DEF Forget, BackToInitial
  <1>2. RestsOutsidePasses'
    BY DEF BackToInitial, RestsOutsidePasses
  <1>3. OnlyMatchingDrawsDropped'
    <2> SUFFICES ASSUME NEW u \in Threads, NEW c \in Cmds, state'[c] = u
                 PROVE  /\ c \in sCmdBufferCurrentPipelineHasAlpha'[u] => c \in blends'
                        /\ c \in sCmdBufferInFilteredRenderPass'[u] /\ inPass'[c] # None
                             => inPass'[c] = "target"
      BY DEF OnlyMatchingDrawsDropped
    <2>1. c \notin reset /\ state[c] = u
      BY ThreadsAssumption DEF BackToInitial
    <2>2. (c \in blends' <=> c \in blends) /\ inPass'[c] = inPass[c]
      BY <2>1 DEF BackToInitial
    <2> QED BY <1>1, <2>1, <2>2 DEF OnlyMatchingDrawsDropped
  <1> QED BY <1>1, <1>2, <1>3

LEMMA MatchBuffers ==
  ASSUME MatchInv, NEW t \in Threads, Buffers(t)
  PROVE  MatchInv'
  <1>1. ASSUME NEW c \in Cmds, NEW p \in Pools, AllocateCommandBuffers(t, p, c)
        PROVE  MatchInv'
    BY <1>1, MatchUnchanged DEF AllocateCommandBuffers, matchVars
  <1>2. ASSUME NEW c \in Cmds, FreeCommandBuffers(t, c) \/ ResetCommandBuffer(t, c)
        PROVE  MatchInv'
    BY <1>2, MatchReset DEF FreeCommandBuffers, ResetCommandBuffer
  <1>3. ASSUME NEW p \in Pools, ResetCommandPool(t, p) \/ DestroyCommandPool(t, p)
        PROVE  MatchInv'
    BY <1>3, MatchReset DEF ResetCommandPool, DestroyCommandPool
  <1>4. ASSUME NEW c \in Cmds, BeginCommandBuffer(t, c)
        PROVE  MatchInv'
    <2> USE <1>4 DEF MatchInv, MatchTypes, BeginCommandBuffer, SetFlag
    <2>1. MatchTypes'
      OBVIOUS
    <2>2. inPass[c] = None
      BY ThreadsAssumption DEF RestsOutsidePasses
    <2>3. RestsOutsidePasses'
      BY DEF RestsOutsidePasses
    <2>4. OnlyMatchingDrawsDropped'
      BY <2>2 DEF OnlyMatchingDrawsDropped
    <2> QED BY <2>1, <2>3, <2>4
  <1>5. ASSUME NEW c \in Cmds, EndCommandBuffer(t, c)
        PROVE  MatchInv'
    <2> USE <1>5 DEF MatchInv, MatchTypes, EndCommandBuffer, Records, SetFlag
    <2>1. MatchTypes'
      OBVIOUS
    <2>2. RestsOutsidePasses'
      BY DEF RestsOutsidePasses
    <2>3. OnlyMatchingDrawsDropped'
      BY ThreadsAssumption DEF OnlyMatchingDrawsDropped
    <2> QED BY <2>1, <2>2, <2>3
  <1> QED BY <1>1, <1>2, <1>3, <1>4, <1>5 DEF Buffers

LEMMA MatchCommands ==
  ASSUME MatchInv, NEW t \in Threads, Commands(t)
  PROVE  MatchInv'
  <1> USE DEF MatchInv, MatchTypes, Records, SetFlag
  <1>1. ASSUME NEW c \in Cmds, NEW p \in Pipelines, CmdBindPipeline(t, c, p)
        PROVE  MatchInv'
    <2> USE <1>1 DEF CmdBindPipeline
    <2>1. MatchTypes'
      OBVIOUS
    <2>2. RestsOutsidePasses'
      BY DEF RestsOutsidePasses
    <2>3. OnlyMatchingDrawsDropped'
      BY DEF OnlyMatchingDrawsDropped
    <2> QED BY <2>1, <2>2, <2>3
  <1>2. ASSUME NEW c \in Cmds, NEW r \in RenderPasses, CmdBeginRenderPass(t, c, r)
        PROVE  MatchInv'
    <2> USE <1>2 DEF CmdBeginRenderPass
    <2>1. MatchTypes'
      OBVIOUS
    <2>2. RestsOutsidePasses'
      BY DEF RestsOutsidePasses
    <2>3. OnlyMatchingDrawsDropped'
      BY DEF OnlyMatchingDrawsDropped
    <2> QED BY <2>1, <2>2, <2>3
  <1>3. ASSUME NEW c \in Cmds, CmdEndRenderPass(t, c)
        PROVE  MatchInv'
    <2> USE <1>3 DEF CmdEndRenderPass
    <2>1. MatchTypes'
      OBVIOUS
    <2>2. RestsOutsidePasses'
      BY DEF RestsOutsidePasses
    <2>3. OnlyMatchingDrawsDropped'
      BY DEF OnlyMatchingDrawsDropped
    <2> QED BY <2>1, <2>2, <2>3
  <1>4. ASSUME NEW c \in Cmds, \/ CmdInsertDebugUtilsLabel(t, c)
                               \/ \E counted \in BOOLEAN : CmdDraw(t, c, counted)
        PROVE  MatchInv'
    BY <1>4, MatchUnchanged
       DEF CmdInsertDebugUtilsLabel, CmdDraw, matchVars, cacheVars, cmdVars
  <1>5. CASE CheckAndIncrementDrawcallCount(t)
    BY <1>5, MatchUnchanged
       DEF CheckAndIncrementDrawcallCount, matchVars, cacheVars, cmdVars
  <1> QED BY <1>1, <1>2, <1>3, <1>4, <1>5 DEF Commands

\* Whichever threads recorded, reset or freed a buffer before, what a thread
\* remembers of it makes the filter of vk_rt_layer_impl.cc drop no draw with an
\* opaque pipeline as a blended one, and none outside of the target.
THEOREM OnlyMatchingDrawsDroppedHolds == Spec => []OnlyMatchingDrawsDropped
  <1>1. Init => MatchInv
    BY ThreadsAssumption
       DEF Init, MatchInv, MatchTypes, RestsOutsidePasses, OnlyMatchingDrawsDropped
  <1>2. MatchInv /\ [Next]_vars => MatchInv'
    <2> SUFFICES ASSUME MatchInv, [Next]_vars PROVE MatchInv'
      OBVIOUS
    <2>1. CASE UNCHANGED vars
      BY <2>1, MatchUnchanged DEF vars, matchVars, cacheVars, cmdVars
    <2>2. CASE Next
      BY <2>2, MatchFrames, MatchUnchanged, MatchBuffers, MatchCommands DEF Next
    <2> QED BY <2>1, <2>2
  <1>3. MatchInv => OnlyMatchingDrawsDropped
    BY DEF MatchInv
  <1> QED BY <1>1, <1>2, <1>3, PTL DEF Spec

-----------------------------------------------------------------------------
(* Types.  A task is run only by a thread that has one left. *)

RunsTasks == \A t \in Threads : doing[t] = "run" => tasks_to_run[t] # <<>>

TypeInv == TypeOK /\ RunsTasks

LEMMA IncrementType ==
  \A k \in 0 .. CountBound : Increment(k) \in 0 .. CountBound
  BY CountBoundAssumption DEF Increment

LEMMA HeadTailType ==
  ASSUME NEW S, NEW s \in Seq(S), s # <<>>
  PROVE  Head(s) \in S /\ Tail(s) \in Seq(S) /\ (Len(s) # 1 => Tail(s) # <<>>)
  <1>1. Head(s) \in S /\ Tail(s) \in Seq(S) /\ Len(Tail(s)) = Len(s) - 1
    BY HeadTailProperties
  <1>2. Len(s) \in Nat /\ Len(<<>>) = 0
    BY EmptySeq
  <1>3. ASSUME Tail(s) = <<>> PROVE Len(s) = 1
    BY <1>1, <1>2, <1>3
  <1> QED BY <1>1, <1>3

LEMMA TypeFrames ==
  ASSUME TypeInv,
         \/ DrawcallFilterConfigRequest
         \/ \E t \in Presenters : FrameBoundary(t) \/ ProcessFrameBoundaryTasks(t)
  PROVE  TypeInv'
  <1> USE ThreadsAssumption DEF TypeInv, TypeOK, DetectorTypeOK, RunsTasks, Doing
  <1>1. CASE DrawcallFilterConfigRequest
    <2>1. requested + 1 \in Configs
      BY <1>1 DEF DrawcallFilterConfigRequest, Configs
    <2> QED BY <1>1, <2>1
        DEF DrawcallFilterConfigRequest, detectorVars, limitVars, cacheVars, cmdVars
  <1>2. ASSUME NEW t \in Presenters, FrameBoundary(t) PROVE TypeInv'
    <2>1. BeginFrameBoundary(t)
      BY <1>2 DEF FrameBoundary, QueuePresentKHR, QueueSubmit
    <2>2. t \in Threads /\ doing' = [doing EXCEPT ![t] = "counter"]
      BY <2>1 DEF BeginFrameBoundary, Goes
    <2>3. doing' \in [Threads -> Doing]
          /\ \A u \in Threads : doing'[u] = "run" => doing[u] = "run"
      BY <2>2
    <2> QED BY <2>1, <2>3
        DEF BeginFrameBoundary, ActivatePending, detectorVars, limitVars, cacheVars, cmdVars
  <1>3. ASSUME NEW t \in Presenters, ResetDrawcallCounter(t) PROVE TypeInv'
    BY <1>3, CountBoundAssumption
       DEF ResetDrawcallCounter, Goes, detectorVars, filterVars, cacheVars, cmdVars
  <1>4. ASSUME NEW t \in Presenters, TakeTasks(t) PROVE TypeInv'
    BY <1>4 DEF TakeTasks, Goes, detectorVars, limitVars, cacheVars, cmdVars
  <1>5. ASSUME NEW t \in Presenters, RunTask(t) PROVE TypeInv'
    <2>1. t \in Threads /\ tasks_to_run[t] \in Seq(Configs) /\ tasks_to_run[t] # <<>>
      BY <1>5 DEF RunTask, Goes
    <2>2. /\ Head(tasks_to_run[t]) \in Configs
          /\ Tail(tasks_to_run[t]) \in Seq(Configs)
          /\ Len(tasks_to_run[t]) # 1 => Tail(tasks_to_run[t]) # <<>>
      BY <2>1, HeadTailType
    <2> QED BY <1>5, <2>1, <2>2
        DEF RunTask, Goes, detectorVars, limitVars, cacheVars, cmdVars
  <1> QED BY <1>1, <1>2, <1>3, <1>4, <1>5 DEF ProcessFrameBoundaryTasks

LEMMA TypeObjects ==
  ASSUME TypeInv, NEW t \in Threads, Objects(t)
  PROVE  TypeInv'
  <1> USE NamesAssumption DEF TypeInv, TypeOK, DetectorTypeOK, RunsTasks
  <1>1. /\ m_live_psos' \in [Pipelines -> {"none", "opaque", "blended"}]
        /\ m_render_passes' \in [RenderPasses -> Names \cup {None}]
    BY DEF Objects, CreateGraphicsPipelines, DestroyPipeline, CreateRenderPass,
           SetDebugUtilsObjectNameEXT, DestroyRenderPass, SetRenderPass
  <1>2. Quiet
    BY DEF Objects, CreateGraphicsPipelines, DestroyPipeline, CreateRenderPass,
           SetDebugUtilsObjectNameEXT, DestroyRenderPass, SetRenderPass
  <1> QED BY <1>1, <1>2
      DEF Quiet, detectorVars, filterVars, limitVars, cacheVars, cmdVars

LEMMA TypeBuffers ==
  ASSUME TypeInv, NEW t \in Threads, Buffers(t)
  PROVE  TypeInv'
  <1> USE DEF TypeInv, TypeOK, DetectorTypeOK, RunsTasks, Others, filterVars, limitVars,
              detectorVars
  <1>1. ASSUME NEW c \in Cmds, NEW p \in Pools, AllocateCommandBuffers(t, p, c)
        PROVE  TypeInv'
    BY <1>1 DEF AllocateCommandBuffers, OnAllocateCommandBuffers
  <1>2. ASSUME NEW c \in Cmds, FreeCommandBuffers(t, c) PROVE TypeInv'
    BY <1>2 DEF FreeCommandBuffers, OnFreeCommandBuffers, Forget, BackToInitial
  <1>3. ASSUME NEW c \in Cmds, ResetCommandBuffer(t, c) PROVE TypeInv'
    BY <1>3 DEF ResetCommandBuffer, OnResetCommandBuffer, Forget, BackToInitial
  <1>4. ASSUME NEW c \in Cmds, BeginCommandBuffer(t, c) PROVE TypeInv'
    BY <1>4 DEF BeginCommandBuffer, SetFlag
  <1>5. ASSUME NEW c \in Cmds, EndCommandBuffer(t, c) PROVE TypeInv'
    BY <1>5 DEF EndCommandBuffer, SetFlag
  <1>6. ASSUME NEW p \in Pools, ResetCommandPool(t, p) PROVE TypeInv'
    BY <1>6 DEF ResetCommandPool, OnResetCommandPool, Forget, BackToInitial
  <1>7. ASSUME NEW p \in Pools, DestroyCommandPool(t, p) PROVE TypeInv'
    BY <1>7 DEF DestroyCommandPool, Forget, BackToInitial
  <1> QED BY <1>1, <1>2, <1>3, <1>4, <1>5, <1>6, <1>7 DEF Buffers

LEMMA TypeCommands ==
  ASSUME TypeInv, NEW t \in Threads, Commands(t)
  PROVE  TypeInv'
  <1> USE DEF TypeInv, TypeOK, DetectorTypeOK, RunsTasks, Others, filterVars, limitVars,
              detectorVars
  <1>1. ASSUME NEW c \in Cmds, NEW p \in Pipelines, CmdBindPipeline(t, c, p)
        PROVE  TypeInv'
    BY <1>1 DEF CmdBindPipeline, SetFlag
  <1>2. ASSUME NEW c \in Cmds, NEW r \in RenderPasses, CmdBeginRenderPass(t, c, r)
        PROVE  TypeInv'
    BY <1>2 DEF CmdBeginRenderPass, SetFlag
  <1>3. ASSUME NEW c \in Cmds, CmdEndRenderPass(t, c) PROVE TypeInv'
    BY <1>3 DEF CmdEndRenderPass, SetFlag
  <1>4. ASSUME NEW c \in Cmds, CmdInsertDebugUtilsLabel(t, c) PROVE TypeInv'
    BY <1>4 DEF CmdInsertDebugUtilsLabel, MarkBoundary, cacheVars, cmdVars
  <1>5. ASSUME NEW c \in Cmds, NEW counted \in BOOLEAN, CmdDraw(t, c, counted)
        PROVE  TypeInv'
    BY <1>5, IncrementType DEF CmdDraw, Goes, Doing, cacheVars, cmdVars
  <1>6. CASE CheckAndIncrementDrawcallCount(t)
    BY <1>6, IncrementType
       DEF CheckAndIncrementDrawcallCount, Goes, Doing, cacheVars, cmdVars
  <1> QED BY <1>1, <1>2, <1>3, <1>4, <1>5, <1>6 DEF Commands

LEMMA TypeStep == TypeInv /\ [Next]_vars => TypeInv'
  <1> SUFFICES ASSUME TypeInv, [Next]_vars PROVE TypeInv'
    OBVIOUS
  <1>1. CASE UNCHANGED vars
    BY <1>1 DEF TypeInv, TypeOK, DetectorTypeOK, RunsTasks, vars, detectorVars,
                filterVars, limitVars, cacheVars, cmdVars
  <1>2. CASE Next
    BY <1>2, TypeFrames, TypeObjects, TypeBuffers, TypeCommands DEF Next
  <1> QED BY <1>1, <1>2

\* Every variable of the runtime layer and of the detector keeps its type; a
\* thread runs tasks only while it has taken some that are not run yet.
THEOREM TypeCorrect == Spec => []TypeInv
  <1>1. Init => TypeInv
    BY CountBoundAssumption
       DEF Init, DetectorInit, TypeInv, TypeOK, DetectorTypeOK, RunsTasks, Doing, Configs
  <1> QED BY <1>1, TypeStep, PTL DEF Spec

-----------------------------------------------------------------------------
(* The limit of draws per frame.                                           *)
(*                                                                         *)
(* The bound on passed speaks of the filter that was active when the       *)
(* counter was cleared.  A filter that becomes active again must not find  *)
(* draws that another filter let through: with one thread that ends the    *)
(* frames, the filter changes only after the counter was cleared for the   *)
(* one before (ClearedForActive).  While the limit is not reached, the     *)
(* counter has counted every draw that was let through.                    *)

ClearedForActive ==
  \A t \in Presenters : doing[t] # "counter" => frameFilter = m_active_filter_config

CounterCounts ==
  Active.limit /\ frameFilter = m_active_filter_config =>
    /\ passed <= Active.max
    /\ m_global_drawcall_counter < Active.max => passed <= m_global_drawcall_counter

LimitInv == TypeInv /\ ClearedForActive /\ CounterCounts

limitInvVars == <<m_active_filter_config, limitVars, doing>>

\* The filter in use has the fields of a filter, and counters go beyond its limit.
LEMMA ActiveType ==
  ASSUME m_active_filter_config \in Configs
  PROVE  /\ Active.max \in Nat
         /\ Active.limit => Active.max < CountBound
  <1> DEFINE n == m_active_filter_config
  <1>1. CASE n = 0
    BY <1>1 DEF Active, Filter, NoFilter
  <1>2. CASE n # 0
    <2>1. n \in 1 .. Len(Requests)
      BY <1>2, RequestsAssumption DEF Configs
    <2>2. Requests[n] \in DrawcallFilterConfig
      BY <2>1, RequestsAssumption
    <2>3. Requests[n].max \in Nat /\ Requests[n].max < CountBound
      BY <2>1, <2>2, CountBoundAssumption DEF DrawcallFilterConfig
    <2> QED BY <1>2, <2>3 DEF Active, Filter
  <1> QED BY <1>1, <1>2

LEMMA LimitUnchanged ==
  ClearedForActive /\ CounterCounts /\ UNCHANGED limitInvVars
    => ClearedForActive' /\ CounterCounts'
  BY DEF ClearedForActive, CounterCounts, limitInvVars, limitVars, Active

\* The steps of recording, of the registries and of the host change none of this.
LEMMA LimitQuiet ==
  ASSUME \/ DrawcallFilterConfigRequest
         \/ \E t \in Threads : Objects(t) \/ Buffers(t)
         \/ \E t \in Threads, c \in Cmds :
              \/ \E p \in Pipelines : CmdBindPipeline(t, c, p)
              \/ \E r \in RenderPasses : CmdBeginRenderPass(t, c, r)
              \/ CmdEndRenderPass(t, c) \/ CmdInsertDebugUtilsLabel(t, c)
  PROVE  UNCHANGED limitInvVars
  <1> USE DEF limitInvVars, limitVars, filterVars, Others
  <1>1. CASE DrawcallFilterConfigRequest
    BY <1>1 DEF DrawcallFilterConfigRequest
  <1>2. ASSUME NEW t \in Threads, Objects(t) PROVE UNCHANGED limitInvVars
    BY <1>2 DEF Objects, CreateGraphicsPipelines, DestroyPipeline, CreateRenderPass,
                SetDebugUtilsObjectNameEXT, DestroyRenderPass, SetRenderPass, Quiet
  <1>3. ASSUME NEW t \in Threads, Buffers(t) PROVE UNCHANGED limitInvVars
    BY <1>3 DEF Buffers, AllocateCommandBuffers, FreeCommandBuffers, ResetCommandBuffer,
                ResetCommandPool, DestroyCommandPool, BeginCommandBuffer, EndCommandBuffer
  <1>4. ASSUME NEW t \in Threads, NEW c \in Cmds,
               \/ \E p \in Pipelines : CmdBindPipeline(t, c, p)
               \/ \E r \in RenderPasses : CmdBeginRenderPass(t, c, r)
               \/ CmdEndRenderPass(t, c) \/ CmdInsertDebugUtilsLabel(t, c)
        PROVE  UNCHANGED limitInvVars
    BY <1>4 DEF CmdBindPipeline, CmdBeginRenderPass, CmdEndRenderPass,
                CmdInsertDebugUtilsLabel
  <1> QED BY <1>1, <1>2, <1>3, <1>4

LEMMA LimitFrames ==
  ASSUME \A s, t \in Presenters : s = t,
         LimitInv, NEW t \in Presenters, FrameBoundary(t) \/ ProcessFrameBoundaryTasks(t)
  PROVE  ClearedForActive' /\ CounterCounts'
  <1> USE ThreadsAssumption DEF LimitInv, TypeInv, TypeOK
  <1>1. CASE FrameBoundary(t)
    <2>1. BeginFrameBoundary(t)
      BY <1>1 DEF FrameBoundary, QueuePresentKHR, QueueSubmit
    <2>2. doing'[t] = "counter" /\ frameFilter = m_active_filter_config
      BY <2>1 DEF BeginFrameBoundary, Goes, ClearedForActive
    <2>3. ClearedForActive'
      BY <2>2 DEF ClearedForActive
    <2>4. CounterCounts'
      BY <2>1, <2>2 DEF BeginFrameBoundary, limitVars, CounterCounts, Active
    <2> QED BY <2>3, <2>4
  <1>2. CASE ResetDrawcallCounter(t)
    <2>1. ClearedForActive'
      BY <1>2 DEF ResetDrawcallCounter, filterVars, ClearedForActive
    <2>2. Active.max \in Nat /\ Active' = Active
      BY <1>2, ActiveType DEF ResetDrawcallCounter, filterVars, Active
    <2>3. CounterCounts'
      BY <1>2, <2>2 DEF ResetDrawcallCounter, CounterCounts
    <2> QED BY <2>1, <2>3
  <1>3. CASE TakeTasks(t) \/ RunTask(t)
    <2>1. doing[t] # "counter" /\ UNCHANGED <<m_active_filter_config, limitVars>>
      BY <1>3 DEF TakeTasks, RunTask, Goes
    <2>2. frameFilter = m_active_filter_config
      BY <2>1 DEF ClearedForActive
    <2> QED BY <2>1, <2>2 DEF limitVars, ClearedForActive, CounterCounts, Active
  <1> QED BY <1>1, <1>2, <1>3 DEF ProcessFrameBoundaryTasks

\* A draw: without a limit it is let through; with one, the counter decides.
LEMMA LimitDraw ==
  ASSUME LimitInv, NEW t \in Threads,
         \/ \E c \in Cmds, counted \in BOOLEAN : CmdDraw(t, c, counted)
         \/ CheckAndIncrementDrawcallCount(t)
  PROVE  ClearedForActive' /\ CounterCounts'
  <1> USE DEF LimitInv, TypeInv, TypeOK
  <1>1. ClearedForActive'
    <2>1. \A u \in Threads : doing[u] = "counter" <=> doing'[u] = "counter"
      BY DEF CmdDraw, CheckAndIncrementDrawcallCount, Goes
    <2>2. UNCHANGED <<frameFilter, m_active_filter_config>>
      BY DEF CmdDraw, CheckAndIncrementDrawcallCount, filterVars
    <2> QED BY <2>1, <2>2, ThreadsAssumption DEF ClearedForActive
  <1>2. CASE \E c \in Cmds, counted \in BOOLEAN : CmdDraw(t, c, counted)
    <2>1. CounterCounts'
      BY <1>2 DEF CmdDraw, filterVars, CounterCounts, Active
    <2> QED BY <1>1, <2>1
  <1>3. CASE CheckAndIncrementDrawcallCount(t)
    <2>1. CounterCounts'
      <3> SUFFICES ASSUME Active.limit, frameFilter = m_active_filter_config
                   PROVE  /\ passed' <= Active.max
                          /\ m_global_drawcall_counter' < Active.max
                               => passed' <= m_global_drawcall_counter'
        BY <1>3 DEF CheckAndIncrementDrawcallCount, filterVars, CounterCounts, Active
      <3>1. Active.max \in Nat /\ Active.max < CountBound /\ CountBound \in Nat
        BY ActiveType, CountBoundAssumption
      <3>2. CASE WithinLimit
        BY <1>3, <3>1, <3>2
           DEF CheckAndIncrementDrawcallCount, WithinLimit, Increment, CounterCounts
      <3>3. CASE ~WithinLimit
        BY <1>3, <3>1, <3>3
           DEF CheckAndIncrementDrawcallCount, WithinLimit, Increment, CounterCounts
      <3> QED BY <3>2, <3>3
    <2> QED BY <1>1, <2>1
  <1> QED BY <1>2, <1>3

\* With one thread that ends the frames, CheckAndIncrementDrawcallCount lets no
\* more draws through than the limit that is active since the counter was
\* cleared, for any number of drawing threads.
THEOREM DrawcallLimitKeptHolds ==
  ASSUME \A s, t \in Presenters : s = t
  PROVE  Spec => []DrawcallLimitKept
  <1>1. Init => LimitInv
    <2> SUFFICES ASSUME Init PROVE LimitInv
      OBVIOUS
    <2>1. TypeInv
      BY CountBoundAssumption
         DEF Init, DetectorInit, TypeInv, TypeOK, DetectorTypeOK, RunsTasks, Doing, Configs
    <2>2. ClearedForActive /\ CounterCounts
      BY DEF Init, ClearedForActive, CounterCounts, Active, Filter, NoFilter
    <2> QED BY <2>1, <2>2 DEF LimitInv
  <1>2. LimitInv /\ [Next]_vars => LimitInv'
    <2> SUFFICES ASSUME LimitInv, [Next]_vars PROVE ClearedForActive' /\ CounterCounts'
      BY TypeStep DEF LimitInv
    <2>1. CASE UNCHANGED vars
      BY <2>1, LimitUnchanged DEF vars, filterVars, limitInvVars, LimitInv
    <2>2. CASE Next
      <3>1. ASSUME NEW t \in Threads, Commands(t)
            PROVE  ClearedForActive' /\ CounterCounts'
        BY <3>1, LimitQuiet, LimitUnchanged, LimitDraw DEF Commands, LimitInv
      <3>2. ASSUME \/ DrawcallFilterConfigRequest
                   \/ \E t \in Threads : Objects(t) \/ Buffers(t)
            PROVE  ClearedForActive' /\ CounterCounts'
        BY <3>2, LimitQuiet, LimitUnchanged DEF LimitInv
      <3> QED BY <2>2, <3>1, <3>2, LimitFrames DEF Next
    <2> QED BY <2>1, <2>2
  <1>3. LimitInv => DrawcallLimitKept
    BY DEF LimitInv, CounterCounts, DrawcallLimitKept
  <1> QED BY <1>1, <1>2, <1>3, PTL DEF Spec
=============================================================================
