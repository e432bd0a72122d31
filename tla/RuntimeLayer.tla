---------------------------- MODULE RuntimeLayer ----------------------------
(***************************************************************************)
(* DiveRuntimeLayer, the layer that drops draw calls of a running          *)
(* application ("what if"): the configuration that the host sends, which   *)
(* becomes active at the frame boundaries; the registries of pipelines and *)
(* render passes; and what each thread remembers, in thread_local maps, of *)
(* the command buffers it records.                                         *)
(*                                                                         *)
(* An application thread calls the hooks of Threads; the server thread of  *)
(* UnixDomainServer calls the message handler.  The application keeps to   *)
(* the rules of Vulkan: a command buffer is recorded by one thread from    *)
(* vkBeginCommandBuffer to vkEndCommandBuffer, although not always by the  *)
(* same one, and draws in a render pass.  Buffers are primary ones.  The   *)
(* calls of GPUTime that the same hooks make are in GpuTime; timestamp     *)
(* queries, and what the static switches that are false would enable, are  *)
(* left out.                                                               *)
(***************************************************************************)
EXTENDS FrameBoundaryDetector, Naturals, Sequences

CONSTANTS
  Threads,        \* the application's threads
  Presenters,     \* those that present or submit the end of a frame
  Pipelines,      \* handles of pipelines
  RenderPasses,   \* handles of render passes
  Names,          \* names an application may give a render pass
  Requests,       \* the filters the host asks for, in order
  CountBound      \* counters saturate here, above any limit of the requests

ASSUME ThreadsAssumption ==
  Presenters \subseteq Threads /\ Threads \cap {"initial", "executable"} = {}

ASSUME NamesAssumption == None \notin Names /\ "Unnamed RenderPass" \in Names

DrawcallFilterConfig ==
  [alpha : BOOLEAN, counts : BOOLEAN, pass : Names \cup {None}, limit : BOOLEAN, max : Nat]

ASSUME RequestsAssumption == Requests \in Seq(DrawcallFilterConfig)

ASSUME CountBoundAssumption ==
  CountBound \in Nat /\ \A n \in 1 .. Len(Requests) : Requests[n].max < CountBound

VARIABLES
  \* DiveRuntimeLayer; a configuration is its number among the requests
  m_pending_filter_config,
  m_active_filter_config,
  m_frame_boundary_tasks,
  m_global_drawcall_counter,   \* saturates at CountBound
  m_live_psos,       \* "opaque" or "blended", "none" if it is not tracked
  m_render_passes,   \* the name, None if the render pass is not tracked
  \* thread_local: the buffers that a thread's map takes to true
  sCmdBufferCurrentPipelineHasAlpha,
  sCmdBufferInFilteredRenderPass,
  sCommandPoolBuffers,
  doing,             \* what each thread is in the middle of
  tasks_to_run,      \* of each thread in ProcessFrameBoundaryTasks
  \* the application
  pool,              \* of each command buffer, None if it is not allocated
  state,             \* "initial", "executable", or the thread that records
  blends,            \* the buffers whose bound pipeline blends
  inPass,            \* the render pass they are in: None, "other", "target"
  \* history
  requested,         \* how many requests the host has sent
  frameFilter,       \* what was active when the counter was last cleared
  passed             \* draws let through since then, saturating

filterVars == <<m_pending_filter_config, m_active_filter_config,
                m_frame_boundary_tasks, tasks_to_run, requested>>
limitVars  == <<m_global_drawcall_counter, frameFilter, passed>>
cacheVars  == <<sCmdBufferCurrentPipelineHasAlpha,
                sCmdBufferInFilteredRenderPass, sCommandPoolBuffers>>
cmdVars    == <<pool, state, blends, inPass>>
vars == <<detectorVars, filterVars, limitVars, m_live_psos, m_render_passes,
          cacheVars, doing, cmdVars>>

NoFilter == [alpha |-> FALSE, counts |-> FALSE, pass |-> None,
             limit |-> FALSE, max |-> 0]
Filter(n) == IF n = 0 THEN NoFilter ELSE Requests[n]
Active == Filter(m_active_filter_config)
Configs == 0 .. Len(Requests)

\* Saturated, a counter still tells that any limit was exceeded.
Increment(k) == IF k < CountBound THEN k + 1 ELSE k

Doing == {"idle", "counter", "take", "run", "draw"}

TypeOK ==
  /\ DetectorTypeOK
  /\ m_pending_filter_config \in Configs
  /\ m_active_filter_config \in Configs
  /\ m_frame_boundary_tasks \in Seq(Configs)
  /\ tasks_to_run \in [Threads -> Seq(Configs)]
  /\ m_global_drawcall_counter \in 0 .. CountBound
  /\ m_live_psos \in [Pipelines -> {"none", "opaque", "blended"}]
  /\ m_render_passes \in [RenderPasses -> Names \cup {None}]
  /\ sCmdBufferCurrentPipelineHasAlpha \in [Threads -> SUBSET Cmds]
  /\ sCmdBufferInFilteredRenderPass \in [Threads -> SUBSET Cmds]
  /\ sCommandPoolBuffers \in [Threads -> [Pools -> SUBSET Cmds]]
  /\ doing \in [Threads -> Doing]
  /\ pool \in [Cmds -> Pools \cup {None}]
  /\ state \in [Cmds -> Threads \cup {"initial", "executable"}]
  /\ blends \in SUBSET Cmds
  /\ inPass \in [Cmds -> {None, "other", "target"}]
  /\ requested \in Configs
  /\ frameFilter \in Configs
  /\ passed \in 0 .. CountBound

Init ==
  /\ DetectorInit
  /\ m_pending_filter_config = 0
  /\ m_active_filter_config = 0
  /\ m_frame_boundary_tasks = <<>>
  /\ tasks_to_run = [t \in Threads |-> <<>>]
  /\ m_global_drawcall_counter = 0
  /\ m_live_psos = [p \in Pipelines |-> "none"]
  /\ m_render_passes = [r \in RenderPasses |-> None]
  /\ sCmdBufferCurrentPipelineHasAlpha = [t \in Threads |-> {}]
  /\ sCmdBufferInFilteredRenderPass = [t \in Threads |-> {}]
  /\ sCommandPoolBuffers = [t \in Threads |-> [p \in Pools |-> {}]]
  /\ doing = [t \in Threads |-> "idle"]
  /\ pool = [c \in Cmds |-> None]
  /\ state = [c \in Cmds |-> "initial"]
  /\ blends = {}
  /\ inPass = [c \in Cmds |-> None]
  /\ requested = 0
  /\ frameFilter = 0
  /\ passed = 0

-----------------------------------------------------------------------------
(* Helpers *)

IsIdle(t) == doing[t] = "idle"
Goes(t, from, to) == doing[t] = from /\ doing' = [doing EXCEPT ![t] = to]

\* A thread forgets buffers in its own maps; the other threads' maps stay.
Forget(t, cmds) ==
  /\ sCmdBufferCurrentPipelineHasAlpha' =
       [sCmdBufferCurrentPipelineHasAlpha EXCEPT ![t] = @ \ cmds]
  /\ sCmdBufferInFilteredRenderPass' =
       [sCmdBufferInFilteredRenderPass EXCEPT ![t] = @ \ cmds]

SetFlag(map, t, c, flag) ==
  [map EXCEPT ![t] = IF flag THEN @ \cup {c} ELSE @ \ {c}]

\* The driver puts buffers into the initial state.
BackToInitial(cmds) ==
  /\ state' = [c \in Cmds |-> IF c \in cmds THEN "initial" ELSE state[c]]
  /\ blends' = blends \ cmds
  /\ inPass' = [c \in Cmds |-> IF c \in cmds THEN None ELSE inPass[c]]

Of(p) == {c \in Cmds : pool[c] = p}

-----------------------------------------------------------------------------
(* The server thread *)

\* DRAWCALL_FILTER_CONFIG_REQUEST: EnqueueFrameBoundaryTask, then the response.
DrawcallFilterConfigRequest ==
  /\ requested < Len(Requests)
  /\ requested' = requested + 1
  /\ m_frame_boundary_tasks' = Append(m_frame_boundary_tasks, requested + 1)
  /\ UNCHANGED <<detectorVars, m_pending_filter_config, m_active_filter_config,
                 tasks_to_run, limitVars, m_live_psos, m_render_passes, cacheVars,
                 doing, cmdVars>>

-----------------------------------------------------------------------------
(* ProcessFrameBoundaryTasks *)

\* The section under m_config_mutex.
ActivatePending == m_active_filter_config' = m_pending_filter_config

BeginFrameBoundary(t) ==
  /\ Goes(t, "idle", "counter")
  /\ ActivatePending
  /\ UNCHANGED <<detectorVars, m_pending_filter_config, m_frame_boundary_tasks,
                 tasks_to_run, requested, limitVars, m_live_psos, m_render_passes,
                 cacheVars, cmdVars>>

QueuePresentKHR(t) == BeginFrameBoundary(t)

\* The detector is asked after the driver's vkQueueSubmit.
QueueSubmit(t, c) ==
  /\ state[c] = "executable"
  /\ ContainsFrameBoundary({c})
  /\ BeginFrameBoundary(t)

ResetDrawcallCounter(t) ==
  /\ Goes(t, "counter", "take")
  /\ m_global_drawcall_counter' = 0
  /\ frameFilter' = m_active_filter_config
  /\ passed' = 0
  /\ UNCHANGED <<detectorVars, filterVars, m_live_psos, m_render_passes, cacheVars,
                 cmdVars>>

\* The section under m_task_mutex.
TakeTasks(t) ==
  /\ Goes(t, "take", IF m_frame_boundary_tasks = <<>> THEN "idle" ELSE "run")
  /\ tasks_to_run' = [tasks_to_run EXCEPT ![t] = m_frame_boundary_tasks]
  /\ m_frame_boundary_tasks' = <<>>
  /\ UNCHANGED <<detectorVars, m_pending_filter_config, m_active_filter_config,
                 requested, limitVars, m_live_psos, m_render_passes, cacheVars,
                 cmdVars>>

\* Mutant: the newest task runs first.
RunTask_Last(t) ==
  LET tasks == tasks_to_run[t]
  IN  /\ Goes(t, "run", IF Len(tasks) = 1 THEN "idle" ELSE "run")
      /\ m_pending_filter_config' = tasks[Len(tasks)]
      /\ tasks_to_run' = [tasks_to_run EXCEPT ![t] = SubSeq(tasks, 1, Len(tasks) - 1)]
      /\ UNCHANGED <<detectorVars, m_active_filter_config,
                     m_frame_boundary_tasks, requested, limitVars, m_live_psos,
                     m_render_passes, cacheVars, cmdVars>>

\* task(): UpdateFilterConfig.
RunTask(t) ==
  LET tasks == tasks_to_run[t]
  IN  /\ Goes(t, "run", IF Len(tasks) = 1 THEN "idle" ELSE "run")
      /\ m_pending_filter_config' = Head(tasks)
      /\ tasks_to_run' = [tasks_to_run EXCEPT ![t] = Tail(tasks)]
      /\ UNCHANGED <<detectorVars, m_active_filter_config,
                     m_frame_boundary_tasks, requested, limitVars, m_live_psos,
                     m_render_passes, cacheVars, cmdVars>>

ProcessFrameBoundaryTasks(t) ==
  ResetDrawcallCounter(t) \/ TakeTasks(t) \/ RunTask(t)

-----------------------------------------------------------------------------
(* Pipelines and render passes *)

Quiet == UNCHANGED <<detectorVars, filterVars, limitVars, cacheVars, doing,
                     cmdVars>>

\* An entry is made after the driver has handed out the handle, and erased
\* before the driver frees it: nobody else has the handle in between.
CreateGraphicsPipelines(t, p) ==
  /\ IsIdle(t) /\ m_live_psos[p] = "none"
  /\ \E kind \in {"opaque", "blended"} :
       m_live_psos' = [m_live_psos EXCEPT ![p] = kind]
  /\ UNCHANGED m_render_passes /\ Quiet

DestroyPipeline(t, p) ==
  /\ IsIdle(t) /\ m_live_psos[p] # "none"
  /\ m_live_psos' = [m_live_psos EXCEPT ![p] = "none"]
  /\ UNCHANGED m_render_passes /\ Quiet

SetRenderPass(t, r, name) ==
  /\ IsIdle(t)
  /\ m_render_passes' = [m_render_passes EXCEPT ![r] = name]
  /\ UNCHANGED m_live_psos /\ Quiet

\* A new render pass is "Unnamed RenderPass".
CreateRenderPass(t, r) ==
  m_render_passes[r] = None /\ SetRenderPass(t, r, "Unnamed RenderPass")

SetDebugUtilsObjectNameEXT(t, r) ==
  m_render_passes[r] # None /\ \E n \in Names : SetRenderPass(t, r, n)

DestroyRenderPass(t, r) ==
  m_render_passes[r] # None /\ SetRenderPass(t, r, None)

Objects(t) ==
  \/ \E p \in Pipelines : CreateGraphicsPipelines(t, p) \/ DestroyPipeline(t, p)
  \/ \E r \in RenderPasses : \/ CreateRenderPass(t, r)
                             \/ SetDebugUtilsObjectNameEXT(t, r)
                             \/ DestroyRenderPass(t, r)

-----------------------------------------------------------------------------
(* Command buffers and their pools *)

Others == UNCHANGED <<filterVars, limitVars, m_live_psos, m_render_passes, doing>>

AllocateCommandBuffers(t, p, c) ==
  /\ IsIdle(t) /\ pool[c] = None
  /\ pool' = [pool EXCEPT ![c] = p]
  /\ sCommandPoolBuffers' = [sCommandPoolBuffers EXCEPT ![t][p] = @ \cup {c}]
  /\ OnAllocateCommandBuffers(p, c)
  /\ UNCHANGED <<sCmdBufferCurrentPipelineHasAlpha,
                 sCmdBufferInFilteredRenderPass, state, blends, inPass>>
  /\ Others

\* The list of the pool keeps the freed buffer.
FreeCommandBuffers(t, c) ==
  /\ IsIdle(t) /\ pool[c] # None
  /\ Forget(t, {c})
  /\ OnFreeCommandBuffers(c)
  /\ pool' = [pool EXCEPT ![c] = None]
  /\ BackToInitial({c})
  /\ UNCHANGED sCommandPoolBuffers
  /\ Others

ResetCommandBuffer(t, c) ==
  /\ IsIdle(t) /\ pool[c] # None
  /\ Forget(t, {c})
  /\ OnResetCommandBuffer(c)
  /\ BackToInitial({c})
  /\ UNCHANGED <<sCommandPoolBuffers, pool>>
  /\ Others

ResetCommandPool(t, p) ==
  /\ IsIdle(t) /\ Of(p) # {}
  /\ Forget(t, sCommandPoolBuffers[t][p])
  /\ OnResetCommandPool(p)
  /\ BackToInitial(Of(p))
  /\ UNCHANGED <<sCommandPoolBuffers, pool>>
  /\ Others

\* The pool's buffers are freed; the detector is not told.
DestroyCommandPool(t, p) ==
  /\ IsIdle(t) /\ Of(p) # {}
  /\ Forget(t, sCommandPoolBuffers[t][p])
  /\ sCommandPoolBuffers' = [sCommandPoolBuffers EXCEPT ![t][p] = {}]
  /\ pool' = [c \in Cmds |-> IF pool[c] = p THEN None ELSE pool[c]]
  /\ BackToInitial(Of(p))
  /\ UNCHANGED detectorVars
  /\ Others

\* Mutant: the state of the last recording is kept.
BeginCommandBuffer_KeepsAlpha(t, c) ==
  /\ IsIdle(t) /\ pool[c] # None /\ state[c] \in {"initial", "executable"}
  /\ state' = [state EXCEPT ![c] = t]
  /\ blends' = blends \ {c}
  /\ UNCHANGED <<detectorVars, cacheVars, pool, inPass>>
  /\ Others

\* Also the implicit reset of an executable buffer; its flag in the detector
\* stays, and so does the one for the render pass.
BeginCommandBuffer(t, c) ==
  /\ IsIdle(t) /\ pool[c] # None /\ state[c] \in {"initial", "executable"}
  /\ sCmdBufferCurrentPipelineHasAlpha' =
       SetFlag(sCmdBufferCurrentPipelineHasAlpha, t, c, FALSE)
  /\ state' = [state EXCEPT ![c] = t]
  /\ blends' = blends \ {c}
  /\ UNCHANGED <<detectorVars, sCmdBufferInFilteredRenderPass,
                 sCommandPoolBuffers, pool, inPass>>
  /\ Others

Records(t, c) == IsIdle(t) /\ state[c] = t

EndCommandBuffer(t, c) ==
  /\ Records(t, c) /\ inPass[c] = None
  /\ sCmdBufferCurrentPipelineHasAlpha' =
       SetFlag(sCmdBufferCurrentPipelineHasAlpha, t, c, FALSE)
  /\ state' = [state EXCEPT ![c] = "executable"]
  /\ UNCHANGED <<detectorVars, sCmdBufferInFilteredRenderPass,
                 sCommandPoolBuffers, pool, blends, inPass>>
  /\ Others

Buffers(t) ==
  \/ \E c \in Cmds : \/ \E p \in Pools : AllocateCommandBuffers(t, p, c)
                     \/ FreeCommandBuffers(t, c) \/ ResetCommandBuffer(t, c)
                     \/ BeginCommandBuffer(t, c) \/ EndCommandBuffer(t, c)
  \/ \E p \in Pools : ResetCommandPool(t, p) \/ DestroyCommandPool(t, p)

-----------------------------------------------------------------------------
(* Recording *)

CmdBindPipeline(t, c, p) ==
  /\ Records(t, c) /\ m_live_psos[p] # "none"
  /\ sCmdBufferCurrentPipelineHasAlpha' =
       SetFlag(sCmdBufferCurrentPipelineHasAlpha, t, c, m_live_psos[p] = "blended")
  /\ blends' = IF m_live_psos[p] = "blended" THEN blends \cup {c} ELSE blends \ {c}
  /\ UNCHANGED <<detectorVars, sCmdBufferInFilteredRenderPass,
                 sCommandPoolBuffers, pool, state, inPass>>
  /\ Others

\* Whether the render pass is the target is decided when it begins.
CmdBeginRenderPass(t, c, r) ==
  LET is_filtered == Active.pass # None /\ m_render_passes[r] = Active.pass
  IN  /\ Records(t, c) /\ inPass[c] = None /\ m_render_passes[r] # None
      /\ sCmdBufferInFilteredRenderPass' =
           SetFlag(sCmdBufferInFilteredRenderPass, t, c, is_filtered)
      /\ inPass' = [inPass EXCEPT ![c] = IF is_filtered THEN "target" ELSE "other"]
      /\ UNCHANGED <<detectorVars, sCmdBufferCurrentPipelineHasAlpha,
                     sCommandPoolBuffers, pool, state, blends>>
      /\ Others

CmdEndRenderPass(t, c) ==
  /\ Records(t, c) /\ inPass[c] # None
  /\ sCmdBufferInFilteredRenderPass' =
       SetFlag(sCmdBufferInFilteredRenderPass, t, c, FALSE)
  /\ inPass' = [inPass EXCEPT ![c] = None]
  /\ UNCHANGED <<detectorVars, sCmdBufferCurrentPipelineHasAlpha,
                 sCommandPoolBuffers, pool, state, blends>>
  /\ Others

CmdInsertDebugUtilsLabel(t, c) ==
  /\ Records(t, c)
  /\ MarkBoundary(c)
  /\ UNCHANGED <<cacheVars, cmdVars>>
  /\ Others

\* counted: a direct draw, whose vertex, index or instance count is the target.
ShouldFilterDrawCall(t, c, counted) ==
  \/ Active.counts /\ counted
  \/ Active.alpha /\ c \in sCmdBufferCurrentPipelineHasAlpha[t]
  \/ Active.pass # None /\ c \in sCmdBufferInFilteredRenderPass[t]

\* A draw that is not filtered: CheckAndIncrementDrawcallCount tests whether
\* there is a limit; without one the draw goes to the driver.
CmdDraw(t, c, counted) ==
  /\ Records(t, c) /\ inPass[c] # None
  /\ ~ShouldFilterDrawCall(t, c, counted)
  /\ IF Active.limit THEN Goes(t, "idle", "draw") /\ UNCHANGED passed
                     ELSE passed' = Increment(passed) /\ UNCHANGED doing
  /\ UNCHANGED <<detectorVars, filterVars, m_global_drawcall_counter,
                 frameFilter, m_live_psos, m_render_passes, cacheVars, cmdVars>>

\* Mutant: the limit is off by one.
WithinLimit_OneMore == m_global_drawcall_counter <= Active.max

WithinLimit == m_global_drawcall_counter < Active.max

\* fetch_add, and the comparison of its result.
CheckAndIncrementDrawcallCount(t) ==
  /\ Goes(t, "draw", "idle")
  /\ m_global_drawcall_counter' = Increment(m_global_drawcall_counter)
  /\ passed' = IF WithinLimit THEN Increment(passed) ELSE passed
  /\ UNCHANGED <<detectorVars, filterVars, frameFilter, m_live_psos,
                 m_render_passes, cacheVars, cmdVars>>

Commands(t) ==
  \/ \E c \in Cmds :
       \/ \E p \in Pipelines : CmdBindPipeline(t, c, p)
       \/ \E r \in RenderPasses : CmdBeginRenderPass(t, c, r)
       \/ CmdEndRenderPass(t, c) \/ CmdInsertDebugUtilsLabel(t, c)
       \/ \E counted \in BOOLEAN : CmdDraw(t, c, counted)
  \/ CheckAndIncrementDrawcallCount(t)

-----------------------------------------------------------------------------

FrameBoundary(t) == QueuePresentKHR(t) \/ \E c \in Cmds : QueueSubmit(t, c)

Next ==
  \/ DrawcallFilterConfigRequest
  \/ \E t \in Presenters : FrameBoundary(t) \/ ProcessFrameBoundaryTasks(t)
  \/ \E t \in Threads : Objects(t) \/ Buffers(t) \/ Commands(t)

Spec == Init /\ [][Next]_vars

\* A hook that was entered returns.
Returns(t) == ProcessFrameBoundaryTasks(t) \/ CheckAndIncrementDrawcallCount(t)

(***************************************************************************)
(* The application keeps presenting, whatever else its threads do, and the *)
(* hooks return.                                                           *)
(***************************************************************************)
FairSpec ==
  /\ Spec
  /\ \A t \in Presenters : WF_vars(Returns(t)) /\ SF_vars(QueuePresentKHR(t))

-----------------------------------------------------------------------------
(* Properties *)

\* What a thread remembers of the buffer it records is true of that recording,
\* whichever threads recorded, reset or freed the buffer before: the filter
\* never drops a draw with an opaque pipeline as a blended one, nor one in a
\* render pass that was not the target when it began.
OnlyMatchingDrawsDropped ==
  \A t \in Threads, c \in Cmds :
    state[c] = t =>
      /\ c \in sCmdBufferCurrentPipelineHasAlpha[t] => c \in blends
      /\ c \in sCmdBufferInFilteredRenderPass[t] /\ inPass[c] # None
           => inPass[c] = "target"

\* No more than max_drawcalls draws are let through between two frame
\* boundaries, by however many threads, once a limit has been active for the
\* whole time.
DrawcallLimitKept ==
  Active.limit /\ frameFilter = m_active_filter_config => passed <= Active.max

\* With one thread that ends the frames, every filter that the host was told of
\* becomes active, or a newer one does: none is lost between the two queues, and
\* of the requests that meet in one frame the last one prevails.
RequestedFilterApplied ==
  \A n \in 1 .. Len(Requests) :
    requested >= n ~> m_active_filter_config >= n

=============================================================================
