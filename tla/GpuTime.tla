------------------------------ MODULE GpuTime ------------------------------
(***************************************************************************)
(* GPUTime: it times the command buffers of a Vulkan application by two    *)
(* timestamp queries around each primary command buffer and around each    *)
(* render pass.  The application's threads call it from the layer's hooks  *)
(* (vk_rt_layer_impl.cc) and the replay tool from its consumer.            *)
(*                                                                         *)
(* A section under m_mutex is one step; OnQueueSubmit is three: the        *)
(* boundary detector is asked before m_mutex is taken, and m_mutex is      *)
(* released while the device becomes idle.  The hook runs after the        *)
(* driver's vkQueueSubmit, so the application may already reset, re-record *)
(* or free what the hook has not recorded yet.  Calls with several command *)
(* buffers are one step per buffer.  What the timestamps measure is left   *)
(* out, and so is usage_one_submit, which no state depends on.             *)
(***************************************************************************)
EXTENDS Integers, Sequences, Functions

CONSTANTS
  Cmds,               \* handles of primary command buffers
  Pools,              \* handles of command pools
  Threads,            \* application threads that submit
  TotalSlots,         \* kTotalSlots
  MaxFrameCmds,       \* bound: no submit while a frame has so many buffers
  MaxBatch,           \* bound: command buffers per submit
  MaxRenderPasses     \* bound: render passes per recording

ASSUME SlotsAssumption == TotalSlots \in Nat \ {0}
ASSUME BoundsAssumption ==
  MaxFrameCmds \in Nat /\ MaxBatch \in Nat /\ MaxRenderPasses \in Nat

VARIABLES
  used,               \* TimeStampSlotAllocator: the bits of m_masks
  m_cur,              \* TimeStampSlotAllocator: where the search starts
  cached,             \* m_cmds: its keys, and the fields of its values
  pool,
  begin_timestamp_offset,
  end_timestamp_offset,
  renderpass_slots,
  reusable,
  m_frame_cmds,       \* the command buffers submitted in this frame
  m_valid_frame,
  m_enable,
  pc,                 \* each thread in OnQueueSubmit
  batch,              \* the command buffers it submits
  isBoundary,         \* is_frame_boundary
  allocated,          \* the application's command buffers ...
  rec,                \* ... and how far each is recorded
  crashed,            \* an index out of range brought the process down
  leaked,             \* history: slots taken by a failed allocation
  reported            \* history: the buffers reported by OnQueueSubmit since
                      \* the frame was opened, but for those reset or freed

slotVars  == <<used, m_cur>>
cmdVars   == <<cached, pool, begin_timestamp_offset, end_timestamp_offset,
               renderpass_slots, reusable>>
frameVars == <<m_frame_cmds, m_valid_frame>>
subVars   == <<pc, batch, isBoundary>>
vars == <<slotVars, cmdVars, frameVars, m_enable, subVars,
          allocated, rec, crashed, leaked, reported>>

Slots  == 0 .. TotalSlots - 1
NoSlot == -1                   \* kInvalidIndex
NullPool == "VK_NULL_HANDLE"

Info(c) == {begin_timestamp_offset[c], end_timestamp_offset[c]}
PassSlots(c) == Range(renderpass_slots[c]) \ {NoSlot}
Owned(c) == Info(c) \cup PassSlots(c)

TypeOK ==
  /\ used \subseteq Slots
  /\ m_cur \in Slots
  /\ cached \subseteq allocated
  /\ allocated \subseteq Cmds
  /\ pool \in [Cmds -> Pools \cup {NullPool}]
  /\ begin_timestamp_offset \in [Cmds -> Slots]
  /\ end_timestamp_offset \in [Cmds -> Slots]
  /\ renderpass_slots \in [Cmds -> Seq(Slots \cup {NoSlot})]
  /\ reusable \in [Cmds -> BOOLEAN]
  /\ m_frame_cmds \in Seq(Cmds)
  /\ m_valid_frame \in BOOLEAN
  /\ m_enable \in BOOLEAN
  /\ pc \in [Threads -> {"idle", "record", "waitIdle"}]
  /\ batch \in [Threads -> Seq(Cmds)]
  /\ isBoundary \in [Threads -> BOOLEAN]
  /\ rec \in [Cmds -> {"initial", "recording", "inRenderPass", "executable"}]
  /\ crashed \in BOOLEAN
  /\ leaked \subseteq Slots
  /\ reported \in Seq(Cmds)

Init ==
  /\ used = {} /\ m_cur = 0
  /\ cached = {} /\ allocated = {}
  /\ pool = [c \in Cmds |-> NullPool]
  /\ begin_timestamp_offset = [c \in Cmds |-> 0]
  /\ end_timestamp_offset = [c \in Cmds |-> 0]
  /\ renderpass_slots = [c \in Cmds |-> << >>]
  /\ reusable = [c \in Cmds |-> FALSE]
  /\ m_frame_cmds = << >> /\ m_valid_frame = TRUE
  /\ m_enable \in BOOLEAN
  /\ pc = [t \in Threads |-> "idle"]
  /\ batch = [t \in Threads |-> << >>]
  /\ isBoundary = [t \in Threads |-> FALSE]
  /\ rec = [c \in Cmds |-> "initial"]
  /\ crashed = FALSE /\ leaked = {} /\ reported = << >>

-----------------------------------------------------------------------------
(* TimeStampSlotAllocator *)

\* What AllocateSlot returns: the first free slot from m_cur on, cyclically.
\* All callers hold m_mutex, so no compare-exchange of its loop fails twice.
FirstFree(s, taken, cur) ==
  /\ s \in Slots \ taken
  /\ \A t \in Slots \ taken : (s - cur) % TotalSlots <= (t - cur) % TotalSlots

After(s) == (s + 1) % TotalSlots

\* kInvalidIndex is far beyond m_masks: FreeSlots reads there, and crashes
\* or finds nothing to clear.
FreeSlots(slots) ==
  /\ used' = used \ slots
  /\ crashed' \in (IF NoSlot \in slots THEN BOOLEAN ELSE {FALSE})
  /\ UNCHANGED m_cur

-----------------------------------------------------------------------------
(* The command buffers' life *)

\* The field f, reset to its default for the buffers D.
Forget(f, D, default) == [c \in Cmds |-> IF c \in D THEN default ELSE f[c]]

\* What erasing the members of D leaves of a list.
Without(s, D) ==
  LET kept[n \in 0 .. Len(s)] ==
        IF n = 0 THEN << >>
        ELSE IF s[n] \in D THEN kept[n - 1] ELSE Append(kept[n - 1], s[n])
  IN  kept[Len(s)]

\* Mutant: the buffers stay in the frame.
RemoveFromFrameCache_KeepsFrame(D, more) ==
  /\ FreeSlots((UNION {Range(renderpass_slots[c]) : c \in D}) \cup more)
  /\ renderpass_slots' = Forget(renderpass_slots, D, << >>)
  /\ reusable' = Forget(reusable, D, FALSE)
  /\ UNCHANGED m_frame_cmds

\* RemoveCmdFromFrameCache for the buffers D of the cache, which also gives
\* up the slots `more'.
RemoveFromFrameCache(D, more) ==
  /\ FreeSlots((UNION {Range(renderpass_slots[c]) : c \in D}) \cup more)
  /\ renderpass_slots' = Forget(renderpass_slots, D, << >>)
  /\ reusable' = Forget(reusable, D, FALSE)
  /\ m_frame_cmds' = Without(m_frame_cmds, D)

\* Mutant: the slots of the render passes are not freed with the buffer.
EraseCmds_KeepsPasses(D) ==
  /\ FreeSlots(UNION {Info(c) : c \in D \cap cached})
  /\ renderpass_slots' = Forget(renderpass_slots, D, << >>)
  /\ reusable' = Forget(reusable, D, FALSE)
  /\ m_frame_cmds' = Without(m_frame_cmds, D)
  /\ cached' = cached \ D
  /\ allocated' = allocated \ D
  /\ pool' = Forget(pool, D, NullPool)
  /\ begin_timestamp_offset' = Forget(begin_timestamp_offset, D, 0)
  /\ end_timestamp_offset' = Forget(end_timestamp_offset, D, 0)
  /\ rec' = Forget(rec, D, "initial")
  /\ reported' = Without(reported, D)
  /\ UNCHANGED <<m_valid_frame, m_enable, subVars, leaked>>

\* OnFreeCommandBuffers and OnDestroyCommandPool for the buffers D.
EraseCmds(D) ==
  /\ RemoveFromFrameCache(D \cap cached, UNION {Info(c) : c \in D \cap cached})
  /\ cached' = cached \ D
  /\ allocated' = allocated \ D
  /\ pool' = Forget(pool, D, NullPool)
  /\ begin_timestamp_offset' = Forget(begin_timestamp_offset, D, 0)
  /\ end_timestamp_offset' = Forget(end_timestamp_offset, D, 0)
  /\ rec' = Forget(rec, D, "initial")
  /\ reported' = Without(reported, D)
  /\ UNCHANGED <<m_valid_frame, m_enable, subVars, leaked>>

\* OnResetCommandBuffer and OnResetCommandPool for the buffers D.
ResetCmds(D) ==
  /\ RemoveFromFrameCache(D \cap cached, {})
  /\ rec' = Forget(rec, D, "initial")
  /\ reported' = Without(reported, D)
  /\ UNCHANGED <<cached, pool, begin_timestamp_offset, end_timestamp_offset,
                 m_valid_frame, m_enable, subVars, allocated, leaked>>

InPool(p) == {c \in allocated : pool[c] = p}

\* Two slots, or, when there are not two left, an error that keeps the first
\* of them.
AllocateSlots(c) ==
  \/ \E b \in Slots, e \in Slots :
       /\ FirstFree(b, used, m_cur)
       /\ FirstFree(e, used \cup {b}, After(b))
       /\ used' = used \cup {b, e}
       /\ m_cur' = After(e)
       /\ cached' = cached \cup {c}
       /\ begin_timestamp_offset' = [begin_timestamp_offset EXCEPT ![c] = b]
       /\ end_timestamp_offset' = [end_timestamp_offset EXCEPT ![c] = e]
       /\ renderpass_slots' = [renderpass_slots EXCEPT ![c] = << >>]
       /\ reusable' = [reusable EXCEPT ![c] = FALSE]
       /\ UNCHANGED leaked
  \/ /\ \/ \E b \in Slots :
             /\ Slots \ used = {b}
             /\ used' = Slots
             /\ m_cur' = After(b)
             /\ leaked' = leaked \cup {b}
        \/ used = Slots /\ UNCHANGED <<slotVars, leaked>>
     /\ UNCHANGED <<cached, begin_timestamp_offset, end_timestamp_offset,
                    renderpass_slots, reusable>>

OnAllocateCommandBuffers(c, p) ==
  /\ c \notin allocated
  /\ AllocateSlots(c)
  /\ allocated' = allocated \cup {c}
  /\ pool' = [pool EXCEPT ![c] = p]
  /\ rec' = [rec EXCEPT ![c] = "initial"]
  /\ UNCHANGED <<frameVars, m_enable, subVars, crashed, reported>>

OnFreeCommandBuffers(c) == c \in allocated /\ EraseCmds({c})

OnDestroyCommandPool(p) == InPool(p) # {} /\ EraseCmds(InPool(p))

OnResetCommandBuffer(c) == c \in allocated /\ ResetCmds({c})

OnResetCommandPool(p) == InPool(p) # {} /\ ResetCmds(InPool(p))

-----------------------------------------------------------------------------
(* Recording *)

RecordGoto(c, from, to) ==
  c \in allocated /\ rec[c] \in from /\ rec' = [rec EXCEPT ![c] = to]

Timed(c) == m_enable /\ c \in cached

\* Mutant: the slots are freed, and the list of them is kept.
OnBeginCommandBuffer_KeepsList(c, simultaneous) ==
  /\ RecordGoto(c, {"initial", "executable"}, "recording")
  /\ IF Timed(c)
       THEN /\ FreeSlots(Range(renderpass_slots[c]))
            /\ reusable' = [reusable EXCEPT ![c] = simultaneous]
       ELSE UNCHANGED <<slotVars, reusable, crashed>>
  /\ UNCHANGED <<cached, pool, begin_timestamp_offset, end_timestamp_offset,
                 renderpass_slots, frameVars, m_enable, subVars, allocated,
                 leaked, reported>>

\* vkBeginCommandBuffer also re-records a buffer that was not reset: the
\* frame cache and the boundary detector do not hear of that.
OnBeginCommandBuffer(c, simultaneous) ==
  /\ RecordGoto(c, {"initial", "executable"}, "recording")
  /\ IF Timed(c)
       THEN /\ FreeSlots(Range(renderpass_slots[c]))
            /\ renderpass_slots' = [renderpass_slots EXCEPT ![c] = << >>]
            /\ reusable' = [reusable EXCEPT ![c] = simultaneous]
       ELSE UNCHANGED <<slotVars, renderpass_slots, reusable, crashed>>
  /\ UNCHANGED <<cached, pool, begin_timestamp_offset, end_timestamp_offset,
                 frameVars, m_enable, subVars, allocated, leaked, reported>>

OnEndCommandBuffer(c) ==
  /\ RecordGoto(c, {"recording"}, "executable")
  /\ UNCHANGED <<slotVars, cmdVars, frameVars, m_enable, subVars, allocated,
                 crashed, leaked, reported>>

\* BeginRenderPass and EndRenderPass: a slot more, or kInvalidIndex.
PushSlot(c) ==
  /\ IF Timed(c)
       THEN \/ \E s \in Slots :
                 /\ FirstFree(s, used, m_cur)
                 /\ used' = used \cup {s}
                 /\ m_cur' = After(s)
                 /\ renderpass_slots' = [renderpass_slots EXCEPT
                                           ![c] = Append(@, s)]
            \/ /\ used = Slots
               /\ renderpass_slots' = [renderpass_slots EXCEPT
                                         ![c] = Append(@, NoSlot)]
               /\ UNCHANGED slotVars
       ELSE UNCHANGED <<slotVars, renderpass_slots>>
  /\ UNCHANGED <<cached, pool, begin_timestamp_offset, end_timestamp_offset,
                 reusable, frameVars, m_enable, subVars, allocated, crashed,
                 leaked, reported>>

BeginRenderPass(c) ==
  /\ Len(renderpass_slots[c]) < 2 * MaxRenderPasses
  /\ RecordGoto(c, {"recording"}, "inRenderPass")
  /\ PushSlot(c)

EndRenderPass(c) == RecordGoto(c, {"inRenderPass"}, "recording") /\ PushSlot(c)

-----------------------------------------------------------------------------
(* The frame *)

\* The frame's buffers that are still in the cache.
FrameCmds == Range(m_frame_cmds) \cap cached

\* A buffer with an odd number of slots is being re-recorded: its last pass
\* is read out of range.
Torn == \E c \in FrameCmds : Len(renderpass_slots[c]) % 2 = 1

\* It reads the slots of the frame's buffers; what it makes of them is the
\* input of FrameMetrics.
UpdateFrameMetrics == crashed' \in (IF Torn THEN BOOLEAN ELSE {FALSE})

OnFrameBoundary ==
  /\ IF m_valid_frame THEN UpdateFrameMetrics ELSE UNCHANGED crashed
  /\ m_frame_cmds' = << >>
  /\ m_valid_frame' = TRUE
  /\ reported' = << >>
  /\ UNCHANGED <<slotVars, cmdVars, m_enable, allocated, rec, leaked>>

Batches == UNION {[1 .. n -> {c \in allocated : rec[c] = "executable"}]
                    : n \in 1 .. MaxBatch}

\* The driver has accepted a submit, and OnQueueSubmit asks the detector.
QueueSubmit(t, b, boundary) ==
  /\ pc[t] = "idle" /\ m_enable
  /\ Len(reported) < MaxFrameCmds
  /\ pc' = [pc EXCEPT ![t] = "record"]
  /\ batch' = [batch EXCEPT ![t] = b]
  /\ isBoundary' = [isBoundary EXCEPT ![t] = boundary]
  /\ UNCHANGED <<slotVars, cmdVars, frameVars, m_enable, allocated, rec,
                 crashed, leaked, reported>>

\* Only buffers in the cache that are not for simultaneous use are timed.
Supported(c) == c \in cached /\ ~reusable[c]

\* Mutant: a buffer that is not supported leaves the frame valid.
OnQueueSubmit_StillValid(t) ==
  /\ pc[t] = "record"
  /\ \E k \in 0 .. Len(batch[t]) :
       /\ \A i \in 1 .. k : Supported(batch[t][i])
       /\ k < Len(batch[t]) => ~Supported(batch[t][k + 1])
       /\ m_frame_cmds' = m_frame_cmds \o SubSeq(batch[t], 1, k)
       /\ pc' = [pc EXCEPT ![t] = IF k = Len(batch[t]) /\ isBoundary[t]
                                    THEN "waitIdle" ELSE "idle"]
  /\ reported' = reported \o batch[t]
  /\ batch' = [batch EXCEPT ![t] = << >>]
  /\ isBoundary' = [isBoundary EXCEPT ![t] = FALSE]
  /\ UNCHANGED <<slotVars, cmdVars, m_valid_frame, m_enable, allocated, rec,
                 crashed, leaked>>

\* Under m_mutex: the buffers up to the first that is not supported.
OnQueueSubmit(t) ==
  /\ pc[t] = "record"
  /\ \E k \in 0 .. Len(batch[t]) :
       /\ \A i \in 1 .. k : Supported(batch[t][i])
       /\ k < Len(batch[t]) => ~Supported(batch[t][k + 1])
       /\ m_frame_cmds' = m_frame_cmds \o SubSeq(batch[t], 1, k)
       /\ IF k = Len(batch[t])
            THEN /\ pc' = [pc EXCEPT ![t] = IF isBoundary[t] THEN "waitIdle"
                                                             ELSE "idle"]
                 /\ UNCHANGED m_valid_frame
            ELSE /\ pc' = [pc EXCEPT ![t] = "idle"]
                 /\ m_valid_frame' = FALSE
  /\ reported' = reported \o batch[t]
  /\ batch' = [batch EXCEPT ![t] = << >>]
  /\ isBoundary' = [isBoundary EXCEPT ![t] = FALSE]
  /\ UNCHANGED <<slotVars, cmdVars, m_enable, allocated, rec, crashed, leaked>>

\* The device is idle, and m_mutex has been taken again.
OnQueueSubmitBoundary(t) ==
  /\ pc[t] = "waitIdle"
  /\ pc' = [pc EXCEPT ![t] = "idle"]
  /\ OnFrameBoundary
  /\ UNCHANGED <<batch, isBoundary>>

OnQueuePresent == m_enable /\ OnFrameBoundary /\ UNCHANGED subVars

\* The replay's end of the setup phase.
ClearFrameCache ==
  /\ m_frame_cmds' = << >>
  /\ reported' = << >>
  /\ UNCHANGED <<slotVars, cmdVars, m_valid_frame, m_enable, subVars,
                 allocated, rec, crashed, leaked>>

-----------------------------------------------------------------------------

CmdStep(c) ==
  \/ \E p \in Pools : OnAllocateCommandBuffers(c, p)
  \/ OnFreeCommandBuffers(c)
  \/ OnResetCommandBuffer(c)
  \/ \E simultaneous \in BOOLEAN : OnBeginCommandBuffer(c, simultaneous)
  \/ OnEndCommandBuffer(c)
  \/ BeginRenderPass(c)
  \/ EndRenderPass(c)

PoolStep(p) == OnDestroyCommandPool(p) \/ OnResetCommandPool(p)

SubmitStep(t) ==
  \/ \E b \in Batches, boundary \in BOOLEAN : QueueSubmit(t, b, boundary)
  \/ OnQueueSubmit(t)
  \/ OnQueueSubmitBoundary(t)

Next ==
  /\ ~crashed
  /\ \/ \E c \in Cmds : CmdStep(c)
     \/ \E p \in Pools : PoolStep(p)
     \/ \E t \in Threads : SubmitStep(t)
     \/ OnQueuePresent
     \/ ClearFrameCache

Spec == Init /\ [][Next]_vars

-----------------------------------------------------------------------------
(* Properties *)

\* Every query slot a command buffer holds is marked in the allocator, and
\* no other buffer, pass or end of the same pass holds it: two writers would
\* overwrite each other's timestamps.
SlotsExclusive ==
  /\ \A c \in cached : Owned(c) \subseteq used
  /\ \A c \in cached : begin_timestamp_offset[c] # end_timestamp_offset[c]
  /\ \A c, d \in cached : c # d => Owned(c) \cap Owned(d) = {}
  /\ \A c \in cached : Info(c) \cap PassSlots(c) = {}
  /\ \A c \in cached : \A i, j \in 1 .. Len(renderpass_slots[c]) :
       i # j /\ renderpass_slots[c][i] # NoSlot
         => renderpass_slots[c][i] # renderpass_slots[c][j]

\* Every marked slot is held by a buffer of the cache, so that it is freed
\* with it, except the ones an allocation that ran out of slots has lost.
NoSlotLost == used \subseteq leaked \cup UNION {Owned(c) : c \in cached}

\* The buffers of the frame are in the cache, although buffers are freed and
\* pools destroyed while a frame is open.  UpdateFrameMetrics expects otherwise:
\* at gpu_time.cpp:648 and 778 it says that a cmd may not be in m_cmds when some
\* cmds got deleted before the frame boundary.  It never is: OnFreeCommandBuffers
\* and OnDestroyCommandPool take a buffer out of the frame first, and the tests
\* at 650 and 780 never fail.
FrameCmdsCached == Range(m_frame_cmds) \subseteq cached

\* As long as a frame is going to be measured, its list holds exactly the
\* buffers that OnQueueSubmit was told of since the last boundary, in that
\* order, by whichever threads, also while another thread waits for the device
\* to become idle: none is lost and none is counted twice.  The buffers that
\* were reset or freed since are not among them: RemoveCmdFromFrameCache drops
\* them, and the frame is measured without them.
FrameComplete == m_valid_frame => m_frame_cmds = reported

=============================================================================
