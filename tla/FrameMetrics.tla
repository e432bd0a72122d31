---------------------------- MODULE FrameMetrics ----------------------------
(***************************************************************************)
(* GPUTime::FrameMetrics: the times of the last frames, in one deque for   *)
(* the frames, one for each command buffer of a frame and one for each     *)
(* render pass.  An entry of a deque is the number of the frame it was     *)
(* measured in.  UpdateFrameMetrics calls AddFrameData with the number of  *)
(* render passes of each command buffer; the statistics that are printed   *)
(* attribute the render passes to the buffers by those numbers.            *)
(***************************************************************************)
EXTENDS Integers, Sequences, SequencesExt

CONSTANTS
  FrameMetricsLimit,  \* kFrameMetricsLimit
  MaxFrames,          \* bound: frames measured
  MaxCmds,            \* bound: command buffers per frame
  MaxPasses           \* bound: render passes per command buffer

ASSUME LimitAssumption == FrameMetricsLimit \in Nat \ {0}
ASSUME MetricsBoundsAssumption ==
  MaxFrames \in Nat /\ MaxCmds \in Nat /\ MaxPasses \in Nat

VARIABLES
  m_frame_time,
  m_cmd_time_vec,
  m_renderpass_time_vec,
  m_cmd_renderpass_count_vec,
  frame,              \* frames measured so far
  lastCounts          \* history: the render passes of the last frame's buffers

metricsVars == <<m_frame_time, m_cmd_time_vec, m_renderpass_time_vec,
                 m_cmd_renderpass_count_vec, frame, lastCounts>>

MetricsInit ==
  /\ m_frame_time = << >>
  /\ m_cmd_time_vec = << >>
  /\ m_renderpass_time_vec = << >>
  /\ m_cmd_renderpass_count_vec = << >>
  /\ frame = 0
  /\ lastCounts = << >>

Total(counts) == FoldSeq(LAMBDA x, y : x + y, 0, counts)

\* Mutant: only the number of command buffers is compared.
NewShape_CmdsOnly(counts) == Len(m_cmd_time_vec) # Len(counts)

\* The frame has another number of command buffers, or of render passes.
NewShape(counts) ==
  \/ Len(m_cmd_time_vec) # Len(counts)
  \/ Len(m_renderpass_time_vec) # Total(counts)

\* Mutant: nothing is ever dropped.
PopFront_Never(deque) == deque

\* A full set of deques loses its oldest entries.
PopFront(deque) ==
  IF Len(m_frame_time) = FrameMetricsLimit THEN Tail(deque) ELSE deque

\* Reset, resize and the new numbers of render passes.
AddFirstFrame(counts) ==
  /\ NewShape(counts)
  /\ m_frame_time' = <<frame'>>
  /\ m_cmd_time_vec' = [i \in 1 .. Len(counts) |-> <<frame'>>]
  /\ m_renderpass_time_vec' = [i \in 1 .. Total(counts) |-> <<frame'>>]
  /\ m_cmd_renderpass_count_vec' = counts

AddToDeques(counts) ==
  /\ ~NewShape(counts)
  /\ m_frame_time' = Append(PopFront(m_frame_time), frame')
  /\ m_cmd_time_vec' = [i \in 1 .. Len(m_cmd_time_vec) |->
                          Append(PopFront(m_cmd_time_vec[i]), frame')]
  /\ m_renderpass_time_vec' = [i \in 1 .. Len(m_renderpass_time_vec) |->
                          Append(PopFront(m_renderpass_time_vec[i]), frame')]
  /\ UNCHANGED m_cmd_renderpass_count_vec

AddFrameData(counts) ==
  /\ frame' = frame + 1
  /\ lastCounts' = counts
  /\ AddFirstFrame(counts) \/ AddToDeques(counts)

\* The shapes of a frame.
Shapes == UNION {[1 .. n -> 0 .. MaxPasses] : n \in 0 .. MaxCmds}

MetricsNext == frame < MaxFrames /\ \E counts \in Shapes : AddFrameData(counts)

MetricsSpec == MetricsInit /\ [][MetricsNext]_metricsVars

-----------------------------------------------------------------------------
(* Properties *)

\* The statistics of all command buffers and render passes are over the same
\* frames as those of the frame, and over the last FrameMetricsLimit of them
\* at most.
SameFrames ==
  /\ Len(m_frame_time) <= FrameMetricsLimit
  /\ \A i \in DOMAIN m_frame_time :
       m_frame_time[i] = frame - Len(m_frame_time) + i
  /\ \A i \in DOMAIN m_cmd_time_vec : m_cmd_time_vec[i] = m_frame_time
  /\ \A i \in DOMAIN m_renderpass_time_vec :
       m_renderpass_time_vec[i] = m_frame_time

\* The statistics that are printed have as many command buffers as the last frame
\* and as many render passes, and hand out every render pass to some buffer.  They
\* may hand it to the wrong one: the numbers per buffer are those of the frame that
\* last changed the number of buffers or the number of all passes, and frames in
\* which a pass moves from one buffer to another are told apart by neither.
EveryPassAttributed ==
  /\ Len(m_cmd_time_vec) = Len(lastCounts)
  /\ Len(m_renderpass_time_vec) = Total(lastCounts)
  /\ Len(m_cmd_renderpass_count_vec) = Len(m_cmd_time_vec)
  /\ Total(m_cmd_renderpass_count_vec) = Len(m_renderpass_time_vec)

=============================================================================
