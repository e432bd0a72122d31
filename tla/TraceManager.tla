---------------------------- MODULE TraceManager ----------------------------
(***************************************************************************)
(* The PM4 capture service inside the traced application.  One server      *)
(* thread executes StartPm4Capture for each request of the host            *)
(* (service.cc), the application's threads call OnNewFrame after each      *)
(* present (vk_layer_impl.cc), and both drive the AndroidTraceManager and, *)
(* through it, libwrap, which starts and stops recording and writes the    *)
(* capture file (dive-wrap.c).                                             *)
(*                                                                         *)
(* A section under m_state_lock is one step.  m_frame_num is read and      *)
(* written without that lock, so its increment is a load and a store and   *)
(* each read of it by the server thread is a step of its own.              *)
(***************************************************************************)
EXTENDS Integers

CONSTANTS
  FrameThreads,     \* the application threads that present frames
  UIntMod,          \* the counters are uint32_t: UIntMod is 2^32 there
  NumFrameToTrace   \* m_num_frame_to_trace (kNumFrameToTrace = 1)

ASSUME UIntModAssumption == UIntMod \in Nat \ {0}
ASSUME NumFrameAssumption == NumFrameToTrace \in Nat \ {0}

VARIABLES
  \* AndroidTraceManager
  m_state,              \* TraceState, guarded by m_state_lock
  m_frame_num,          \* presents so far, guarded by nothing
  m_trace_start_frame,  \* frame at which a by-frame trace began
  m_trace_num,          \* by-duration traces so far
  m_trace_file_path,    \* the path that will be reported to the host
  \* libwrap
  capture_state,        \* TRUE while command buffers are being recorded
  capture_name,         \* TESTNAME and TESTNUM, the name of the next file
  \* the threads
  pc,                   \* where the server thread is
  num,                  \* its local `num'
  framePc,              \* where each frame thread is in OnNewFrame
  loaded,               \* m_frame_num as loaded by m_frame_num++
  \* history of the current request
  byFrame,              \* TraceByFrame was chosen
  begun,                \* recordings begun
  framesRecorded,       \* OnNewFrame calls while recording (saturating)
  collected             \* names of the files libwrap wrote

mgrVars  == <<m_state, m_frame_num, m_trace_start_frame, m_trace_num,
              m_trace_file_path>>
wrapVars == <<capture_state, capture_name>>
frameVars == <<framePc, loaded>>
histVars == <<byFrame, begun, framesRecorded, collected>>
vars == <<mgrVars, wrapVars, pc, num, frameVars, histVars>>

TraceState == {"Idle", "Triggered", "Tracing", "Finished"}
Counter    == 0 .. UIntMod - 1
Successor(n) == (n + 1) % UIntMod

(***************************************************************************)
(* A file is named by the prefix given to libwrap and a number; the "%04u" *)
(* of android_trace_mgr.cc:47 and the one of dive-wrap.c:83 agree, and     *)
(* both are injective, so a name is the pair.                              *)
(***************************************************************************)
FileName == {"trace-frame", "trace"} \X Counter
NoName   == <<"trace-frame", 0>>   \* what libwrap uses when nothing is set

ServerPc == {"idle", "byFrame", "nameFrame", "triggerFrame", "byDuration",
             "triggerDuration", "startDuration", "sleep", "wait", "reply"}

TypeOK ==
  /\ m_state \in TraceState
  /\ m_frame_num \in Counter
  /\ m_trace_start_frame \in Counter
  /\ m_trace_num \in Counter
  /\ m_trace_file_path \in FileName
  /\ capture_state \in BOOLEAN
  /\ capture_name \in FileName
  /\ pc \in ServerPc
  /\ num \in Counter
  /\ framePc \in [FrameThreads -> {"idle", "increment", "lock"}]
  /\ loaded \in [FrameThreads -> Counter]
  /\ byFrame \in BOOLEAN
  /\ begun \in 0 .. 2
  /\ framesRecorded \in 0 .. NumFrameToTrace + 1
  /\ collected \subseteq FileName

Init ==
  /\ m_state = "Idle"
  /\ m_frame_num = 0
  /\ m_trace_start_frame = 0
  /\ m_trace_num = 0
  /\ m_trace_file_path = NoName
  /\ capture_state = FALSE
  /\ capture_name = NoName
  /\ pc = "idle"
  /\ num = 0
  /\ framePc = [t \in FrameThreads |-> "idle"]
  /\ loaded = [t \in FrameThreads |-> 0]
  /\ byFrame = FALSE
  /\ begun = 0
  /\ framesRecorded = 0
  /\ collected = {}

-----------------------------------------------------------------------------
(* libwrap *)

\* SetCaptureState(1): recording goes on if it was on.
StartRecording ==
  /\ capture_state' = TRUE
  /\ begun' = IF capture_state THEN begun ELSE begun + 1
  /\ framesRecorded' = IF capture_state THEN framesRecorded ELSE 0
  /\ UNCHANGED collected

\* SetCaptureState(0): a recording that was on is written to the file that
\* TESTNAME and TESTNUM name at this moment.
StopRecording ==
  /\ capture_state' = FALSE
  /\ collected' = IF capture_state THEN collected \cup {capture_name}
                                   ELSE collected
  /\ UNCHANGED begun

-----------------------------------------------------------------------------
(* The server thread: StartPm4Capture *)

Goto(from, to) == pc = from /\ pc' = to

\* A Pm4CaptureRequest arrives and TriggerTrace reads m_frame_num to choose
\* between the two kinds of trace.
TriggerTrace ==
  /\ Goto("idle", IF m_frame_num > 0 THEN "byFrame" ELSE "byDuration")
  /\ byFrame' = (m_frame_num > 0)
  /\ begun' = 0
  /\ framesRecorded' = 0
  /\ collected' = {}
  /\ UNCHANGED <<mgrVars, wrapVars, num, frameVars>>

\* TraceByFrame, first read of m_frame_num: the number libwrap will get.
TraceByFrameReadNum ==
  /\ Goto("byFrame", "nameFrame")
  /\ num' = m_frame_num
  /\ UNCHANGED <<mgrVars, wrapVars, frameVars, histVars>>

\* Second, unsynchronised read of m_frame_num for full_path: the build may
\* reuse the first value or load it again.
TraceByFrameSetNames ==
  /\ Goto("nameFrame", "triggerFrame")
  /\ \E n \in {num, m_frame_num} : m_trace_file_path' = <<"trace-frame", n>>
  /\ capture_name' = <<"trace-frame", num>>
  /\ UNCHANGED <<m_state, m_frame_num, m_trace_start_frame, m_trace_num,
                 capture_state, num, frameVars, histVars>>

\* Mutant: the state of the previous request is not reset.
TraceByFrameTrigger_Stale ==
  /\ Goto("triggerFrame", "wait")
  /\ m_state' = IF m_state = "Finished" THEN "Finished" ELSE "Triggered"
  /\ UNCHANGED <<m_frame_num, m_trace_start_frame, m_trace_num,
                 m_trace_file_path, wrapVars, num, frameVars, histVars>>

TraceByFrameTrigger ==
  /\ Goto("triggerFrame", "wait")
  /\ m_state' = "Triggered"
  /\ UNCHANGED <<m_frame_num, m_trace_start_frame, m_trace_num,
                 m_trace_file_path, wrapVars, num, frameVars, histVars>>

TraceByDurationSetNames ==
  /\ Goto("byDuration", "triggerDuration")
  /\ m_trace_num' = Successor(m_trace_num)
  /\ capture_name' = <<"trace", m_trace_num'>>
  /\ UNCHANGED <<m_state, m_frame_num, m_trace_start_frame,
                 m_trace_file_path, capture_state, num, frameVars, histVars>>

\* The section that sets Triggered, and SetTraceFilePath after it: no other
\* thread reads the path.
TraceByDurationTrigger ==
  /\ Goto("triggerDuration", "startDuration")
  /\ m_state' = "Triggered"
  /\ m_trace_file_path' = <<"trace", m_trace_num>>
  /\ UNCHANGED <<m_frame_num, m_trace_start_frame, m_trace_num, wrapVars,
                 num, frameVars, histVars>>

TraceByDurationStart ==
  /\ Goto("startDuration", "sleep")
  /\ StartRecording
  /\ m_state' = "Tracing"
  /\ UNCHANGED <<m_frame_num, m_trace_start_frame, m_trace_num,
                 m_trace_file_path, capture_name, num, frameVars, byFrame>>

\* Mutant: SetCaptureState(0) is forgotten.
TraceByDurationStop_NoStop ==
  /\ Goto("sleep", "wait")
  /\ m_state' = "Finished"
  /\ UNCHANGED <<m_frame_num, m_trace_start_frame, m_trace_num,
                 m_trace_file_path, wrapVars, num, frameVars, histVars>>

\* SleepFor(m_trace_duration) returns.
TraceByDurationStop ==
  /\ Goto("sleep", "wait")
  /\ StopRecording
  /\ m_state' = "Finished"
  /\ UNCHANGED <<m_frame_num, m_trace_start_frame, m_trace_num,
                 m_trace_file_path, capture_name, num, frameVars, byFrame,
                 framesRecorded>>

\* Mutant: the wait ends as soon as the trace has started.
WaitForTraceDone_Early ==
  /\ m_state # "Triggered"
  /\ Goto("wait", "reply")
  /\ UNCHANGED <<mgrVars, wrapVars, num, frameVars, histVars>>

\* Await(Finished) has no timeout.
WaitForTraceDone ==
  /\ m_state = "Finished"
  /\ Goto("wait", "reply")
  /\ UNCHANGED <<mgrVars, wrapVars, num, frameVars, histVars>>

\* GetTraceFilePath and the Pm4CaptureResponse.
SendPm4CaptureResponse ==
  /\ Goto("reply", "idle")
  /\ UNCHANGED <<mgrVars, wrapVars, num, frameVars, histVars>>

-----------------------------------------------------------------------------
(* The frame threads: OnNewFrame, called after each present *)

\* m_frame_num++ loads ...
OnNewFrameLoad(t) ==
  /\ framePc[t] = "idle"
  /\ framePc' = [framePc EXCEPT ![t] = "increment"]
  /\ loaded' = [loaded EXCEPT ![t] = m_frame_num]
  /\ UNCHANGED <<mgrVars, wrapVars, pc, num, histVars>>

\* ... and stores.
OnNewFrameStore(t) ==
  /\ framePc[t] = "increment"
  /\ framePc' = [framePc EXCEPT ![t] = "lock"]
  /\ m_frame_num' = Successor(loaded[t])
  /\ UNCHANGED <<m_state, m_trace_start_frame, m_trace_num,
                 m_trace_file_path, wrapVars, pc, num, loaded, histVars>>

ShouldStartTrace == m_state = "Triggered"

\* Mutants: one frame more; and the comparison without the subtraction, which
\* does not survive the wrap of m_frame_num.
ShouldStopTrace_OneMore ==
  /\ m_state = "Tracing"
  /\ (m_frame_num - m_trace_start_frame) % UIntMod > NumFrameToTrace
ShouldStopTrace_Sum ==
  /\ m_state = "Tracing"
  /\ m_frame_num >= m_trace_start_frame + NumFrameToTrace

\* uint32_t subtraction wraps.
ShouldStopTrace ==
  /\ m_state = "Tracing"
  /\ (m_frame_num - m_trace_start_frame) % UIntMod >= NumFrameToTrace

OnTraceStart ==
  /\ StartRecording
  /\ m_state' = "Tracing"
  /\ m_trace_start_frame' = m_frame_num

CountFrame ==
  framesRecorded' = IF capture_state /\ framesRecorded <= NumFrameToTrace
                      THEN framesRecorded + 1 ELSE framesRecorded

OnTraceStop ==
  /\ StopRecording
  /\ m_state' = "Finished"
  /\ UNCHANGED m_trace_start_frame

\* The rest of OnNewFrame, under m_state_lock.
OnNewFrameLocked(t) ==
  /\ framePc[t] = "lock"
  /\ framePc' = [framePc EXCEPT ![t] = "idle"]
  /\ \/ ShouldStartTrace /\ OnTraceStart
     \/ ~ShouldStartTrace /\ ShouldStopTrace /\ OnTraceStop /\ CountFrame
     \/ /\ ~ShouldStartTrace /\ ~ShouldStopTrace /\ CountFrame
        /\ UNCHANGED <<m_state, m_trace_start_frame, capture_state, begun,
                       collected>>
  /\ UNCHANGED <<m_frame_num, m_trace_num, m_trace_file_path, capture_name,
                 pc, num, loaded, byFrame>>

-----------------------------------------------------------------------------

StartPm4Capture ==
  \/ TraceByFrameReadNum
  \/ TraceByFrameSetNames
  \/ TraceByFrameTrigger
  \/ TraceByDurationSetNames
  \/ TraceByDurationTrigger
  \/ TraceByDurationStart
  \/ TraceByDurationStop
  \/ WaitForTraceDone
  \/ SendPm4CaptureResponse

OnNewFrame(t) ==
  \/ OnNewFrameLoad(t)
  \/ OnNewFrameStore(t)
  \/ OnNewFrameLocked(t)

Next ==
  \/ TriggerTrace
  \/ StartPm4Capture
  \/ \E t \in FrameThreads : OnNewFrame(t)

Spec == Init /\ [][Next]_vars

(***************************************************************************)
(* The server thread runs until it blocks, and the application keeps       *)
(* presenting frames: WaitForTraceDone depends on it, since its timeout is *)
(* still to be written (android_trace_mgr.cc:120).  Nothing makes the host *)
(* send a request, so TriggerTrace is not fair.                            *)
(***************************************************************************)
FairSpec ==
  /\ Spec
  /\ WF_vars(StartPm4Capture)
  /\ \A t \in FrameThreads : WF_vars(OnNewFrame(t))

-----------------------------------------------------------------------------
(* Properties *)

\* libwrap records only while a request is being served, from the moment it
\* is triggered until WaitForTraceDone returns: no recording survives the
\* response, and no frame starts one that nobody asked for.
RecordingOnlyForRequest ==
  capture_state => pc \in {"startDuration", "sleep", "wait"}

\* When StartPm4Capture answers, libwrap has written the file it was told to
\* write for this request: the Finished state that WaitForTraceDone saw was
\* not left behind by an earlier request.
ReplyFollowsOwnRecording ==
  pc = "reply" => capture_name \in collected

\* TESTNAME and TESTNUM do not change during a recording: libwrap names the
\* file when the recording stops (dive-wrap.c:74-83), so a change would give
\* one request's frames the name of another.
NameStableWhileRecording ==
  [][capture_state => capture_name' = capture_name]_vars

\* A trace by frame is one recording that spans exactly NumFrameToTrace
\* frames (with one presenting thread).
ByFrameRecordsExactly ==
  pc = "reply" /\ byFrame => begun = 1 /\ framesRecorded = NumFrameToTrace

\* Every request is answered as long as frames keep coming.
EveryRequestAnswered == pc # "idle" ~> pc = "idle"

(***************************************************************************)
(* The abstract service that the threads above implement together.         *)
(***************************************************************************)
Request ==
  IF pc = "idle" THEN "none" ELSE IF pc = "reply" THEN "answered" ELSE "serving"

Service == INSTANCE CaptureService
             WITH Names <- FileName, request <- Request, recording <- capture_state,
                  name <- capture_name, files <- collected

\* The trace manager and libwrap, whatever the interleaving of the server
\* thread with the frame threads, do what CaptureService promises: the file
\* name is chosen before the first recording of a request and kept, recordings
\* start and are written while it is served, and StartPm4Capture answers only
\* when the named file is there and libwrap has stopped.
ImplementsCaptureService == Service!Spec

(***************************************************************************)
(* The inductive invariant behind the first three properties.              *)
(***************************************************************************)
RecordingMatchesState == capture_state <=> m_state = "Tracing"

\* Between two requests, and until the next one sets Triggered, the trace
\* manager is at rest, so that OnNewFrame neither starts nor stops anything.
AtRestBeforeTrigger ==
  pc \in {"idle", "byFrame", "nameFrame", "triggerFrame", "byDuration",
          "triggerDuration", "reply"}
    => m_state \in {"Idle", "Finished"}

\* Once triggered, Finished is reached by writing the named file only.
FinishedMeansCollected ==
  pc \in {"startDuration", "sleep", "wait", "reply"} /\ m_state = "Finished"
    => capture_name \in collected

\* A by-duration trace is past Triggered once its own section has run.
SleepingIsTriggered ==
  /\ pc \in {"startDuration", "sleep", "wait"} => m_state # "Idle"
  /\ pc = "sleep" => m_state # "Triggered"
  /\ pc = "reply" => m_state = "Finished"

\* At most one recording begins while the request is in Triggered, and a
\* second one only at TraceByDurationStart.
BegunBound ==
  /\ pc \in {"byFrame", "nameFrame", "triggerFrame", "byDuration",
             "triggerDuration"} => begun = 0
  /\ pc = "startDuration" => begun <= 1
  /\ pc \in {"startDuration", "wait"} /\ m_state = "Triggered" => begun = 0

\* A request has written nothing before it is triggered.
NothingWrittenBeforeTrigger ==
  pc \in {"byFrame", "nameFrame", "triggerFrame", "byDuration", "triggerDuration"}
    => collected = {}

IInv ==
  /\ TypeOK
  /\ RecordingMatchesState
  /\ AtRestBeforeTrigger
  /\ FinishedMeansCollected
  /\ SleepingIsTriggered
  /\ BegunBound
  /\ NothingWrittenBeforeTrigger

=============================================================================
