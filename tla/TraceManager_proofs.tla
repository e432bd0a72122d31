------------------------- MODULE TraceManager_proofs -------------------------
(***************************************************************************)
(* The safety properties of TraceManager for every set of frame threads,   *)
(* every counter width and every number of frames per trace.               *)
(***************************************************************************)
EXTENDS TraceManager, TLAPS

\* A wrapped increment stays a counter value.
LEMMA SuccessorType == \A n \in Counter : Successor(n) \in Counter
BY UIntModAssumption DEF Counter, Successor

\* The initial state satisfies the inductive invariant.
LEMMA InitIInv == Init => IInv
<1> SUFFICES ASSUME Init PROVE IInv
  OBVIOUS
<1>1. 0 \in Counter /\ 0 \in 0 .. NumFrameToTrace + 1
  BY UIntModAssumption, NumFrameAssumption DEF Counter
<1>2. NoName \in FileName
  BY <1>1 DEF FileName, NoName
<1>3. begun \in 0 .. 2
  BY DEF Init
<1>4. framePc \in [FrameThreads -> {"idle", "increment", "lock"}]
  BY DEF Init
<1>5. loaded \in [FrameThreads -> Counter]
  BY <1>1 DEF Init
<1>6. TypeOK
  BY <1>1, <1>2, <1>3, <1>4, <1>5 DEF Init, TypeOK, TraceState, ServerPc
<1> QED
  BY <1>6 DEF Init, IInv, RecordingMatchesState, AtRestBeforeTrigger,
              FinishedMeansCollected, SleepingIsTriggered, BegunBound,
           NothingWrittenBeforeTrigger

\* The server thread's first step, TriggerTrace, preserves it.
LEMMA TriggerTraceIInv == IInv /\ TriggerTrace => IInv'
<1> SUFFICES ASSUME IInv, TriggerTrace PROVE IInv'
  OBVIOUS
<1> USE NumFrameAssumption DEF TriggerTrace, Goto, mgrVars, wrapVars, frameVars
<1>1. TypeOK'
  BY DEF IInv, TypeOK, ServerPc
<1>2. RecordingMatchesState' /\ AtRestBeforeTrigger'
  BY DEF IInv, RecordingMatchesState, AtRestBeforeTrigger
<1>3. FinishedMeansCollected' /\ SleepingIsTriggered' /\ BegunBound'
      /\ NothingWrittenBeforeTrigger'
  BY DEF FinishedMeansCollected, SleepingIsTriggered, BegunBound,
           NothingWrittenBeforeTrigger
<1> QED
  BY <1>1, <1>2, <1>3 DEF IInv

\* So do its steps inside StartPm4Capture.
LEMMA StartPm4CaptureIInv == IInv /\ StartPm4Capture => IInv'
<1> SUFFICES ASSUME IInv, StartPm4Capture PROVE IInv'
  OBVIOUS
<1> USE DEF Goto, mgrVars, wrapVars, frameVars, histVars
<1>a. TypeOK
  BY DEF IInv
<1>1. CASE TraceByFrameReadNum
  <2>1. TypeOK'
    BY <1>a, <1>1 DEF TraceByFrameReadNum, TypeOK, ServerPc
  <2> QED
    BY <1>1, <2>1
       DEF TraceByFrameReadNum, IInv, RecordingMatchesState,
           AtRestBeforeTrigger, FinishedMeansCollected, SleepingIsTriggered,
           BegunBound,
           NothingWrittenBeforeTrigger
<1>2. CASE TraceByFrameSetNames
  <2>1. TypeOK'
    BY <1>a, <1>2 DEF TraceByFrameSetNames, TypeOK, ServerPc, FileName
  <2> QED
    BY <1>2, <2>1
       DEF TraceByFrameSetNames, IInv, RecordingMatchesState,
           AtRestBeforeTrigger, FinishedMeansCollected, SleepingIsTriggered,
           BegunBound,
           NothingWrittenBeforeTrigger
<1>3. CASE TraceByFrameTrigger
  <2>1. TypeOK'
    BY <1>a, <1>3 DEF TraceByFrameTrigger, TypeOK, ServerPc, TraceState
  <2> QED
    BY <1>3, <2>1
       DEF TraceByFrameTrigger, IInv, RecordingMatchesState,
           AtRestBeforeTrigger, FinishedMeansCollected, SleepingIsTriggered,
           BegunBound,
           NothingWrittenBeforeTrigger
<1>4. CASE TraceByDurationSetNames
  <2>1. TypeOK'
    BY <1>a, <1>4, SuccessorType
       DEF TraceByDurationSetNames, TypeOK, ServerPc, FileName
  <2> QED
    BY <1>4, <2>1
       DEF TraceByDurationSetNames, IInv, RecordingMatchesState,
           AtRestBeforeTrigger, FinishedMeansCollected, SleepingIsTriggered,
           BegunBound,
           NothingWrittenBeforeTrigger
<1>5. CASE TraceByDurationTrigger
  <2>1. TypeOK'
    BY <1>a, <1>5
       DEF TraceByDurationTrigger, TypeOK, ServerPc, TraceState, FileName
  <2> QED
    BY <1>5, <2>1
       DEF TraceByDurationTrigger, IInv, RecordingMatchesState,
           AtRestBeforeTrigger, FinishedMeansCollected, SleepingIsTriggered,
           BegunBound,
           NothingWrittenBeforeTrigger
<1>6. CASE TraceByDurationStart
  <2>1. TypeOK'
    BY <1>a, <1>6, NumFrameAssumption
       DEF TraceByDurationStart, StartRecording, IInv, BegunBound, TypeOK,
           ServerPc, TraceState
  <2> QED
    BY <1>6, <2>1
       DEF TraceByDurationStart, StartRecording, IInv, RecordingMatchesState,
           AtRestBeforeTrigger, FinishedMeansCollected, SleepingIsTriggered,
           BegunBound,
           NothingWrittenBeforeTrigger
<1>7. CASE TraceByDurationStop
  <2>1. TypeOK'
    BY <1>a, <1>7
       DEF TraceByDurationStop, StopRecording, TypeOK, ServerPc, TraceState
  <2>2. FinishedMeansCollected'
    \* Recording: the stop writes the file.  Not recording: a frame has
    \* already stopped the trace, and the file was written then.
    BY <1>a, <1>7
       DEF TraceByDurationStop, StopRecording, TypeOK, TraceState, IInv,
           RecordingMatchesState, FinishedMeansCollected, SleepingIsTriggered
  <2> QED
    BY <1>7, <2>1, <2>2
       DEF TraceByDurationStop, StopRecording, IInv, RecordingMatchesState,
           AtRestBeforeTrigger, SleepingIsTriggered, BegunBound,
           NothingWrittenBeforeTrigger
<1>8. CASE WaitForTraceDone
  <2>1. TypeOK'
    BY <1>a, <1>8 DEF WaitForTraceDone, TypeOK, ServerPc
  <2> QED
    BY <1>8, <2>1
       DEF WaitForTraceDone, IInv, RecordingMatchesState,
           AtRestBeforeTrigger, FinishedMeansCollected, SleepingIsTriggered,
           BegunBound,
           NothingWrittenBeforeTrigger
<1>9. CASE SendPm4CaptureResponse
  <2>1. TypeOK'
    BY <1>a, <1>9 DEF SendPm4CaptureResponse, TypeOK, ServerPc
  <2> QED
    BY <1>9, <2>1
       DEF SendPm4CaptureResponse, IInv, RecordingMatchesState,
           AtRestBeforeTrigger, FinishedMeansCollected, SleepingIsTriggered,
           BegunBound,
           NothingWrittenBeforeTrigger
<1> QED
  BY <1>1, <1>2, <1>3, <1>4, <1>5, <1>6, <1>7, <1>8, <1>9
     DEF StartPm4Capture

\* And so does OnNewFrame, whichever thread runs it.
LEMMA OnNewFrameIInv ==
  ASSUME IInv, NEW t \in FrameThreads, OnNewFrame(t)
  PROVE  IInv'
<1> USE DEF mgrVars, wrapVars, frameVars, histVars
<1>a. TypeOK
  BY DEF IInv
<1>1. CASE OnNewFrameLoad(t)
  <2>1. TypeOK'
    BY <1>a, <1>1 DEF OnNewFrameLoad, TypeOK
  <2> QED
    BY <1>1, <2>1
       DEF OnNewFrameLoad, IInv, RecordingMatchesState, AtRestBeforeTrigger,
           FinishedMeansCollected, SleepingIsTriggered, BegunBound,
           NothingWrittenBeforeTrigger
<1>2. CASE OnNewFrameStore(t)
  <2>1. TypeOK'
    BY <1>a, <1>2, SuccessorType DEF OnNewFrameStore, TypeOK
  <2> QED
    BY <1>2, <2>1
       DEF OnNewFrameStore, IInv, RecordingMatchesState, AtRestBeforeTrigger,
           FinishedMeansCollected, SleepingIsTriggered, BegunBound,
           NothingWrittenBeforeTrigger
<1>3. CASE OnNewFrameLocked(t)
  <2>1. CASE ShouldStartTrace /\ OnTraceStart
    <3>1. pc \in {"startDuration", "wait"} /\ begun = 0 /\ ~capture_state
      BY <1>a, <2>1
         DEF ShouldStartTrace, IInv, TypeOK, ServerPc, AtRestBeforeTrigger,
             SleepingIsTriggered, BegunBound, RecordingMatchesState
    <3>2. TypeOK'
      BY <1>a, <1>3, <2>1, <3>1, NumFrameAssumption
         DEF OnNewFrameLocked, OnTraceStart, StartRecording, TypeOK,
             TraceState
    <3> QED
      BY <1>3, <2>1, <3>1, <3>2
         DEF OnNewFrameLocked, OnTraceStart, StartRecording, IInv,
             RecordingMatchesState, AtRestBeforeTrigger,
             FinishedMeansCollected, SleepingIsTriggered, BegunBound,
           NothingWrittenBeforeTrigger
  <2>2. CASE ~ShouldStartTrace /\ ShouldStopTrace /\ OnTraceStop /\ CountFrame
    <3>1. pc \in {"startDuration", "sleep", "wait"} /\ capture_state
      BY <1>a, <2>2
         DEF ShouldStopTrace, IInv, TypeOK, ServerPc, AtRestBeforeTrigger,
             SleepingIsTriggered, RecordingMatchesState
    <3>2. framesRecorded' \in 0 .. NumFrameToTrace + 1
      BY <1>a, <2>2, NumFrameAssumption DEF CountFrame, TypeOK
    <3>3. collected' \subseteq FileName
      BY <1>a, <2>2 DEF OnTraceStop, StopRecording, TypeOK
    <3>4. TypeOK'
      BY <1>a, <1>3, <2>2, <3>2, <3>3
         DEF OnNewFrameLocked, OnTraceStop, StopRecording, TypeOK, TraceState
    <3> QED
      BY <1>3, <2>2, <3>1, <3>4
         DEF OnNewFrameLocked, OnTraceStop, StopRecording, IInv,
             RecordingMatchesState, AtRestBeforeTrigger,
             FinishedMeansCollected, SleepingIsTriggered, BegunBound,
           NothingWrittenBeforeTrigger
  <2>3. CASE CountFrame /\ UNCHANGED <<m_state, m_trace_start_frame,
                                       capture_state, begun, collected>>
    <3>1. TypeOK'
      BY <1>a, <1>3, <2>3, NumFrameAssumption
         DEF OnNewFrameLocked, CountFrame, TypeOK
    <3> QED
      BY <1>3, <2>3, <3>1
         DEF OnNewFrameLocked, IInv, RecordingMatchesState,
             AtRestBeforeTrigger, FinishedMeansCollected, SleepingIsTriggered,
             BegunBound,
           NothingWrittenBeforeTrigger
  <2> QED
    BY <1>3, <2>1, <2>2, <2>3 DEF OnNewFrameLocked
<1> QED
  BY <1>1, <1>2, <1>3 DEF OnNewFrame

\* A step that changes nothing preserves it.
LEMMA StutterIInv == IInv /\ UNCHANGED vars => IInv'
BY DEF vars, mgrVars, wrapVars, frameVars, histVars, IInv, TypeOK,
       RecordingMatchesState, AtRestBeforeTrigger, FinishedMeansCollected,
       SleepingIsTriggered, BegunBound,
           NothingWrittenBeforeTrigger

\* The inductive invariant holds throughout every execution.
THEOREM Invariance == Spec => []IInv
<1>1. IInv /\ [Next]_vars => IInv'
  BY TriggerTraceIInv, StartPm4CaptureIInv, OnNewFrameIInv, StutterIInv
     DEF Next
<1> QED
  BY InitIInv, <1>1, PTL DEF Spec

\* Every variable keeps its type, in particular at most two recordings are
\* begun for one request.
THEOREM TypeCorrect == Spec => []TypeOK
<1>1. IInv => TypeOK
  BY DEF IInv
<1> QED
  BY Invariance, <1>1, PTL

\* libwrap records only on behalf of a request that StartPm4Capture is
\* serving, however many threads present and however their increments of
\* m_frame_num interleave.
THEOREM RecordingOnlyForRequestHolds == Spec => []RecordingOnlyForRequest
<1>1. IInv => RecordingOnlyForRequest
  BY DEF IInv, TypeOK, ServerPc, RecordingOnlyForRequest,
         RecordingMatchesState, AtRestBeforeTrigger
<1> QED
  BY Invariance, <1>1, PTL

\* StartPm4Capture answers only after libwrap has written the file named for
\* the request.
THEOREM ReplyFollowsOwnRecordingHolds == Spec => []ReplyFollowsOwnRecording
<1>1. IInv => ReplyFollowsOwnRecording
  BY DEF IInv, ReplyFollowsOwnRecording, FinishedMeansCollected,
         SleepingIsTriggered
<1> QED
  BY Invariance, <1>1, PTL

\* The name of the file does not change while libwrap records.
THEOREM NameStableWhileRecordingHolds == Spec => NameStableWhileRecording
<1>1. IInv /\ [Next]_vars => [capture_state => capture_name' = capture_name]_vars
  <2> SUFFICES ASSUME IInv, Next, capture_state
               PROVE  capture_name' = capture_name
    OBVIOUS
  <2>1. pc \notin {"nameFrame", "byDuration"}
    BY DEF IInv, RecordingMatchesState, AtRestBeforeTrigger
  <2>2. CASE TriggerTrace
    BY <2>2 DEF TriggerTrace, wrapVars
  <2>3. CASE StartPm4Capture
    BY <2>1, <2>3
       DEF StartPm4Capture, TraceByFrameReadNum, TraceByFrameSetNames,
           TraceByFrameTrigger, TraceByDurationSetNames,
           TraceByDurationTrigger, TraceByDurationStart, TraceByDurationStop,
           WaitForTraceDone, SendPm4CaptureResponse, Goto, wrapVars
  <2>4. CASE \E t \in FrameThreads : OnNewFrame(t)
    BY <2>4
       DEF OnNewFrame, OnNewFrameLoad, OnNewFrameStore, OnNewFrameLocked,
           wrapVars
  <2> QED
    BY <2>2, <2>3, <2>4 DEF Next
<1> QED
  BY Invariance, <1>1, PTL DEF Spec, NameStableWhileRecording

\* The server thread and the frame threads together, however they interleave,
\* implement the service: each step of either is one step of CaptureService
\* or leaves what the host can see of it unchanged.
THEOREM ImplementsCaptureServiceHolds == Spec => ImplementsCaptureService
<1>1. Init => Service!Init
  <2>1. 0 \in Counter
    BY UIntModAssumption DEF Counter
  <2> QED
    BY <2>1 DEF Init, Service!Init, Request, FileName, NoName
<1>2. IInv /\ [Next]_vars => [Service!Next]_(Service!vars)
  <2> SUFFICES ASSUME IInv, [Next]_vars
               PROVE  [Service!Next]_(Service!vars)
    OBVIOUS
  <2> USE DEF Service!Next, Service!vars, Request
  <2>a. TypeOK
    BY DEF IInv
  <2>1. CASE TriggerTrace
    BY <2>1 DEF TriggerTrace, Goto, wrapVars, Service!Receive
  <2>2. CASE TraceByFrameReadNum \/ TraceByFrameTrigger \/ TraceByDurationTrigger
    BY <2>2 DEF TraceByFrameReadNum, TraceByFrameTrigger,
                TraceByDurationTrigger, Goto, wrapVars, histVars
  <2>3. CASE TraceByFrameSetNames
    <3>1. ~capture_state /\ collected = {}
      BY <2>3 DEF TraceByFrameSetNames, Goto, IInv, RecordingMatchesState,
                  AtRestBeforeTrigger, NothingWrittenBeforeTrigger
    <3>2. capture_name' \in FileName
      BY <2>a, <2>3 DEF TraceByFrameSetNames, TypeOK, FileName
    <3> QED
      BY <2>3, <3>1, <3>2
         DEF TraceByFrameSetNames, Goto, histVars, Service!ChooseName
  <2>4. CASE TraceByDurationSetNames
    <3>1. ~capture_state /\ collected = {}
      BY <2>4 DEF TraceByDurationSetNames, Goto, IInv, RecordingMatchesState,
                  AtRestBeforeTrigger, NothingWrittenBeforeTrigger
    <3>2. capture_name' \in FileName
      BY <2>a, <2>4, SuccessorType
         DEF TraceByDurationSetNames, TypeOK, FileName
    <3> QED
      BY <2>4, <3>1, <3>2
         DEF TraceByDurationSetNames, Goto, histVars, Service!ChooseName
  <2>5. CASE TraceByDurationStart
    BY <2>a, <2>5
       DEF TypeOK, TraceByDurationStart, StartRecording, Goto, Service!Record
  <2>6. CASE TraceByDurationStop
    BY <2>a, <2>6
       DEF TypeOK, TraceByDurationStop, StopRecording, Goto, Service!Write
  <2>7. CASE WaitForTraceDone
    BY <2>7 DEF WaitForTraceDone, Goto, wrapVars, histVars, IInv,
                RecordingMatchesState, FinishedMeansCollected, Service!Finish
  <2>8. CASE SendPm4CaptureResponse
    BY <2>8 DEF SendPm4CaptureResponse, Goto, wrapVars, histVars,
                Service!Respond
  <2>9. CASE \E t \in FrameThreads : OnNewFrame(t)
    <3>0. PICK t \in FrameThreads : OnNewFrame(t)
      BY <2>9
    <3>1. CASE OnNewFrameLoad(t) \/ OnNewFrameStore(t)
      BY <3>1 DEF OnNewFrameLoad, OnNewFrameStore, wrapVars, histVars
    <3>2. CASE OnNewFrameLocked(t)
      <4>1. CASE ShouldStartTrace /\ OnTraceStart
        <5>1. pc \in {"startDuration", "wait"} /\ ~capture_state
          BY <2>a, <4>1
             DEF ShouldStartTrace, IInv, TypeOK, ServerPc, AtRestBeforeTrigger,
                 SleepingIsTriggered, RecordingMatchesState
        <5> QED
          BY <3>2, <4>1, <5>1
             DEF OnNewFrameLocked, OnTraceStart, StartRecording, Service!Record
      <4>2. CASE ShouldStopTrace /\ OnTraceStop
        <5>1. pc \in {"startDuration", "sleep", "wait"} /\ capture_state
          BY <2>a, <4>2
             DEF ShouldStopTrace, IInv, TypeOK, ServerPc, AtRestBeforeTrigger,
                 SleepingIsTriggered, RecordingMatchesState
        <5> QED
          BY <3>2, <4>2, <5>1
             DEF OnNewFrameLocked, OnTraceStop, StopRecording, Service!Write
      <4>3. CASE UNCHANGED <<m_state, capture_state, collected>>
        BY <3>2, <4>3 DEF OnNewFrameLocked
      <4> QED
        BY <3>2, <4>1, <4>2, <4>3 DEF OnNewFrameLocked
    <3> QED
      BY <3>0, <3>1, <3>2 DEF OnNewFrame
  <2>10. CASE UNCHANGED vars
    BY <2>10 DEF vars, wrapVars, histVars
  <2> QED
    BY <2>1, <2>2, <2>3, <2>4, <2>5, <2>6, <2>7, <2>8, <2>9, <2>10
       DEF Next, StartPm4Capture
<1> QED
  BY Invariance, <1>1, <1>2, PTL DEF Spec, ImplementsCaptureService, Service!Spec

-----------------------------------------------------------------------------
(* The frames of a trace by frame *)

\* What one presenting thread t adds to the invariant.  Its increment loses no
\* frame; while it records for a trace by frame, the wrapped difference that
\* ShouldStopTrace computes is the number of frames recorded, the one just
\* presented included; and a finished trace has as many as were asked for.
\* A trace of UIntMod frames or more would never stop.
Presented(t) == IF framePc[t] = "lock" THEN 1 ELSE 0

FrameCount(t) ==
  /\ framePc[t] = "increment" => loaded[t] = m_frame_num
  /\ pc \in {"byDuration", "triggerDuration", "startDuration", "sleep"} => ~byFrame
  /\ byFrame /\ pc = "wait" /\ m_state = "Tracing" =>
       /\ begun = 1
       /\ NumFrameToTrace < UIntMod =>
            /\ framesRecorded < NumFrameToTrace
            /\ (m_frame_num - m_trace_start_frame) % UIntMod = framesRecorded + Presented(t)
  /\ byFrame /\ pc \in {"wait", "reply"} /\ m_state = "Finished" =>
       begun = 1 /\ framesRecorded = NumFrameToTrace

\* The uint32_t difference of two counters grows with the first of them, also
\* when that one wraps.
LEMMA AheadByOne ==
  ASSUME NEW a \in Counter, NEW b \in Counter, ((a - b) % UIntMod) + 1 < UIntMod
  PROVE  (Successor(a) - b) % UIntMod = ((a - b) % UIntMod) + 1
<1> USE UIntModAssumption DEF Counter
<1>1. \A x \in 0 .. UIntMod - 1 : x % UIntMod = x
  OBVIOUS
<1>2. \A x \in Int : -UIntMod <= x /\ x < 0 => x % UIntMod = x + UIntMod
  OBVIOUS
<1>3. Successor(a) = IF a = UIntMod - 1 THEN 0 ELSE a + 1
  <2>1. CASE a = UIntMod - 1
    BY <2>1 DEF Successor
  <2>2. CASE a # UIntMod - 1
    BY <1>1, <2>2 DEF Successor
  <2> QED
    BY <2>1, <2>2
<1>4. CASE a >= b
  <2>1. (a - b) % UIntMod = a - b
    BY <1>1, <1>4
  <2>2. CASE a = UIntMod - 1
    <3>1. b > 0 /\ Successor(a) - b = -b
      BY <1>3, <2>1, <2>2
    <3>2. (-b) % UIntMod = UIntMod - b
      BY <1>2, <3>1
    <3> QED
      BY <2>1, <2>2, <3>1, <3>2
  <2>3. CASE a # UIntMod - 1
    <3>1. Successor(a) - b = a - b + 1 /\ a - b + 1 \in 0 .. UIntMod - 1
      BY <1>3, <1>4, <2>3
    <3> QED
      BY <1>1, <2>1, <3>1
  <2> QED
    BY <2>2, <2>3
<1>5. CASE a < b
  <2>1. (a - b) % UIntMod = a - b + UIntMod
    BY <1>2, <1>5
  <2>2. Successor(a) = a + 1 /\ a + 1 - b < 0
    BY <1>3, <1>5, <2>1
  <2>3. (a + 1 - b) % UIntMod = a + 1 - b + UIntMod
    BY <1>2, <2>2
  <2> QED
    BY <2>1, <2>2, <2>3
<1> QED
  BY <1>4, <1>5

\* The server thread: Triggered starts a trace afresh, and a trace by duration
\* is not one by frame.
LEMMA ServerFrameCount ==
  ASSUME NEW t \in FrameThreads, IInv, FrameCount(t), TriggerTrace \/ StartPm4Capture
  PROVE  FrameCount(t)'
<1> USE DEF Goto, mgrVars, wrapVars, frameVars, histVars, FrameCount
<1>1. Presented(t)' = Presented(t) /\ UNCHANGED <<framePc, loaded, m_frame_num>>
  BY DEF Presented, TriggerTrace, StartPm4Capture, TraceByFrameReadNum, TraceByFrameSetNames,
         TraceByFrameTrigger, TraceByDurationSetNames, TraceByDurationTrigger,
         TraceByDurationStart, TraceByDurationStop, WaitForTraceDone, SendPm4CaptureResponse
<1>2. CASE TriggerTrace
  BY <1>1, <1>2 DEF TriggerTrace
<1>3. CASE TraceByFrameReadNum \/ TraceByFrameSetNames \/ TraceByFrameTrigger
  BY <1>1, <1>3 DEF TraceByFrameReadNum, TraceByFrameSetNames, TraceByFrameTrigger
<1>4. CASE TraceByDurationSetNames \/ TraceByDurationTrigger \/ TraceByDurationStart
           \/ TraceByDurationStop
  BY <1>1, <1>4 DEF TraceByDurationSetNames, TraceByDurationTrigger, TraceByDurationStart,
                    TraceByDurationStop
<1>5. CASE WaitForTraceDone \/ SendPm4CaptureResponse
  BY <1>1, <1>5 DEF WaitForTraceDone, SendPm4CaptureResponse
<1> QED
  BY <1>2, <1>3, <1>4, <1>5 DEF StartPm4Capture

\* The presenting thread.
LEMMA ThreadFrameCount ==
  ASSUME NEW t \in FrameThreads, IInv, FrameCount(t), OnNewFrame(t)
  PROVE  FrameCount(t)'
<1>a. /\ m_frame_num \in Counter /\ m_trace_start_frame \in Counter
      /\ framesRecorded \in Nat /\ framesRecorded <= NumFrameToTrace + 1
      /\ framePc \in [FrameThreads -> {"idle", "increment", "lock"}]
      /\ loaded \in [FrameThreads -> Counter]
  BY NumFrameAssumption DEF IInv, TypeOK
<1>b. NumFrameToTrace \in Nat \ {0} /\ UIntMod \in Nat \ {0}
  BY NumFrameAssumption, UIntModAssumption
<1> DEFINE Ahead == (m_frame_num - m_trace_start_frame) % UIntMod
<1>1. CASE OnNewFrameLoad(t)
  <2>1. /\ framePc[t] = "idle" /\ framePc'[t] = "increment" /\ loaded'[t] = m_frame_num
        /\ UNCHANGED <<mgrVars, pc, histVars>>
    BY <1>1, <1>a DEF OnNewFrameLoad
  <2>2. Presented(t)' = Presented(t)
    BY <2>1 DEF Presented
  <2> QED
    BY <2>1, <2>2 DEF FrameCount, mgrVars, histVars
<1>2. CASE OnNewFrameStore(t)
  <2>1. /\ framePc[t] = "increment" /\ framePc'[t] = "lock"
        /\ m_frame_num' = Successor(m_frame_num)
        /\ UNCHANGED <<m_state, m_trace_start_frame, pc, histVars>>
    BY <1>2, <1>a DEF OnNewFrameStore, FrameCount
  <2>2. Presented(t) = 0 /\ Presented(t)' = 1
    BY <2>1 DEF Presented
  <2>3. ASSUME byFrame, pc = "wait", m_state = "Tracing", NumFrameToTrace < UIntMod
        PROVE  framesRecorded < NumFrameToTrace
               /\ (Successor(m_frame_num) - m_trace_start_frame) % UIntMod = framesRecorded + 1
    <3>1. framesRecorded < NumFrameToTrace /\ Ahead = framesRecorded
      BY <2>2, <2>3, <1>a DEF FrameCount
    <3>2. Ahead + 1 < UIntMod
      BY <1>a, <1>b, <2>3, <3>1
    <3> QED
      BY <1>a, <3>1, <3>2, AheadByOne
  <2> QED
    BY <2>1, <2>2, <2>3 DEF FrameCount, histVars
<1>3. CASE OnNewFrameLocked(t)
  <2>1. /\ framePc[t] = "lock" /\ framePc'[t] = "idle"
        /\ UNCHANGED <<m_frame_num, pc, byFrame>>
    BY <1>3, <1>a DEF OnNewFrameLocked
  <2>2. Presented(t) = 1 /\ Presented(t)' = 0
    BY <2>1 DEF Presented
  <2>3. CASE ShouldStartTrace /\ OnTraceStart
    <3>1. pc = "wait" => begun = 0
      BY <2>3 DEF ShouldStartTrace, IInv, BegunBound
    <3>2. ~capture_state
      BY <2>3 DEF ShouldStartTrace, IInv, RecordingMatchesState
    <3>3. /\ begun' = begun + 1 /\ framesRecorded' = 0
          /\ m_state' = "Tracing" /\ m_trace_start_frame' = m_frame_num
      BY <2>3, <3>2 DEF OnTraceStart, StartRecording
    <3>4. (m_frame_num - m_frame_num) % UIntMod = 0
      BY <1>a, <1>b DEF Counter
    <3> QED
      BY <1>b, <2>1, <2>2, <3>1, <3>3, <3>4 DEF FrameCount
  <2>4. CASE ShouldStopTrace /\ OnTraceStop /\ CountFrame
    <3>1. m_state = "Tracing" /\ Ahead >= NumFrameToTrace /\ m_state' = "Finished"
          /\ begun' = begun /\ capture_state
      BY <2>4 DEF ShouldStopTrace, OnTraceStop, StopRecording, IInv, RecordingMatchesState
    <3>2. pc # "reply"
      BY <3>1 DEF IInv, SleepingIsTriggered
    <3>3. ASSUME byFrame, pc = "wait" PROVE begun = 1 /\ framesRecorded' = NumFrameToTrace
      <4>1. NumFrameToTrace < UIntMod
        <5>1. Ahead < UIntMod /\ Ahead \in Nat
          BY <1>a, <1>b DEF Counter
        <5> QED
          BY <1>b, <3>1, <5>1
      <4>2. begun = 1 /\ framesRecorded < NumFrameToTrace /\ Ahead = framesRecorded + 1
        BY <2>2, <3>1, <3>3, <4>1 DEF FrameCount
      <4>3. framesRecorded' = framesRecorded + 1
        BY <1>a, <1>b, <2>4, <3>1, <4>2 DEF CountFrame
      <4> QED
        BY <1>a, <1>b, <3>1, <4>2, <4>3
    <3> QED
      BY <2>1, <3>1, <3>2, <3>3 DEF FrameCount
  <2>5. CASE ~ShouldStopTrace /\ CountFrame
             /\ UNCHANGED <<m_state, m_trace_start_frame, capture_state, begun, collected>>
    <3>1. capture_state <=> m_state = "Tracing"
      BY DEF IInv, RecordingMatchesState
    <3>2. ASSUME byFrame, pc = "wait", m_state = "Tracing", NumFrameToTrace < UIntMod
          PROVE  framesRecorded' < NumFrameToTrace /\ Ahead = framesRecorded'
      <4>1. framesRecorded < NumFrameToTrace /\ Ahead = framesRecorded + 1
        BY <2>2, <3>2 DEF FrameCount
      <4>2. framesRecorded' = framesRecorded + 1
        BY <1>a, <1>b, <2>5, <3>1, <3>2, <4>1 DEF CountFrame
      <4>3. ~(Ahead >= NumFrameToTrace)
        BY <2>5, <3>2 DEF ShouldStopTrace
      <4> QED
        BY <1>a, <1>b, <4>1, <4>2, <4>3
    <3>3. m_state = "Finished" => framesRecorded' = framesRecorded
      BY <2>5, <3>1 DEF CountFrame
    <3>4. framesRecorded' + 0 = framesRecorded'
      BY <1>a, <2>5 DEF CountFrame
    <3> QED
      BY <2>1, <2>2, <2>5, <3>2, <3>3, <3>4 DEF FrameCount
  <2> QED
    BY <1>3, <2>3, <2>4, <2>5 DEF OnNewFrameLocked
<1> QED
  BY <1>1, <1>2, <1>3 DEF OnNewFrame

\* With one presenting thread, a trace by frame that is answered was one
\* recording of exactly NumFrameToTrace frames, for every width of the counters
\* and wherever m_frame_num wraps.
THEOREM ByFrameRecordsExactlyHolds ==
  ASSUME NEW t, FrameThreads = {t}
  PROVE  Spec => []ByFrameRecordsExactly
<1>0. t \in FrameThreads
  OBVIOUS
<1>1. Init => FrameCount(t)
  BY <1>0 DEF Init, FrameCount
<1>2. IInv /\ FrameCount(t) /\ [Next]_vars => FrameCount(t)'
  <2> SUFFICES ASSUME IInv, FrameCount(t), [Next]_vars PROVE FrameCount(t)'
    OBVIOUS
  <2>1. CASE TriggerTrace \/ StartPm4Capture
    BY <1>0, <2>1, ServerFrameCount
  <2>2. CASE OnNewFrame(t)
    BY <1>0, <2>2, ThreadFrameCount
  <2>3. CASE UNCHANGED vars
    BY <2>3 DEF vars, mgrVars, wrapVars, frameVars, histVars, FrameCount, Presented
  <2> QED
    BY <2>1, <2>2, <2>3 DEF Next
<1>3. IInv /\ FrameCount(t) => ByFrameRecordsExactly
  BY DEF IInv, SleepingIsTriggered, FrameCount, ByFrameRecordsExactly
<1> QED
  BY <1>1, <1>2, <1>3, Invariance, PTL DEF Spec

=============================================================================
