---------------------- MODULE CaptureFileManager_proofs ----------------------
(***************************************************************************)
(* Proofs about CaptureFileManager, for any number of calls of LoadFile.   *)
(*                                                                         *)
(* The window, the posted calls, the worker and the signals pass one job   *)
(* around: m_working holds exactly while there is one.  What is known of a *)
(* job, wherever it is, is JobFits; the lock follows the worker and        *)
(* m_capture_acquired.                                                     *)
(***************************************************************************)
EXTENDS CaptureFileManager, TLAPS

Job       == {"load", "gather"}
Captures  == Nat
Types     == FileType \cup {"kUnknown"}
Tasks     == [job : Job, of : Captures]
Signals   == [job : Job, of : Captures, type : Types]
Workers   == [job : {"load"}, of : Captures, at : {"lock", "find"}, type : {"kUnknown"}]
               \cup [job : {"load"}, of : Captures, at : {"load"}, type : FileType]
               \cup [job : {"gather"}, of : Captures, at : {"lock", "gather"}, type : {"kUnknown"}]

\* Every variable that the argument is about keeps its type.
Typed ==
  /\ ui \in {"loop", "lockForRead", "closing", "closed", "crashed"}
  /\ m_capture_acquired \in BOOLEAN
  /\ m_working \in BOOLEAN
  /\ writer \in BOOLEAN
  /\ m_last_request \in Captures
  /\ m_capture_file_context \in Captures
  /\ m_pending_request \in Captures
  /\ data \in Captures
  /\ loaded \in [of : Captures, type : Types]

\* A load is under way only while the window shows nothing, and unless another
\* one waits it is for the last request.  Statistics are gathered of a capture
\* that was shown, and that still is unless a load waits.
JobFits(job) ==
  /\ job.job = "load" =>
       /\ ~m_capture_acquired
       /\ m_pending_request = None => job.of = m_last_request
  /\ job.job = "gather" =>
       /\ Succeeded(loaded)
       /\ m_last_request # None
       /\ m_pending_request = None => m_capture_acquired

NoJob == ~m_working /\ posted = <<>> /\ worker = Idle /\ events = <<>>

JobPosted(job) ==
  m_working /\ posted = <<job>> /\ worker = Idle /\ events = <<>> /\ JobFits(job)

JobRuns ==
  m_working /\ posted = <<>> /\ worker \in Workers /\ events = <<>> /\ JobFits(worker)

\* The data core holds what the signal announces.
JobDone(job) ==
  /\ m_working /\ posted = <<>> /\ worker = Idle /\ events = <<job>> /\ JobFits(job)
  /\ job.job = "load" /\ Succeeded(job) => data = job.of
  /\ job.job = "gather" => m_capture_stats \in {None, data}

OneJob ==
  \/ NoJob
  \/ \E job \in Tasks : JobPosted(job)
  \/ JobRuns
  \/ \E job \in Signals : JobDone(job)

\* Who holds m_data_core_lock.
LockFollows ==
  /\ readers \subseteq {"window", "worker"}
  /\ "window" \in readers <=> m_capture_acquired
  /\ "worker" \in readers <=> worker.at = "gather"
  /\ writer <=> worker.at \in {"find", "load"}
  /\ writer => readers = {}

\* A request that waits is the last one.
PendingIsLast ==
  m_pending_request # None =>
    m_pending_request = m_last_request /\ m_working /\ ~m_capture_acquired

\* A window without a capture waits for the results of the last request.
ReleasedWindow ==
  ~m_capture_acquired =>
    /\ m_last_request # None
    /\ m_loading_pending_task = m_last_request

\* OnFileLoaded waits for the lock with the result of the last request, and
\* nothing else is under way.
BlockedInLoaded ==
  ui = "lockForRead" =>
    /\ NoJob
    /\ m_pending_request = None
    /\ ~m_capture_acquired
    /\ loaded.of = m_last_request
    /\ Succeeded(loaded) => data = m_last_request

ShownInv ==
  /\ Typed
  /\ OneJob
  /\ LockFollows
  /\ PendingIsLast
  /\ ReleasedWindow
  /\ BlockedInLoaded
  /\ LastRequestShown
  /\ StatsOfShownCapture

-----------------------------------------------------------------------------

LEMMA OneElement ==
  /\ \A x : Head(<<x>>) = x /\ Tail(<<x>>) = <<>> /\ <<x>> # <<>>
  /\ \A x : Append(<<>>, x) = <<x>>
  OBVIOUS

LEMMA LoadFileInv == ASSUME ShownInv, LoadFile PROVE ShownInv'
  <1> USE DEF ShownInv, Captures, None
  <1>0. PICK new \in Nat : new = m_last_request + 1
    BY DEF Typed
  <1>1. /\ ui = "loop" /\ ui' = ui
        /\ m_last_request' = new /\ new \in Nat /\ new # 0
        /\ m_capture_acquired' = FALSE
        /\ m_loading_pending_task' = new
        /\ StartLoadFile(new, m_working)
        /\ m_capture_file_context' = new
        /\ UNCHANGED <<loaded, data, events, writer, worker, m_capture_stats>>
    BY <1>0 DEF LoadFile, Typed
  <1>2. shownStats' = None
    BY DEF LoadFile, ReleaseCapture, StatsOfShownCapture
  <1>3. readers' = readers \ {"window"}
    BY DEF LoadFile, ReleaseCapture, LockFollows
  <1>4. CASE m_working
    <2>1. m_pending_request' = new /\ m_working' = TRUE /\ posted' = posted
      BY <1>1, <1>4 DEF StartLoadFile
    <2>2. ASSUME NEW job, JobFits(job) PROVE JobFits(job)'
      BY <2>1, <2>2, <1>1 DEF JobFits, Succeeded
    <2>3. OneJob'
      BY <2>1, <2>2, <1>1, <1>4 DEF OneJob, NoJob, JobPosted, JobRuns, JobDone, Succeeded
    <2>4. BlockedInLoaded' /\ PendingIsLast' /\ ReleasedWindow'
      BY <1>1, <2>1 DEF BlockedInLoaded, PendingIsLast, ReleasedWindow
    <2>5. Typed'
      BY <1>1, <2>1 DEF Typed
    <2> QED
      BY <1>1, <1>2, <1>3, <2>3, <2>4, <2>5
         DEF LockFollows, LastRequestShown, StatsOfShownCapture
  <1>5. CASE ~m_working
    <2> DEFINE job == Task("load", new)
    <2>1. NoJob
      BY <1>5 DEF OneJob, JobPosted, JobRuns, JobDone
    <2>2. m_pending_request' = None /\ m_working' = TRUE /\ posted' = Append(posted, job)
      BY <1>1, <1>5 DEF StartLoadFile
    <2>3. posted' = <<job>>
      BY <2>1, <2>2, OneElement DEF NoJob
    <2>4. job \in Tasks /\ JobFits(job)'
      BY <1>1, <2>2 DEF Task, Tasks, Job, JobFits
    <2>5. JobPosted(job)'
      BY <1>1, <2>1, <2>2, <2>3, <2>4 DEF JobPosted, NoJob
    <2>6. OneJob'
      BY <2>4, <2>5 DEF OneJob
    <2>7. BlockedInLoaded' /\ PendingIsLast' /\ ReleasedWindow'
      BY <1>1, <2>2 DEF BlockedInLoaded, PendingIsLast, ReleasedWindow
    <2>8. Typed'
      BY <1>1, <2>2 DEF Typed
    <2> QED
      BY <1>1, <1>2, <1>3, <2>6, <2>7, <2>8
         DEF LockFollows, LastRequestShown, StatsOfShownCapture
  <1> QED BY <1>4, <1>5 DEF Typed

\* Where the job is follows from any of its traces.
LEMMA WhereTheJobIs ==
  ASSUME ShownInv
  PROVE  /\ events # <<>> => \E job \in Signals : JobDone(job) /\ Head(events) = job
         /\ posted # <<>> => \E job \in Tasks : JobPosted(job) /\ Head(posted) = job
         /\ worker.at # "idle" => JobRuns
         /\ worker.job \in Job => JobRuns
         /\ ~m_working => NoJob
  <1>1. Idle.at = "idle" /\ Idle.job = "none"
    BY DEF Idle
  <1> QED
    BY <1>1, OneElement DEF ShownInv, OneJob, NoJob, JobPosted, JobRuns, JobDone, Job

\* The job of a signal the window has taken is over; the request that waits, if
\* there is one, becomes the next.
LEMMA NextJob ==
  ASSUME ShownInv, NEW done \in Signals, JobDone(done), events' = Tail(events),
         StartLoadFile(m_pending_request, FALSE),
         UNCHANGED <<m_capture_acquired, m_last_request, worker>>
  PROVE  /\ m_pending_request' = None
         /\ m_working' \in BOOLEAN
         /\ m_pending_request = None => NoJob'
         /\ m_pending_request # None => \E job \in Tasks : JobPosted(job)'
  <1> USE DEF None
  <1>1. events' = <<>> /\ posted = <<>> /\ worker' = Idle
    BY OneElement DEF JobDone
  <1>2. CASE m_pending_request = None
    BY <1>1, <1>2 DEF StartLoadFile, NoJob
  <1>3. CASE m_pending_request # None
    <2>1. PICK r \in Nat : r = m_pending_request
      BY DEF ShownInv, Typed, Captures
    <2>2. /\ m_pending_request' = None /\ m_working' = TRUE
          /\ posted' = <<Task("load", r)>>
      BY <1>1, <1>3, <2>1, OneElement DEF StartLoadFile
    <2>3. r = m_last_request' /\ ~m_capture_acquired'
      BY <1>3, <2>1 DEF ShownInv, PendingIsLast
    <2>4. Task("load", r) \in Tasks /\ JobFits(Task("load", r))'
      BY <2>1, <2>3 DEF Task, Tasks, Job, Captures, JobFits
    <2> QED BY <1>1, <1>3, <2>2, <2>4 DEF JobPosted
  <1> QED BY <1>2, <1>3

LEMMA OnLoadFileDoneInv == ASSUME ShownInv, OnLoadFileDone PROVE ShownInv'
  <1> USE DEF ShownInv, None
  <1>1. PICK done \in Signals : JobDone(done) /\ Head(events) = done
    BY WhereTheJobIs DEF OnLoadFileDone, NextEvent
  <1>2. /\ ui = "loop" /\ done.job = "load" /\ events' = Tail(events)
        /\ StartLoadFile(m_pending_request, FALSE)
        /\ UNCHANGED <<m_capture_acquired, m_last_request, m_loading_pending_task,
                       m_capture_file_context,
                       m_capture_file, views, results, shownStats,
                       m_capture_stats, readers, writer, worker, data>>
    BY <1>1 DEF OnLoadFileDone, NextEvent, lockVars
  <1>3. /\ m_pending_request' = None
        /\ m_working' \in BOOLEAN
        /\ m_pending_request = None => NoJob'
        /\ m_pending_request # None => \E job \in Tasks : JobPosted(job)'
    BY <1>1, <1>2, NextJob
  <1>4. ~m_capture_acquired' /\ (m_pending_request = None => done.of = m_last_request)
    BY <1>1, <1>2 DEF JobDone, JobFits
  <1>5. OneJob' /\ LockFollows' /\ PendingIsLast' /\ ReleasedWindow'
    BY <1>2, <1>3, <1>4 DEF OneJob, LockFollows, PendingIsLast, ReleasedWindow
  <1>6. LastRequestShown' /\ StatsOfShownCapture'
    BY <1>2, <1>4 DEF LastRequestShown, StatsOfShownCapture
  <1>7. CASE m_pending_request # None
    <2>1. UNCHANGED <<ui, loaded>>
      BY <1>7 DEF OnLoadFileDone
    <2> QED BY <1>2, <1>3, <1>5, <1>6, <2>1 DEF Typed, BlockedInLoaded, Captures
  <1>8. CASE m_pending_request = None
    <2>1. ui' = "lockForRead" /\ loaded' = [of |-> done.of, type |-> done.type]
      BY <1>1, <1>8 DEF OnLoadFileDone
    <2>2. loaded' \in [of : Captures, type : Types] /\ loaded'.of = done.of
          /\ loaded'.type = done.type
      BY <2>1 DEF Signals
    <2>3. Succeeded(loaded)' => data' = m_last_request'
      BY <1>1, <1>2, <1>4, <1>8, <2>2 DEF JobDone, Succeeded
    <2>4. BlockedInLoaded'
      BY <1>2, <1>3, <1>4, <1>8, <2>2, <2>3 DEF BlockedInLoaded
    <2> QED BY <1>2, <1>3, <1>5, <1>6, <2>1, <2>2, <2>4 DEF Typed, Captures
  <1> QED BY <1>7, <1>8

LEMMA OnFileLoadedInv == ASSUME ShownInv, OnFileLoaded PROVE ShownInv'
  <1> USE DEF ShownInv, None
  <1>1. /\ NoJob /\ m_pending_request = None /\ ~m_capture_acquired
        /\ loaded.of = m_last_request
        /\ Succeeded(loaded) => data = m_last_request
        /\ m_last_request # None /\ m_loading_pending_task = m_last_request
        /\ shownStats = None
    BY DEF OnFileLoaded, BlockedInLoaded, ReleasedWindow, StatsOfShownCapture
  <1>2. /\ ui' = "loop" /\ m_capture_acquired' = TRUE
        /\ readers' = readers \cup {"window"}
        /\ shownStats' = None
        /\ m_pending_request' = None
        /\ UNCHANGED <<m_last_request, m_capture_file_context, loaded,
                       m_capture_stats, events, writer, worker, data>>
    BY <1>1 DEF OnFileLoaded, GatherTraceStats
  <1>3. LastRequestShown'
    <2> SUFFICES ASSUME Succeeded(loaded)
                 PROVE  /\ views' = m_last_request /\ m_capture_file' = m_last_request
                        /\ results' = m_last_request
      BY <1>1, <1>2 DEF LastRequestShown, Succeeded
    <2> QED BY <1>1 DEF OnFileLoaded
  <1>4. LockFollows'
    <2>1. ~writer /\ worker = Idle /\ worker.at = "idle"
      BY <1>1 DEF OnFileLoaded, CanRead, NoJob, Idle
    <2> QED BY <1>2, <2>1 DEF LockFollows
  <1>5. OneJob' /\ m_working' \in BOOLEAN
    <2>1. CASE loaded.type \in {"kRdFile", "kCorrelatedFiles"}
      <3>1. PICK c : c = m_capture_file_context
        OBVIOUS
      <3>2. m_working' = TRUE /\ posted' = <<Task("gather", c)>>
        BY <1>1, <2>1, <3>1, OneElement DEF OnFileLoaded, GatherTraceStats, NoJob
      <3>3. Task("gather", c) \in Tasks
        BY <3>1 DEF Task, Tasks, Job, Typed
      <3>4. Succeeded(loaded)'
        BY <1>2, <2>1 DEF Succeeded, FileType
      <3>5. JobFits(Task("gather", c))'
        BY <1>1, <1>2, <3>4 DEF JobFits, Task
      <3>6. JobPosted(Task("gather", c))'
        BY <1>1, <1>2, <3>2, <3>5 DEF JobPosted, NoJob
      <3> QED BY <3>2, <3>3, <3>6 DEF OneJob
    <2>2. CASE loaded.type \notin {"kRdFile", "kCorrelatedFiles"}
      <3>1. UNCHANGED <<m_working, posted>>
        BY <2>2 DEF OnFileLoaded
      <3> QED BY <1>1, <1>2, <3>1 DEF OneJob, NoJob, Typed
    <2> QED BY <2>1, <2>2
  <1>6. Typed'
    BY <1>2, <1>5 DEF Typed, Captures
  <1> QED
    BY <1>2, <1>3, <1>4, <1>5, <1>6
       DEF PendingIsLast, ReleasedWindow, BlockedInLoaded, StatsOfShownCapture

LEMMA OnGatherTraceStatsDoneInv == ASSUME ShownInv, OnGatherTraceStatsDone PROVE ShownInv'
  <1> USE DEF ShownInv, None
  <1>1. PICK done \in Signals : JobDone(done) /\ Head(events) = done
    BY WhereTheJobIs DEF OnGatherTraceStatsDone, NextEvent
  <1>2. /\ ui = "loop" /\ ui' = "loop" /\ done.job = "gather" /\ events' = Tail(events)
        /\ StartLoadFile(m_pending_request, FALSE)
        /\ UNCHANGED <<m_capture_acquired, m_last_request, m_loading_pending_task,
                       m_capture_file_context,
                       m_capture_file, views, results, loaded,
                       m_capture_stats, readers, writer, worker, data>>
    BY <1>1 DEF OnGatherTraceStatsDone, NextEvent, lockVars
  <1>3. /\ m_pending_request' = None
        /\ m_working' \in BOOLEAN
        /\ m_pending_request = None => NoJob'
        /\ m_pending_request # None => \E job \in Tasks : JobPosted(job)'
    BY <1>1, <1>2, NextJob
  <1>4. OneJob' /\ LockFollows' /\ PendingIsLast' /\ ReleasedWindow' /\ Typed'
    BY <1>2, <1>3 DEF OneJob, LockFollows, PendingIsLast, ReleasedWindow, Typed, Captures
  <1>5. LastRequestShown' /\ BlockedInLoaded'
    BY <1>2 DEF LastRequestShown, BlockedInLoaded, Succeeded
  <1>6. StatsOfShownCapture'
    <2>1. CASE m_pending_request = None
      <3>1. m_capture_acquired /\ Succeeded(loaded) /\ m_last_request # None
            /\ m_capture_stats \in {None, data}
        BY <1>1, <1>2, <2>1 DEF JobDone, JobFits
      <3>2. data = views
        BY <3>1 DEF LastRequestShown
      <3>3. shownStats' = m_capture_stats
        BY <2>1 DEF OnGatherTraceStatsDone
      <3> QED BY <1>2, <3>1, <3>2, <3>3 DEF StatsOfShownCapture
    <2>2. CASE m_pending_request # None
      BY <1>2, <2>2 DEF OnGatherTraceStatsDone, StatsOfShownCapture
    <2> QED BY <2>1, <2>2
  <1> QED BY <1>4, <1>5, <1>6

\* A step of the worker leaves the window alone, and replaces the capture in the
\* data core only while the window has released it.
LEMMA WorkerStepInv ==
  ASSUME ShownInv, UNCHANGED <<windowVars, managerVars>>, ~NoJob,
         OneJob', LockFollows', writer' \in BOOLEAN, data' \in Nat,
         data' # data => ~m_capture_acquired
  PROVE  ShownInv'
  <1> USE DEF ShownInv, windowVars, managerVars, None, Captures
  <1>1. ui' # "lockForRead"
    BY DEF BlockedInLoaded
  <1>2. Typed' /\ PendingIsLast' /\ ReleasedWindow' /\ BlockedInLoaded'
    BY <1>1 DEF Typed, PendingIsLast, ReleasedWindow, BlockedInLoaded
  <1>3. LastRequestShown' /\ StatsOfShownCapture'
    BY DEF LastRequestShown, StatsOfShownCapture, Succeeded
  <1> QED BY <1>2, <1>3

LEMMA TakeTaskInv == ASSUME ShownInv, TakeTask PROVE ShownInv'
  <1>1. PICK job \in Tasks : JobPosted(job) /\ Head(posted) = job
    BY WhereTheJobIs DEF TakeTask
  <1>2. /\ worker' = [job |-> job.job, of |-> job.of, at |-> "lock", type |-> "kUnknown"]
        /\ posted' = <<>> /\ events' = <<>>
        /\ UNCHANGED <<windowVars, managerVars, lockVars, data>>
    BY <1>1, OneElement DEF TakeTask, JobPosted
  <1>3. worker' \in Workers /\ worker'.job = job.job /\ worker'.of = job.of
        /\ worker'.at = "lock"
    BY <1>2 DEF Workers, Tasks, Job
  <1>4. JobRuns'
    BY <1>1, <1>2, <1>3
       DEF JobRuns, JobPosted, JobFits, windowVars, managerVars, Succeeded, None
  <1>5. worker.at = "idle"
    BY DEF TakeTask
  <1>6. LockFollows'
    BY <1>2, <1>3, <1>5 DEF ShownInv, LockFollows, lockVars, windowVars
  <1>7. ~NoJob
    BY <1>1 DEF JobPosted, NoJob
  <1>8. writer' \in BOOLEAN /\ data' \in Nat /\ data' = data
    BY <1>2 DEF ShownInv, Typed, Captures, lockVars
  <1> QED BY <1>2, <1>4, <1>6, <1>7, <1>8, WorkerStepInv DEF OneJob

\* The steps of a job that goes on.
LEMMA RunningInv ==
  ASSUME ShownInv, LoadFileLock \/ LoadCaptureData \/ GatherTraceStatsLock
  PROVE  ShownInv'
  <1>1. JobRuns /\ ~NoJob
    BY WhereTheJobIs
       DEF LoadFileLock, LoadCaptureData, GatherTraceStatsLock, Working, Job, JobRuns, NoJob
  <1>2. UNCHANGED <<windowVars, managerVars, posted, events>>
    BY DEF LoadFileLock, LoadCaptureData, GatherTraceStatsLock
  <1>3. worker' \in Workers /\ worker'.job = worker.job /\ worker'.of = worker.of
    BY <1>1
       DEF LoadFileLock, LoadCaptureData, GatherTraceStatsLock, Working, JobRuns, Workers
  <1>4. JobRuns'
    BY <1>1, <1>2, <1>3
       DEF JobRuns, JobFits, windowVars, managerVars, Succeeded, None
  <1>5. LockFollows' /\ writer' \in BOOLEAN
    <2>1. CASE LoadFileLock
      <3>1. worker'.at = "find"
        BY <1>1, <2>1 DEF LoadFileLock, JobRuns, Workers
      <3> QED BY <1>2, <2>1, <3>1 DEF ShownInv, LockFollows, LoadFileLock, Working, windowVars
    <2>2. CASE LoadCaptureData
      <3>1. worker.at = "find" /\ worker'.at = "load"
        BY <1>1, <2>2 DEF LoadCaptureData, JobRuns, Workers, Working
      <3>2. UNCHANGED <<readers, writer>>
        BY <2>2 DEF LoadCaptureData, lockVars
      <3> QED BY <1>2, <3>1, <3>2 DEF ShownInv, Typed, LockFollows, windowVars
    <2>3. CASE GatherTraceStatsLock
      <3>1. worker'.at = "gather"
        BY <1>1, <2>3 DEF GatherTraceStatsLock, JobRuns, Workers
      <3> QED BY <1>2, <2>3, <3>1
              DEF ShownInv, Typed, LockFollows, GatherTraceStatsLock, Working, windowVars
    <2> QED BY <2>1, <2>2, <2>3
  <1>6. data' \in Nat /\ (data' # data => ~m_capture_acquired)
    <2>1. data' = data \/ (data' = None /\ worker.job = "load")
      BY DEF LoadFileLock, LoadCaptureData, GatherTraceStatsLock, Working
    <2> QED BY <1>1, <2>1 DEF ShownInv, Typed, Captures, None, JobRuns, JobFits
  <1> QED BY <1>1, <1>2, <1>4, <1>5, <1>6, WorkerStepInv DEF OneJob

\* LoadFileImpl returns: the signal tells which capture the data core holds.
LEMMA LoadFileReturnsInv ==
  ASSUME ShownInv, NEW type \in Types, LoadFileReturns(type),
         worker.job = "load", worker.at \in {"find", "load"}, data' \in Nat,
         type \in FileType => data' = worker.of
  PROVE  ShownInv'
  <1>1. JobRuns /\ ~NoJob
    BY WhereTheJobIs DEF Job, JobRuns, NoJob
  <1>2. PICK of \in Nat : of = worker.of
    BY <1>1 DEF JobRuns, Workers, Captures
  <1> DEFINE done == [job |-> "load", of |-> of, type |-> type]
  <1>3. /\ events' = <<done>> /\ posted' = <<>> /\ worker' = Idle
        /\ UNCHANGED <<windowVars, managerVars, readers>> /\ writer' = FALSE
    BY <1>1, <1>2, OneElement DEF LoadFileReturns, JobRuns
  <1>4. done \in Signals /\ done.job = "load" /\ done.of = of /\ done.type = type
    BY DEF Signals, Job, Captures
  <1>5. ~m_capture_acquired /\ JobFits(done)'
    BY <1>1, <1>2, <1>3, <1>4
       DEF JobRuns, JobFits, windowVars, managerVars, None
  <1>6. JobDone(done)'
    BY <1>1, <1>2, <1>3, <1>4, <1>5 DEF JobDone, JobRuns, Succeeded, managerVars
  <1>7. LockFollows'
    BY <1>3 DEF ShownInv, LockFollows, Idle, windowVars
  <1>8. OneJob'
    BY <1>4, <1>6 DEF OneJob
  <1> QED BY <1>1, <1>3, <1>5, <1>7, <1>8, WorkerStepInv

LEMMA LoadingEndsInv ==
  ASSUME ShownInv, LoadFileNotFound \/ LoadFails \/ ParseSucceeds \/ ParseFails
  PROVE  ShownInv'
  <1>1. worker.job = "load" /\ worker.at \in {"find", "load"} /\ JobRuns
    BY WhereTheJobIs
       DEF LoadFileNotFound, LoadFails, ParseSucceeds, ParseFails, Working, Job
  <1>2. data \in Nat /\ None \in Nat /\ worker.of \in Nat
    BY <1>1 DEF ShownInv, Typed, Captures, None, JobRuns, Workers
  <1>3. "kUnknown" \in Types /\ "kUnknown" \notin FileType
    BY DEF Types, FileType
  <1>4. CASE LoadFileNotFound \/ LoadFails \/ ParseFails
    BY <1>1, <1>2, <1>3, <1>4, LoadFileReturnsInv
       DEF LoadFileNotFound, LoadFails, ParseFails
  <1>5. CASE ParseSucceeds
    <2>1. PICK type : type = worker.type
      OBVIOUS
    <2>2. type \in Types
      BY <1>1, <2>1 DEF JobRuns, Workers, Types
    <2> QED BY <1>1, <1>2, <1>5, <2>1, <2>2, LoadFileReturnsInv DEF ParseSucceeds
  <1> QED BY <1>4, <1>5

LEMMA GatherTraceStatsImplInv == ASSUME ShownInv, GatherTraceStatsImpl PROVE ShownInv'
  <1>1. JobRuns /\ ~NoJob /\ worker.job = "gather" /\ worker.at = "gather"
    BY WhereTheJobIs DEF GatherTraceStatsImpl, Working, Job, JobRuns, NoJob
  <1>2. PICK of \in Nat : of = worker.of
    BY <1>1 DEF JobRuns, Workers, Captures
  <1> DEFINE done == [job |-> "gather", of |-> of, type |-> "kUnknown"]
  <1>3. /\ events' = <<done>> /\ posted' = <<>> /\ worker' = Idle
        /\ m_capture_stats' \in {None, data}
        /\ readers' = readers \ {"worker"}
        /\ UNCHANGED <<windowVars, managerVars, writer, data>>
    BY <1>1, <1>2, OneElement DEF GatherTraceStatsImpl, JobRuns
  <1>4. done \in Signals /\ done.job = "gather"
    BY DEF Signals, Job, Captures, Types
  <1>5. JobFits(done)'
    BY <1>1, <1>3, <1>4
       DEF JobRuns, JobFits, windowVars, managerVars, None, Succeeded
  <1>6. JobDone(done)'
    BY <1>1, <1>3, <1>4, <1>5 DEF JobDone, JobRuns, managerVars, None
  <1>7. LockFollows'
    BY <1>1, <1>3 DEF ShownInv, LockFollows, Idle, windowVars
  <1>8. OneJob' /\ writer' \in BOOLEAN /\ data' \in Nat
    BY <1>3, <1>4, <1>6 DEF OneJob, ShownInv, Typed, Captures
  <1> QED BY <1>1, <1>3, <1>7, <1>8, WorkerStepInv

\* The window closes, and the process may die of it.
LEMMA ClosingInv ==
  ASSUME ShownInv, Close \/ WaitForThread \/ SendMessageCrashes
  PROVE  ShownInv'
  <1>1. ui' \in {"closing", "closed", "crashed"}
    BY DEF Close, WaitForThread, SendMessageCrashes
  <1>2. UNCHANGED <<m_capture_acquired, m_last_request, m_loading_pending_task,
                    m_capture_file, views, results, shownStats, loaded, managerVars,
                    m_capture_stats, posted, events, lockVars, worker, data>>
    BY DEF Close, WaitForThread, SendMessageCrashes
  <1> USE DEF ShownInv, managerVars, lockVars, None
  <1>3. OneJob'
    <2>1. \A job : JobFits(job) <=> JobFits(job)'
      BY <1>2 DEF JobFits, Succeeded
    <2>2. \A job : JobDone(job) => JobDone(job)'
      BY <1>2, <2>1 DEF JobDone, Succeeded
    <2>3. \A job : JobPosted(job) => JobPosted(job)'
      BY <1>2, <2>1 DEF JobPosted
    <2>4. JobRuns => JobRuns'
      BY <1>2, <2>1 DEF JobRuns
    <2> QED BY <1>2, <2>2, <2>3, <2>4 DEF OneJob, NoJob
  <1>4. LockFollows' /\ PendingIsLast' /\ ReleasedWindow' /\ BlockedInLoaded'
    BY <1>1, <1>2 DEF LockFollows, PendingIsLast, ReleasedWindow, BlockedInLoaded
  <1>5. LastRequestShown' /\ StatsOfShownCapture'
    BY <1>2 DEF LastRequestShown, StatsOfShownCapture, Succeeded
  <1>6. Typed'
    BY <1>1, <1>2 DEF Typed
  <1> QED BY <1>3, <1>4, <1>5, <1>6

-----------------------------------------------------------------------------

\* The invariant of the window, the lock and the worker: one job at a time, and
\* what its result is allowed to be.
THEOREM Invariance == Spec => []ShownInv
  <1>1. Init => ShownInv
    <2> SUFFICES ASSUME Init PROVE ShownInv
      OBVIOUS
    <2> USE DEF Init, None
    <2>1. Typed
      BY DEF Typed, Captures, Types
    <2>2. OneJob /\ LockFollows
      BY DEF OneJob, NoJob, LockFollows, Idle
    <2>3. PendingIsLast /\ ReleasedWindow /\ BlockedInLoaded
      BY DEF PendingIsLast, ReleasedWindow, BlockedInLoaded
    <2> QED BY <2>1, <2>2, <2>3 DEF ShownInv, LastRequestShown, StatsOfShownCapture
  <1>2. ShownInv /\ [Next]_vars => ShownInv'
    <2> SUFFICES ASSUME ShownInv, [Next]_vars PROVE ShownInv'
      OBVIOUS
    <2>1. CASE Next
      BY <2>1, LoadFileInv, OnLoadFileDoneInv, OnFileLoadedInv, OnGatherTraceStatsDoneInv,
         TakeTaskInv, RunningInv, LoadingEndsInv, GatherTraceStatsImplInv, ClosingInv
         DEF Next, Window, Worker
    <2>2. CASE UNCHANGED vars
      <3> USE <2>2 DEF vars, windowVars, managerVars, lockVars, None
      <3>1. \A job : JobFits(job) <=> JobFits(job)'
        BY DEF JobFits, Succeeded
      <3>2. OneJob'
        BY <3>1 DEF ShownInv, OneJob, NoJob, JobPosted, JobRuns, JobDone, Succeeded
      <3>3. Typed' /\ LockFollows' /\ PendingIsLast' /\ ReleasedWindow'
        BY DEF ShownInv, Typed, LockFollows, PendingIsLast, ReleasedWindow
      <3>4. BlockedInLoaded' /\ LastRequestShown' /\ StatsOfShownCapture'
        BY DEF ShownInv, BlockedInLoaded, NoJob, LastRequestShown, StatsOfShownCapture,
               Succeeded
      <3> QED BY <3>2, <3>3, <3>4 DEF ShownInv
    <2> QED BY <2>1, <2>2
  <1> QED BY <1>1, <1>2, PTL DEF Spec

\* Whatever is asked for while a load or the statistics are under way, what
\* OnFileLoaded gets and shows is the last request's, and the data core holds it.
THEOREM LastRequestShownHolds == Spec => []LastRequestShown
  <1>1. ShownInv => LastRequestShown
    BY DEF ShownInv
  <1> QED BY <1>1, Invariance, PTL

\* OnGatherTraceStatsDone never shows the statistics of a capture the window has
\* left.
THEOREM StatsOfShownCaptureHolds == Spec => []StatsOfShownCapture
  <1>1. ShownInv => StatsOfShownCapture
    BY DEF ShownInv
  <1> QED BY <1>1, Invariance, PTL

=============================================================================
