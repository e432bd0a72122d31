------------------------ MODULE CaptureFileManager ------------------------
(***************************************************************************)
(* How the main window loads capture files: MainWindow::LoadFile and       *)
(* OnFileLoaded on the user interface's thread, CaptureFileManager's       *)
(* requests and its worker thread, and the QReadWriteLock around the       *)
(* DataCore, which the window holds for reading as long as it displays a   *)
(* capture.                                                                *)
(*                                                                         *)
(* A slot runs to its end on the event loop, so a slot is one step, but    *)
(* for OnFileLoaded, which may block in lockForRead.  The worker and the   *)
(* window send each other events.  Requests are numbered: the same path    *)
(* may be opened twice, with another content (OnCaptureUpdated).           *)
(***************************************************************************)
EXTENDS Naturals, Sequences

CONSTANT MaxLoads   \* bound: calls of LoadFile

ASSUME MaxLoadsAssumption == MaxLoads \in Nat

None     == 0                              \* no request; a data core without a complete capture
Request  == 1 .. MaxLoads
FileType == {"kRdFile", "kGfxrFile", "kCorrelatedFiles"}

VARIABLES
  \* MainWindow
  ui,                     \* "loop", or where its thread blocks or ends
  enabled,                \* the window accepts input
  m_capture_acquired,
  m_last_request,
  m_loading_pending_task, \* whose timings and screenshot wait to be shown
  m_capture_file,         \* the file named in the window
  views,                  \* the capture the models were built from
  results,                \* the request whose timings and screenshot are shown
  shownStats,             \* the capture whose statistics are shown
  loaded,                 \* the last result that reached OnFileLoaded
  \* CaptureFileManager
  m_working,
  m_pending_request,
  m_capture_file_context, \* the context of the last LoadFile ...
  cancelled,              \* ... and the contexts cancelled so far
  m_capture_stats,        \* the capture described by the worker's statistics
  \* between the threads
  posted,                 \* invokeMethod calls the worker has not begun
  events,                 \* signals of the worker the window has not seen
  readers, writer,        \* m_data_core_lock
  \* the worker thread
  worker,                 \* what it does, and for which request or context
  data                    \* the capture in the DataCore's command hierarchy

windowVars  == <<ui, enabled, m_capture_acquired, m_last_request,
                 m_loading_pending_task, m_capture_file, views, results,
                 shownStats, loaded>>
managerVars == <<m_working, m_pending_request, m_capture_file_context, cancelled>>
lockVars    == <<readers, writer>>
vars == <<windowVars, managerVars, m_capture_stats, posted, events, lockVars,
          worker, data>>

Task(job, of) == [job |-> job, of |-> of]
Idle == [job |-> "none", of |-> None, at |-> "idle", type |-> "kUnknown"]

\* The window acquires the lock for reading in its constructor.
Init ==
  /\ ui = "loop"
  /\ enabled = TRUE
  /\ m_capture_acquired = TRUE
  /\ m_last_request = None
  /\ m_loading_pending_task = None
  /\ m_capture_file = None
  /\ views = None
  /\ results = None
  /\ shownStats = None
  /\ loaded = [of |-> None, type |-> "kUnknown"]
  /\ m_working = FALSE
  /\ m_pending_request = None
  /\ m_capture_file_context = None
  /\ cancelled = {}
  /\ m_capture_stats = None
  /\ posted = <<>>
  /\ events = <<>>
  /\ readers = {"window"}
  /\ writer = FALSE
  /\ worker = Idle
  /\ data = None

-----------------------------------------------------------------------------
(* CaptureFileManager, on the window's thread *)

\* StartLoadFile, with m_pending_request and m_working as the caller left them.
StartLoadFile(pending, working) ==
  IF working \/ pending = None
    THEN /\ m_pending_request' = pending
         /\ m_working' = working
         /\ UNCHANGED posted
    ELSE /\ m_pending_request' = None
         /\ m_working' = TRUE
         /\ posted' = Append(posted, Task("load", pending))

GatherTraceStats ==
  /\ m_working' = TRUE
  /\ posted' = IF m_working THEN posted
               ELSE Append(posted, Task("gather", m_capture_file_context))
  /\ UNCHANGED m_pending_request

-----------------------------------------------------------------------------
(* MainWindow *)

\* Mutant: the window keeps the lock while the capture is replaced.
ReleaseCapture_KeepsLock ==
  IF m_capture_acquired
    THEN enabled' = FALSE /\ shownStats' = None /\ results' = None /\ UNCHANGED readers
    ELSE UNCHANGED <<enabled, readers, shownStats, results>>

\* What is shown of the old capture goes, and the lock with it.
ReleaseCapture ==
  IF m_capture_acquired
    THEN /\ enabled' = FALSE
         /\ readers' = readers \ {"window"}
         /\ shownStats' = None
         /\ results' = None
    ELSE UNCHANGED <<enabled, readers, shownStats, results>>

\* LoadFile, called when the user opens a file, when the trace dialog has a
\* capture (OnTraceAvailable) and when an analysis has replaced the files of
\* one (OnCaptureUpdated).  The dialogs are windows of their own and stay
\* enabled during a load.
LoadFile ==
  /\ ui = "loop" /\ m_last_request < MaxLoads
  /\ ReleaseCapture
  /\ m_capture_acquired' = FALSE
  /\ m_last_request' = m_last_request + 1
  /\ cancelled' = cancelled \cup {m_capture_file_context}
  /\ m_capture_file_context' = m_last_request'
  /\ StartLoadFile(m_last_request', m_working)
  /\ m_loading_pending_task' = m_last_request'
  /\ UNCHANGED <<ui, m_capture_file, views, loaded, m_capture_stats, events,
                 writer, worker, data>>

NextEvent(job) == events # <<>> /\ Head(events).job = job /\ events' = Tail(events)

\* Mutant: the result of an overtaken request is shown.
OnLoadFileDone_KeepsOvertaken ==
  /\ ui = "loop" /\ NextEvent("load")
  /\ StartLoadFile(m_pending_request, FALSE)
  /\ ui' = "lockForRead"
  /\ loaded' = [of |-> Head(events).of, type |-> Head(events).type]
  /\ UNCHANGED <<enabled, m_capture_acquired, m_last_request,
                 m_loading_pending_task, m_capture_file, views, results,
                 shownStats, m_capture_file_context, cancelled,
                 m_capture_stats, lockVars, worker, data>>

\* A result is discarded when another file has been asked for meanwhile.
OnLoadFileDone ==
  /\ ui = "loop" /\ NextEvent("load")
  /\ StartLoadFile(m_pending_request, FALSE)
  /\ IF m_pending_request # None
       THEN UNCHANGED <<ui, loaded>>
       ELSE /\ ui' = "lockForRead"
            /\ loaded' = [of |-> Head(events).of, type |-> Head(events).type]
  /\ UNCHANGED <<enabled, m_capture_acquired, m_last_request,
                 m_loading_pending_task, m_capture_file, views, results,
                 shownStats, m_capture_file_context, cancelled,
                 m_capture_stats, lockVars, worker, data>>

\* A writer that waits keeps new readers out.
CanRead == ~writer /\ ~(worker.job = "load" /\ worker.at = "lock")

Succeeded(result) == result.type \in FileType

\* OnFileLoaded once it has the lock: the tasks that waited run, the models are
\* rebuilt from the data core, and statistics are started for captures with PM4.
OnFileLoaded ==
  /\ ui = "lockForRead" /\ CanRead
  /\ ui' = "loop"
  /\ readers' = readers \cup {"window"}
  /\ m_capture_acquired' = TRUE
  /\ enabled' = TRUE
  /\ m_loading_pending_task' = None
  /\ IF Succeeded(loaded)
       THEN /\ results' = m_loading_pending_task
            /\ views' = data
            /\ m_capture_file' = m_last_request
       ELSE UNCHANGED <<results, views, m_capture_file>>
  /\ IF loaded.type \in {"kRdFile", "kCorrelatedFiles"}
       THEN GatherTraceStats /\ shownStats' = None
       ELSE UNCHANGED <<m_working, m_pending_request, posted, shownStats>>
  /\ UNCHANGED <<m_last_request, loaded, m_capture_file_context, cancelled,
                 m_capture_stats, events, writer, worker, data>>

\* Mutant: the statistics are shown although another file is wanted.
OnGatherTraceStatsDone_ShowsAlways ==
  /\ ui = "loop" /\ NextEvent("gather")
  /\ StartLoadFile(m_pending_request, FALSE)
  /\ shownStats' = m_capture_stats
  /\ UNCHANGED <<ui, enabled, m_capture_acquired, m_last_request,
                 m_loading_pending_task, m_capture_file, views, results,
                 loaded, m_capture_file_context, cancelled, m_capture_stats,
                 lockVars, worker, data>>

\* OnGatherTraceStatsDone, and OnTraceStatsUpdated when no file is wanted.
OnGatherTraceStatsDone ==
  /\ ui = "loop" /\ NextEvent("gather")
  /\ StartLoadFile(m_pending_request, FALSE)
  /\ shownStats' = IF m_pending_request = None THEN m_capture_stats ELSE shownStats
  /\ UNCHANGED <<ui, enabled, m_capture_acquired, m_last_request,
                 m_loading_pending_task, m_capture_file, views, results,
                 loaded, m_capture_file_context, cancelled, m_capture_stats,
                 lockVars, worker, data>>

\* The window is destroyed: first its members, with the progress tracker that
\* the data core still points to, then its child, the manager.
Close ==
  /\ ui = "loop"
  /\ ui' = "closing"
  /\ UNCHANGED <<enabled, m_capture_acquired, m_last_request,
                 m_loading_pending_task, m_capture_file, views, results,
                 shownStats, loaded, managerVars, m_capture_stats, posted,
                 events, lockVars, worker, data>>

\* ~CaptureFileManager: quit and wait.  A call that is still posted may be
\* dropped.
WaitForThread ==
  /\ ui = "closing" /\ worker.at = "idle"
  /\ ui' = "closed"
  /\ UNCHANGED <<enabled, m_capture_acquired, m_last_request,
                 m_loading_pending_task, m_capture_file, views, results,
                 shownStats, loaded, managerVars, m_capture_stats, posted,
                 events, lockVars, worker, data>>

-----------------------------------------------------------------------------
(* The worker thread *)

TakeTask ==
  /\ ui \in {"loop", "lockForRead", "closing"}
  /\ worker.at = "idle" /\ posted # <<>>
  /\ posted' = Tail(posted)
  /\ worker' = [job |-> Head(posted).job, of |-> Head(posted).of,
                at |-> "lock", type |-> "kUnknown"]
  /\ UNCHANGED <<windowVars, managerVars, m_capture_stats, events, lockVars, data>>

Working(job, at) == worker.job = job /\ worker.at = at /\ ui # "crashed"

LoadFileLock ==
  /\ Working("load", "lock") /\ readers = {} /\ ~writer
  /\ writer' = TRUE
  /\ worker' = [worker EXCEPT !.at = "find"]
  /\ UNCHANGED <<windowVars, managerVars, m_capture_stats, posted, events,
                 readers, data>>

\* The end of LoadFileImpl: the lock is released and LoadFileDone emitted.
LoadFileReturns(type) ==
  /\ writer' = FALSE
  /\ events' = Append(events, [job |-> "load", of |-> worker.of, type |-> type])
  /\ worker' = Idle
  /\ UNCHANGED <<windowVars, managerVars, m_capture_stats, posted, readers>>

\* Mutant: the lock is not released when the file is missing.
LoadFileNotFound_KeepsLock ==
  /\ Working("load", "find")
  /\ events' = Append(events, [job |-> "load", of |-> worker.of, type |-> "kUnknown"])
  /\ worker' = Idle
  /\ UNCHANGED <<windowVars, managerVars, m_capture_stats, posted, lockVars, data>>

\* No such file, no asset file or an unsupported type: nothing is loaded.
LoadFileNotFound ==
  /\ Working("load", "find")
  /\ LoadFileReturns("kUnknown")
  /\ UNCHANGED data

\* LoadPm4CaptureData and LoadDiveCaptureData replace the metadata by an empty
\* one, LoadGfxrCaptureData does not.  data is the capture in the command hierarchy
\* only: the events and shaders of an earlier PM4 capture stay in the metadata when
\* a GFXR file is loaded alone (data_core.cpp:55-59).
LoadCaptureData ==
  /\ Working("load", "find")
  /\ \E type \in FileType :
       /\ worker' = [worker EXCEPT !.at = "load", !.type = type]
       /\ data' = IF type = "kGfxrFile" THEN data ELSE None
  /\ UNCHANGED <<windowVars, managerVars, m_capture_stats, posted, events, lockVars>>

LoadFails ==
  /\ Working("load", "load")
  /\ LoadFileReturns("kUnknown")
  /\ UNCHANGED data

\* Parse*CaptureData builds the metadata and the command hierarchy.
ParseSucceeds ==
  /\ Working("load", "load")
  /\ LoadFileReturns(worker.type)
  /\ data' = worker.of

ParseFails ==
  /\ Working("load", "load")
  /\ LoadFileReturns("kUnknown")
  /\ data' = None

\* Loading and parsing report to the progress tracker, which a window that is
\* being closed has destroyed.
SendMessageCrashes ==
  /\ Working("load", "load") /\ ui = "closing"
  /\ ui' = "crashed"
  /\ UNCHANGED <<enabled, m_capture_acquired, m_last_request,
                 m_loading_pending_task, m_capture_file, views, results,
                 shownStats, loaded, managerVars, m_capture_stats, posted,
                 events, lockVars, worker, data>>

GatherTraceStatsLock ==
  /\ Working("gather", "lock") /\ ~writer
  /\ readers' = readers \cup {"worker"}
  /\ worker' = [worker EXCEPT !.at = "gather"]
  /\ UNCHANGED <<windowVars, managerVars, m_capture_stats, posted, events,
                 writer, data>>

\* A cancelled context empties the statistics, unless they are finished first.
GatherTraceStatsImpl ==
  /\ Working("gather", "gather")
  /\ m_capture_stats' \in (IF worker.of \in cancelled THEN {None, data} ELSE {data})
  /\ readers' = readers \ {"worker"}
  /\ events' = Append(events, [job |-> "gather", of |-> worker.of, type |-> "kUnknown"])
  /\ worker' = Idle
  /\ UNCHANGED <<windowVars, managerVars, posted, writer, data>>

-----------------------------------------------------------------------------

Window ==
  \/ OnLoadFileDone
  \/ OnFileLoaded
  \/ OnGatherTraceStatsDone
  \/ WaitForThread

Worker ==
  \/ TakeTask
  \/ LoadFileLock
  \/ LoadFileNotFound
  \/ LoadCaptureData
  \/ LoadFails
  \/ ParseSucceeds
  \/ ParseFails
  \/ SendMessageCrashes
  \/ GatherTraceStatsLock
  \/ GatherTraceStatsImpl

Next == LoadFile \/ Close \/ Window \/ Worker

Spec == Init /\ [][Next]_vars

(***************************************************************************)
(* The event loop of each thread runs what is posted to it, and loading a  *)
(* file and gathering statistics end.  Nobody has to open a file or close  *)
(* the window.                                                             *)
(***************************************************************************)
FairSpec == Spec /\ WF_vars(Window) /\ WF_vars(Worker)

-----------------------------------------------------------------------------
(* Properties *)

\* Whatever is opened while another load or the statistics are under way, the
\* result that reaches OnFileLoaded is the one of the last request, and after a
\* success the window's name, its models, its timings and the command hierarchy of
\* the data core are all of that request (m_last_request is read when the load is over,
\* main_window.cpp:1165).
LastRequestShown ==
  m_capture_acquired /\ m_last_request # None =>
    /\ loaded.of = m_last_request
    /\ Succeeded(loaded) =>
         /\ data = m_last_request
         /\ views = m_last_request
         /\ m_capture_file = m_last_request
         /\ results = m_last_request

\* Statistics are shown for the capture that is shown: the ones of a capture
\* that was left while they were gathered never reach the overview.
StatsOfShownCapture ==
  shownStats # None => m_capture_acquired /\ shownStats = views /\ shownStats = data

\* A window that was disabled for a load is enabled again: the worker gets the
\* lock for writing and the window gets it back, however many files are asked
\* for.
WindowComesBack == ~enabled ~> enabled \/ ui \in {"closing", "closed", "crashed"}

\* Closing the window does not wait for ever for a worker that waits for the
\* lock which the window holds.
CloseTerminates == ui = "closing" ~> ui \in {"closed", "crashed"}

=============================================================================
