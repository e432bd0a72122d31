# A TLA+ verification of Dive

Dive profiles Android graphics applications.  A *host* tool installs layers
on a device, a *service* and *layers* run inside the traced application, and
the host asks them over a socket for captures and timings, which it then
downloads and displays.  What makes it hard to test is that the application's
own threads, the service's threads and the host's threads meet in a few small
classes; these modules model those classes, TLC checks them on small
instances, and TLAPS proves the most important invariants for all instances.

Source paths are relative to `src/`.

## Inventory

| component | code | state it keeps | operations | module |
|---|---|---|---|---|
| PM4 trace manager | `capture_service/android_trace_mgr.cc`, `trace_mgr.cc`, `service.cc`, `third_party/freedreno/wrap/dive-wrap.c` | `m_state`, three frame numbers, the file path; libwrap's `capture_state`, `TESTNAME`/`TESTNUM` | TriggerTrace, TraceByFrame, TraceByDuration, OnNewFrame, WaitForTraceDone, SetCaptureState, SetCaptureName | `CaptureService`, `TraceManager` |
| Unix domain server | `network/unix_domain_server.cc` | `m_is_running`, listen and client connection, the server thread | Start, Wait, Stop, AcceptAndHandleClientLoop | `UnixDomainServer` |
| Runtime layer | `runtime_layer/` | LayerManager's thread and server; filters, frame boundary tasks, draw counter, registries, thread-local maps | construction, destruction, the message handler, the Vulkan hooks | `LayerManager`, `RuntimeLayer` |
| Frame boundary detector | `gpu_time/frame_boundary_detector.cpp` | the tracked buffers and their flags | allocate, free, reset, MarkBoundary, ContainsFrameBoundary | `FrameBoundaryDetector` |
| TCP client | `network/tcp_client.cc` | `m_status`, `m_connection`, `m_connection_mutex`, the keep-alive thread | Connect, Disconnect, requests, DownloadFile, the keep-alive loop | `TcpClient` |
| Messages and sockets | `network/messages.cc`, `message_utils.cc`, `socket_connection.cc`, `base_message_handler.cc` | one socket | Send, Recv, Close, the message handlers | what they do to their callers, in `TcpClient` and `UnixDomainServer` |
| GPU time | `gpu_time/gpu_time.cpp`, hooks of `runtime_layer/vk_rt_layer_impl.cc` | the slot allocator, `m_cmds`, `m_frame_cmds`, `m_valid_frame` | the Vulkan hooks for command buffers, pools, render passes, submits, presents | `GpuTime` |
| GPU frame metrics | `FrameMetrics` in `gpu_time/gpu_time.cpp` | the deques of the last frames, the counts of render passes | AddFrameData, Reset | `FrameMetrics` |
| Device manager and applications | `capture_service/device_mgr.cc`, `android_application.cc`, `dive_client_cli.cc`, the dialogs of `ui/` | settings, files and properties on a device; `m_original_state`, the port, `m_app` | set up, start, stop, replay, clean up | `AdbScript`, `AndroidApplication`, `DeviceManager`, `DiveClients` |
| Data core | `dive_core/common/emulate_pm4.cpp`, `command_hierarchy.cpp` | the emulator's stack and queues of indirect buffers; nodes, topologies, masks | ExecuteSubmit, the callbacks of `CommandHierarchyCreator` | `EmulatePM4`, `CommandHierarchy` |
| Capture file manager, main window | `ui/capture_file_manager.cpp`, `ui/main_window.cpp`, `dive_core/data_core.cpp` | the pending request, the contexts, the worker, the data core's lock | LoadFile, OnLoadFileDone, OnFileLoaded, GatherTraceStats, closing | `CaptureFileManager` |
| Dump resources builder, capture layers, replay extensions, register tables, other user interface, command line tools, support libraries | | | | not modelled, see below |

How they interact.  `TcpClient` on the host is the only client of
`UnixDomainServer` in the application (adb forwards the port).  The server
thread executes the message handler, and for a `Pm4CaptureRequest` that is
`StartPm4Capture`, which blocks in `WaitForTraceDone` until the application's
presenting threads have called `OnNewFrame` often enough.  In the runtime layer
the handler leaves a filter for the next frame boundary; the application's threads
run the frame boundary tasks and the filter in their hooks, and the same hooks
call `GPUTime`, which hands each finished frame to `FrameMetrics`.  The device
manager prepares the device for all of this and takes it back.  A capture
that was downloaded is loaded by a worker thread, which runs the emulator and builds
the command hierarchy, while the window stays usable.

What is hard here:

- **unsynchronised state**: `m_frame_num` is incremented by the presenting
  threads and read by the server thread without a lock; the connections of the
  server are used by its thread while `Stop` destroys them; `m_server` is assigned
  by one thread and read by the destructor on another;
- **a lock released in the middle**: `OnQueueSubmit` releases `m_mutex` while the
  device becomes idle, and decides about the frame afterwards; frame boundary tasks
  are taken under a lock and run without it;
- **one connection, two users**: requests and pings share a stream in which only
  the order says which answer belongs to which question;
- **timeouts and late answers**: a ping gives up after five seconds, a request
  never does; a load or its statistics end after the user has asked for another file;
- **state that outlives its object**: thread-local maps keyed by handles that are
  reused, flags that survive an implicit reset;
- **partial failure**: any adb command of a session may fail and the host may crash,
  and the device remembers;
- **limits**: query slots run out, frame counters wrap, the window of frames, the
  stack and the queues of indirect buffers are full;
- **waiting**: `Await` without a timeout, `join`, a condition variable notified
  without its mutex, a lock held as long as a capture is shown.

The hazards of `PROJECT.json` give each of these its line of code and its
properties.

## Modules

Each component has a specification module (constants, variables, `Init`, one
action per operation or per section between two points at which another thread
may run, `Next`, `Spec`, `FairSpec`, properties), an `MC` module that gives the
model values for TLC, and `.cfg` files.  `FrameMetrics`, which shares a proof module with
`GpuTime`, prefixes those names (`MetricsSpec`).  Theorems are in `*_proofs`.  A definition
whose name ends in an underscore and a word (`StopJoin_Detach`) is a plausible bug;
`PROJECT.json` pairs it with the property it must violate.

### TraceManager

`pc` is the server thread in `StartPm4Capture`; `framePc` is each presenting thread
in `OnNewFrame`.  A section under `m_state_lock` is one step.  `m_frame_num++` is a
load (`OnNewFrameLoad`) and a store, because the variable is neither atomic nor locked
at that point; and each read of it by the server thread is a step.  In
`TraceByFrame` the number for libwrap and the number in `full_path` are two reads of
a plain variable: a build may reuse the first or load again, so the model does
either.  libwrap's `SetCaptureState(0)` writes the file that `TESTNAME` and
`TESTNUM` name *at that moment*; `collected` is the set of files written for the
request.  The format `%04u` is used identically by both sides and is injective, so a
file name is the pair (prefix, number).  `UIntMod` is 2^32 in the code.

The history variables `begun`, `framesRecorded`, `byFrame` and `collected` serve the
properties only and are reset with each request.

`CaptureService` is what the service promises its host, without frames, threads and
counters: a request gets one name before anything is recorded for it, recordings are
made only while a request is served, and the answer comes when a file of that
name is written and nothing is recorded any more.  `ImplementsCaptureService` maps
`TraceManager` to it: `pc` gives the request, libwrap's state and names the rest.

### UnixDomainServer and LayerManager

Three threads: the owner (`Start`, `Wait`), the server thread
(`AcceptAndHandleClientLoop`), and the one that calls `Stop`.  `m_is_running` is atomic
and `m_client_mutex` covers single statements, so every statement that touches shared
state is a step.  `Stop` destroys connections which the server thread may be using;
a step of the server thread on a destroyed object may fail or crash
(`UseAfterReset`, `crashed`).  `Wait` tests and blocks in two steps with respect to
`notify_one`, which is called without `m_wait_mutex`.  Clients connect, send
well-formed or malformed messages, and hang up.

`LayerManager` extends it with the class that owns the server in the application.  The
owner is the thread of the static `LayerManager`: it polls `m_is_ready`, makes the
server, starts it and waits.  The destructor runs at any moment: its read of
`m_server` races with the assignment, so as long as the thread has not got past
the assignment either outcome is possible (`ExitCheck`).  `overtaken` records that the
destructor began before `Start` had returned.  Then everything can go wrong that the
code leaves open (an exit that hangs because the layer never becomes ready or because
`Start` runs after `Stop`; an `OnDisconnect` that is lost), and the properties say
which promises survive it: no callback reaches a destroyed handler.

### FrameBoundaryDetector and RuntimeLayer

`FrameBoundaryDetector` is the class, one section under its mutex per operator.
`RuntimeLayer` composes it with the hooks that call it, the registries of pipelines and
render passes, the filter and the limit of draw calls.  A configuration is its number
in `Requests`, the sequence the host asks for.  `ProcessFrameBoundaryTasks` is one
step per section: the pending configuration, the counter, the exchange of the task
list under its lock, each task.  A draw without a filter tests the limit and then does
its `fetch_add`, and another thread may end the frame in between.  The thread-local maps
are functions of the thread; a map takes a buffer that it does not contain to false, so
the set of buffers that are true is all that matters.  `blends` and `inPass` are
what the application really recorded, against which the maps are compared.  The
application obeys Vulkan's rule that a buffer is recorded by one thread at a time, from
begin to end, but another thread may reset it, free it, or record it next.
`CmdBeginRenderPass` reads the active filter several times without a lock
(`vk_rt_layer_impl.cc:805-811`, `1036-1070`); the model reads it once, and no property
depends on the difference.

### TcpClient

The user's thread and the keep-alive thread; the server is external: it answers
in order, may fall silent, and may close.  `toServer` and `toClient` are the two
directions of the stream; a message is its kind, and a file follows its response as
one item.  `connMutex` is `m_connection_mutex`.  A failing send or receive closes the
socket and sets the status as `SetStatusAndReturnError` and `SocketConnection` do.  `PingTimeout`
is the five seconds of `PingServer`.  `Unhandled` are the requests the handler at the
other end does not know (`base_message_handler.cc:107`): it sends no response.

### GpuTime

`used` and `m_cur` are `TimeStampSlotAllocator`; `cached` is the key set of `m_cmds`,
and the record's fields are functions.  A section under `m_mutex` is one step;
`OnQueueSubmit` is three (`QueueSubmit`: the driver's call and the question to the
boundary detector; `OnQueueSubmit`: the section that records the buffers;
`OnQueueSubmitBoundary`: the section after the device became idle).  The hook runs
after the driver's `vkQueueSubmit`, so the application may reset, re-record or free a
buffer before the hook looks it up: `rec` and `allocated` are what the application
has done, `batch` what it has submitted.  `reported` is the history of the frame: the
buffers that `OnQueueSubmit` was told of since the last boundary, without those that were
reset or freed since.  The boundary detector's answer is any
Boolean.  An index outside its array (`FreeSlots` with `kInvalidIndex`, an odd list of
slots in `UpdateFrameMetrics`) is a choice between going on and `crashed`.  Timestamps
themselves are not modelled.

### FrameMetrics

`AddFrameData` with the shape of a frame (render passes per command buffer); a deque
is the sequence of the numbers of the frames whose measurement it holds.
`EveryPassAttributed` is about totals, as the code's test for a change of shape is: the counts
that are printed are of as many buffers as are measured, and add up to the passes
measured.  The count of a single buffer may be an older frame's.

### AdbScript, AndroidApplication, DeviceManager, DiveClients

A session on the host is a sequence of adb commands, each of which may fail.
`AdbScript` gives the rules under which such a program runs: an error ends the function
and its callers up to one that ignores it, and an `absl::Cleanup` runs however its
scope is left.  A call is one instruction until it is executed; then `Enter` puts the
body of the function and an `End` in its place.  So every `End` in `todo` belongs to a
function that has been entered, and the next landing in `todo`, which is where `Unwind`
goes, is the last armed cleanup or the end of the function that runs: an error before a
call whose result is ignored leaves the function and does not reach that call.  `End`
knows whether its caller drops the error, and whether an error was being returned when a
cleanup made the call.  `AndroidApplication` and `DeviceManager` are the scripts themselves,
one operator per method; `DiveClients` is the callers, that is the commands of the
command line client and the capture, what-if and replay dialogs, one session after the
other.  What a command leaves on the device is a *mark* in the set `device`: a
property, a pushed library, a forwarded port, SELinux being permissive, the running
process.  A command that depends on something (root, a file to delete) names the marks
it needs, and fails without them.  A fault is a command that fails, with or without
having had its effect, or a crash of the host, which loses the objects and keeps
the marks.  A port that another program uses (`PortBusy`) is not a fault: the code
tries the next one.

The dialogs share one device object; `job.shows` is what the capture or the what-if dialog
offers: to start the application, to stop it, or, in the capture dialog, to retrieve a
GFXR capture that is in process, during which the dialog refuses to stop the application
and to be closed (`GfxrCaptureInProcess`).  An application that ends by itself leaves the
button as it is, until the next click notices.

`DeviceLeftClean` says of a session without a fault that no device-wide mark is left,
whatever crashed sessions before it left, and names what the code does leave: a forward
on a port after the first, the bounds of the GPU clock after a replay that pinned it, and
the frame delimiter of an earlier session, which only root can reset.  `ReplayUndone` is
about the return from a replay, in the command line client and the replay dialog,
whichever command failed: only what is left to `CleanupDevice`, the bounds of the clock
and, when `PinGpuClock` itself failed, the lock of the clock may remain.  It is not said of
a replay in which the command that takes a setting back has failed, or one whose
failure was reported although the device had executed it (`misled`).

### EmulatePM4 and CommandHierarchy

`EmulatePM4` is the emulator: a stack of indirect buffers (IBs), a queue of pending
ones at each level, one action per packet, call, chain, return and submit.  A packet is
a record with the fields that steer the emulation; the encoding is not modelled.
`IsValid` is the memory manager's test of the whole range of an IB; an IB that fails it is
entered as skipped and left without a packet.  Where the code asserts something of the
capture (a `CP_START_BIN` has its `CP_END_BIN`) the model does not go on, and what the
assertions of the code say about the code itself is stated as properties:
`ReadsCaptured` is the `DIVE_VERIFY` on each read of a packet, `IbStacksAgree` the
assertions at the head of `OnIbEnd`, `TopologiesWellFormed` those of `AddChildren`.
`CommandHierarchy` is the creator: each callback is an operator from its state to its
next state, and the actions at the end let the emulator call them in the order in
which the code does.  Nodes are numbered in the order of `AddNode`.  At the end of a
submit its IBs are sorted by their index with `std::sort`, which need not keep the order
of equal ones: the model takes any sorted order.
`MCCommandHierarchy` builds the captures, and writes down the order of execution that
the emulator must produce as a recursive expansion of the buffers (`ExecutionOrder`), an
independent definition without stack and queues.

### CaptureFileManager

The window's thread and the worker's thread, the events posted between them, and the
lock of the data core, which the window holds for reading as long as it shows a
capture.  A slot runs to its end, so it is one step, except `OnFileLoaded`, which may
block in `lockForRead`.  Requests are numbered; a capture is the number of the request
that loaded it, so that a stale result is visible.  A load may not find the file, may
fail before or after the data core was overwritten, or succeed, with any of the three
file types.  `data` is the capture in the command hierarchy; the events and shaders that an
earlier PM4 capture left in the metadata stay when a GFXR file is loaded alone
(`data_core.cpp:55-59`), and no property is about them.

## Runs

| run | instance | shows | result |
|---|---|---|---|
| `trace_manager_frames` | 1 thread, counters modulo 5, 2 frames per trace | `ByFrameRecordsExactly` across the wrap of the counters; `EveryRequestAnswered` | pass |
| `trace_manager_race` | 2 threads, modulo 4, 1 frame | `RecordingOnlyForRequest`, `ReplyFollowsOwnRecording` and the refinement `ImplementsCaptureService`, with lost and stale increments | pass |
| `layer_manager` | 2 clients | one client at a time, the handler's calls in turns and none after the destruction; an exit during `Wait` ends | pass |
| `layer_manager_wait` | the same | `WaitUntilStopped` | violated |
| `runtime_layer` | 2 threads of which 1 presents; 1 buffer, pipeline and render pass; 2 filters | only matching draws are dropped; the limit of draws per frame is kept; a requested filter, or a newer one, becomes active | pass |
| `tcp_client` | a known request, an unknown one, a download | answers are not mixed up, the connection is not replaced under the keep-alive thread, the status stays `DISCONNECTED` after `Disconnect`; `Disconnect` and requests return; an idle client notices a dead server | pass |
| `gpu_time` | 2 buffers, 1 pool, 2 threads, 4 slots | slots are exclusive and not lost, the frame's buffers are cached, a frame that will be measured lists what was reported in it | pass |
| `frame_metrics` | limit 2, 5 frames, 2 buffers, 2 passes | the deques cover the same frames, the printed counts fit what is measured | pass |
| `device_manager` | seven commands and dialogs (`run` is the beginning of `pm4_capture`), 2 ports, 1 fault anywhere | the device and the application's package are clean after a session without a fault, whatever the sessions before it left, and a replay has undone its settings, with the exceptions that the properties name | pass |
| `device_manager_root` | `gfxr_capture`, no fault | `OriginalStateRestored` | violated |
| `command_hierarchy` | the captures of `MCCommandHierarchy` | order of execution, reads inside the captured memory, stacks of IBs in step, ranges of IBs and events, parents of shared nodes, registers per pass, trees without cycles | pass |
| `capture_file_manager` | 4 requests | the last request is shown, with its own statistics; the window is enabled again; closing it ends | pass |

Why the bounds are enough to be interesting:

- `TraceManager`: a request sees the counter wrap (`UIntMod` 5 with traces of 2
  frames), nothing bounds the number of requests, and two threads suffice to lose an
  increment.  `FrameThreads`, `UIntMod` and `NumFrameToTrace` are constants of
  the theorems.
- `LayerManager`: two clients, so that one waits in the backlog while the other is
  served; each may come back after it was disconnected, without bound.  One unread
  message per client is kept.
- `RuntimeLayer`: two threads take turns at recording, resetting and freeing the same
  handle, and race on the counter; the two filters use every criterion between them, one
  has a limit, and both can arrive in one frame.  The counter saturates at `CountBound`,
  a constant above every limit (`CountBoundAssumption`), where it no longer makes a
  difference.  There is one presenting thread,
  because with two a filter can be lost (see below).
- `TcpClient`: neither the number of calls, nor of pings, nor of reconnections is
  bounded; the queues stay short because `EachRequestStartsClean` holds.
- `GpuTime`: two buffers need four slots and their render passes two each, so that
  the four slots are exhausted both by allocations and by render passes.
  `MaxFrameCmds`, `MaxBatch` and `MaxRenderPasses` bound the frame, the submit
  and the recording; two threads that are between the sections still overlap.
  Buffers and threads are symmetric: no property, constant or action tells them
  apart, and no liveness is checked.
- `FrameMetrics`: five frames fill a window of two, drop from it, and change shape
  before and after.
- `DiveClients`: any number of sessions of any program follow each other, and one fault
  hits any command of any of them; the first session after it is the one that must
  clean up.  `MaxRounds` bounds the captures in one session.  The command line client starts
  all four kinds of application.  The dialogs start OpenXR ones (`Shown`): it is the kind
  that needs root to be set up and cleaned up, and the scripts of the other kinds are
  the same ones as under the command line client.  All replays but GPU timing, which
  runs the commands of a normal one and one more, and both options are included.
- `CommandHierarchy`: two IBs of the ring with up to two packets each out of all kinds,
  callees that call, chain, set draw states and run draw tables themselves, also below a
  draw state or a draw table, and sequences of up to four draws, registers and markers; five levels and queues of four, which three draw tables in a
  row overflow.  The code has larger limits and the same control.
- `CaptureFileManager`: four requests: one shown, one under way, one pending, one that
  replaces it.

`CHECK_DEADLOCK FALSE` where the system may stop: a server that was stopped or
crashed, a process that crashed in `GpuTime`, the last frame in `FrameMetrics`, a window
that was closed.

### Fairness

- `TraceManager`: weak fairness for the server thread's steps and for `OnNewFrame` of
  each thread.  `WaitForTraceDone` is written for an application that keeps
  presenting (`android_trace_mgr.cc:120` says that a timeout is still missing);
  without it no request need be answered.  Nothing makes the host send a request.
- `LayerManager`: weak fairness for each thread, and for a connected client to send or
  hang up.  The latter is needed because a client installed after `Stop` has reset
  `m_client_connection` is not closed by `Stop`, and the server thread waits for it;
  `TcpClient` sends a handshake and a ping every two seconds.  A blocked `Accept` or
  `Recv` on a connection that `Stop` closes does wake, since `Close` shuts the socket
  down.  Nothing makes the process exit, a client connect, or `Wait` wake up by itself.
- `RuntimeLayer`: a hook that was entered returns (weak); the presenting thread presents
  again and again, whatever it records in between (strong, because recording disables
  the step for a while).
- `TcpClient`: weak fairness for both threads and for a server that is up; strong
  fairness for the step of a request that takes `m_connection_mutex`, which the
  keep-alive thread holds for at most five seconds and leaves alone for two.  The
  user need not call, and the server need not fail.
- `CaptureFileManager`: each thread's event loop runs what is posted to it, and
  loading and gathering end (weak).  Nobody has to open a file or close the window.
- The other modules have no liveness property.

## Findings

Three statements of the repository disagree with its code.  The first two have a run whose
counterexample shows it; the third is refuted by a property that holds.

1. `Wait` "blocks the calling thread until the server stops"; it may block for ever after
   it, because the notification can fall between its test and its block
   (`layer_manager_wait`).
2. `CleanupDevice` announces that it restores the original state of root access; in a
   session that requests root access twice it restores what Dive itself has set
   (`device_manager_root`).
3. Two comments of `gpu_time.cpp` (648-649, 778-779) say of a buffer of the frame that it "may
   not be in the m_cmds when some cmds got deleted before submitting the frame boundary cmd".
   It always is (`FrameCmdsCached`, in `gpu_time` and proved): every function that erases a
   buffer first takes it out of the frame, and the tests behind the comments never fail.
   What a deletion does instead is in the next list.

Other behaviours of the models that a reader of the code should know.  The repository is
silent about them, but for the assertion in `OnIbStart` that the draw-state item names:

- `TraceByFrame` reads `m_frame_num` twice; with a frame in between, the host is told of a
  file that libwrap does not write.  A trace by duration that the first frames overtake
  is ended by `OnNewFrame` before its time.
- `Stop` destroys connections in use, and a client accepted at the wrong moment stays
  connected.  An exit before the layer is ready, or while `Start` runs, may hang.
- While a request waits for a silent server, the keep-alive waits for the mutex and cannot
  detect it.
- The counts of render passes per buffer are refreshed only when one of two totals changes
  (`gpu_time.cpp:130`): two frames with the same totals keep the older counts of each buffer.
- A command buffer that is reset or freed after its submit and before the boundary leaves the
  frame, which is measured and printed without it (`gpu_time.cpp:829-832`, `850-851`).
- `PinGpuClock` writes the minimum and the maximum of the clock (`device_mgr.cc:1335-1339`), and
  `UnpinGpuClock`, the "Unpin clock" of `device_mgr.h:123`, takes back the lock of the clock
  only: no command of Dive resets the bounds.
- A new `AndroidDevice` begins at the first port (`device_mgr.h:229`), and `CleanupDevice` removes
  the forward of its current port (`device_mgr.cc:594-596`): a forward on a later port, left by a
  crash or by a dialog that set the device up again, is never removed.
- With two presenting threads an older filter can be stored over a newer one.  A freed
  command buffer stays in the list of its pool, and a reset of that pool forgets what is
  known about a reused handle: blended draws are then let through.
- After a chain, `CommandHierarchyCreator` keeps a mask and IB nodes too many; three
  properties exclude captures with a chain (`emu.chained`).
- `OnPacket` remembers one draw state, one `CP_START_BIN` and one draw table.  When a packet
  of the same kind is emulated in one of the IBs that such a packet queued, the IBs still
  pending are attached to the wrong packet, or to none where `OnIbStart` asserts that the
  group of a draw state was found (`command_hierarchy.cpp:809`).  `SharedParents` is said of
  the IBs that were entered before that (`Superseded`).
- A window that is closed during a load destroys the progress tracker the worker uses.

## Proofs

`TraceManager_proofs`, for any set of threads, any modulus and any positive number of
frames to trace (`UIntModAssumption`, `NumFrameAssumption`):

- `Invariance`: `Spec => []IInv`.  `RecordingOnlyForRequest` is not inductive: that a
  presenting thread cannot start a recording when no request is served needs
  `AtRestBeforeTrigger` (the state is Idle or Finished), which after a response needs
  `SleepingIsTriggered` (the server thread got past its wait only by Finished), and
  that `SetCaptureState` and the state do not drift apart is `RecordingMatchesState`.
  `FinishedMeansCollected` carries the link from the state to the file: a new request
  leaves Finished before it starts to wait.  The lost increments of `m_frame_num` do
  not matter to any of these, and the proof shows it: no part of `IInv` mentions
  the frame numbers.
- `ImplementsCaptureServiceHolds`: `Spec => Service!Spec`.  `Init` maps to the abstract
  `Init`, and under `IInv` every step maps to one abstract step or to a stutter: the
  presenting threads' load and store of `m_frame_num` are stutters, `OnTraceStart` is
  `Record`, `OnTraceStop` is `Write`.  `NothingWrittenBeforeTrigger` is the conjunct of
  `IInv` that this adds: a name is chosen only when nothing was written for the request.
- `TypeCorrect`, `RecordingOnlyForRequestHolds`, `ReplyFollowsOwnRecordingHolds` and
  `NameStableWhileRecordingHolds` follow; the last is an action property, since only
  the steps that name a file change the name, and they are taken at rest.
- `ByFrameRecordsExactlyHolds`, for one presenting thread, a hypothesis of the theorem: two
  lose increments and then a trace is longer.  `FrameCount` says that while a trace by
  frame is recorded the wrapped difference of the two counters, which is what
  `ShouldStopTrace` computes, is the number of frames recorded so far, wherever the
  counter wraps in between (`AheadByOne`).

`GpuTime_proofs`, for any buffers, pools, threads, number of slots and bounds
(`SlotsAssumption`, `BoundsAssumption`):

- `SlotsExclusiveHolds` and `NoSlotLostHolds`: `SlotInv` is the part of the types
  about slots, with the two properties.  They are proved together: freeing the slots
  of a buffer keeps the others' slots marked only because they are disjoint.  One
  lemma says that the search of the allocator returns an unmarked slot, one that
  erasing any set of buffers, and one that resetting it, preserves the invariant, and
  there is one step for each action.
- `FrameCmdsCachedHolds`: `CacheInv`, with `SlotInv` for what is allocated.  The buffers
  that are freed or reset leave the frame before they leave the cache, and a submit adds
  only buffers it has found there.  That removing buffers from the frame's list leaves
  exactly the others (`WithoutRange`) is an induction over the list, in the form of a
  least counterexample.
- `FrameCompleteHolds`: `FrameComplete` is inductive given `CacheInv`.  A submit
  either appends its whole batch to the frame and to `reported` or makes the frame invalid,
  whatever other threads do while `OnQueueSubmit` has released `m_mutex`; a buffer that is
  reset or freed is removed from both lists, from the frame only if it is in the cache,
  which makes no difference because the frame has cached buffers only (`WithoutSame`).

The last part of `GpuTime_proofs` is about `FrameMetrics`, a class inside `GPUTime`, for any
window, number of frames and shapes of frames (`LimitAssumption`, `MetricsBoundsAssumption`):

- `MetricsInvariance`, `SameFramesHolds` and `EveryPassAttributedHolds`: `MetricsInv` is the types
  of the deques with both properties.  A window that is not full grows with each
  frame and a full one slides; a change of shape starts all of them again.  The counts of
  render passes are added up by a fold; that the sum is a natural number is shown with
  a least counterexample (`LeastNumber`).

`RuntimeLayer_proofs`, for any threads, handles, names and sequence of filters
(`ThreadsAssumption`, `NamesAssumption`, `RequestsAssumption`, `CountBoundAssumption`):

- `OnlyMatchingDrawsDroppedHolds`: `MatchInv` adds `RestsOutsidePasses` to the property.
  It is needed because `BeginCommandBuffer` clears the flag of the pipeline and keeps the
  one of the render pass: the stale flag does no harm only because a recording begins
  outside of every pass, and `CmdBeginRenderPass` sets the flag either way.
- `TypeCorrect`: the types, with `RunsTasks` (a thread that runs tasks has one left).
- `DrawcallLimitKeptHolds`, for one presenting thread, which is a hypothesis of the
  theorem: `LimitInv` says that the draws counted since the last boundary were counted
  for the active filter (`ClearedForActive`; a second presenting thread would change the
  filter between the other's two steps), and that while the limit is not reached the
  counter has counted every draw that was let through (`CounterCounts`).  Any number
  of threads may draw.

`TcpClient_proofs`, for any kinds of requests, known to the server or not
(`UnhandledAssumption`, `KindsAssumption`):

- `Invariance`: `Spec => []ConnInv`.  `WireClean` says what is on the wire: during an
  exchange its request or the answer to it and nothing else, between two exchanges of a
  connected client nothing.  An exchange that is given up may leave an answer
  behind, and then the client is not connected any more; that the status cannot become
  connected again on the old connection needs `KeepAliveAlone` and `AtRestDisconnected`:
  the keep-alive thread is joined before `Connect` or `Disconnect` touch the connection.
- `ResponseMatchesRequestHolds`, `EachRequestStartsCleanHolds`,
  `NoResetUnderKeepAliveHolds` and `DisconnectedUntilConnectHolds` follow; the last three
  are action properties, proved by naming the few steps that can disturb them.

`LayerManager_proofs`, for any clients (`NoneIsNoClient`: the value for "no client" is not
one of them):

- `OneClientAtATimeHolds`: `OneConnection` says that the open connections are the one in
  `m_client_connection` and the one that was accepted and not yet installed, of which
  only one is set, although `Stop` resets the first from another thread at any moment.
- `CallbacksInTurnHolds`: `TurnInv` says where the loop must be when the handler knows of a
  client, and that a `Stop` which did not overtake `Start` is final: once it has taken the
  client away the listening socket is closed, so that the loop cannot reach another client
  without its `OnDisconnect`.
- `NoCallbackAfterExitHolds`, also for an exit that overtook `Start`: `ThreadsEnded`
  says that a server thread that runs can be joined, and that the layer's thread, which
  alone starts one, has ended before the server is destroyed.

`CaptureFileManager_proofs`, for any number of requests:

- `Invariance`: there is at most one job, a load or the gathering of statistics, and it is
  in one of three places: posted, on the worker, or announced by an event (`OneJob`).
  `JobFits` says what is known of it there: unless another request waits, a load is for
  the last request, and statistics are of what is shown.  Who holds the data core's lock
  follows from the place.
- `LastRequestShownHolds` and `StatsOfShownCaptureHolds` follow.

`CommandHierarchy_proofs`, for any captures, whose buffers call, chain to and queue each
other in any way, and for any limits (`CapturesAssumption`: submits, their IBs,
buffers, a draw state's groups and the presents are sequences, and the bins and entries of a
draw table are counted):

- `Invariance`: `Spec => []HierarchyInv`, which has three parts.  `EmuInv`: every level of
  the emulator's stack that is not skipped is in an IB that passed `IsValid` when it was
  entered or chained to, at a position not before its beginning, and a packet is read only
  when it has not moved past its end.  `Good`: the nodes are a forest in each topology, and the nodes
  the creator remembers (submit, bin, draw table, pass, open IBs) exist.  `Heights`: the
  emulator's stack is never higher than the creator's stack of IBs, and that one
  is as high as the stack of their first packets, or higher by one while an IB has been
  entered and no packet of it has come.  A chain leaves an IB on both.
- A step of the creator is a sequence of operations on the nodes.  `Grafts` describes one of
  them: some nodes that were nobody's children become children of one older node;
  `ForestGrafts` shows that this keeps a forest, and the lemmas for `AddNode`,
  `AddChild`, `AddSharedChild`, the groups of a draw state, the presents and the sort of the
  IBs are instances of it.
- `ReadsCapturedHolds`, `IbStacksAgreeHolds` and `TopologiesWellFormedHolds` follow.
- `HistoryInvariance`: `Spec => []HistoryInv`, on top of `HierarchyInv`.  `RegistersByPass`
  and `IbRangesExact` compare what the creator stored with the whole emulation so far and are
  far from inductive: `History` relates every open level of the emulator's stack to the
  creator's.  `OpenIbs`: the k-th open IB node carries the number and the mask of the k-th
  level.  `MasksStacked`: the tracker's stack of enable masks is that of the levels below,
  so that `PopEnableMask` restores the caller's.  `LastWritten`: the tracker's entry of a pass
  is the last packet of the submit that wrote the register in it.  `StartsExact`: the packets
  emulated in an open IB are those from its entry of the start stack on, which is what
  `OnIbEnd` writes into the node.  It is stated as long as no chain was followed: a chain
  leaves its IB on the creator's stack, and the two no longer correspond level by level.
- `RegistersByPassHolds` and `IbRangesExactHolds` follow.
- `SectionInvariance`: `Spec => []SectionInv`, for any captures, with chains.  The events
  and the passes divide the packets of a submit into sections.  `EventOpen` says that the
  top of the start stack, or the next packet while `newEvent` is set, is the first packet
  after the last section; `PassOpen` that the start of the open pass lies directly below it;
  the two are pushed and popped by different packets, and only together do they show that
  `AddEvent` and `CloseRenderMarker` pop their own entry.  `PassesSettled` tells the passes
  that the next marker has closed from those that their submit left open, and
  `EventsBelow` puts the events of a pass between its marker and the next one.
- `EventRangesExactHolds` follows: `Boundary` is the maximum that `EventBound` names, and
  a pass in `ClosedPasses` cannot be one that was left open, since no submit lies between
  it and the next marker.
- Most steps of the creator only add nodes.  `Builds` says which nodes, and that the ranges
  of one topology and the fields they are computed from are kept; every operation of the
  creator has one lemma of this form (`...Builds`), and the steps above cite only those.

`SharedParents_proofs`, on top of `CommandHierarchy_proofs` and under the same assumption:

- `HomesInvariance`: `Spec => []HomesInv`, on top of `HierarchyInv` and `HistoryInv`.
  `SharedParents` names the caller of an IB as the last packet that was emulated in the IBs
  around it, and a packet is attached long after its caller was seen, through what the
  creator kept of it.  `HomesInv` follows that knowledge from the packet to the IBs.  `PacketsHome`: a packet has one parent,
  and that is the one its IB should give it (`Placed`).  `LevelHome`: the entry of `ibParents`
  for an open IB is that parent, so that the next packet of the IB gets it too.  `PendingFits`:
  for what is still in a level's queue, the creator remembers the packet that queued it, as
  `ibPacket`, `startBin`, `drawTable` or in `groupInfo`, unless a packet of its kind came since;
  a call is pending only directly after its packet.  `ParentsHeld`: no remembered node is a
  field that was made for one bin or table entry, so that two IBs cannot share such a field.
  `PathsKnown`: an IB is always in the same IBs, which is what makes the caller unique.
- `SharedParentsHolds` follows, for any nesting of calls, bins, draw tables and draw states,
  as long as no chain was followed.  What `QueueIB` and `LiveGroups` drop from a sequence
  (empty IBs, disabled groups) is said by a fold, a recursive function on sets of indices;
  `FilterKeeps` shows which elements it keeps, by induction on the size of the sets, written
  as a least counterexample.
- Each operation of the creator has one lemma about parents and what is remembered of them
  (`...Places`), and each callback's lemma cites only those.

Only model-checked:

- all liveness properties: the prover does not do fairness;
- `ExecutionOrder` of `MCCommandHierarchy`, which is stated with recursive operators;
- `DeviceLeftClean`, `ApplicationLeftClean` and `ReplayUndone` of `DiveClients`: the
  programs are data, a finite set of long sequences of commands that TLC runs through
  completely with a fault at each command; a proof would be the same enumeration.

## Not modelled

Most of the repository's lines are not control that a model could say something about,
and the modules cover a small share of them:

- generated and vendored code: the register and event tables, the PM4 packet headers,
  the dispatch tables of the layers, zlib, freedreno apart from `dive-wrap.c`;
- Qt widgets, item models, painting and dialogs that display what they are given; texts,
  field nodes, colours;
- parsers of files and the values they read (sequential, large inputs, no interaction),
  the memory manager, the GFXR hierarchy, the event state; statistics over timestamps
  (floating point);
- the encoding of messages and the chunks of a file; the maximum size and the replay
  branch of libwrap; `OnCreateDevice` and `OnDestroyDevice` of `GPUTime`; the synthetic
  timestamps of the runtime layer's query hooks;
- the dump resources builder and the replay extensions, whose callers are in the
  GFXReconstruct submodule, which is not in the tree;
- one-pass command line tools, logging, processes, plugins.

## Plan

1. *GpuTime device lifecycle*: creation and destruction of devices with the query pool.
2. *Dump resources*: the state machine of a command buffer against the sequences of calls
   it must accept.
